-------------------------- MODULE Sessions_proofs --------------------------
(***************************************************************************)
(* Theorems about Sessions, for any number of users, rows and concurrent   *)
(* requests, with and without faults.                                      *)
(*                                                                         *)
(* What the rows alone guarantee is taken from RefreshFamilies_proofs: its *)
(* lemmas are about an instance of RefreshFamilies on the variables of     *)
(* Sessions, the very formulas that Sessions names RF!.                    *)
(***************************************************************************)
EXTENDS Sessions, TLAPS

RP == INSTANCE RefreshFamilies_proofs

-----------------------------------------------------------------------------
(* The two instances are the same specification.                           *)
LEMMA SameNext == [RF!Next]_(RF!vars) <=> [RP!Next]_(RP!vars)
  BY DEF RF!Next, RP!Next, RF!Arrive, RP!Arrive, RF!EnterLogin,
     RP!EnterLogin, RF!EnterRevokeAll, RP!EnterRevokeAll,
     RF!EnterRefresh, RP!EnterRefresh, RF!EnterLogout, RP!EnterLogout,
     RF!EnterRevokeOne, RP!EnterRevokeOne, RF!Enter, RP!Enter, RF!Step,
     RP!Step, RF!CreateOnLogin, RP!CreateOnLogin, RF!RotateLock,
     RP!RotateLock, RF!RotateCommit, RP!RotateCommit, RF!ReuseSnapshot,
     RP!ReuseSnapshot, RF!ReuseRevoke, RP!ReuseRevoke,
     RF!LogoutSnapshot, RP!LogoutSnapshot, RF!LogoutRevoke,
     RP!LogoutRevoke, RF!RevokeOneSnapshot, RP!RevokeOneSnapshot,
     RF!RevokeOneRevoke, RP!RevokeOneRevoke, RF!RevokeAllSnapshot,
     RP!RevokeAllSnapshot, RF!RevokeAllRevoke, RP!RevokeAllRevoke,
     RF!Respond, RP!Respond, RF!RowsExhausted, RP!RowsExhausted,
     RF!Fail, RP!Fail, RF!Expire, RP!Expire, RF!Snapshot, RP!Snapshot,
     RF!Revoke, RP!Revoke, RF!Finish, RP!Finish, RF!Insert, RP!Insert,
     RF!Family, RP!Family, RF!Live, RP!Live, RF!Created, RP!Created,
     RF!FreeFor, RP!FreeFor, RF!Holds, RP!Holds, RF!Idle, RP!Idle,
     RF!rowVars, RP!rowVars, RF!vars, RP!vars

LEMMA SameInv == RF!IInv <=> RP!IInv
  BY DEF RF!IInv, RP!IInv, RF!TypeOK, RP!TypeOK, RF!RowShape,
     RP!RowShape, RF!LockInv, RP!LockInv, RF!RequestInv, RP!RequestInv,
     RF!OneLiveRow, RP!OneLiveRow, RF!RedeemedOnce, RP!RedeemedOnce,
     RF!OneOwner, RP!OneOwner, RF!Holds, RP!Holds, RF!Live, RP!Live,
     RF!Created, RP!Created, RF!Request, RP!Request, RF!Ops, RP!Ops,
     RF!Pcs, RP!Pcs, RF!Outs, RP!Outs

LEMMA SameInvPrimed == RF!IInv' <=> RP!IInv'
  BY DEF RF!IInv, RP!IInv, RF!TypeOK, RP!TypeOK, RF!RowShape,
     RP!RowShape, RF!LockInv, RP!LockInv, RF!RequestInv, RP!RequestInv,
     RF!OneLiveRow, RP!OneLiveRow, RF!RedeemedOnce, RP!RedeemedOnce,
     RF!OneOwner, RP!OneOwner, RF!Holds, RP!Holds, RF!Live, RP!Live,
     RF!Created, RP!Created, RF!Request, RP!Request, RF!Ops, RP!Ops,
     RF!Pcs, RP!Pcs, RF!Outs, RP!Outs

LEMMA SameDead == \A f : (RF!Dead(f) <=> RP!Dead(f)) /\ (RF!Dead(f)' <=> RP!Dead(f)')
  BY DEF RF!Dead, RP!Dead, RF!Family, RP!Family, RF!Created, RP!Created

LEMMA SameInit == RF!Init <=> RP!Init
  BY DEF RF!Init, RP!Init, RF!Idle, RP!Idle

(* The rows keep their invariant, and a dead family stays dead.            *)
LEMMA RowsInit == RF!Init => RF!IInv
  BY SameInit, SameInv, RP!InitInv, NoneIsNoValue, BoundsAssumption

LEMMA RowsStep == RF!IInv /\ [RF!Next]_(RF!vars) => RF!IInv'
  BY SameInv, SameInvPrimed, SameNext, RP!StepInv, NoneIsNoValue, BoundsAssumption

LEMMA DeadStays ==
  ASSUME RF!IInv, [RF!Next]_(RF!vars), NEW f \in Tokens, RF!Dead(f)
  PROVE  RF!Dead(f)'
  BY SameInv, SameNext, SameDead, RP!DeadStep, NoneIsNoValue, BoundsAssumption

-----------------------------------------------------------------------------
(* A row keeps its owner and its family for ever.                          *)
LEMMA RowsAreKept ==
  ASSUME RF!IInv, [RF!Next]_(RF!vars), NEW t \in RF!Created
  PROVE  t \in RF!Created' /\ userId'[t] = userId[t] /\ familyId'[t] = familyId[t]
<1> SUFFICES ASSUME RF!Next PROVE \/ UNCHANGED <<userId, familyId>>
                                  \/ \E n \in Tokens \ RF!Created : \E u, f, p :
                                        RF!Insert(n, u, f, p)
  BY DEF RF!IInv, RF!TypeOK, RF!Created, RF!Insert, RF!vars
<1>1. ASSUME NEW r \in Requests, RF!CreateOnLogin(r) \/ RF!RotateCommit(r)
      PROVE  \E n \in Tokens \ RF!Created : \E u, f, p : RF!Insert(n, u, f, p)
  BY <1>1 DEF RF!CreateOnLogin, RF!RotateCommit
<1>2. ASSUME NEW r \in Requests, RF!Arrive(r) \/ RF!Step(r) \/ RF!Fail(r),
             ~ RF!CreateOnLogin(r), ~ RF!RotateCommit(r)
      PROVE  UNCHANGED <<userId, familyId>>
  BY <1>2 DEF RF!Arrive, RF!EnterLogin, RF!EnterRevokeAll, RF!EnterRefresh,
     RF!EnterLogout, RF!EnterRevokeOne, RF!Enter, RF!Fail, RF!Step, RF!RotateLock,
     RF!ReuseSnapshot, RF!ReuseRevoke, RF!LogoutSnapshot, RF!LogoutRevoke,
     RF!RevokeOneSnapshot, RF!RevokeOneRevoke, RF!RevokeAllSnapshot,
     RF!RevokeAllRevoke, RF!Respond, RF!RowsExhausted, RF!Snapshot, RF!Revoke,
     RF!rowVars
<1>3. ASSUME NEW t1 \in Tokens, RF!Expire(t1) PROVE UNCHANGED <<userId, familyId>>
  BY <1>3 DEF RF!Expire, RF!rowVars
<1> QED BY <1>1, <1>2, <1>3 DEF RF!Next

(* What the requests that do not move were answered stays true.            *)
LEMMA AnswersMove ==
  ASSUME RF!IInv, Answers, [RF!Next]_(RF!vars), NEW r \in Requests,
         \A q \in Requests \ {r} : req'[q] = req[q],
         Answer(r)'
  PROVE  Answers'
<1> SUFFICES ASSUME NEW q \in Requests \ {r} PROVE Answer(q)'
  BY DEF Answers
<1>1. Answer(q) /\ req'[q] = req[q]
  BY DEF Answers
<1> QED BY <1>1, RowsAreKept DEF Answer, Revoking

LEMMA AnswersEnter ==
  ASSUME RF!IInv, Answers, [RF!Next]_(RF!vars), NEW r \in Requests,
         NEW op, NEW u, NEW t, RF!Enter(r, op, u, t),
         op \in {"revokeOne", "revokeAll"} => u \in Users
  PROVE  Answers'
<1>1. req'[r] = [op |-> op, pc |-> "begin", user |-> u, tok |-> t,
                 targets |-> {}, out |-> "none"]
  BY DEF RF!Enter, RF!IInv, RF!TypeOK
<1>2. Answer(r)'
  BY <1>1 DEF Answer, Revoking
<1>3. \A q \in Requests \ {r} : req'[q] = req[q]
  BY DEF RF!Enter, RF!IInv, RF!TypeOK
<1> QED BY <1>2, <1>3, AnswersMove

LEMMA AnswersIdle ==
  ASSUME RF!IInv, Answers, [RF!Next]_(RF!vars), NEW r \in Requests,
         req' = [req EXCEPT ![r] = RF!Idle]
  PROVE  Answers'
<1>1. req'[r] = RF!Idle /\ \A q \in Requests \ {r} : req'[q] = req[q]
  BY DEF RF!IInv, RF!TypeOK
<1>2. Answer(r)'
  BY <1>1 DEF RF!Idle, Answer, Revoking
<1> QED BY <1>1, <1>2, AnswersMove

LEMMA AnswersKept ==
  ASSUME RF!IInv, Answers, [RF!Next]_(RF!vars), UNCHANGED req
  PROVE  Answers'
<1> SUFFICES ASSUME NEW q \in Requests PROVE Answer(q)'
  BY DEF Answers
<1>1. Answer(q) /\ req'[q] = req[q]
  BY DEF Answers
<1> QED BY <1>1, RowsAreKept DEF Answer, Revoking

-----------------------------------------------------------------------------
(* A request that a statement finishes, and one that a statement moves on. *)
LEMMA FinishedRequest ==
  ASSUME RF!TypeOK, NEW r \in Requests, NEW out, NEW t, RF!Finish(r, out, t)
  PROVE  /\ \A q \in Requests \ {r} : req'[q] = req[q]
         /\ req'[r].op = req[r].op /\ req'[r].user = req[r].user
         /\ req'[r].targets = req[r].targets
         /\ req'[r].pc = "done" /\ req'[r].out = out /\ req'[r].tok = t
<1> DEFINE done == [req[r] EXCEPT !.pc = "done", !.out = out, !.tok = t]
<1>1. req[r] \in RF!Request
  BY DEF RF!TypeOK
<1>2. /\ done.op = req[r].op /\ done.user = req[r].user
      /\ done.targets = req[r].targets
      /\ done.pc = "done" /\ done.out = out /\ done.tok = t
  BY <1>1 DEF RF!Request
<1>3. req' = [req EXCEPT ![r] = done]
  BY DEF RF!TypeOK, RF!Finish
<1> HIDE DEF done
<1> QED BY <1>2, <1>3 DEF RF!TypeOK

(* What any statement leaves alone, when it may run at all, and which of   *)
(* them hand out a row.                                                    *)
SameRequest(r) ==
    /\ req'[r].out = "issued" => RF!CreateOnLogin(r) \/ RF!RotateCommit(r)
    /\ \A q \in Requests \ {r} : req'[q] = req[q]
    /\ req'[r].op = req[r].op /\ req'[r].user = req[r].user
    /\ req[r].pc \notin {"idle", "done"} /\ req'[r].pc # "idle"

LEMMA MovedOn ==
  ASSUME RF!TypeOK, NEW r \in Requests, NEW pc, req' = [req EXCEPT ![r].pc = pc],
         Answers, req[r].pc # "done", pc # "done"
  PROVE  /\ \A q \in Requests \ {r} : req'[q] = req[q]
         /\ req'[r].op = req[r].op /\ req'[r].user = req[r].user
         /\ req'[r].pc = pc /\ req'[r].out = "none"
         /\ Answer(r)'
<1>1. /\ \A q \in Requests \ {r} : req'[q] = req[q]
      /\ req'[r].op = req[r].op /\ req'[r].user = req[r].user
      /\ req'[r].pc = pc /\ req'[r].out = req[r].out
  BY DEF RF!TypeOK, RF!Request
<1>2. req[r].out = "none" /\ Answer(r)
  BY DEF Answers, Answer
<1> QED BY <1>1, <1>2 DEF Answer, Revoking

LEMMA SnapshotTaken ==
  ASSUME RF!TypeOK, NEW r \in Requests, NEW rows, RF!Snapshot(r, rows),
         Answers, req[r].pc \notin {"idle", "done"}
  PROVE  SameRequest(r) /\ Answer(r)'
<1>1. /\ \A q \in Requests \ {r} : req'[q] = req[q]
      /\ req'[r].op = req[r].op /\ req'[r].user = req[r].user
      /\ req'[r].pc = "update" /\ req'[r].out = req[r].out
  BY DEF RF!TypeOK, RF!Request, RF!Snapshot
<1>2. req[r].out = "none" /\ Answer(r)
  BY DEF Answers, Answer
<1> QED BY <1>1, <1>2 DEF Answer, Revoking, SameRequest

(* An answer that neither signs nor bumps.                                 *)
LEMMA PlainlyFinished ==
  ASSUME RF!TypeOK, NEW r \in Requests, NEW out \in {"invalid", "reused", "notFound"},
         NEW t, RF!Finish(r, out, t), Answers, req[r].pc \notin {"idle", "done"},
         req[r].op # "login"
  PROVE  SameRequest(r) /\ Answer(r)'
<1>1. Answer(r)
  BY DEF Answers
<1> QED BY <1>1, FinishedRequest DEF Answer, Revoking, SameRequest

(* The row that a login or a rotation inserts exists when it is answered.  *)
LEMMA RowInserted ==
  ASSUME RF!TypeOK, NEW n \in Tokens \ RF!Created, NEW u, NEW f \in Tokens, NEW p,
         RF!Insert(n, u, f, p)
  PROVE  n \in RF!Created' /\ userId'[n] = u /\ familyId'[n] = f
  BY NoneIsNoValue DEF RF!TypeOK, RF!Insert, RF!Created

LEMMA RevocationFinished ==
  ASSUME RF!IInv, NEW r \in Requests, req[r].pc = "update", RF!Revoke(r),
         NEW out \in {"revoked", "notFound", "reused"}, RF!Finish(r, out, req[r].tok),
         Answers, req[r].op # "login"
  PROVE  SameRequest(r) /\ Answer(r)'
<1>1. Answer(r) /\ RF!TypeOK
  BY DEF Answers, RF!IInv
<1>2. RF!Created' = RF!Created /\ UNCHANGED userId
  BY DEF RF!Revoke, RF!Created
<1>3. req[r].op \in {"revokeOne", "revokeAll"} =>
         \A t \in req[r].targets : t \in RF!Created /\ userId[t] = req[r].user
  BY DEF RF!IInv, RF!RequestInv
<1> QED BY <1>1, <1>2, <1>3, FinishedRequest DEF Answer, Revoking, SameRequest

(* Every statement of SessionService.                                      *)
LEMMA StatementAnswers ==
  ASSUME RF!IInv, Answers, NEW r \in Requests, Statement(r)
  PROVE  SameRequest(r) /\ Answer(r)'
<1>0. RF!TypeOK
  BY DEF RF!IInv
<1>1. CASE RF!CreateOnLogin(r)
  <2>1. PICK n \in Tokens \ RF!Created :
            RF!Insert(n, req[r].user, n, None) /\ RF!Finish(r, "issued", n)
    BY <1>1 DEF RF!CreateOnLogin
  <2>2. n \in RF!Created' /\ userId'[n] = req[r].user
    BY <1>0, <2>1, RowInserted
  <2> QED BY <1>0, <1>1, <2>1, <2>2, FinishedRequest
          DEF Answer, Revoking, SameRequest, RF!CreateOnLogin
<1>2. CASE RF!RotateCommit(r)
  <2> DEFINE t == req[r].tok
  <2>1. PICK n \in Tokens \ RF!Created :
            RF!Insert(n, userId[t], familyId[t], t) /\ RF!Finish(r, "issued", n)
    BY <1>2 DEF RF!RotateCommit
  <2>2. t \in RF!Created
    BY <1>2 DEF RF!RotateCommit, RF!IInv, RF!LockInv, RF!Live
  <2>3. n \in RF!Created'
    BY <1>0, <2>1, <2>2, RowInserted DEF RF!TypeOK, RF!Created
  <2> QED BY <1>0, <1>2, <2>1, <2>3, FinishedRequest
          DEF Answer, Revoking, SameRequest, RF!RotateCommit
<1>3. CASE RF!RotateLock(r)
  <2>1. req[r].op = "refresh" /\ req[r].pc = "begin"
    BY <1>3 DEF RF!RotateLock
  <2>2. CASE RF!Finish(r, "invalid", req[r].tok)
    BY <1>0, <2>1, <2>2, PlainlyFinished
  <2>3. ASSUME NEW pc \in {"reuse", "insert"}, req' = [req EXCEPT ![r].pc = pc]
        PROVE  SameRequest(r) /\ Answer(r)'
    BY <1>0, <2>1, <2>3, MovedOn DEF SameRequest
  <2> QED BY <1>3, <2>2, <2>3 DEF RF!RotateLock
<1>4. CASE RF!ReuseSnapshot(r)
  BY <1>0, <1>4, SnapshotTaken DEF RF!ReuseSnapshot
<1>5. CASE RF!ReuseRevoke(r)
  BY <1>5, RevocationFinished DEF RF!ReuseRevoke
<1>6. CASE RF!LogoutSnapshot(r)
  BY <1>0, <1>6, SnapshotTaken, PlainlyFinished DEF RF!LogoutSnapshot
<1>7. CASE RF!LogoutRevoke(r)
  BY <1>7, RevocationFinished DEF RF!LogoutRevoke
<1>8. CASE RF!RevokeOneSnapshot(r)
  BY <1>0, <1>8, SnapshotTaken, PlainlyFinished DEF RF!RevokeOneSnapshot
<1>9. CASE RF!RevokeOneRevoke(r)
  BY <1>9, RevocationFinished DEF RF!RevokeOneRevoke
<1>10. CASE RF!RevokeAllSnapshot(r)
  BY <1>0, <1>10, SnapshotTaken DEF RF!RevokeAllSnapshot
<1>11. CASE RF!RevokeAllRevoke(r)
  BY <1>11, RevocationFinished DEF RF!RevokeAllRevoke
<1> QED BY <1>1, <1>2, <1>3, <1>4, <1>5, <1>6, <1>7, <1>8, <1>9, <1>10, <1>11
        DEF Statement

-----------------------------------------------------------------------------
(* Every step of Sessions is a step of the rows, or none.                  *)
LEMMA RowsOnly ==
  ASSUME TypeOK, Errands, [Next]_vars
  PROVE  [RF!Next]_(RF!vars)
<1> USE DEF RF!Next, RF!Arrive
<1>0. UNCHANGED familyVars => UNCHANGED RF!vars
  BY DEF familyVars, rowVars, RF!vars
<1>1. ASSUME NEW r \in Requests, NEW u \in Users, Login(r, u) \/ TotpLogin(r, u)
      PROVE  RF!Next
  BY <1>1 DEF Login, TotpLogin
<1>2. ASSUME NEW r \in Requests, NEW t \in RF!Created \cup {None},
             Refresh(r, t) \/ Logout(r, t)
      PROVE  RF!Next
  BY <1>2 DEF Refresh, Logout
<1>3. ASSUME NEW r \in Requests, Admit(r) PROVE RF!Next
  BY <1>3 DEF Admit, Errands, Errand
<1>4. ASSUME NEW r \in Requests, Statement(r) PROVE RF!Next
  BY <1>4 DEF Statement, RF!Step
<1>5. ASSUME NEW r \in Requests,
             SignWithRead(r) \/ SignTotp(r) \/ AnswerPlainly(r) \/ BustCache(r)
      PROVE  RF!Next
  BY <1>5 DEF SignWithRead, SignTotp, Sign, AnswerPlainly, BustCache, RF!Step
<1>6. ASSUME NEW r \in Requests, Abort(r) \/ OutOfBounds(r) PROVE [RF!Next]_(RF!vars)
  BY <1>0, <1>6 DEF Abort, OutOfBounds, RF!Step
<1>7. ASSUME NEW t \in Tokens, Expire(t) PROVE RF!Next
  BY <1>7 DEF Expire
<1>8. ASSUME NEW r \in Requests, \/ Deny(r) \/ GetEpoch(r) \/ BumpEpoch(r)
                                 \/ \E q \in Requests : Share(r, q)
                                 \/ \E k, op, t : Present(r, k, op, t)
      PROVE  UNCHANGED familyVars
  BY <1>8 DEF Deny, GetEpoch, BumpEpoch, Share, Present
<1>9. CASE UNCHANGED vars
  BY <1>0, <1>9 DEF vars
<1> QED BY <1>0, <1>1, <1>2, <1>3, <1>4, <1>5, <1>6, <1>7, <1>8, <1>9 DEF Next

(* Only an insert answers a request with a row.                            *)
LEMMA Issuers ==
  ASSUME RF!IInv, Answers, [Next]_vars, TypeOK, Errands, NEW q \in Requests,
         req'[q].out = "issued"
  PROVE  req'[q] = req[q] \/ RF!CreateOnLogin(q) \/ RF!RotateCommit(q)
<1>0. RF!TypeOK
  BY DEF RF!IInv
<1>1. ASSUME NEW r \in Requests, NEW op, NEW u, NEW t, RF!Enter(r, op, u, t)
      PROVE  req'[q] = req[q]
  <2>1. /\ q # r => req'[q] = req[q]
        /\ q = r => req'[q].out = "none"
    BY <1>0, <1>1 DEF RF!Enter, RF!TypeOK
  <2> QED BY <2>1
<1>2. ASSUME NEW r \in Requests, req' = [req EXCEPT ![r] = RF!Idle]
      PROVE  req'[q] = req[q]
  <2>1. /\ q # r => req'[q] = req[q]
        /\ q = r => req'[q].out = "none"
    BY <1>0, <1>2 DEF RF!Idle, RF!TypeOK
  <2> QED BY <2>1
<1>3. ASSUME NEW r \in Requests, Statement(r)
      PROVE  req'[q] = req[q] \/ RF!CreateOnLogin(q) \/ RF!RotateCommit(q)
  BY <1>3, StatementAnswers DEF SameRequest
<1>4. ASSUME NEW r \in Requests, NEW u \in Users, Login(r, u) \/ TotpLogin(r, u)
      PROVE  req'[q] = req[q]
  BY <1>1, <1>4 DEF Login, TotpLogin, RF!EnterLogin
<1>5. ASSUME NEW r \in Requests, NEW t \in RF!Created \cup {None},
             Refresh(r, t) \/ Logout(r, t)
      PROVE  req'[q] = req[q]
  BY <1>1, <1>5 DEF Refresh, Logout, RF!EnterRefresh, RF!EnterLogout
<1>6. ASSUME NEW r \in Requests, Admit(r) PROVE req'[q] = req[q]
  BY <1>1, <1>6 DEF Admit, RF!EnterRevokeOne, RF!EnterRevokeAll
<1>7. ASSUME NEW r \in Requests,
             SignWithRead(r) \/ SignTotp(r) \/ AnswerPlainly(r) \/ BustCache(r)
      PROVE  req'[q] = req[q]
  BY <1>2, <1>7 DEF SignWithRead, SignTotp, Sign, AnswerPlainly, BustCache, RF!Respond
<1>8. ASSUME NEW r \in Requests, Abort(r) \/ OutOfBounds(r) PROVE req'[q] = req[q]
  BY <1>2, <1>8
  DEF Abort, OutOfBounds, RF!Respond, RF!Fail, RF!RowsExhausted, familyVars
<1>9. ASSUME NEW r \in Requests, \/ Deny(r) \/ GetEpoch(r) \/ BumpEpoch(r)
                                 \/ \E p \in Requests : Share(r, p)
                                 \/ \E k, op, t : Present(r, k, op, t)
      PROVE  UNCHANGED req
  BY <1>9 DEF Deny, GetEpoch, BumpEpoch, Share, Present, familyVars
<1>10. ASSUME NEW t \in Tokens, Expire(t) PROVE UNCHANGED req
  BY <1>10 DEF Expire, RF!Expire
<1>11. CASE UNCHANGED vars
  BY <1>11 DEF vars, familyVars
<1> QED BY <1>3, <1>4, <1>5, <1>6, <1>7, <1>8, <1>9, <1>10, <1>11 DEF Next

(* A drained family stays drained: the rows that a login or a rotation     *)
(* hands out are of another family.                                        *)
LEMMA DrainedStays ==
  ASSUME RF!IInv, Answers, [Next]_vars, TypeOK, Errands, NEW f \in Tokens, Drained(f)
  PROVE  Drained(f)'
<1>1. [RF!Next]_(RF!vars)
  BY RowsOnly
<1>2. RF!Dead(f)'
  BY <1>1, DeadStays DEF Drained
<1>3. ASSUME NEW q \in Requests, Minting(q, f)' PROVE FALSE
  <2>1. CASE req'[q] = req[q]
    BY <1>1, <1>3, <2>1, RowsAreKept DEF Answers, Answer, Minting, Drained
  <2>2. CASE RF!CreateOnLogin(q)
    <3>1. PICK n \in Tokens \ RF!Created :
              RF!Insert(n, req[q].user, n, None) /\ RF!Finish(q, "issued", n)
      BY <2>2 DEF RF!CreateOnLogin
    <3>2. familyId'[n] = n /\ req'[q].tok = n
      BY <3>1, RowInserted, FinishedRequest DEF RF!IInv
    <3>3. f \in RF!Created
      BY DEF Drained, RF!Dead, RF!Family, RF!IInv, RF!RowShape
    <3> QED BY <1>3, <3>2, <3>3 DEF Minting
  <2>3. CASE RF!RotateCommit(q)
    <3> DEFINE t == req[q].tok
    <3>1. PICK n \in Tokens \ RF!Created :
              RF!Insert(n, userId[t], familyId[t], t) /\ RF!Finish(q, "issued", n)
      BY <2>3 DEF RF!RotateCommit
    <3>2. t \in RF!Live /\ familyId[t] \in Tokens
      BY <2>3 DEF RF!RotateCommit, RF!IInv, RF!LockInv, RF!RowShape, RF!Live, RF!Created
    <3>3. familyId'[n] = familyId[t] /\ req'[q].tok = n
      BY <3>1, <3>2, RowInserted, FinishedRequest DEF RF!IInv
    <3> QED BY <1>3, <3>2, <3>3 DEF Minting, Drained, RF!Dead, RF!Family, RF!Live
  <2> QED BY <1>3, <2>1, <2>2, <2>3, Issuers DEF Minting
<1> QED BY <1>2, <1>3 DEF Drained

-----------------------------------------------------------------------------
(* The types: the register moves by the actions of EpochRegister, an       *)
(* errand is replaced as a whole, a token is signed for a row that exists. *)
LEMMA TypeStep ==
  ASSUME IInv, [Next]_vars
  PROVE  TypeOK'
<1> DEFINE RegisterOK == /\ epoch \in [Users -> Epochs]
                         /\ settled \in [Users -> Epochs]
                         /\ read \in [Requests -> ER!Read]
           RestOK == access \subseteq AccessToken /\ barred \subseteq Tokens
           WorkOK == work \in [Requests -> Work]
<1>0. RegisterOK /\ WorkOK /\ RestOK /\ RF!TypeOK /\ NoWork \in Work
      /\ Epochs \subseteq Int
  BY BoundsAssumption DEF IInv, TypeOK, NoWork, Work, Epochs
<1>1. RF!TypeOK'
  BY RowsOnly, RowsStep DEF IInv, RF!IInv
<1>2. ASSUME UNCHANGED registerVars PROVE RegisterOK'
  BY <1>0, <1>2 DEF registerVars
<1>3. ASSUME NEW S, ER!EndReads(S) PROVE RegisterOK'
  BY <1>0, <1>3, BoundsAssumption DEF ER!EndReads, ER!NoRead, ER!Read, ER!Epochs
<1>4. ASSUME NEW r \in Requests, NEW u \in Users, ER!BeginRead(r, u) PROVE RegisterOK'
  BY <1>0, <1>4 DEF ER!BeginRead, ER!Read, ER!Epochs, Epochs
<1>5. ASSUME NEW r \in Requests, NEW q \in Requests, NEW u, ER!ShareRead(r, q, u)
      PROVE  RegisterOK'
  <2>1. read[r] \in ER!Read /\ read[q].lo \in ER!Epochs
    BY <1>0 DEF ER!Read
  <2>2. [read[r] EXCEPT !.lo = read[q].lo] \in ER!Read
    BY <2>1 DEF ER!Read
  <2> QED BY <1>0, <1>5, <2>2 DEF ER!ShareRead
<1>6. ASSUME NEW u \in Users, ER!Bump(u) PROVE RegisterOK'
  BY <1>0, <1>6, BoundsAssumption DEF ER!Bump, Epochs
<1>7. ASSUME NEW u, ER!Settle(u) PROVE RegisterOK'
  BY <1>0, <1>7 DEF ER!Settle
<1>8. ASSUME NEW r, NEW w \in Work, work' = [work EXCEPT ![r] = w] PROVE WorkOK'
  BY <1>0, <1>8
<1>10. ASSUME NEW r \in Requests, NEW e \in Epochs, Sign(r, e), req[r].out = "issued"
       PROVE  RestOK' /\ WorkOK'
  BY <1>0, <1>8, <1>10
  DEF Sign, AccessToken, IInv, Answers, Answer, RF!Created
<1> HIDE DEF RegisterOK, RestOK, WorkOK
<1>11. ASSUME RegisterOK', WorkOK', RestOK' PROVE TypeOK'
  BY <1>1, <1>11 DEF TypeOK, RegisterOK, WorkOK, RestOK
<1>12. /\ UNCHANGED work => WorkOK'
       /\ UNCHANGED <<access, barred>> => RestOK'
  BY <1>0 DEF WorkOK, RestOK
<1> HIDE DEF RegisterOK, RestOK, WorkOK
<1>13. ASSUME NEW r \in Requests, NEW u \in Users, Login(r, u) \/ TotpLogin(r, u)
       PROVE  TypeOK'
  <2>1. WorkOK'
    <3>1. CASE Login(r, u)
      BY <1>12, <3>1 DEF Login
    <3>2. CASE TotpLogin(r, u)
      <4>1. [NoWork EXCEPT !.pc = "totp", !.epoch = epoch[u]] \in Work
        BY <1>0 DEF Work, NoWork, RegisterOK
      <4> QED BY <1>8, <3>2, <4>1 DEF TotpLogin
    <3> QED BY <1>13, <3>1, <3>2
  <2> QED BY <1>2, <1>11, <1>12, <1>13, <2>1 DEF Login, TotpLogin
<1>14. ASSUME NEW r \in Requests, NEW t, Refresh(r, t) \/ Logout(r, t) PROVE TypeOK'
  BY <1>2, <1>11, <1>12, <1>14 DEF Refresh, Logout
<1>15. ASSUME NEW r \in Requests, NEW k \in access, NEW t \in Tokens \cup {None},
              NEW op \in {"revokeOne", "revokeAll"}, Present(r, k, op, t)
       PROVE  TypeOK'
  <2>1. Bearer(k) \in Users /\ k.epoch \in Epochs
    BY DEF IInv, Signed, RF!IInv, RF!RowShape, Bearer, TypeOK, AccessToken
  <2>2. [pc |-> "guard", op |-> op, user |-> Bearer(k), tok |-> t, epoch |-> k.epoch]
            \in Work
    BY <2>1 DEF Work
  <2> QED BY <1>4, <1>8, <1>11, <1>12, <1>15, <2>1, <2>2 DEF Present
<1>16. ASSUME NEW r \in Requests, Admit(r) \/ Deny(r) PROVE TypeOK'
  BY <1>0, <1>3, <1>8, <1>11, <1>12, <1>16 DEF Admit, Deny
<1>17. ASSUME NEW r \in Requests, NEW q \in Requests, Share(r, q) PROVE TypeOK'
  BY <1>5, <1>11, <1>12, <1>17 DEF Share
<1>18. ASSUME NEW r \in Requests, Statement(r) \/ AnswerPlainly(r) PROVE TypeOK'
  BY <1>2, <1>11, <1>12, <1>18 DEF Statement, AnswerPlainly
<1>19. ASSUME NEW r \in Requests, GetEpoch(r) PROVE TypeOK'
  <2>1. userId[req[r].tok] \in Users
    BY <1>19 DEF GetEpoch, IInv, Answers, Answer, RF!IInv, RF!RowShape
  <2>2. [NoWork EXCEPT !.pc = "mint", !.user = userId[req[r].tok]] \in Work
    BY <1>0, <2>1 DEF Work, NoWork
  <2> QED BY <1>4, <1>8, <1>11, <1>12, <1>19, <2>1, <2>2 DEF GetEpoch
<1>20. ASSUME NEW r \in Requests, SignWithRead(r) PROVE TypeOK'
  <2>1. req[r].out = "issued"
    BY <1>20 DEF SignWithRead, IInv, Errands, Errand
  <2> QED BY <1>3, <1>10, <1>11, <1>20, <2>1 DEF SignWithRead
<1>21. ASSUME NEW r \in Requests, SignTotp(r) PROVE TypeOK'
  <2>1. work[r].epoch \in Epochs
    BY <1>0 DEF Work, WorkOK
  <2> QED BY <1>2, <1>10, <1>11, <1>21, <2>1 DEF SignTotp
<1>22. ASSUME NEW r \in Requests, BumpEpoch(r) PROVE TypeOK'
  <2>1. req[r].user \in Users /\ req[r].targets \subseteq Tokens
    BY <1>0, <1>22 DEF BumpEpoch, Revoking, IInv, Answers, Answer, RF!TypeOK, RF!Request
  <2>2. [NoWork EXCEPT !.pc = "bust"] \in Work
    BY <1>0 DEF Work, NoWork
  <2>3. RestOK'
    BY <1>0, <1>22, <2>1 DEF BumpEpoch, Bar, RestOK
  <2> QED BY <1>6, <1>8, <1>11, <1>22, <2>1, <2>2, <2>3 DEF BumpEpoch
<1>23. ASSUME NEW r \in Requests, BustCache(r) PROVE TypeOK'
  BY <1>0, <1>2, <1>7, <1>8, <1>11, <1>12, <1>23 DEF BustCache
<1>24. ASSUME NEW r \in Requests, Abort(r) \/ OutOfBounds(r) PROVE TypeOK'
  BY <1>0, <1>2, <1>3, <1>8, <1>11, <1>12, <1>24 DEF Abort, OutOfBounds
<1>25. ASSUME NEW t \in Tokens, Expire(t) PROVE TypeOK'
  BY <1>2, <1>11, <1>12, <1>25 DEF Expire
<1>26. CASE UNCHANGED vars
  BY <1>2, <1>11, <1>12, <1>26 DEF vars
<1>27. RF!Created \subseteq Tokens
  BY DEF RF!Created
<1> QED BY <1>13, <1>14, <1>15, <1>16, <1>17, <1>18, <1>19, <1>20, <1>21, <1>22,
           <1>23, <1>24, <1>25, <1>26, <1>27 DEF Next

-----------------------------------------------------------------------------
(* What an action of request r owes the others: it leaves their requests   *)
(* and errands alone, sets no epoch back, and keeps its own books.         *)
Moves(r) ==
    /\ \A q \in Requests \ {r} : req'[q] = req[q] /\ work'[q] = work[q]
    /\ \A u \in Users : epoch[u] <= epoch'[u]
    /\ Answer(r)' /\ Errand(r)'

LEMMA ErrandStays ==
  ASSUME IInv, [Next]_vars, \A u \in Users : epoch[u] <= epoch'[u],
         NEW q \in Requests, req'[q] = req[q], work'[q] = work[q]
  PROVE  Errand(q)'
<1>1. [RF!Next]_(RF!vars) /\ RF!IInv
  BY RowsOnly DEF IInv
<1>2. Answer(q) /\ Errand(q)
  BY DEF IInv, Answers, Errands
<1>3. CASE work[q].pc = "idle" \/ work[q].pc = "bust"
  BY <1>2, <1>3 DEF Errand, Revoking
<1>4. CASE work[q].pc = "guard"
  BY <1>1, <1>2, <1>4, RowsAreKept DEF Errand
<1>5. CASE work[q].pc = "totp"
  <2>1. /\ epoch[req[q].user] <= epoch'[req[q].user] /\ req[q].user \in Users
        /\ work[q].epoch <= epoch[req[q].user]
    BY <1>2, <1>5 DEF Errand
  <2>2. /\ work[q].epoch \in Int /\ epoch[req[q].user] \in Int
        /\ epoch'[req[q].user] \in Int
    BY <2>1, TypeStep DEF IInv, TypeOK, Work, Epochs
  <2> QED BY <1>2, <1>5, <2>1, <2>2 DEF Errand
<1>6. CASE work[q].pc = "mint"
  BY <1>1, <1>2, <1>6, RowsAreKept DEF Errand, Answer
<1> QED BY <1>3, <1>4, <1>5, <1>6 DEF IInv, TypeOK, Work

LEMMA OthersKept ==
  ASSUME IInv, [Next]_vars, NEW r \in Requests, Moves(r)
  PROVE  Answers' /\ Errands'
<1>1. [RF!Next]_(RF!vars) /\ RF!IInv
  BY RowsOnly DEF IInv
<1>2. Answers'
  BY <1>1, AnswersMove DEF Moves, IInv
<1>3. \A q \in Requests \ {r} : Errand(q)'
  BY ErrandStays DEF Moves
<1> QED BY <1>2, <1>3 DEF Moves, Errands

(* A barred row stays where it is, and stays drained.                      *)
LEMMA BarredStay ==
  ASSUME IInv, [Next]_vars, NEW t \in RF!Created, Drained(familyId[t])
  PROVE  /\ t \in RF!Created' /\ Drained(familyId[t])'
         /\ userId'[t] = userId[t] /\ familyId'[t] = familyId[t]
<1>1. [RF!Next]_(RF!vars) /\ RF!IInv
  BY RowsOnly DEF IInv
<1>2. PICK f \in Tokens : f = familyId[t]
  BY DEF IInv, RF!IInv, RF!RowShape, RF!Created
<1>3. familyId'[t] = familyId[t] /\ userId'[t] = userId[t] /\ t \in RF!Created'
  BY <1>1, RowsAreKept
<1>4. Drained(f)'
  BY <1>2, DrainedStays DEF IInv
<1>5. Drained(familyId[t])'
  BY <1>2, <1>3, <1>4 DEF Drained, Minting, RF!Dead, RF!Family, RF!Created
<1> QED BY <1>3, <1>5

(* A step that neither signs nor bars keeps what is known of the tokens:   *)
(* their rows are the same and the epochs only grow.                       *)
LEMMA SignedStay ==
  ASSUME IInv, [Next]_vars, \A u \in Users : epoch[u] <= epoch'[u], NEW k \in access
  PROVE  /\ k.sid \in RF!Created' /\ k.epoch <= epoch'[userId'[k.sid]]
         /\ familyId'[k.sid] = familyId[k.sid] /\ userId'[k.sid] = userId[k.sid]
         /\ k.sid \in RF!Created /\ userId[k.sid] \in Users
         /\ k.epoch \in Int /\ epoch[Bearer(k)] \in Int /\ epoch'[userId'[k.sid]] \in Int
         /\ epoch[Bearer(k)] <= epoch'[userId'[k.sid]]
<1>1. [RF!Next]_(RF!vars) /\ RF!IInv
  BY RowsOnly DEF IInv
<1>2. k.sid \in RF!Created /\ k.epoch <= epoch[Bearer(k)] /\ userId[k.sid] \in Users
  BY <1>1 DEF IInv, Signed, RF!IInv, RF!RowShape
<1>3. /\ familyId'[k.sid] = familyId[k.sid] /\ userId'[k.sid] = userId[k.sid]
      /\ k.sid \in RF!Created'
  BY <1>1, <1>2, RowsAreKept
<1>4. /\ k.epoch \in Int /\ epoch[userId[k.sid]] \in Int /\ epoch'[userId[k.sid]] \in Int
  BY <1>2, TypeStep DEF IInv, TypeOK, AccessToken, Epochs
<1>5. epoch[userId[k.sid]] <= epoch'[userId[k.sid]]
  BY <1>2
<1>6. k.epoch <= epoch[userId[k.sid]]
  BY <1>2 DEF Bearer
<1>7. k.epoch <= epoch'[userId[k.sid]]
  BY <1>4, <1>5, <1>6
<1> QED BY <1>2, <1>3, <1>4, <1>5, <1>7 DEF Bearer

LEMMA QuietStep ==
  ASSUME IInv, [Next]_vars, \A u \in Users : epoch[u] <= epoch'[u],
         UNCHANGED <<access, barred>>
  PROVE  Signed' /\ BarredAreDrained' /\ RevokedFamiliesAreOut'
<1>1. Signed'
  BY SignedStay DEF Signed, Bearer
<1>2. BarredAreDrained'
  BY BarredStay DEF BarredAreDrained, IInv
<1>3. ASSUME NEW k \in access, NEW t \in barred, familyId'[k.sid] = familyId'[t]
      PROVE  k.epoch < epoch'[userId'[k.sid]]
  <2>1. familyId'[t] = familyId[t]
    BY BarredStay DEF BarredAreDrained, IInv
  <2>2. k.epoch < epoch[Bearer(k)]
    BY <1>3, <2>1, SignedStay DEF RevokedFamiliesAreOut, IInv
  <2> QED BY <2>2, SignedStay
<1>4. RevokedFamiliesAreOut'
  BY <1>3 DEF RevokedFamiliesAreOut, Bearer
<1> QED BY <1>1, <1>2, <1>4

(* The token that is signed is of no barred family: its request was still  *)
(* minting for that family, so the family was not drained.                 *)
LEMMA SignStep ==
  ASSUME IInv, [Next]_vars, UNCHANGED <<epoch, barred>>, NEW r \in Requests,
         req[r].out = "issued", NEW e \in Epochs, e <= epoch[userId[req[r].tok]],
         access' = access \cup {[sid |-> req[r].tok, epoch |-> e]}
  PROVE  Signed' /\ BarredAreDrained' /\ RevokedFamiliesAreOut'
<1> DEFINE new == [sid |-> req[r].tok, epoch |-> e]
<1>0. \A u \in Users : epoch[u] <= epoch'[u]
  BY DEF IInv, TypeOK, Epochs
<1>1. [RF!Next]_(RF!vars) /\ RF!IInv
  BY RowsOnly DEF IInv
<1>2. req[r].tok \in RF!Created
  BY DEF IInv, Answers, Answer
<1>3. /\ familyId'[new.sid] = familyId[new.sid] /\ userId'[new.sid] = userId[new.sid]
      /\ new.sid \in RF!Created' /\ new.epoch = e
  BY <1>1, <1>2, RowsAreKept
<1>4. Signed'
  <2> SUFFICES ASSUME NEW k \in access'
               PROVE  k.sid \in RF!Created' /\ k.epoch <= epoch'[userId'[k.sid]]
    BY DEF Signed, Bearer
  <2>1. CASE k \in access
    BY <1>0, <2>1, SignedStay
  <2>2. CASE k = new
    BY <1>3, <2>2
  <2> QED BY <2>1, <2>2
<1>5. BarredAreDrained'
  BY BarredStay DEF BarredAreDrained, IInv
<1>6. ASSUME NEW k \in access', NEW t \in barred, familyId'[k.sid] = familyId'[t]
      PROVE  k.epoch < epoch'[userId'[k.sid]]
  <2>1. familyId'[t] = familyId[t] /\ Drained(familyId[t])
    BY BarredStay DEF BarredAreDrained, IInv
  <2>2. k # new
    BY <1>3, <1>6, <2>1 DEF Drained, Minting
  <2>3. k \in access
    BY <2>2
  <2>4. k.epoch < epoch[Bearer(k)]
    BY <1>0, <1>6, <2>1, <2>3, SignedStay DEF RevokedFamiliesAreOut, IInv
  <2> QED BY <1>0, <2>3, <2>4, SignedStay
<1>7. RevokedFamiliesAreOut'
  BY <1>6 DEF RevokedFamiliesAreOut, Bearer
<1> QED BY <1>4, <1>5, <1>7

(* A bump goes past every token of the families it was for: these belong   *)
(* to the caller, as the revoked rows do.                                  *)
LEMMA BumpStep ==
  ASSUME IInv, [Next]_vars, NEW r \in Requests, BumpEpoch(r)
  PROVE  Signed' /\ BarredAreDrained' /\ RevokedFamiliesAreOut'
<1> DEFINE u == req[r].user
<1>0. /\ u \in Users /\ epoch[u] \in Int /\ epoch'[u] = epoch[u] + 1
      /\ \A w \in Users : epoch[w] <= epoch'[w]
      /\ access' = access
      /\ UNCHANGED <<userId, familyId>>
      /\ \A t \in req[r].targets : t \in RF!Created /\ userId[t] = u
  <2>1. Revoking(r) /\ Answer(r) /\ ER!Bump(u)
    BY DEF BumpEpoch, IInv, Answers
  <2>2. u \in Users
    BY <2>1 DEF Answer, Revoking
  <2>3. \A w \in Users : epoch[w] \in Int
    BY DEF IInv, TypeOK, Epochs
  <2>4. \A w \in Users : epoch'[w] = IF w = u THEN epoch[w] + 1 ELSE epoch[w]
    BY <2>1 DEF ER!Bump, IInv, TypeOK
  <2>5. \A t \in req[r].targets : t \in RF!Created /\ userId[t] = u
    BY <2>1 DEF Answer
  <2> QED BY <2>2, <2>3, <2>4, <2>5 DEF BumpEpoch, familyVars, rowVars
<1>1. Signed'
  BY <1>0, SignedStay DEF Signed, Bearer
<1>2. \A t \in barred' : t \in RF!Created /\ Drained(familyId[t])
  BY <1>0 DEF BumpEpoch, Bar, IInv, BarredAreDrained
<1>3. BarredAreDrained'
  BY <1>2, BarredStay DEF BarredAreDrained
<1>4. ASSUME NEW k \in access, NEW t \in barred', familyId[k.sid] = familyId[t]
      PROVE  k.epoch < epoch'[userId'[k.sid]]
  <2>1. CASE t \in barred
    <3>1. k.epoch < epoch[Bearer(k)]
      BY <1>4, <2>1 DEF IInv, RevokedFamiliesAreOut
    <3> QED BY <1>0, <3>1, SignedStay
  <2>2. CASE t \in req[r].targets
    <3>1. userId[k.sid] = u
      BY <1>0, <1>4, <2>2, SignedStay DEF IInv, RF!IInv, RF!OneOwner
    <3>2. k.epoch <= epoch[u] /\ k.epoch \in Int
      BY <1>0, <3>1, SignedStay DEF IInv, Signed, Bearer
    <3> QED BY <1>0, <3>1, <3>2
  <2> QED BY <2>1, <2>2 DEF BumpEpoch, Bar
<1>5. RevokedFamiliesAreOut'
  BY <1>0, <1>4 DEF RevokedFamiliesAreOut, Bearer
<1> QED BY <1>1, <1>3, <1>5

-----------------------------------------------------------------------------
LEMMA InitInv == Init => IInv
<1> SUFFICES ASSUME Init PROVE IInv
  OBVIOUS
<1> USE DEF Init
<1>1. RF!IInv /\ RF!TypeOK
  BY RowsInit DEF RF!IInv
<1>2. /\ epoch \in [Users -> Epochs] /\ settled \in [Users -> Epochs]
      /\ read \in [Requests -> ER!Read]
  BY BoundsAssumption DEF ER!RegisterInit, ER!NoRead, ER!Read, ER!Epochs, Epochs
<1>3. work \in [Requests -> Work]
  BY BoundsAssumption DEF NoWork, Work, Epochs
<1>4. TypeOK
  BY <1>1, <1>2, <1>3 DEF TypeOK
<1>5. Answers
  BY DEF RF!Init, RF!Idle, Answers, Answer, Revoking
<1>6. Errands
  BY DEF NoWork, Errands, Errand
<1>7. Signed /\ BarredAreDrained /\ RevokedFamiliesAreOut
  BY DEF Signed, BarredAreDrained, RevokedFamiliesAreOut
<1> QED BY <1>1, <1>4, <1>5, <1>6, <1>7 DEF IInv

(* What an action that sets the errand of its request leaves alone.        *)
LEMMA WorkSet ==
  ASSUME IInv, NEW r \in Requests, NEW w, work' = [work EXCEPT ![r] = w]
  PROVE  work'[r] = w /\ \A q \in Requests \ {r} : work'[q] = work[q]
  BY DEF IInv, TypeOK

LEMMA EpochsStay ==
  ASSUME IInv, UNCHANGED epoch
  PROVE  \A u \in Users : epoch[u] <= epoch'[u]
  BY DEF IInv, TypeOK, Epochs

(* A request that is over: its record and its errand are those of an idle  *)
(* one.                                                                    *)
LEMMA OverMoves ==
  ASSUME IInv, NEW r \in Requests, UNCHANGED epoch,
         req' = [req EXCEPT ![r] = RF!Idle], work' = [work EXCEPT ![r] = NoWork]
  PROVE  Moves(r)
<1>1. /\ \A q \in Requests \ {r} : req'[q] = req[q]
      /\ req'[r] = RF!Idle
  BY DEF IInv, TypeOK, RF!TypeOK
<1>2. Answer(r)'
  BY <1>1 DEF RF!Idle, Answer, Revoking
<1>3. work'[r] = NoWork /\ \A q \in Requests \ {r} : work'[q] = work[q]
  BY WorkSet
<1>4. Errand(r)'
  BY <1>3 DEF Errand, NoWork
<1> QED BY <1>1, <1>2, <1>3, <1>4, EpochsStay DEF Moves

(* A request that has just come in with the errand w.                      *)
LEMMA EnterMoves ==
  ASSUME IInv, NEW r \in Requests, UNCHANGED epoch,
         NEW op, NEW u, NEW t, RF!Enter(r, op, u, t),
         op \in {"revokeOne", "revokeAll"} => u \in Users,
         NEW w, work'[r] = w, \A q \in Requests \ {r} : work'[q] = work[q],
         \/ w = NoWork
         \/ op = "login" /\ u \in Users /\ w = [NoWork EXCEPT !.pc = "totp", !.epoch = epoch[u]]
  PROVE  Moves(r)
<1>1. /\ \A q \in Requests \ {r} : req'[q] = req[q]
      /\ req'[r] = [op |-> op, pc |-> "begin", user |-> u, tok |-> t,
                    targets |-> {}, out |-> "none"]
  BY DEF RF!Enter, IInv, TypeOK, RF!TypeOK
<1>2. Answer(r)'
  BY <1>1 DEF Answer, Revoking
<1>3. Errand(r)'
  <2>1. CASE w = NoWork
    BY <2>1 DEF Errand, NoWork
  <2>2. CASE op = "login" /\ u \in Users
             /\ w = [NoWork EXCEPT !.pc = "totp", !.epoch = epoch[u]]
    <3>1. w.pc = "totp" /\ w.epoch = epoch[u] /\ epoch[u] \in Int
      BY <2>2 DEF NoWork, IInv, TypeOK, Epochs
    <3> QED BY <1>1, <2>2, <3>1 DEF Errand
  <2> QED BY <2>1, <2>2
<1> QED BY <1>1, <1>2, <1>3, EpochsStay DEF Moves

(* A request that stays as it is while its errand becomes w.               *)
LEMMA ErrandMoves ==
  ASSUME IInv, [Next]_vars, NEW r \in Requests, UNCHANGED familyVars,
         \A u \in Users : epoch[u] <= epoch'[u],
         NEW w, work' = [work EXCEPT ![r] = w],
         Errand(r)'
  PROVE  Moves(r)
<1>1. Answers'
  BY RowsOnly, AnswersKept DEF IInv, familyVars
<1> QED BY <1>1, WorkSet DEF Moves, Answers, familyVars

(* IInv is inductive: an action moves one request and signs, bars or does  *)
(* neither.                                                                *)
LEMMA MoveStep ==
  ASSUME IInv, [Next]_vars, NEW r \in Requests, Moves(r), UNCHANGED <<access, barred>>
  PROVE  IInv'
<1>1. RF!IInv' /\ TypeOK'
  BY RowsOnly, RowsStep, TypeStep DEF IInv
<1>2. Answers' /\ Errands'
  BY OthersKept
<1>3. Signed' /\ BarredAreDrained' /\ RevokedFamiliesAreOut'
  BY QuietStep DEF Moves
<1> QED BY <1>1, <1>2, <1>3 DEF IInv

LEMMA SameStep ==
  ASSUME IInv, [Next]_vars, UNCHANGED <<req, work, epoch, access, barred>>
  PROVE  IInv'
<1>1. RF!IInv' /\ TypeOK'
  BY RowsOnly, RowsStep, TypeStep DEF IInv
<1>2. Answers'
  BY RowsOnly, AnswersKept DEF IInv
<1>3. Errands'
  BY EpochsStay, ErrandStays DEF Errands
<1>4. Signed' /\ BarredAreDrained' /\ RevokedFamiliesAreOut'
  BY EpochsStay, QuietStep
<1> QED BY <1>1, <1>2, <1>3, <1>4 DEF IInv

LEMMA StepInv == IInv /\ [Next]_vars => IInv'
<1> SUFFICES ASSUME IInv, [Next]_vars PROVE IInv'
  OBVIOUS
<1>1. ASSUME NEW r \in Requests, NEW u \in Users, Login(r, u) PROVE IInv'
  <2>1. work[r] = NoWork /\ UNCHANGED <<work, epoch, access, barred>>
    BY <1>1 DEF Login, Quiet, registerVars
  <2>2. RF!Enter(r, "login", u, None)
    BY <1>1 DEF Login, RF!EnterLogin
  <2>3. Moves(r)
    BY <2>1, <2>2, EnterMoves
  <2> QED BY <2>1, <2>3, MoveStep
<1>2. ASSUME NEW r \in Requests, NEW u \in Users, TotpLogin(r, u) PROVE IInv'
  <2>1. /\ work' = [work EXCEPT ![r] = [NoWork EXCEPT !.pc = "totp", !.epoch = epoch[u]]]
        /\ UNCHANGED <<epoch, access, barred>>
    BY <1>2 DEF TotpLogin, registerVars
  <2>2. RF!Enter(r, "login", u, None)
    BY <1>2 DEF TotpLogin, RF!EnterLogin
  <2> DEFINE w == [NoWork EXCEPT !.pc = "totp", !.epoch = epoch[u]]
  <2>3. work'[r] = w /\ \A q \in Requests \ {r} : work'[q] = work[q]
    BY <2>1 DEF IInv, TypeOK
  <2>4. Moves(r)
    BY <2>1, <2>2, <2>3, EnterMoves
  <2> QED BY <2>1, <2>4, MoveStep
<1>3. ASSUME NEW r \in Requests, NEW t, Refresh(r, t) \/ Logout(r, t) PROVE IInv'
  <2>1. work[r] = NoWork /\ UNCHANGED <<work, epoch, access, barred>>
    BY <1>3 DEF Refresh, Logout, Quiet, registerVars
  <2>2. \E op \in {"refresh", "logout"} : RF!Enter(r, op, None, t)
    BY <1>3 DEF Refresh, Logout, RF!EnterRefresh, RF!EnterLogout
  <2>3. Moves(r)
    BY <2>1, <2>2, EnterMoves
  <2> QED BY <2>1, <2>3, MoveStep
<1>4. ASSUME NEW r \in Requests, NEW k \in access, NEW t \in RF!Created \cup {None},
             NEW op, Present(r, k, op, t)
      PROVE  IInv'
  <2>1. /\ UNCHANGED <<familyVars, epoch, access, barred>>
        /\ work' = [work EXCEPT ![r] = [pc |-> "guard", op |-> op, user |-> Bearer(k),
                                        tok |-> t, epoch |-> k.epoch]]
    BY <1>4 DEF Present, ER!BeginRead
  <2>2. Bearer(k) \in Users
    BY DEF IInv, Signed, RF!IInv, RF!RowShape, Bearer
  <2>3. Errand(r)'
    <3>1. /\ work'[r].pc = "guard" /\ work'[r].user = Bearer(k) /\ work'[r].tok = t
          /\ req'[r].pc = "idle" /\ RF!Created' = RF!Created
      BY <1>4, <2>1 DEF IInv, TypeOK, Present, Quiet, familyVars, rowVars, RF!Created
    <3> QED BY <2>2, <3>1 DEF Errand
  <2>4. Moves(r)
    BY <2>1, <2>3, EpochsStay, ErrandMoves
  <2> QED BY <2>1, <2>4, MoveStep
<1>5. ASSUME NEW r \in Requests, Admit(r) PROVE IInv'
  <2>1. work' = [work EXCEPT ![r] = NoWork] /\ UNCHANGED <<epoch, access, barred>>
    BY <1>5 DEF Admit, ER!EndReads
  <2>2. work[r].user \in Users
    BY <1>5 DEF Admit, IInv, Errands, Errand
  <2>3. \E op \in {"revokeOne", "revokeAll"} : \E t : RF!Enter(r, op, work[r].user, t)
    BY <1>5 DEF Admit, RF!EnterRevokeOne, RF!EnterRevokeAll
  <2>4. Moves(r)
    BY <2>1, <2>2, <2>3, WorkSet, EnterMoves
  <2> QED BY <2>1, <2>4, MoveStep
<1>6. ASSUME NEW r \in Requests, Deny(r) PROVE IInv'
  <2>1. /\ work' = [work EXCEPT ![r] = NoWork]
        /\ UNCHANGED <<familyVars, epoch, access, barred>>
    BY <1>6 DEF Deny, ER!EndReads
  <2>2. Errand(r)'
    <3>1. work'[r] = NoWork
      BY <2>1 DEF IInv, TypeOK
    <3> QED BY <3>1 DEF Errand, NoWork
  <2>3. Moves(r)
    BY <2>1, <2>2, EpochsStay, ErrandMoves
  <2> QED BY <2>1, <2>3, MoveStep
<1>7. ASSUME NEW r \in Requests, NEW q \in Requests, Share(r, q) PROVE IInv'
  BY <1>7, SameStep DEF Share, ER!ShareRead, familyVars
<1>8. ASSUME NEW r \in Requests, Statement(r) PROVE IInv'
  <2>1. UNCHANGED <<work, epoch, access, barred>>
    BY <1>8 DEF Statement, registerVars
  <2>2. SameRequest(r) /\ Answer(r)'
    BY <1>8, StatementAnswers DEF IInv
  <2>3. Answer(r) /\ Errand(r)
    BY DEF IInv, Answers, Errands
  <2>4. Errand(r)'
    BY <2>1, <2>2, <2>3 DEF Errand, SameRequest, Revoking, Answer
  <2>5. Moves(r)
    BY <2>1, <2>2, <2>4, EpochsStay DEF Moves, SameRequest
  <2> QED BY <2>1, <2>5, MoveStep
<1>9. ASSUME NEW r \in Requests, GetEpoch(r) PROVE IInv'
  <2>1. /\ work' = [work EXCEPT ![r] = [NoWork EXCEPT !.pc = "mint",
                                                      !.user = userId[req[r].tok]]]
        /\ UNCHANGED <<familyVars, epoch, access, barred>>
    BY <1>9 DEF GetEpoch, ER!BeginRead
  <2>2. work'[r].pc = "mint" /\ work'[r].user = userId[req[r].tok]
    BY <2>1 DEF IInv, TypeOK, NoWork
  <2>3. Errand(r)'
    BY <1>9, <2>1, <2>2 DEF Errand, GetEpoch, familyVars, rowVars
  <2>4. Moves(r)
    BY <2>1, <2>3, EpochsStay, ErrandMoves
  <2> QED BY <2>1, <2>4, MoveStep
<1>10. ASSUME NEW r \in Requests, NEW e \in Epochs, Sign(r, e), req[r].out = "issued",
              e <= epoch[userId[req[r].tok]], UNCHANGED epoch
       PROVE  IInv'
  <2>1. Moves(r)
    BY <1>10, OverMoves DEF Sign, RF!Respond
  <2>2. Answers' /\ Errands'
    BY <2>1, OthersKept
  <2>3. Signed' /\ BarredAreDrained' /\ RevokedFamiliesAreOut'
    BY <1>10, SignStep DEF Sign
  <2>4. RF!IInv' /\ TypeOK'
    BY RowsOnly, RowsStep, TypeStep DEF IInv
  <2> QED BY <2>2, <2>3, <2>4 DEF IInv
<1>11. ASSUME NEW r \in Requests, SignWithRead(r) PROVE IInv'
  <2>1. PICK e \in Epochs : ER!CanAnswer(r, work[r].user, e) /\ Sign(r, e)
    BY <1>11 DEF SignWithRead
  <2>2. req[r].out = "issued" /\ work[r].user = userId[req[r].tok]
    BY <1>11 DEF SignWithRead, IInv, Errands, Errand
  <2>3. e <= epoch[userId[req[r].tok]] /\ UNCHANGED epoch
    BY <1>11, <2>1, <2>2 DEF ER!CanAnswer, SignWithRead, ER!EndReads
  <2> QED BY <1>10, <2>1, <2>2, <2>3
<1>12. ASSUME NEW r \in Requests, SignTotp(r) PROVE IInv'
  <2>1. /\ req[r].op = "login" /\ work[r].epoch <= epoch[req[r].user]
        /\ userId[req[r].tok] = req[r].user
    BY <1>12 DEF SignTotp, IInv, Errands, Errand, Answers, Answer
  <2>2. work[r].epoch \in Epochs
    BY DEF IInv, TypeOK, Work
  <2> QED BY <1>10, <1>12, <2>1, <2>2 DEF SignTotp, registerVars
<1>13. ASSUME NEW r \in Requests, AnswerPlainly(r) PROVE IInv'
  <2>1. /\ req' = [req EXCEPT ![r] = RF!Idle]
        /\ UNCHANGED <<work, epoch, access, barred>>
    BY <1>13 DEF AnswerPlainly, RF!Respond, registerVars
  <2>2. work[r] = NoWork
    BY <1>13 DEF AnswerPlainly, RF!Respond, IInv, Answers, Answer, Errands, Errand,
       Revoking, TypeOK, Work
  <2>3. work' = [work EXCEPT ![r] = NoWork]
    BY <2>1, <2>2 DEF IInv, TypeOK
  <2>4. Moves(r)
    BY <2>1, <2>3, OverMoves
  <2> QED BY <2>1, <2>4, MoveStep
<1>14. ASSUME NEW r \in Requests, BumpEpoch(r) PROVE IInv'
  <2>1. /\ work' = [work EXCEPT ![r] = [NoWork EXCEPT !.pc = "bust"]]
        /\ UNCHANGED familyVars /\ Revoking(r)
    BY <1>14 DEF BumpEpoch
  <2>2. Errand(r)'
    <3>1. work'[r].pc = "bust" /\ Revoking(r)'
      BY <2>1 DEF IInv, TypeOK, NoWork, Revoking, familyVars
    <3> QED BY <3>1 DEF Errand
  <2>3. \A u \in Users : epoch[u] <= epoch'[u]
    BY <1>14 DEF BumpEpoch, ER!Bump, IInv, TypeOK, Epochs
  <2>4. Moves(r)
    BY <2>1, <2>2, <2>3, ErrandMoves
  <2>5. Answers' /\ Errands'
    BY <2>4, OthersKept
  <2>6. Signed' /\ BarredAreDrained' /\ RevokedFamiliesAreOut'
    BY <1>14, BumpStep
  <2>7. RF!IInv' /\ TypeOK'
    BY RowsOnly, RowsStep, TypeStep DEF IInv
  <2> QED BY <2>5, <2>6, <2>7 DEF IInv
<1>15. ASSUME NEW r \in Requests, BustCache(r) PROVE IInv'
  <2>1. Moves(r)
    BY <1>15, OverMoves DEF BustCache, RF!Respond, ER!Settle, registerVars
  <2> QED BY <1>15, <2>1, MoveStep DEF BustCache
<1>16. ASSUME NEW r \in Requests, Abort(r) PROVE IInv'
  <2>1. /\ work' = [work EXCEPT ![r] = NoWork]
        /\ UNCHANGED <<epoch, access, barred>>
    BY <1>16 DEF Abort, ER!EndReads
  <2>2. CASE RF!Fail(r) \/ RF!Respond(r)
    BY <2>1, <2>2, OverMoves, MoveStep DEF RF!Fail, RF!Respond
  <2>3. CASE UNCHANGED familyVars
    <3>1. Errand(r)'
      <4>1. work'[r] = NoWork
        BY <2>1 DEF IInv, TypeOK
      <4> QED BY <4>1 DEF Errand, NoWork
    <3>2. Moves(r)
      BY <2>1, <2>3, <3>1, EpochsStay, ErrandMoves
    <3> QED BY <2>1, <3>2, MoveStep
  <2> QED BY <1>16, <2>2, <2>3 DEF Abort
<1>17. ASSUME NEW r \in Requests, OutOfBounds(r) PROVE IInv'
  <2>1. /\ work' = [work EXCEPT ![r] = NoWork]
        /\ req' = [req EXCEPT ![r] = RF!Idle]
        /\ UNCHANGED <<epoch, access, barred>>
    BY <1>17 DEF OutOfBounds, RF!RowsExhausted, RF!Respond, registerVars
  <2> QED BY <2>1, OverMoves, MoveStep
<1>18. ASSUME NEW t \in Tokens, Expire(t) PROVE IInv'
  BY <1>18, SameStep DEF Expire, RF!Expire, registerVars
<1>19. CASE UNCHANGED vars
  BY <1>19, SameStep DEF vars, familyVars, registerVars
<1> QED BY <1>1, <1>2, <1>3, <1>4, <1>5, <1>6, <1>7, <1>8, <1>9, <1>11, <1>12,
           <1>13, <1>14, <1>15, <1>16, <1>17, <1>18, <1>19 DEF Next

-----------------------------------------------------------------------------
(* Every reachable state satisfies the inductive invariant.                *)
THEOREM Invariance == Spec => []IInv
  BY InitInv, StepInv, PTL DEF Spec

(* A signed token, an errand and a read are well formed in every state.    *)
THEOREM TypeCorrect == Spec => []TypeOK
<1>1. IInv => TypeOK
  BY DEF IInv
<1> QED BY <1>1, Invariance, PTL

(* From the bump on, no access token of a family that a revocation drained *)
(* carries the current epoch, whatever logins, refreshes and revocations   *)
(* overlap with it and wherever a request dies.                            *)
THEOREM RevokedTokensAreOut == Spec => []RevokedFamiliesAreOut
<1>1. IInv => RevokedFamiliesAreOut
  BY DEF IInv
<1> QED BY <1>1, Invariance, PTL

(* An access token is signed for a row that a request was handed.          *)
LEMMA OnlyMintersSign ==
  ASSUME IInv, [Next]_vars
  PROVE  /\ access \subseteq access'
         /\ \A k \in access' \ access :
               \E r \in Requests : req[r].out = "issued" /\ k.sid = req[r].tok
<1>1. ASSUME NEW r \in Requests, SignWithRead(r) \/ SignTotp(r)
      PROVE  \E e : /\ req[r].out = "issued"
                    /\ access' = access \cup {[sid |-> req[r].tok, epoch |-> e]}
  BY <1>1 DEF SignWithRead, SignTotp, Sign, IInv, Errands, Errand
<1>2. ASSUME NEW r \in Requests,
             \/ \E u : Login(r, u) \/ TotpLogin(r, u)
             \/ \E t : Refresh(r, t) \/ Logout(r, t)
             \/ \E k, op, t : Present(r, k, op, t)
             \/ Admit(r) \/ Deny(r) \/ \E q : Share(r, q)
             \/ Statement(r) \/ GetEpoch(r) \/ AnswerPlainly(r)
             \/ BumpEpoch(r) \/ BustCache(r) \/ Abort(r) \/ OutOfBounds(r)
      PROVE  UNCHANGED access
  BY <1>2 DEF Login, TotpLogin, Refresh, Logout, Present, Admit, Deny, Share,
     Statement, GetEpoch, AnswerPlainly, BumpEpoch, BustCache, Abort, OutOfBounds
<1>3. ASSUME NEW t \in Tokens, Expire(t) PROVE UNCHANGED access
  BY <1>3 DEF Expire
<1>4. CASE UNCHANGED vars
  BY <1>4 DEF vars
<1> QED BY <1>1, <1>2, <1>3, <1>4 DEF Next

LEMMA DrainedStep ==
  ASSUME IInv, [Next]_vars, NEW f \in Tokens, Drained(f)
  PROVE  Drained(f)' /\ TokensOf(f)' = TokensOf(f)
<1>1. [RF!Next]_(RF!vars) /\ RF!IInv
  BY RowsOnly DEF IInv
<1>2. Drained(f)'
  BY DrainedStays DEF IInv
<1>3. \A k \in access : familyId'[k.sid] = familyId[k.sid]
  BY <1>1, RowsAreKept DEF IInv, Signed
<1>4. \A k \in access' \ access : familyId'[k.sid] # f
  BY <1>1, OnlyMintersSign, RowsAreKept DEF Drained, Minting, IInv, Answers, Answer
<1> QED BY <1>2, <1>3, <1>4, OnlyMintersSign DEF TokensOf

(* Once a family is dead and the requests that had just been handed one of *)
(* its rows are answered, nobody obtains an access token for it any more.  *)
THEOREM DrainedForGood == Spec => DrainedIsFinal
<1>1. IInv /\ [Next]_vars =>
        [\A f \in Tokens : Drained(f) => Drained(f)' /\ TokensOf(f)' = TokensOf(f)]_vars
  BY DrainedStep
<1> QED BY <1>1, Invariance, PTL DEF Spec, DrainedIsFinal
=============================================================================
