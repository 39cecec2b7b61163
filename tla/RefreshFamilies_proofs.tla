----------------------- MODULE RefreshFamilies_proofs -----------------------
(***************************************************************************)
(* Theorems about RefreshFamilies, for any number of users, rows and       *)
(* concurrent requests.                                                    *)
(***************************************************************************)
EXTENDS RefreshFamilies, TLAPS

RowInv == RowShape /\ OneLiveRow /\ RedeemedOnce /\ OneOwner

(* What a request record may say about rows that exist.                    *)
Sound(r, x) ==
    /\ x \in Request
    /\ x.op = "login" => x.user \in Users
    /\ x.op = "refresh" =>
          /\ x.pc = "insert" => x.tok \in Live
          /\ x.pc \in {"reuse", "update"} => x.tok \in Created
          /\ x.pc \in {"insert", "reuse", "update"} => FreeFor(r, {x.tok})
    /\ x.pc = "update" =>
          /\ x.targets \subseteq Created
          /\ x.op \in {"revokeOne", "revokeAll"} =>
                \A t \in x.targets : userId[t] = x.user

LEMMA InitInv == Init => IInv
  BY NoneIsNoValue DEF Init, IInv, TypeOK, RowShape, LockInv, RequestInv, OneLiveRow,
     RedeemedOnce, OneOwner, Created, Live, Idle, Request, Ops, Pcs, Outs, Holds

(* A step that only moves one request to a sound record keeps IInv.        *)
LEMMA RequestStep ==
  ASSUME IInv, NEW r \in Requests, NEW x, Sound(r, x),
         req' = [req EXCEPT ![r] = x],
         UNCHANGED rowVars, UNCHANGED expired
  PROVE  IInv'
<1>1. /\ Created' = Created /\ Live' = Live
      /\ \A q \in Requests : q # r => req'[q] = req[q]
      /\ req'[r] = x
  BY DEF rowVars, Created, Live, IInv, TypeOK
<1>2. TypeOK'
  BY <1>1 DEF IInv, TypeOK, rowVars, Sound
<1>3. (RowShape /\ OneLiveRow /\ RedeemedOnce /\ OneOwner)'
  BY <1>1 DEF IInv, RowShape, OneLiveRow, RedeemedOnce, OneOwner, rowVars
<1>4. LockInv'
  <2> SUFFICES ASSUME NEW a \in Requests, req'[a].op = "refresh"
               PROVE  /\ req'[a].pc = "insert" => req'[a].tok \in Live
                      /\ req'[a].pc \in {"reuse", "update"} => req'[a].tok \in Created
                      /\ \A q \in Requests, t \in Tokens :
                            Holds(a, t)' /\ Holds(q, t)' => q = a
    BY <1>1 DEF LockInv
  <2>1. /\ req'[a].pc = "insert" => req'[a].tok \in Live
        /\ req'[a].pc \in {"reuse", "update"} => req'[a].tok \in Created
    BY <1>1 DEF IInv, LockInv, Sound
  <2>2. ASSUME NEW q \in Requests, NEW t \in Tokens, Holds(a, t)', Holds(q, t)', q # a
        PROVE  FALSE
    <3>1. CASE a = r
      BY <1>1, <2>2, <3>1 DEF Sound, FreeFor, Holds
    <3>2. CASE q = r
      BY <1>1, <2>2, <3>2 DEF Sound, FreeFor, Holds
    <3>3. CASE a # r /\ q # r
      BY <1>1, <2>2, <3>3 DEF IInv, LockInv, Holds
    <3> QED BY <3>1, <3>2, <3>3
  <2> QED BY <2>1, <2>2
<1>5. RequestInv'
  BY <1>1 DEF IInv, RequestInv, Sound, rowVars
<1> QED BY <1>2, <1>3, <1>4, <1>5 DEF IInv

(* What a finished request looks like.                                     *)
LEMMA FinishFacts ==
  ASSUME TypeOK, NEW r \in Requests, NEW out \in Outs,
         NEW t \in Tokens \cup {None}, Finish(r, out, t)
  PROVE  /\ req' \in [Requests -> Request]
         /\ \A q \in Requests : q # r => req'[q] = req[q]
         /\ req'[r].op = req[r].op /\ req'[r].pc = "done"
         /\ req'[r].user = req[r].user /\ req'[r].targets = req[r].targets
         /\ req'[r].out = out /\ req'[r].tok = t
<1> DEFINE done == [req[r] EXCEPT !.pc = "done", !.out = out, !.tok = t]
<1>1. req[r] \in Request
  BY DEF TypeOK
<1>2. done \in Request
  BY <1>1 DEF Request, Pcs
<1>3. /\ done.op = req[r].op /\ done.pc = "done"
      /\ done.user = req[r].user /\ done.targets = req[r].targets
      /\ done.out = out /\ done.tok = t
  BY <1>1 DEF Request
<1>4. req' = [req EXCEPT ![r] = done]
  BY DEF TypeOK, Finish
<1> HIDE DEF done
<1> QED BY <1>2, <1>3, <1>4 DEF TypeOK

(* An UPDATE that revokes the rows of its snapshot and ends its request.   *)
LEMMA RevokeStep ==
  ASSUME IInv, NEW r \in Requests, req[r].pc = "update", Revoke(r),
         NEW out \in Outs, Finish(r, out, req[r].tok)
  PROVE  IInv'
<1>0. req[r].tok \in Tokens \cup {None}
  BY DEF IInv, TypeOK, Request
<1>a. TypeOK
  BY DEF IInv
<1>1. /\ Created' = Created
      /\ \A q \in Requests : q # r => req'[q] = req[q]
      /\ req'[r].op = req[r].op /\ req'[r].pc = "done"
      /\ req'[r].user = req[r].user
      /\ req' \in [Requests -> Request]
      /\ revoked \subseteq revoked'
      /\ Live' = Live \ req[r].targets
      /\ req[r].targets \subseteq Created
  BY <1>0, <1>a, FinishFacts DEF Revoke, Created, Live, IInv, RequestInv
<1>2. TypeOK'
  BY <1>1 DEF IInv, TypeOK, Revoke
<1>3. (RowShape /\ OneLiveRow /\ RedeemedOnce /\ OneOwner)'
  BY <1>1 DEF IInv, RowShape, OneLiveRow, RedeemedOnce, OneOwner, Revoke
<1>4. LockInv'
  <2> SUFFICES ASSUME NEW a \in Requests, req'[a].op = "refresh"
               PROVE  /\ req'[a].pc = "insert" => req'[a].tok \in Live'
                      /\ req'[a].pc \in {"reuse", "update"} => req'[a].tok \in Created
                      /\ \A q \in Requests, t \in Tokens :
                            Holds(a, t)' /\ Holds(q, t)' => q = a
    BY <1>1 DEF LockInv
  <2>1. ASSUME req'[a].pc = "insert"
        PROVE  req'[a].tok \in Live'
    <3>1. a # r /\ req[a] = req'[a] /\ req[a].tok \in Live
      BY <1>1, <2>1 DEF IInv, LockInv
    <3>2. Holds(a, req[a].tok)
      BY <2>1, <3>1 DEF Holds
    <3>3. req[a].tok \notin req[r].targets
      BY <3>1, <3>2 DEF Revoke, FreeFor
    <3> QED BY <1>1, <3>1, <3>3
  <2>2. req'[a].pc \in {"reuse", "update"} => req'[a].tok \in Created
    BY <1>1 DEF IInv, LockInv
  <2>3. ASSUME NEW q \in Requests, NEW t \in Tokens, Holds(a, t)', Holds(q, t)'
        PROVE  q = a
    BY <1>1, <2>3 DEF IInv, LockInv, Holds
  <2> QED BY <2>1, <2>2, <2>3
<1>5. RequestInv'
  BY <1>1 DEF IInv, RequestInv, Revoke
<1> QED BY <1>2, <1>3, <1>4, <1>5 DEF IInv

(* The root row of a new family.                                           *)
LEMMA LoginStep ==
  ASSUME IInv, NEW r \in Requests, CreateOnLogin(r)
  PROVE  IInv'
<1>1. PICK n \in Tokens \ Created :
          /\ Insert(n, req[r].user, n, None)
          /\ Finish(r, "issued", n)
  BY DEF CreateOnLogin
<1>2. /\ Created' = Created \cup {n} /\ Live' = Live \cup {n}
      /\ n \notin revoked
      /\ \A q \in Requests : q # r => req'[q] = req[q]
      /\ req'[r].op = req[r].op /\ req'[r].pc = "done"
      /\ req'[r].user = req[r].user
      /\ req' \in [Requests -> Request]
  <2>1. TypeOK /\ "issued" \in Outs /\ n \in Tokens \cup {None}
    BY DEF IInv, Outs
  <2>2. Created' = Created \cup {n}
    BY <1>1, NoneIsNoValue DEF Insert, Created, IInv, TypeOK
  <2> QED BY <1>1, <2>1, <2>2, FinishFacts DEF CreateOnLogin, Live, TypeOK
<1>3. TypeOK'
  BY <1>1, <1>2 DEF IInv, TypeOK, CreateOnLogin, Insert, RequestInv
<1>4. /\ \A t \in Created : /\ userId'[t] = userId[t]
                            /\ familyId'[t] = familyId[t]
                            /\ familyId[t] \in Created
                            /\ prevTokenId'[t] = prevTokenId[t]
      /\ userId'[n] = req[r].user /\ familyId'[n] = n /\ prevTokenId'[n] = None
  BY <1>1, <1>2 DEF IInv, TypeOK, RowShape, Insert, Created
<1>5. (RowShape /\ OneLiveRow /\ RedeemedOnce /\ OneOwner)'
  <2>1. RowShape'
    BY <1>2, <1>4 DEF IInv, RowShape, CreateOnLogin, RequestInv
  <2>2. OneLiveRow'
    BY <1>2, <1>4 DEF IInv, OneLiveRow, Live
  <2>3. RedeemedOnce'
    BY <1>2, <1>4 DEF IInv, RedeemedOnce
  <2>4. OneOwner'
    BY <1>2, <1>4 DEF IInv, OneOwner
  <2> QED BY <2>1, <2>2, <2>3, <2>4
<1>6. LockInv'
  BY <1>2 DEF IInv, LockInv, Holds
<1>7. RequestInv'
  BY <1>2, <1>4 DEF IInv, RequestInv
<1> QED BY <1>3, <1>5, <1>6, <1>7 DEF IInv

(* A rotation: the row it replaces is live and locked by nobody else.      *)
LEMMA RotateStep ==
  ASSUME IInv, NEW r \in Requests, RotateCommit(r)
  PROVE  IInv'
<1> DEFINE t == req[r].tok
<1>1. PICK n \in Tokens \ Created :
          /\ Insert(n, userId[t], familyId[t], t)
          /\ Finish(r, "issued", n)
  BY DEF RotateCommit
<1>2. t \in Live /\ t \in Created /\ t \in Tokens /\ t \notin used /\ t # n
  BY DEF IInv, TypeOK, LockInv, RotateCommit, Live, Created
<1>3. /\ Created' = Created \cup {n} /\ Live' = (Live \ {t}) \cup {n}
      /\ n \notin revoked
      /\ \A q \in Requests : q # r => req'[q] = req[q]
      /\ req'[r].op = req[r].op /\ req'[r].pc = "done"
      /\ req'[r].user = req[r].user
      /\ req' \in [Requests -> Request]
  <2>1. TypeOK /\ "issued" \in Outs /\ n \in Tokens \cup {None}
    BY DEF IInv, Outs
  <2>2. Created' = Created \cup {n}
    <3>1. familyId[t] # None
      BY <1>2 DEF Created
    <3> QED BY <1>1, <3>1 DEF Insert, Created, IInv, TypeOK
  <2> QED BY <1>1, <1>2, <2>1, <2>2, FinishFacts DEF RotateCommit, Live, TypeOK
<1>4. TypeOK'
  BY <1>1, <1>2, <1>3 DEF IInv, TypeOK, RotateCommit, Insert, RowShape
<1>5. /\ \A s \in Created : /\ userId'[s] = userId[s]
                            /\ familyId'[s] = familyId[s]
                            /\ familyId[s] \in Created
                            /\ prevTokenId'[s] = prevTokenId[s]
      /\ userId'[n] = userId[t] /\ familyId'[n] = familyId[t] /\ prevTokenId'[n] = t
  BY <1>1, <1>2 DEF IInv, TypeOK, RowShape, Insert, Created
<1>6. RowShape'
  BY <1>2, <1>3, <1>5 DEF IInv, RowShape, RotateCommit
<1>7. OneLiveRow'
  BY <1>2, <1>3, <1>5 DEF IInv, OneLiveRow, Live
<1>8. RedeemedOnce'
  <2>1. \A s \in Created : prevTokenId[s] # t
    BY <1>2, NoneIsNoValue DEF IInv, RowShape
  <2> QED BY <1>2, <1>3, <1>5, <2>1 DEF IInv, RedeemedOnce
<1>9. OneOwner'
  BY <1>2, <1>3, <1>5 DEF IInv, OneOwner
<1>10. LockInv'
  <2>1. ASSUME NEW a \in Requests, a # r, req[a].op = "refresh", req[a].pc = "insert"
        PROVE  req[a].tok # t
    BY <1>2, <2>1 DEF IInv, LockInv, Holds, RotateCommit
  <2> QED BY <1>3, <2>1 DEF IInv, LockInv, Holds
<1>11. RequestInv'
  BY <1>3, <1>5 DEF IInv, RequestInv
<1> QED BY <1>4, <1>6, <1>7, <1>8, <1>9, <1>10, <1>11 DEF IInv

(* The steps that only move their own request.                             *)
LEMMA EnterStep ==
  ASSUME IInv, NEW r \in Requests, NEW op \in Kinds, NEW u \in Users \cup {None},
         NEW t \in Tokens \cup {None}, Enter(r, op, u, t),
         op = "login" => u \in Users
  PROVE  IInv'
<1> DEFINE x == [op |-> op, pc |-> "begin", user |-> u, tok |-> t,
                 targets |-> {}, out |-> "none"]
<1>1. req' = [req EXCEPT ![r] = x]
  BY DEF Enter
<1>2. Sound(r, x)
  BY BoundsAssumption DEF Sound, Request, Ops, Pcs, Outs
<1> QED BY <1>1, <1>2, RequestStep DEF Enter

LEMMA IdleStep ==
  ASSUME IInv, NEW r \in Requests, req' = [req EXCEPT ![r] = Idle],
         UNCHANGED <<rowVars, expired>>
  PROVE  IInv'
<1>1. Sound(r, Idle)
  BY DEF Sound, Idle, Request, Ops, Pcs, Outs
<1> QED BY <1>1, RequestStep

(* A request that is answered without having changed a row.                *)
LEMMA AnswerStep ==
  ASSUME IInv, NEW r \in Requests, NEW out \in Outs, Finish(r, out, req[r].tok),
         UNCHANGED <<rowVars, expired>>
  PROVE  IInv'
<1>1. TypeOK /\ req[r].tok \in Tokens \cup {None}
  BY DEF IInv, TypeOK, Request
<1>2. /\ req' = [req EXCEPT ![r] = req'[r]]
      /\ req'[r] \in Request
      /\ req'[r].pc = "done" /\ req'[r].op = req[r].op /\ req'[r].user = req[r].user
  BY <1>1, FinishFacts DEF Finish, TypeOK
<1>3. Sound(r, req'[r])
  BY <1>2 DEF Sound, IInv, RequestInv
<1> QED BY <1>2, <1>3, RequestStep

LEMMA RotateLockStep ==
  ASSUME IInv, NEW r \in Requests, RotateLock(r)
  PROVE  IInv'
<1>1. CASE Finish(r, "invalid", req[r].tok)
  BY <1>1, AnswerStep DEF RotateLock, Outs
<1>2. ASSUME NEW pc \in {"reuse", "insert"}, req' = [req EXCEPT ![r].pc = pc],
             req[r].tok \in Created, FreeFor(r, {req[r].tok}), req[r].op = "refresh",
             pc = "insert" => req[r].tok \in Live
      PROVE  IInv'
  <2>1. /\ req' = [req EXCEPT ![r] = req'[r]]
        /\ req'[r] \in Request
        /\ req'[r].pc = pc /\ req'[r].op = req[r].op /\ req'[r].tok = req[r].tok
    BY <1>2 DEF IInv, TypeOK, Request, Pcs
  <2>2. Sound(r, req'[r])
    BY <1>2, <2>1 DEF Sound
  <2> QED BY <2>1, <2>2, RequestStep DEF RotateLock
<1>3. CASE req[r].tok \in used /\ req' = [req EXCEPT ![r].pc = "reuse"]
  BY <1>2, <1>3 DEF RotateLock, IInv, TypeOK
<1>4. CASE /\ req[r].tok \in Created \ (used \cup revoked \cup expired)
           /\ req' = [req EXCEPT ![r].pc = "insert"]
  BY <1>2, <1>4 DEF RotateLock, Live
<1> QED BY <1>1, <1>3, <1>4 DEF RotateLock

(* An UPDATE that starts; a replayed row is still locked by its rotation.  *)
LEMMA SnapshotStep ==
  ASSUME IInv, NEW r \in Requests, NEW rows \in SUBSET Created, Snapshot(r, rows),
         req[r].op \in {"revokeOne", "revokeAll"} =>
             \A t \in rows : userId[t] = req[r].user,
         req[r].op = "refresh" => req[r].pc = "reuse"
  PROVE  IInv'
<1>1. /\ req' = [req EXCEPT ![r] = req'[r]]
      /\ req'[r] \in Request
      /\ req'[r].pc = "update" /\ req'[r].op = req[r].op /\ req'[r].tok = req[r].tok
      /\ req'[r].user = req[r].user /\ req'[r].targets = rows
  BY DEF IInv, TypeOK, Request, Pcs, Snapshot, Created
<1>2. req[r].op = "refresh" => /\ req[r].tok \in Created
                              /\ FreeFor(r, {req[r].tok})
  BY DEF IInv, LockInv, Holds, FreeFor, Created
<1>3. Sound(r, req'[r])
  BY <1>1, <1>2 DEF Sound, IInv, RequestInv
<1> QED BY <1>1, <1>3, RequestStep DEF Snapshot

LEMMA ExpireStep ==
  ASSUME IInv, NEW t \in Tokens, Expire(t)
  PROVE  IInv'
  BY DEF IInv, Expire, rowVars, TypeOK, RowShape, LockInv, RequestInv, OneLiveRow,
     RedeemedOnce, OneOwner, Created, Live, Holds

(* IInv is inductive.                                                      *)
LEMMA StepInv == IInv /\ [Next]_vars => IInv'
<1> SUFFICES ASSUME IInv, [Next]_vars PROVE IInv'
  OBVIOUS
<1>1. ASSUME NEW r \in Requests, Arrive(r) PROVE IInv'
  <2>1. ASSUME NEW u \in Users, EnterLogin(r, u) \/ EnterRevokeAll(r, u) PROVE IInv'
    BY <2>1, EnterStep DEF EnterLogin, EnterRevokeAll, Enter
  <2>2. ASSUME NEW t \in Created \cup {None}, EnterRefresh(r, t) \/ EnterLogout(r, t)
        PROVE  IInv'
    <3>1. t \in Tokens \cup {None} /\ None \in Users \cup {None}
      BY DEF Created
    <3>2. CASE EnterRefresh(r, t)
      <4>1. "refresh" \in Kinds
        BY <3>2 DEF EnterRefresh, Enter
      <4> QED BY <3>1, <3>2, <4>1, EnterStep DEF EnterRefresh
    <3>3. CASE EnterLogout(r, t)
      <4>1. "logout" \in Kinds
        BY <3>3 DEF EnterLogout, Enter
      <4> QED BY <3>1, <3>3, <4>1, EnterStep DEF EnterLogout
    <3> QED BY <2>2, <3>2, <3>3
  <2>3. ASSUME NEW u \in Users, NEW t \in Created \cup {None}, EnterRevokeOne(r, u, t)
        PROVE  IInv'
    BY <2>3, EnterStep DEF EnterRevokeOne, Enter, Created
  <2> QED BY <1>1, <2>1, <2>2, <2>3 DEF Arrive
<1>2. ASSUME NEW r \in Requests, Step(r) PROVE IInv'
  <2>1. CASE CreateOnLogin(r) BY <2>1, LoginStep
  <2>2. CASE RotateLock(r) BY <2>2, RotateLockStep
  <2>3. CASE RotateCommit(r) BY <2>3, RotateStep
  <2>4. CASE ReuseSnapshot(r)
    BY <2>4, SnapshotStep DEF ReuseSnapshot, Family
  <2>5. CASE ReuseRevoke(r)
    BY <2>5, RevokeStep DEF ReuseRevoke, Outs
  <2>6. CASE LogoutSnapshot(r)
    BY <2>6, SnapshotStep, AnswerStep DEF LogoutSnapshot, Family, Outs
  <2>7. CASE LogoutRevoke(r)
    BY <2>7, RevokeStep DEF LogoutRevoke, Outs
  <2>8. CASE RevokeOneSnapshot(r)
    <3>1. CASE Finish(r, "notFound", req[r].tok)
      BY <2>8, <3>1, AnswerStep DEF RevokeOneSnapshot, Outs, rowVars, Snapshot
    <3>2. CASE /\ req[r].tok \in Created /\ userId[req[r].tok] = req[r].user
               /\ Snapshot(r, Family(familyId[req[r].tok]) \ revoked)
      <4>1. \A t \in Family(familyId[req[r].tok]) : userId[t] = req[r].user
        BY <3>2 DEF IInv, OneOwner, Family
      <4> QED BY <2>8, <3>2, <4>1, SnapshotStep DEF RevokeOneSnapshot, Family
    <3> QED BY <2>8, <3>1, <3>2 DEF RevokeOneSnapshot
  <2>9. CASE RevokeOneRevoke(r)
    BY <2>9, RevokeStep DEF RevokeOneRevoke, Outs
  <2>10. CASE RevokeAllSnapshot(r)
    BY <2>10, SnapshotStep DEF RevokeAllSnapshot, Live
  <2>11. CASE RevokeAllRevoke(r)
    BY <2>11, RevokeStep DEF RevokeAllRevoke, Outs
  <2>12. CASE Respond(r) BY <2>12, IdleStep DEF Respond
  <2>13. CASE RowsExhausted(r) BY <2>13, IdleStep DEF RowsExhausted
  <2> QED BY <1>2, <2>1, <2>2, <2>3, <2>4, <2>5, <2>6, <2>7, <2>8, <2>9, <2>10,
             <2>11, <2>12, <2>13 DEF Step
<1>3. ASSUME NEW r \in Requests, Fail(r) PROVE IInv'
  BY <1>3, IdleStep DEF Fail
<1>4. ASSUME NEW t \in Tokens, Expire(t) PROVE IInv'
  BY <1>4, ExpireStep
<1>5. CASE UNCHANGED vars
  BY <1>5 DEF vars, IInv, TypeOK, RowShape, LockInv, RequestInv, OneLiveRow,
     RedeemedOnce, OneOwner, Created, Live, Holds
<1> QED BY <1>1, <1>2, <1>3, <1>4, <1>5 DEF Next

(* Every reachable state satisfies the inductive invariant.                *)
THEOREM Invariance == Spec => []IInv
  BY InitInv, StepInv, PTL DEF Spec

(* A row exists before it is stamped, and is revoked when it is rotated.   *)
THEOREM TypeCorrect == Spec => []TypeOK
<1>1. IInv => TypeOK
  BY DEF IInv
<1> QED BY <1>1, Invariance, PTL

(* No family ever has two rows that are not revoked.                       *)
THEOREM AtMostOneLiveRow == Spec => []OneLiveRow
<1>1. IInv => OneLiveRow
  BY DEF IInv
<1> QED BY <1>1, Invariance, PTL

(* No refresh token is ever redeemed for two successors.                   *)
THEOREM TokensRedeemedOnce == Spec => []RedeemedOnce
<1>1. IInv => RedeemedOnce
  BY DEF IInv
<1> QED BY <1>1, Invariance, PTL

(* No family ever mixes rows of two users.                                 *)
THEOREM FamiliesHaveOneOwner == Spec => []OneOwner
<1>1. IInv => OneOwner
  BY DEF IInv
<1> QED BY <1>1, Invariance, PTL

(* A step that only marks a row revoked, or stamps or moves no row, keeps  *)
(* a dead family dead.                                                     *)
LEMMA SameRowsDead ==
  ASSUME NEW f \in Tokens, Dead(f), UNCHANGED familyId, revoked \subseteq revoked'
  PROVE  Dead(f)'
  BY DEF Dead, Family, Created

(* A new family is not the dead one, and the row that a rotation replaces  *)
(* is live, so its family is not the dead one either.                      *)
LEMMA DeadStep ==
  ASSUME IInv, [Next]_vars, NEW f \in Tokens, Dead(f)
  PROVE  Dead(f)'
<1>1. ASSUME NEW r \in Requests, CreateOnLogin(r) PROVE Dead(f)'
  <2>1. PICK n \in Tokens \ Created : Insert(n, req[r].user, n, None)
    BY <1>1 DEF CreateOnLogin
  <2>2. f # n
    BY DEF Dead, Family, IInv, RowShape
  <2>3. Family(f)' = Family(f)
    BY <2>1, <2>2 DEF Insert, Family, Created, IInv, TypeOK
  <2> QED BY <1>1, <2>3 DEF Dead, CreateOnLogin
<1>2. ASSUME NEW r \in Requests, RotateCommit(r) PROVE Dead(f)'
  <2> DEFINE t == req[r].tok
  <2>1. PICK n \in Tokens \ Created : Insert(n, userId[t], familyId[t], t)
    BY <1>2 DEF RotateCommit
  <2>2. t \in Live
    BY <1>2 DEF IInv, LockInv, RotateCommit
  <2>3. f # familyId[t]
    BY <2>2 DEF Dead, Family, Live
  <2>4. Family(f)' = Family(f)
    BY <2>1, <2>3 DEF Insert, Family, Created, IInv, TypeOK
  <2> QED BY <1>2, <2>4 DEF Dead, RotateCommit
<1>3. ASSUME NEW r \in Requests, Step(r), ~ CreateOnLogin(r), ~ RotateCommit(r)
      PROVE  UNCHANGED familyId /\ revoked \subseteq revoked'
  BY <1>3 DEF Step, RotateLock, ReuseSnapshot, ReuseRevoke, LogoutSnapshot,
     LogoutRevoke, RevokeOneSnapshot, RevokeOneRevoke, RevokeAllSnapshot,
     RevokeAllRevoke, Respond, RowsExhausted, Snapshot, Revoke, rowVars
<1>4. ASSUME NEW r \in Requests, Arrive(r) \/ Fail(r)
      PROVE  UNCHANGED familyId /\ revoked \subseteq revoked'
  BY <1>4 DEF Arrive, EnterLogin, EnterRevokeAll, EnterRefresh, EnterLogout,
     EnterRevokeOne, Enter, Fail, rowVars
<1>5. ASSUME NEW t \in Tokens, Expire(t)
      PROVE  UNCHANGED familyId /\ revoked \subseteq revoked'
  BY <1>5 DEF Expire, rowVars
<1>6. CASE UNCHANGED vars
  BY <1>6, SameRowsDead DEF vars
<1> QED BY <1>1, <1>2, <1>3, <1>4, <1>5, <1>6, SameRowsDead DEF Next

(* A family whose rows are all revoked is never brought back.              *)
THEOREM DeathIsFinal == Spec => FamilyDeathIsFinal
<1>1. IInv /\ [Next]_vars => [\A f \in Tokens : Dead(f) => Dead(f)']_vars
  BY DeadStep
<1> QED BY <1>1, Invariance, PTL DEF Spec, FamilyDeathIsFinal

(* A revocation changes the rows of its caller only.                       *)
LEMMA OwnRowsStep ==
  ASSUME IInv, [Next]_vars, NEW r \in Requests,
         req[r].op \in {"revokeOne", "revokeAll"},
         req[r].pc = "update", req'[r].pc = "done"
  PROVE  \A t \in revoked' \ revoked : userId[t] = req[r].user
<1>1. ASSUME NEW q \in Requests, Arrive(q) \/ Step(q) \/ Fail(q), q # r PROVE FALSE
  <2>1. req'[r] = req[r]
    BY <1>1 DEF Arrive, EnterLogin, EnterRevokeAll, EnterRefresh, EnterLogout,
       EnterRevokeOne, Enter, Fail, Step, CreateOnLogin, RotateLock, RotateCommit,
       ReuseSnapshot, ReuseRevoke, LogoutSnapshot, LogoutRevoke, RevokeOneSnapshot,
       RevokeOneRevoke, RevokeAllSnapshot, RevokeAllRevoke, Respond, RowsExhausted,
       Snapshot, Finish, IInv, TypeOK
  <2> QED BY <2>1
<1>2. ASSUME Arrive(r) \/ Fail(r) PROVE revoked' = revoked
  BY <1>2 DEF Arrive, EnterLogin, EnterRevokeAll, EnterRefresh, EnterLogout,
     EnterRevokeOne, Enter, Fail, rowVars
<1>3. ASSUME Step(r) PROVE revoked' \subseteq revoked \cup req[r].targets
  BY <1>3 DEF Step, CreateOnLogin, RotateLock, RotateCommit, ReuseSnapshot,
     ReuseRevoke, LogoutSnapshot, LogoutRevoke, RevokeOneSnapshot, RevokeOneRevoke,
     RevokeAllSnapshot, RevokeAllRevoke, Respond, RowsExhausted, Snapshot, Revoke,
     rowVars
<1>4. \A t \in req[r].targets : userId[t] = req[r].user
  BY DEF IInv, RequestInv
<1>5. ASSUME NEW t \in Tokens, Expire(t) PROVE revoked' = revoked
  BY <1>5 DEF Expire, rowVars
<1> QED BY <1>1, <1>2, <1>3, <1>4, <1>5 DEF Next, vars

(* DELETE /sessions/:id and revoke-all never touch another user's rows.    *)
THEOREM OwnRowsOnly == Spec => RevokesOwnRows
<1>1. IInv /\ [Next]_vars =>
        [\A r \in Requests :
           /\ req[r].op \in {"revokeOne", "revokeAll"}
           /\ req[r].pc = "update" /\ req'[r].pc = "done"
           => \A t \in revoked' \ revoked : userId[t] = req[r].user]_vars
  BY OwnRowsStep
<1> QED BY <1>1, Invariance, PTL DEF Spec, RevokesOwnRows
=============================================================================
