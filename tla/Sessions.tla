------------------------------ MODULE Sessions ------------------------------
(***************************************************************************)
(* Sign-in sessions as the API runs them: the refresh-token rows of        *)
(* RefreshFamilies, the session epoch behind the register of EpochRegister *)
(* (which EpochCache implements), and the stateless access tokens that tie *)
(* the two together.                                                       *)
(*                                                                         *)
(* Login and refresh change rows first and ask for the epoch afterwards;   *)
(* the guard of every other route compares the epoch of the presented      *)
(* token and never looks at the rows; revocation changes rows, then the    *)
(* epoch, then the cache.                                                  *)
(***************************************************************************)
EXTENDS Integers, FiniteSets

CONSTANTS
    Users, Tokens, Requests, Kinds, Expiry,
    MaxEpoch,   \* bound on session_epoch
    Faults,     \* may requests die part-way and Redis commands fail?
    None

ASSUME NoneIsNoValue == None \notin Users /\ None \notin Tokens
ASSUME BoundsAssumption ==
    /\ Kinds \subseteq {"login", "refresh", "logout", "revokeOne", "revokeAll"}
    /\ MaxEpoch \in Nat
    /\ Faults \in BOOLEAN /\ Expiry \in BOOLEAN

VARIABLES
    userId, familyId, prevTokenId, used, revoked, expired, req,
    epoch, settled, read,
    access,     \* the access tokens signed so far, expired ones included
    work,       \* what each request does before and after its row statements
    barred      \* auxiliary: rows of drained families that a bump was for

rowVars      == <<userId, familyId, prevTokenId, used, revoked, expired>>
familyVars   == <<rowVars, req>>
registerVars == <<epoch, settled, read>>
vars == <<familyVars, registerVars, access, work, barred>>

RF == INSTANCE RefreshFamilies
ER == INSTANCE EpochRegister

Epochs == 0..MaxEpoch

(* sid and epoch of a JWT; sub and fam are columns of the row sid.         *)
AccessToken == [sid : Tokens, epoch : Epochs]
Bearer(k) == userId[k.sid]

Work == [pc : {"idle", "guard", "totp", "mint", "bust"},
         op : {"none", "revokeOne", "revokeAll"}, user : Users \cup {None},
         tok : Tokens \cup {None}, epoch : Epochs]

NoWork == [pc |-> "idle", op |-> "none", user |-> None, tok |-> None, epoch |-> 0]

(* A family is drained when all its rows are revoked and no request is on  *)
(* its way to sign an access token for one of them.                        *)
Minting(r, f) == req[r].out = "issued" /\ familyId[req[r].tok] = f
Drained(f)    == RF!Dead(f) /\ \A r \in Requests : ~ Minting(r, f)

-----------------------------------------------------------------------------
Init ==
    /\ RF!Init /\ ER!RegisterInit
    /\ access = {} /\ barred = {}
    /\ work = [r \in Requests |-> NoWork]

Quiet(r) == req[r].pc = "idle" /\ work[r] = NoWork

(* POST /auth/login without 2FA, and POST /2fa/webauthn/finish-auth once   *)
(* the assertion is verified: the session row first, the epoch afterwards. *)
Login(r, u) ==
    /\ Quiet(r)
    /\ RF!EnterLogin(r, u)
    /\ UNCHANGED <<registerVars, access, work, barred>>

(* POST /2fa/totp/verify: the users row is read before the insert, straight*)
(* from PostgreSQL.                                                        *)
TotpLogin(r, u) ==
    /\ Quiet(r)
    /\ RF!EnterLogin(r, u)
    /\ work' = [work EXCEPT ![r] = [NoWork EXCEPT !.pc = "totp", !.epoch = epoch[u]]]
    /\ UNCHANGED <<registerVars, access, barred>>

(* POST /auth/refresh and POST /auth/logout carry only the cookie.         *)
Refresh(r, t) ==
    /\ Quiet(r)
    /\ RF!EnterRefresh(r, t)
    /\ UNCHANGED <<registerVars, access, work, barred>>

Logout(r, t) ==
    /\ Quiet(r)
    /\ RF!EnterLogout(r, t)
    /\ UNCHANGED <<registerVars, access, work, barred>>

(* DELETE /sessions/:id and POST /sessions/revoke-all present an access    *)
(* token: its signature and expiry hold, and the guard asks for the epoch. *)
Present(r, k, op, t) ==
    /\ Quiet(r)
    /\ op \in Kinds
    /\ ER!BeginRead(r, Bearer(k))
    /\ work' = [work EXCEPT ![r] = [pc |-> "guard", op |-> op, user |-> Bearer(k),
                                    tok |-> t, epoch |-> k.epoch]]
    /\ UNCHANGED <<familyVars, access, barred>>

(* The guard lets the request through only on equality.                    *)
Admit(r) ==
    LET w == work[r] IN
    /\ w.pc = "guard"
    /\ ER!CanAnswer(r, w.user, w.epoch)
    /\ ER!EndReads({r})
    /\ \/ w.op = "revokeOne" /\ RF!EnterRevokeOne(r, w.user, w.tok)
       \/ w.op = "revokeAll" /\ RF!EnterRevokeAll(r, w.user)
    /\ work' = [work EXCEPT ![r] = NoWork]
    /\ UNCHANGED <<access, barred>>

Deny(r) ==
    /\ work[r].pc = "guard"
    /\ \E v \in Epochs \ {work[r].epoch} : ER!CanAnswer(r, work[r].user, v)
    /\ ER!EndReads({r})
    /\ work' = [work EXCEPT ![r] = NoWork]
    /\ UNCHANGED <<familyVars, access, barred>>

(* Two epoch reads of a user share one database query.                     *)
Share(r, q) ==
    /\ \E u \in Users : ER!ShareRead(r, q, u)
    /\ UNCHANGED <<familyVars, access, work, barred>>

(* A statement of SessionService.                                          *)
Statement(r) ==
    /\ \/ RF!CreateOnLogin(r)
       \/ RF!RotateLock(r) \/ RF!RotateCommit(r)
       \/ RF!ReuseSnapshot(r) \/ RF!ReuseRevoke(r)
       \/ RF!LogoutSnapshot(r) \/ RF!LogoutRevoke(r)
       \/ RF!RevokeOneSnapshot(r) \/ RF!RevokeOneRevoke(r)
       \/ RF!RevokeAllSnapshot(r) \/ RF!RevokeAllRevoke(r)
    /\ UNCHANGED <<registerVars, access, work, barred>>

(* Mutant: getEpoch and sign whatever rotate answered.                     *)
GetEpoch_AnyVerdict(r) ==
    /\ req[r].op = "refresh" /\ req[r].pc = "done" /\ work[r].pc = "idle"
    /\ req[r].tok # None
    /\ ER!BeginRead(r, userId[req[r].tok])
    /\ work' = [work EXCEPT ![r] = [NoWork EXCEPT !.pc = "mint",
                                                  !.user = userId[req[r].tok]]]
    /\ UNCHANGED <<familyVars, access, barred>>

(* The session row is committed: getEpoch, then sign.                      *)
GetEpoch(r) ==
    /\ req[r].out = "issued" /\ work[r].pc = "idle"
    /\ ER!BeginRead(r, userId[req[r].tok])
    /\ work' = [work EXCEPT ![r] = [NoWork EXCEPT !.pc = "mint",
                                                  !.user = userId[req[r].tok]]]
    /\ UNCHANGED <<familyVars, access, barred>>

Sign(r, e) ==
    /\ access' = access \cup {[sid |-> req[r].tok, epoch |-> e]}
    /\ RF!Respond(r)
    /\ work' = [work EXCEPT ![r] = NoWork]
    /\ UNCHANGED barred

SignWithRead(r) ==
    /\ work[r].pc = "mint"
    /\ \E e \in Epochs : ER!CanAnswer(r, work[r].user, e) /\ Sign(r, e)
    /\ ER!EndReads({r})

SignTotp(r) ==
    /\ work[r].pc = "totp" /\ req[r].out = "issued"
    /\ Sign(r, work[r].epoch)
    /\ UNCHANGED registerVars

(* 401, 404, and the whole of logout: nothing after the row statements.    *)
AnswerPlainly(r) ==
    /\ \/ req[r].out \in {"invalid", "reused", "notFound"}
       \/ req[r].out = "revoked" /\ req[r].op = "logout"
    /\ RF!Respond(r)
    /\ UNCHANGED <<registerVars, access, work, barred>>

(* revokeOne and revokeAllForUser go on to bumpEpoch: the UPDATE of users, *)
(* then the bust of the cache.                                             *)
Revoking(r) == req[r].out = "revoked" /\ req[r].op \in {"revokeOne", "revokeAll"}

Bar(r) == barred' = barred \cup {t \in req[r].targets : Drained(familyId[t])}

(* Mutant: revokeOne does not bump the epoch.                              *)
BumpEpoch_RevokeAllOnly(r) ==
    /\ Revoking(r) /\ work[r].pc = "idle"
    /\ \/ req[r].op = "revokeAll" /\ ER!Bump(req[r].user)
       \/ req[r].op = "revokeOne" /\ UNCHANGED registerVars
    /\ Bar(r)
    /\ work' = [work EXCEPT ![r] = [NoWork EXCEPT !.pc = "bust"]]
    /\ UNCHANGED <<familyVars, access>>

(* Mutant: a failure of the UPDATE is logged, as one of the DEL is.        *)
BumpEpoch_Swallowed(r) ==
    /\ Revoking(r) /\ work[r].pc = "idle"
    /\ \/ ER!Bump(req[r].user)
       \/ Faults /\ UNCHANGED registerVars
    /\ Bar(r)
    /\ work' = [work EXCEPT ![r] = [NoWork EXCEPT !.pc = "bust"]]
    /\ UNCHANGED <<familyVars, access>>

BumpEpoch(r) ==
    /\ Revoking(r) /\ work[r].pc = "idle"
    /\ ER!Bump(req[r].user)
    /\ Bar(r)
    /\ work' = [work EXCEPT ![r] = [NoWork EXCEPT !.pc = "bust"]]
    /\ UNCHANGED <<familyVars, access>>

BustCache(r) ==
    /\ work[r].pc = "bust"
    /\ \/ ER!Settle(req[r].user)
       \/ Faults /\ UNCHANGED registerVars
    /\ RF!Respond(r)
    /\ work' = [work EXCEPT ![r] = NoWork]
    /\ UNCHANGED <<access, barred>>

(* The request dies: its connection is rolled back, its read is dropped.   *)
Abort(r) ==
    /\ Faults /\ ~ Quiet(r)
    /\ \/ RF!Fail(r)
       \/ RF!Respond(r)
       \/ req[r].pc = "idle" /\ UNCHANGED familyVars
    /\ ER!EndReads({r})
    /\ work' = [work EXCEPT ![r] = NoWork]
    /\ UNCHANGED <<access, barred>>

(* Bounds: out of rows, or out of epochs, a request dies.                  *)
OutOfBounds(r) ==
    /\ \/ RF!RowsExhausted(r)
       \/ /\ Revoking(r) /\ work[r].pc = "idle" /\ epoch[req[r].user] = MaxEpoch
          /\ RF!Respond(r)
    /\ work' = [work EXCEPT ![r] = NoWork]
    /\ UNCHANGED <<registerVars, access, barred>>

Expire(t) ==
    /\ RF!Expire(t)
    /\ UNCHANGED <<registerVars, access, work, barred>>

-----------------------------------------------------------------------------
Next ==
    \/ \E r \in Requests, u \in Users : Login(r, u) \/ TotpLogin(r, u)
    \/ \E r \in Requests, t \in RF!Created \cup {None} : Refresh(r, t) \/ Logout(r, t)
    \/ \E r \in Requests, k \in access, t \in RF!Created : Present(r, k, "revokeOne", t)
    \/ \E r \in Requests, k \in access : Present(r, k, "revokeAll", None)
    \/ \E r \in Requests : Admit(r) \/ Deny(r)
    \/ \E r, q \in Requests : Share(r, q)
    \/ \E r \in Requests : Statement(r)
    \/ \E r \in Requests : GetEpoch(r) \/ SignWithRead(r) \/ SignTotp(r)
    \/ \E r \in Requests : AnswerPlainly(r) \/ BumpEpoch(r) \/ BustCache(r)
    \/ \E r \in Requests : Abort(r) \/ OutOfBounds(r)
    \/ \E t \in Tokens : Expire(t)

Spec == Init /\ [][Next]_vars

-----------------------------------------------------------------------------
TypeOK ==
    /\ RF!TypeOK
    /\ epoch \in [Users -> Epochs] /\ settled \in [Users -> Epochs]
    /\ read \in [Requests -> ER!Read]
    /\ access \subseteq AccessToken
    /\ work \in [Requests -> Work]
    /\ barred \subseteq Tokens

(* When a family is dead and the requests that had just been given one of  *)
(* its rows are answered, nobody obtains an access token for it any more.  *)
TokensOf(f) == {k \in access : familyId[k.sid] = f}
DrainedIsFinal ==
    [][\A f \in Tokens : Drained(f) => Drained(f)' /\ TokensOf(f)' = TokensOf(f)]_vars

(* revokeOne and revokeAllForUser strand every access token of a drained   *)
(* family: from the bump on, none carries the current epoch.  A family     *)
(* with a request still to sign for it is not drained, and may yet get a   *)
(* token under the new epoch.                                              *)
RevokedFamiliesAreOut ==
    \A k \in access : \A t \in barred :
        familyId[k.sid] = familyId[t] => k.epoch < epoch[Bearer(k)]

-----------------------------------------------------------------------------
(* The inductive invariant behind the two safety properties:               *)
(*   Answers: what an answered request says is true of the rows, and a     *)
(*            revocation is its caller's.                                  *)
(*   Errands: what surrounds the statements of a request fits what it has  *)
(*            done so far, and asks for the epoch of the user it serves.   *)
(*   Signed:  a signed token names a row and no epoch of the future.       *)
(*   BarredAreDrained: what a bump was for cannot be signed for again.     *)
Answer(r) ==
    /\ req[r].pc = "done" <=> req[r].out # "none"
    /\ req[r].op \in {"revokeOne", "revokeAll"} => req[r].user \in Users
    /\ req[r].op = "login" => req[r].out \in {"none", "issued"}
    /\ req[r].out = "issued" =>
          /\ req[r].op \in {"login", "refresh"}
          /\ req[r].tok \in RF!Created
          /\ req[r].op = "login" => userId[req[r].tok] = req[r].user
    /\ Revoking(r) => \A t \in req[r].targets :
                         t \in RF!Created /\ userId[t] = req[r].user

Answers == \A r \in Requests : Answer(r)

Errand(r) ==
    /\ work[r].pc = "idle" => work[r] = NoWork
    /\ work[r].pc = "guard" =>
          /\ req[r].pc = "idle"
          /\ work[r].user \in Users
          /\ work[r].tok \in RF!Created \cup {None}
    /\ work[r].pc = "totp" =>
          /\ req[r].op = "login" /\ req[r].user \in Users
          /\ work[r].epoch <= epoch[req[r].user]
    /\ work[r].pc = "mint" =>
          /\ req[r].out = "issued"
          /\ work[r].user = userId[req[r].tok]
    /\ work[r].pc = "bust" => Revoking(r)

Errands == \A r \in Requests : Errand(r)

Signed == \A k \in access : k.sid \in RF!Created /\ k.epoch <= epoch[Bearer(k)]

BarredAreDrained ==
    \A t \in barred : t \in RF!Created /\ Drained(familyId[t])

IInv == /\ TypeOK /\ RF!IInv /\ Answers /\ Errands /\ Signed
        /\ BarredAreDrained /\ RevokedFamiliesAreOut
=============================================================================
