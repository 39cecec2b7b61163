-------------------------- MODULE RefreshFamilies --------------------------
(***************************************************************************)
(* The refresh-token rows of user_sessions and every statement the API     *)
(* runs against them: createOnLogin, rotate, revokeFamilyByToken,          *)
(* revokeOne and revokeAllForUser of SessionService.                       *)
(*                                                                         *)
(* A row is the refresh token it stores.  A family is named by its root    *)
(* row.  Requests run concurrently; PostgreSQL runs at READ COMMITTED:     *)
(*   - SELECT ... FOR UPDATE waits for the row lock and then reads the     *)
(*     latest committed version of the row;                                *)
(*   - an UPDATE ... WHERE picks its rows from a snapshot taken when the   *)
(*     statement starts, waits for the row locks, and skips a row whose    *)
(*     latest version no longer satisfies the WHERE.  A row committed      *)
(*     after the snapshot is not seen at all.                              *)
(* What a transaction writes is invisible until it commits, so its writes  *)
(* are one step, taken while it still holds its lock.  The row locks that  *)
(* an UPDATE outside a longer transaction takes end with the statement, so *)
(* they are not kept in the state: an UPDATE takes all of them at once.    *)
(* Two UPDATEs that wait for each other row by row are therefore not seen; *)
(* PostgreSQL ends such a wait by failing one of the two, which Fail does. *)
(***************************************************************************)
EXTENDS FiniteSets

CONSTANTS
    Users,
    Tokens,     \* rows of user_sessions, each with its refresh token
    Requests,   \* HTTP requests the API serves at the same time
    Kinds,      \* bound: the kinds of requests that arrive
    Expiry,     \* bound: do refresh tokens expire?
    None

ASSUME NoneIsNoValue == None \notin Users /\ None \notin Tokens
ASSUME BoundsAssumption ==
    /\ Kinds \subseteq {"login", "refresh", "logout", "revokeOne", "revokeAll"}
    /\ Expiry \in BOOLEAN

VARIABLES
    userId,     \* owner of each row, None if the row does not exist
    familyId,   \* root row of each row's family, None if no row
    prevTokenId,\* the row it was rotated from, None for a root
    used,       \* rows with used_at set
    revoked,    \* rows with revoked_at set
    expired,    \* rows whose expires_at has passed
    req         \* what each request is doing

rowVars == <<userId, familyId, prevTokenId, used, revoked>>
vars == <<userId, familyId, prevTokenId, used, revoked, expired, req>>

Ops  == {"none", "login", "refresh", "logout", "revokeOne", "revokeAll"}
Pcs  == {"idle", "begin", "insert", "reuse", "update", "done"}
Outs == {"none", "issued", "invalid", "reused", "revoked", "notFound"}

Request == [op : Ops, pc : Pcs, user : Users \cup {None},
            tok : Tokens \cup {None}, targets : SUBSET Tokens, out : Outs]

Idle == [op |-> "none", pc |-> "idle", user |-> None, tok |-> None,
         targets |-> {}, out |-> "none"]

Created   == {t \in Tokens : familyId[t] # None}
Live      == Created \ revoked                    \* revoked_at IS NULL
Family(f) == {t \in Created : familyId[t] = f}

(* The row locks: a rotation keeps the row it presented locked from the    *)
(* SELECT ... FOR UPDATE until its transaction ends.                       *)
Holds(r, t) == /\ req[r].op = "refresh"
               /\ req[r].pc \in {"insert", "reuse", "update"}
               /\ req[r].tok = t
FreeFor(r, rows) == \A q \in Requests \ {r} : \A t \in rows : ~ Holds(q, t)

-----------------------------------------------------------------------------
Init ==
    /\ userId = [t \in Tokens |-> None]
    /\ familyId = [t \in Tokens |-> None]
    /\ prevTokenId = [t \in Tokens |-> None]
    /\ used = {} /\ revoked = {} /\ expired = {}
    /\ req = [r \in Requests |-> Idle]

Enter(r, op, u, t) ==
    /\ op \in Kinds
    /\ req[r].pc = "idle"
    /\ req' = [req EXCEPT ![r] = [op |-> op, pc |-> "begin", user |-> u, tok |-> t,
                                  targets |-> {}, out |-> "none"]]
    /\ UNCHANGED <<rowVars, expired>>

(* A presented token is one the API once issued; t = None is any other.    *)
EnterLogin(r, u)        == Enter(r, "login", u, None)
EnterRefresh(r, t)      == Enter(r, "refresh", None, t)
EnterLogout(r, t)       == Enter(r, "logout", None, t)
EnterRevokeOne(r, u, t) == Enter(r, "revokeOne", u, t)
EnterRevokeAll(r, u)    == Enter(r, "revokeAll", u, None)

Finish(r, out, t) ==
    req' = [req EXCEPT ![r].pc = "done", ![r].out = out, ![r].tok = t]

Insert(t, u, f, p) ==
    /\ userId' = [userId EXCEPT ![t] = u]
    /\ familyId' = [familyId EXCEPT ![t] = f]
    /\ prevTokenId' = [prevTokenId EXCEPT ![t] = p]

(* createOnLogin: the root row of a new family.                            *)
CreateOnLogin(r) ==
    /\ req[r].op = "login" /\ req[r].pc = "begin"
    /\ \E n \in Tokens \ Created :
          /\ Insert(n, req[r].user, n, None)
          /\ Finish(r, "issued", n)
    /\ UNCHANGED <<used, revoked, expired>>

(* Mutant: SELECT without FOR UPDATE.                                      *)
RotateLock_NoForUpdate(r) ==
    LET t == req[r].tok IN
    /\ req[r].op = "refresh" /\ req[r].pc = "begin"
    /\ t \in Created
    /\ \/ t \in used /\ req' = [req EXCEPT ![r].pc = "reuse"]
       \/ t \notin revoked \cup expired /\ req' = [req EXCEPT ![r].pc = "insert"]
    /\ UNCHANGED <<rowVars, expired>>

(* Mutant: revoked_at is not looked at.                                    *)
RotateLock_NoRevokedCheck(r) ==
    LET t == req[r].tok IN
    /\ req[r].op = "refresh" /\ req[r].pc = "begin"
    /\ t \in Created /\ FreeFor(r, {t})
    /\ \/ t \in used /\ req' = [req EXCEPT ![r].pc = "reuse"]
       \/ t \notin used \cup expired /\ req' = [req EXCEPT ![r].pc = "insert"]
    /\ UNCHANGED <<rowVars, expired>>

(* Mutant: used_at is not looked at before revoked_at is.                  *)
RotateLock_NoReuseCheck(r) ==
    LET t == req[r].tok IN
    /\ req[r].op = "refresh" /\ req[r].pc = "begin"
    /\ t \in Created \ expired /\ FreeFor(r, {t})
    /\ req' = [req EXCEPT ![r].pc = "insert"]
    /\ UNCHANGED <<rowVars, expired>>

(* rotate: SELECT ... FOR UPDATE by token hash, then the three verdicts.   *)
(* An "invalid" verdict ends the transaction at once.                      *)
RotateLock(r) ==
    LET t == req[r].tok IN
    /\ req[r].op = "refresh" /\ req[r].pc = "begin"
    /\ FreeFor(r, {t})
    /\ \/ /\ t \notin Created
          /\ Finish(r, "invalid", t)
       \/ /\ t \in used
          /\ req' = [req EXCEPT ![r].pc = "reuse"]
       \/ /\ t \in Created \ used
          /\ t \in revoked \cup expired
          /\ Finish(r, "invalid", t)
       \/ /\ t \in Created \ (used \cup revoked \cup expired)
          /\ req' = [req EXCEPT ![r].pc = "insert"]
    /\ UNCHANGED <<rowVars, expired>>

(* Mutant: the old row is stamped used_at but not revoked_at.              *)
RotateCommit_UsedOnly(r) ==
    LET t == req[r].tok IN
    /\ req[r].op = "refresh" /\ req[r].pc = "insert"
    /\ \E n \in Tokens \ Created :
          /\ Insert(n, userId[t], familyId[t], t)
          /\ Finish(r, "issued", n)
    /\ used' = used \cup {t}
    /\ UNCHANGED <<revoked, expired>>

(* rotate: the successor row, used_at and revoked_at of the old one, and   *)
(* the commit that publishes both and releases the lock.                   *)
RotateCommit(r) ==
    LET t == req[r].tok IN
    /\ req[r].op = "refresh" /\ req[r].pc = "insert"
    /\ \E n \in Tokens \ Created :
          /\ Insert(n, userId[t], familyId[t], t)
          /\ Finish(r, "issued", n)
    /\ used' = used \cup {t}
    /\ revoked' = revoked \cup {t}
    /\ UNCHANGED expired

(* An UPDATE ... SET revoked_at statement: its snapshot, and its effect    *)
(* once no other transaction holds one of the rows it picked.              *)
Snapshot(r, rows) ==
    /\ req' = [req EXCEPT ![r].pc = "update", ![r].targets = rows]
    /\ UNCHANGED <<rowVars, expired>>

Revoke(r) ==
    /\ FreeFor(r, req[r].targets)
    /\ revoked' = revoked \cup req[r].targets
    /\ UNCHANGED <<userId, familyId, prevTokenId, used, expired>>

(* Mutant: the UPDATE lacks "revoked_at IS NULL" and visits used rows too. *)
ReuseSnapshot_WholeFamily(r) ==
    /\ req[r].op = "refresh" /\ req[r].pc = "reuse"
    /\ Snapshot(r, Family(familyId[req[r].tok]))

(* rotate, reuse branch: revoke the family inside the same transaction.    *)
ReuseSnapshot(r) ==
    /\ req[r].op = "refresh" /\ req[r].pc = "reuse"
    /\ Snapshot(r, Family(familyId[req[r].tok]) \ revoked)

ReuseRevoke(r) ==
    /\ req[r].op = "refresh" /\ req[r].pc = "update"
    /\ Revoke(r)
    /\ Finish(r, "reused", req[r].tok)

(* revokeFamilyByToken: the SELECT by hash returns columns that never      *)
(* change, so it is one step with the snapshot of the UPDATE it precedes.  *)
LogoutSnapshot(r) ==
    LET t == req[r].tok IN
    /\ req[r].op = "logout" /\ req[r].pc = "begin"
    /\ \/ /\ t \notin Created
          /\ Finish(r, "notFound", t)
          /\ UNCHANGED <<rowVars, expired>>
       \/ /\ t \in Created
          /\ Snapshot(r, Family(familyId[t]) \ revoked)

LogoutRevoke(r) ==
    /\ req[r].op = "logout" /\ req[r].pc = "update"
    /\ Revoke(r)
    /\ Finish(r, "revoked", req[r].tok)

(* Mutant: the SELECT does not compare user_id.                            *)
RevokeOneSnapshot_AnyOwner(r) ==
    /\ req[r].op = "revokeOne" /\ req[r].pc = "begin"
    /\ req[r].tok \in Created
    /\ Snapshot(r, Family(familyId[req[r].tok]) \ revoked)

(* revokeOne: the row must belong to the caller, the whole family goes;    *)
(* an UPDATE that changes no row is reported as not found.                 *)
RevokeOneSnapshot(r) ==
    LET t == req[r].tok
        owned == {x \in Created : userId[x] = req[r].user}
    IN
    /\ req[r].op = "revokeOne" /\ req[r].pc = "begin"
    /\ \/ /\ t \notin owned
          /\ Finish(r, "notFound", t)
          /\ UNCHANGED <<rowVars, expired>>
       \/ /\ t \in owned
          /\ Snapshot(r, Family(familyId[t]) \ revoked)

RevokeOneRevoke(r) ==
    /\ req[r].op = "revokeOne" /\ req[r].pc = "update"
    /\ Revoke(r)
    /\ \/ /\ req[r].targets \subseteq revoked
          /\ Finish(r, "notFound", req[r].tok)
       \/ /\ ~ (req[r].targets \subseteq revoked)
          /\ Finish(r, "revoked", req[r].tok)

(* revokeAllForUser: one UPDATE over every non-revoked row of the user.    *)
RevokeAllSnapshot(r) ==
    /\ req[r].op = "revokeAll" /\ req[r].pc = "begin"
    /\ Snapshot(r, {t \in Live : userId[t] = req[r].user})

RevokeAllRevoke(r) ==
    /\ req[r].op = "revokeAll" /\ req[r].pc = "update"
    /\ Revoke(r)
    /\ Finish(r, "revoked", req[r].tok)

(* The response is sent.                                                   *)
Respond(r) ==
    /\ req[r].pc = "done"
    /\ req' = [req EXCEPT ![r] = Idle]
    /\ UNCHANGED <<rowVars, expired>>

(* A statement fails or the process dies: PostgreSQL rolls the open        *)
(* transaction back and drops its locks.                                   *)
Fail(r) ==
    /\ req[r].pc \notin {"idle", "done"}
    /\ req' = [req EXCEPT ![r] = Idle]
    /\ UNCHANGED <<rowVars, expired>>

(* Bound: when every row of Tokens exists, an INSERT fails.                *)
RowsExhausted(r) ==
    /\ Created = Tokens
    /\ \/ req[r].op = "login" /\ req[r].pc = "begin"
       \/ req[r].op = "refresh" /\ req[r].pc = "insert"
    /\ req' = [req EXCEPT ![r] = Idle]
    /\ UNCHANGED <<rowVars, expired>>

(* expires_at passes; a successor always expires after its predecessor.    *)
Expire(t) ==
    /\ Expiry
    /\ t \in Created \ expired
    /\ prevTokenId[t] \in expired \cup {None}
    /\ expired' = expired \cup {t}
    /\ UNCHANGED <<rowVars, req>>

-----------------------------------------------------------------------------
Arrive(r) ==
    \/ \E u \in Users : EnterLogin(r, u) \/ EnterRevokeAll(r, u)
    \/ \E t \in Created \cup {None} : EnterRefresh(r, t) \/ EnterLogout(r, t)
    \/ \E u \in Users, t \in Created \cup {None} : EnterRevokeOne(r, u, t)

Step(r) ==
    \/ CreateOnLogin(r)
    \/ RotateLock(r) \/ RotateCommit(r) \/ ReuseSnapshot(r) \/ ReuseRevoke(r)
    \/ LogoutSnapshot(r) \/ LogoutRevoke(r)
    \/ RevokeOneSnapshot(r) \/ RevokeOneRevoke(r)
    \/ RevokeAllSnapshot(r) \/ RevokeAllRevoke(r)
    \/ Respond(r) \/ RowsExhausted(r)

Next ==
    \/ \E r \in Requests : Arrive(r) \/ Step(r) \/ Fail(r)
    \/ \E t \in Tokens : Expire(t)

Spec == Init /\ [][Next]_vars

(* A handler whose statement can run does run.  A statement that waits for *)
(* a row lock is queued by PostgreSQL, so it gets the lock if the lock is  *)
(* free again and again.  Nothing forces a request to arrive or to fail.   *)
Fairness == \A r \in Requests : SF_vars(Step(r))

LiveSpec == Spec /\ Fairness

-----------------------------------------------------------------------------
(* The types, and the order in which a row's columns are stamped: a row    *)
(* that was rotated away is revoked, and only rows that exist are stamped. *)
TypeOK ==
    /\ userId \in [Tokens -> Users \cup {None}]
    /\ familyId \in [Tokens -> Tokens \cup {None}]
    /\ prevTokenId \in [Tokens -> Tokens \cup {None}]
    /\ used \subseteq revoked /\ revoked \subseteq Created
    /\ expired \subseteq Created
    /\ req \in [Requests -> Request]

(* A family has at most one row that is not revoked, whatever rotations,   *)
(* replays and revocations overlap: of two requests that present the same  *)
(* refresh token one waits for the other's row lock and then sees used_at. *)
OneLiveRow == \A a, b \in Live : familyId[a] = familyId[b] => a = b

(* A refresh token is redeemed at most once: no row has two successors.    *)
RedeemedOnce ==
    \A a, b \in Created :
        prevTokenId[a] # None /\ prevTokenId[a] = prevTokenId[b] => a = b

(* All rows of a family have one owner.  revokeOne rests on it: it checks  *)
(* the owner of one row and then revokes the whole family.                 *)
OneOwner ==
    \A a, b \in Created : familyId[a] = familyId[b] => userId[a] = userId[b]

(* DELETE /sessions/:id and revoke-all touch the caller's rows only.       *)
RevokesOwnRows ==
    [][\A r \in Requests :
         /\ req[r].op \in {"revokeOne", "revokeAll"}
         /\ req[r].pc = "update" /\ req'[r].pc = "done"
         => \A t \in revoked' \ revoked : userId[t] = req[r].user]_vars

Dead(f) == Family(f) # {} /\ Family(f) \subseteq revoked

(* A family whose rows are all revoked stays dead: no rotation that was    *)
(* already under way when the last row was revoked brings it back.         *)
FamilyDeathIsFinal == [][\A f \in Tokens : Dead(f) => Dead(f)']_vars

(* Every request is answered: rotations never wait for each other in a     *)
(* circle, although the reuse branch updates the other rows of the family  *)
(* while it holds the lock on the row that was replayed.                   *)
RequestsTerminate ==
    \A r \in Requests : req[r].pc # "idle" ~> req[r].pc = "idle"

(* The strengthening that makes the invariants above inductive.            *)
(*   RowShape:  a row's family is named by a row, its predecessor is used. *)
(*   LockInv:   a row lock has one holder, and the row that a rotation is  *)
(*              about to replace stays live while it is locked.            *)
(*   RequestInv: a login is a user's, and an UPDATE holds existing rows,   *)
(*              the caller's where it asked for that.                      *)
RowShape ==
    \A t \in Created : /\ userId[t] \in Users
                       /\ familyId[t] \in Created
                       /\ prevTokenId[t] \in used \cup {None}

LockInv ==
    \A r \in Requests :
        req[r].op = "refresh" =>
            /\ req[r].pc = "insert" => req[r].tok \in Live
            /\ req[r].pc \in {"reuse", "update"} => req[r].tok \in Created
            /\ \A q \in Requests, t \in Tokens :
                  Holds(r, t) /\ Holds(q, t) => q = r

RequestInv ==
    \A r \in Requests :
        /\ req[r].op = "login" => req[r].user \in Users
        /\ req[r].pc = "update" =>
              /\ req[r].targets \subseteq Created
              /\ req[r].op \in {"revokeOne", "revokeAll"} =>
                    \A t \in req[r].targets : userId[t] = req[r].user

IInv == /\ TypeOK /\ RowShape /\ LockInv /\ RequestInv
        /\ OneLiveRow /\ RedeemedOnce /\ OneOwner

-----------------------------------------------------------------------------
(* What a comment of the code says, and concurrency refutes.               *)

Survivors(r) == {t \in Live : \E x \in req[r].targets :
                                 familyId[t] = familyId[x]}

(* "revoke EVERY non-revoked session row for userId": once the UPDATE of   *)
(* revokeAllForUser is done, no family it found alive is alive.  The three *)
(* UPDATEs by family_id have the same shape and the same gap.              *)
RevokeAllIsComplete ==
    \A r \in Requests :
        req[r].op = "revokeAll" /\ req[r].pc = "done" => Survivors(r) = {}
=============================================================================
