------------------------------ MODULE Sharing ------------------------------
(***************************************************************************)
(* Shared vaults: vaults, vault_memberships and the endpoints that write   *)
(* them, behind Require2FAGuard.                                           *)
(*                                                                         *)
(* A request is at a statement boundary of its handler.  The guard counts  *)
(* the caller's second factors first; what the handler checks and what it  *)
(* writes are separate statements, in one transaction for removeMember     *)
(* only.  Rows are never reused: a user who is invited again after a       *)
(* removal gets a new row, with a new invitation id.                       *)
(***************************************************************************)
EXTENDS FiniteSets

CONSTANTS Users, Vaults, Rows, Requests, None

ASSUME NoneIsNobody == None \notin Users \cup Vaults \cup Rows

VARIABLES
    creator,    \* vaults.owner_user_id, None before the vault exists
    row,        \* vault_memberships by id
    secured,    \* users with a second factor: module TwoFactor
    req

vars == <<creator, row, secured, req>>

Statuses == {"unused", "pending", "active", "revoked", "deleted"}
Ops  == {"none", "create", "invite", "accept", "decline", "remove"}
Pcs  == {"idle", "begin", "insert", "lock", "count", "delete", "done"}
Outs == {"none", "ok", "denied", "error"}

Row     == [vault : Vaults \cup {None}, user : Users \cup {None},
            role : {"owner", "member"}, status : Statuses]
Request == [op : Ops, pc : Pcs, user : Users \cup {None}, vault : Vaults \cup {None},
            target : Users \cup {None}, row : Rows \cup {None}, out : Outs]

NoRow == [vault |-> None, user |-> None, role |-> "member", status |-> "unused"]
Idle  == [op |-> "none", pc |-> "idle", user |-> None, vault |-> None,
          target |-> None, row |-> None, out |-> "none"]

Unused       == {m \in Rows : row[m].status = "unused"}
Present      == {m \in Rows : row[m].status \notin {"unused", "deleted"}}
Of(v, u)     == {m \in Present : row[m].vault = v /\ row[m].user = u}
Active(v, u) == {m \in Of(v, u) : row[m].status = "active"}
Owned(v, u)  == {m \in Active(v, u) : row[m].role = "owner"}

Init ==
    /\ creator = [v \in Vaults |-> None]
    /\ row = [m \in Rows |-> NoRow]
    /\ secured = {}
    /\ req = [r \in Requests |-> Idle]

(* What remains of an ended request is what the properties look at.        *)
End(r, out) ==
    req' = [req EXCEPT ![r] = IF out = "ok" /\ @.op = "remove"
                              THEN [@ EXCEPT !.pc = "done", !.out = out] ELSE Idle]
GoTo(r, pc) == req' = [req EXCEPT ![r].pc = pc]

-----------------------------------------------------------------------------
(* A user enrols a first method or removes the last: removeGuarded lets the*)
(* last one go, for userHasSharedVaultDependency is always false.          *)
Secure(u)   == u \notin secured /\ secured' = secured \cup {u}
               /\ UNCHANGED <<creator, row, req>>
Unsecure(u) == u \in secured /\ secured' = secured \ {u}
               /\ UNCHANGED <<creator, row, req>>

(* Require2FAGuard lets only callers with a second factor through.         *)
Enter(r, u, op, v, target, m) ==
    /\ req[r].pc = "idle" /\ u \in secured
    /\ req' = [req EXCEPT ![r] = [op |-> op, pc |-> "begin", user |-> u, vault |-> v,
                                  target |-> target, row |-> m, out |-> "none"]]
    /\ UNCHANGED <<creator, row, secured>>

(* createGroupVault: one transaction, seen by nobody before it commits.    *)
CreateVault(r) ==
    /\ req[r].op = "create" /\ req[r].pc = "begin"
    /\ \E v \in Vaults, m \in Unused :
          /\ creator[v] = None
          /\ creator' = [creator EXCEPT ![v] = req[r].user]
          /\ row' = [row EXCEPT ![m] = [vault |-> v, user |-> req[r].user,
                                        role |-> "owner", status |-> "active"]]
    /\ End(r, "ok")
    /\ UNCHANGED secured

(* createInvite: the caller is an active owner at the SELECT ...           *)
CheckInviter(r) ==
    /\ req[r].op = "invite" /\ req[r].pc = "begin"
    /\ IF Owned(req[r].vault, req[r].user) # {} THEN GoTo(r, "insert") ELSE End(r, "denied")
    /\ UNCHANGED <<creator, row, secured>>

(* Mutant: nobody by that address, and the row is inserted all the same.   *)
InsertInvite_NoTarget(r) ==
    /\ req[r].op = "invite" /\ req[r].pc = "insert"
    /\ \E m \in Unused :
          row' = [row EXCEPT ![m] = [vault |-> req[r].vault, user |-> None,
                                     role |-> "member", status |-> "pending"]]
    /\ End(r, "ok")
    /\ UNCHANGED <<creator, secured>>

(* ... and the INSERT comes later.  Any row of the pair, a declined one    *)
(* included, makes it a unique violation.  The handler looks for the code  *)
(* 23505 on the error itself; Drizzle has it on the error's cause (see     *)
(* signup.service.ts), so what the caller gets is not the 409.             *)
InsertInvite(r) ==
    /\ req[r].op = "invite" /\ req[r].pc = "insert"
    /\ \/ /\ Of(req[r].vault, req[r].target) = {}
          /\ \E m \in Unused :
                row' = [row EXCEPT ![m] = [vault |-> req[r].vault, user |-> req[r].target,
                                           role |-> "member", status |-> "pending"]]
          /\ End(r, "ok")
       \/ /\ Of(req[r].vault, req[r].target) # {}
          /\ End(r, "error")
          /\ UNCHANGED row
    /\ UNCHANGED <<creator, secured>>

(* acceptInvite and declineInvite: one UPDATE, by id, user and status.     *)
Answer(r, op, status) ==
    LET m == req[r].row IN
    /\ req[r].op = op /\ req[r].pc = "begin"
    /\ IF row[m].user = req[r].user /\ row[m].status = "pending"
       THEN row' = [row EXCEPT ![m].status = status] /\ End(r, "ok")
       ELSE UNCHANGED row /\ End(r, "denied")
    /\ UNCHANGED <<creator, secured>>

(* Mutant: the UPDATE does not ask for status = 'pending'.                 *)
AcceptInvite_AnyStatus(r) ==
    LET m == req[r].row IN
    /\ req[r].op = "accept" /\ req[r].pc = "begin"
    /\ IF row[m].user = req[r].user /\ row[m].status # "deleted"
       THEN row' = [row EXCEPT ![m].status = "active"] /\ End(r, "ok")
       ELSE UNCHANGED row /\ End(r, "denied")
    /\ UNCHANGED <<creator, secured>>

AcceptInvite(r)  == Answer(r, "accept", "active")
DeclineInvite(r) == Answer(r, "decline", "revoked")

-----------------------------------------------------------------------------
(* removeMember: permission, FOR UPDATE of the target row, last-owner      *)
(* guard, DELETE.  The row stays locked until the transaction ends.        *)
Holds(r, m) == req[r].op = "remove" /\ req[r].pc \in {"count", "delete"} /\ req[r].row = m

CheckRemover(r) ==
    LET q == req[r] IN
    /\ q.op = "remove" /\ q.pc = "begin"
    /\ IF (IF q.user = q.target THEN Active(q.vault, q.user) ELSE Owned(q.vault, q.user)) # {}
       THEN GoTo(r, "lock") ELSE End(r, "denied")
    /\ UNCHANGED <<creator, row, secured>>

(* Mutant: SELECT without FOR UPDATE.                                      *)
LockTarget_NoLock(r) ==
    LET q == req[r] IN
    /\ q.op = "remove" /\ q.pc = "lock"
    /\ \/ \E m \in Active(q.vault, q.target) :
             req' = [req EXCEPT ![r].row = m,
                                ![r].pc = IF row[m].role = "owner" THEN "count" ELSE "delete"]
       \/ Active(q.vault, q.target) = {} /\ End(r, "denied")
    /\ UNCHANGED <<creator, row, secured>>

LockTarget(r) ==
    LET q == req[r] IN
    /\ q.op = "remove" /\ q.pc = "lock"
    /\ \/ \E m \in Active(q.vault, q.target) :
             /\ \A p \in Requests : ~ Holds(p, m)
             /\ req' = [req EXCEPT ![r].row = m,
                                   ![r].pc = IF row[m].role = "owner" THEN "count" ELSE "delete"]
       \/ Active(q.vault, q.target) = {} /\ End(r, "denied")
    /\ UNCHANGED <<creator, row, secured>>

(* Mutant: the guard compares with zero.                                   *)
CountOwners_Zero(r) ==
    /\ req[r].pc = "count"
    /\ GoTo(r, "delete")
    /\ UNCHANGED <<creator, row, secured>>

(* PostgreSQL refuses FOR UPDATE with an aggregate, so the guard's SELECT  *)
(* fails and the transaction rolls back: an owner is never removed.        *)
CountOwners(r) ==
    /\ req[r].pc = "count"
    /\ End(r, "error")
    /\ UNCHANGED <<creator, row, secured>>

DeleteMember(r) ==
    LET q == req[r] IN
    /\ q.op = "remove" /\ q.pc = "delete"
    /\ row' = [m \in Rows |-> IF m \in Active(q.vault, q.target)
                              THEN [row[m] EXCEPT !.status = "deleted"] ELSE row[m]]
    /\ End(r, "ok")
    /\ UNCHANGED <<creator, secured>>

(* The process dies or the connection breaks: the transaction rolls back.  *)
Die(r) ==
    /\ req[r].pc \notin {"idle", "done"}
    /\ End(r, "none")
    /\ UNCHANGED <<creator, row, secured>>

-----------------------------------------------------------------------------
(* The endpoints: any caller may name any vault, user or invitation there  *)
(* is.                                                                     *)
Founded == {v \in Vaults : creator[v] # None}
PostVault(r)     == \E u \in Users : Enter(r, u, "create", None, None, None)
PostInvite(r)    == \E u, w \in Users, v \in Founded : Enter(r, u, "invite", v, w, None)
PostAccept(r)    == \E u \in Users, m \in Rows \ Unused : Enter(r, u, "accept", None, None, m)
PostDecline(r)   == \E u \in Users, m \in Rows \ Unused : Enter(r, u, "decline", None, None, m)
DeleteFromVault(r) == \E u, w \in Users, v \in Founded : Enter(r, u, "remove", v, w, None)

Next ==
    \/ \E u \in Users : Secure(u) \/ Unsecure(u)
    \/ \E r \in Requests :
          \/ PostVault(r) \/ PostInvite(r) \/ PostAccept(r) \/ PostDecline(r) \/ DeleteFromVault(r)
          \/ CreateVault(r) \/ CheckInviter(r) \/ InsertInvite(r)
          \/ AcceptInvite(r) \/ DeclineInvite(r)
          \/ CheckRemover(r) \/ LockTarget(r) \/ CountOwners(r) \/ DeleteMember(r)
          \/ Die(r)

Spec == Init /\ [][Next]_vars

-----------------------------------------------------------------------------
TypeOK ==
    /\ creator \in [Vaults -> Users \cup {None}]
    /\ row \in [Rows -> Row]
    /\ \A m \in Rows \ Unused : row[m].vault # None /\ row[m].user # None
    /\ secured \subseteq Users
    /\ req \in [Requests -> Request]

(* Two rules say who may use a vault's credentials: credentials.service    *)
(* asks for vaults.owner_user_id or an active membership, getVaultSummary  *)
(* of a shared vault for an active membership only.  They agree because the*)
(* creator's row is always there: an owner who lost it would keep writing  *)
(* to a vault they can no longer list.                                     *)
RulesAgree ==
    \A v \in Vaults, u \in Users :
        creator[v] = u <=> Owned(v, u) # {}

(* A removal that answers 204 removed a row, and no two removed the same:  *)
(* the second of two concurrent removals waits for the row lock and then   *)
(* finds nothing.                                                          *)
Removals == {r \in Requests : req[r].op = "remove" /\ req[r].out = "ok"}
RemovedOnce ==
    \A r, q \in Removals : r # q => req[r].row # req[q].row

(* Whatever requests overlap, a vault's memberships move only as           *)
(* Membership says.                                                        *)
Standing(x) == IF x.status = "pending" THEN "invited"
               ELSE IF x.status = "revoked" THEN "declined" ELSE x.role
StandingOf(v, u) ==
    IF Of(v, u) = {} THEN "none" ELSE Standing(row[CHOOSE m \in Of(v, u) : TRUE])

standing == [v \in Vaults |-> [u \in Users |-> StandingOf(v, u)]]
MB == INSTANCE Membership WITH member <- standing
ImplementsMembership == MB!Spec

=============================================================================
