------------------------------- MODULE Signup -------------------------------
(***************************************************************************)
(* Invite codes and signup.  The operator's CLI inserts codes, several for *)
(* one address if it likes; POST /auth/signup redeems one in a transaction *)
(* that locks the code, inserts the user, their personal vault and the     *)
(* redemption, and commits.                                                *)
(*                                                                         *)
(* What a transaction wrote is in its request until it commits.  A row     *)
(* lock, and an uncommitted entry of a unique index, make others wait.     *)
(***************************************************************************)
EXTENDS FiniteSets

CONSTANTS Emails, Accounts, Codes, Requests, None

VARIABLES
    invited,    \* invite_codes: code -> address, None before it is issued
    expired,    \* codes whose expires_at has passed
    redeemed,   \* invite_codes.redeemed_user_id
    email,      \* users.email, None while there is no such row
    personal,   \* personal vaults: the accounts that own one
    req,
    winners     \* auxiliary: the requests whose transaction redeemed a code

vars == <<invited, expired, redeemed, email, personal, req, winners>>

Request == [pc : {"idle", "begin", "locked", "inserted"},
            code : Codes \cup {None}, account : Accounts \cup {None}]
Idle == [pc |-> "idle", code |-> None, account |-> None]

Init ==
    /\ invited = [k \in Codes |-> None] /\ expired = {}
    /\ redeemed = [k \in Codes |-> None]
    /\ email = [a \in Accounts |-> None] /\ personal = {}
    /\ req = [r \in Requests |-> Idle]
    /\ winners = [k \in Codes |-> {}]

Put(r, record) == req' = [req EXCEPT ![r] = record]
rowVars == <<invited, expired, redeemed, email, personal, winners>>

InTransaction(r) == req[r].pc \in {"locked", "inserted"}
Taken(a) == email[a] # None \/ \E r \in Requests : req[r].account = a

-----------------------------------------------------------------------------
(* CLI: invite create.                                                     *)
InviteCreate(k, e) ==
    /\ invited[k] = None
    /\ invited' = [invited EXCEPT ![k] = e]
    /\ UNCHANGED <<expired, redeemed, email, personal, req, winners>>

Expire(k) ==
    /\ invited[k] # None /\ k \notin expired
    /\ expired' = expired \cup {k}
    /\ UNCHANGED <<invited, redeemed, email, personal, req, winners>>

(* InviteService.redeem has told the client the code's id.                 *)
Submit(r, k) ==
    /\ req[r].pc = "idle" /\ invited[k] # None
    /\ Put(r, [Idle EXCEPT !.pc = "begin", !.code = k])
    /\ UNCHANGED rowVars

(* Mutant: expires_at is not compared.                                     *)
LockInvite_NoExpiry(r) ==
    LET k == req[r].code IN
    /\ req[r].pc = "begin"
    /\ \A q \in Requests : InTransaction(q) => req[q].code # k
    /\ Put(r, IF redeemed[k] # None THEN Idle ELSE [req[r] EXCEPT !.pc = "locked"])
    /\ UNCHANGED rowVars

(* SELECT ... FOR UPDATE, then the checks.                                 *)
LockInvite(r) ==
    LET k == req[r].code IN
    /\ req[r].pc = "begin"
    /\ \A q \in Requests : InTransaction(q) => req[q].code # k
    /\ Put(r, IF k \in expired \/ redeemed[k] # None THEN Idle ELSE [req[r] EXCEPT !.pc = "locked"])
    /\ UNCHANGED rowVars

(* Mutant: nothing makes addresses unique.                                 *)
InsertUser_NoIndex(r) ==
    /\ req[r].pc = "locked"
    /\ \E a \in Accounts : ~ Taken(a) /\ Put(r, [req[r] EXCEPT !.pc = "inserted", !.account = a])
    /\ UNCHANGED rowVars

(* INSERT INTO users: users_email_lower_idx.  A violation rolls back.      *)
InsertUser(r) ==
    LET e == invited[req[r].code] IN
    /\ req[r].pc = "locked"
    /\ \A q \in Requests : req[q].pc = "inserted" => invited[req[q].code] # e
    /\ \/ /\ \E a \in Accounts : email[a] = e
          /\ Put(r, Idle)
       \/ /\ \A a \in Accounts : email[a] # e
          /\ \E a \in Accounts : ~ Taken(a) /\ Put(r, [req[r] EXCEPT !.pc = "inserted", !.account = a])
    /\ UNCHANGED rowVars

(* The vault, the UPDATE that redeems the code if nobody has, the commit.  *)
Commit(r) ==
    LET k == req[r].code  a == req[r].account IN
    /\ req[r].pc = "inserted"
    /\ redeemed[k] = None
    /\ email' = [email EXCEPT ![a] = invited[k]]
    /\ personal' = personal \cup {a}
    /\ redeemed' = [redeemed EXCEPT ![k] = a]
    /\ winners' = [winners EXCEPT ![k] = @ \cup {r}]
    /\ Put(r, Idle)
    /\ UNCHANGED <<invited, expired>>

(* An error, or the process dies: the transaction rolls back.              *)
RollBack(r) ==
    /\ req[r].pc # "idle"
    /\ Put(r, Idle)
    /\ UNCHANGED rowVars

Next ==
    \/ \E k \in Codes, e \in Emails : InviteCreate(k, e)
    \/ \E k \in Codes : Expire(k)
    \/ \E r \in Requests, k \in Codes : Submit(r, k)
    \/ \E r \in Requests : LockInvite(r) \/ InsertUser(r) \/ Commit(r) \/ RollBack(r)

Spec == Init /\ [][Next]_vars

-----------------------------------------------------------------------------
TypeOK ==
    /\ invited \in [Codes -> Emails \cup {None}] /\ expired \subseteq Codes
    /\ redeemed \in [Codes -> Accounts \cup {None}]
    /\ email \in [Accounts -> Emails \cup {None}]
    /\ personal \subseteq Accounts
    /\ req \in [Requests -> Request]
    /\ winners \in [Codes -> SUBSET Requests]

(* "users.exists => vaults.personal.exists is invariant", and the other    *)
(* things a signup makes: one account per address, made by one code for    *)
(* that address.  getPersonal's auto-heal therefore never runs.            *)
AccountsAreWhole ==
    /\ {a \in Accounts : email[a] # None} = personal
    /\ \A a, b \in personal : email[a] = email[b] => a = b
    /\ \A a \in personal : Cardinality({k \in Codes : redeemed[k] = a}) = 1
    /\ \A k \in Codes : redeemed[k] # None => email[redeemed[k]] = invited[k]

(* A code is a single-use ticket of the address it was issued to: it makes *)
(* one account, and one with that address.  A code that was checked in time*)
(* stays open for the transaction that checked it.                         *)
OpenCodes ==
    {k \in Codes : /\ invited[k] # None /\ redeemed[k] = None
                   /\ k \notin expired \/ \E r \in Requests : InTransaction(r) /\ req[r].code = k}
Redeemers == [k \in Codes |-> {<<r, email[redeemed[k]]>> : r \in winners[k]}]

TK == INSTANCE Tickets WITH
        Tickets <- Codes, Holders <- Emails, NoHolder <- None,
        holder <- invited, open <- OpenCodes, redeemers <- Redeemers
ImplementsTickets == TK!Spec
=============================================================================
