------------------------------ MODULE TwoFactor ------------------------------
(***************************************************************************)
(* The second factor: TOTP enrolment and verification, WebAuthn ceremonies,*)
(* the password step of a login that decides whether a second factor is    *)
(* asked for, step-up tokens and the removal of methods.                   *)
(*                                                                         *)
(* A ticket is a TOTP issuance nonce (a Redis key) or a WebAuthn challenge *)
(* (a row of webauthn_challenges).  None of the handlers opens a           *)
(* transaction, so a request may be overtaken between any two of its       *)
(* statements; see End for when its slot is free again.                    *)
(*                                                                         *)
(* removeGuarded counts methods before it deletes, but the count matters   *)
(* only under userHasSharedVaultDependency, which is always false: what is *)
(* left of it is the DELETE.                                               *)
(***************************************************************************)
EXTENDS Integers, FiniteSets

CONSTANTS
    Users,
    Totps,      \* rows of totp_credentials
    Keys,       \* passkeys: rows of webauthn_credentials
    Synced,     \* passkeys whose authenticator does not count: always 0
    Tickets,
    Requests,
    MaxStep,    \* bound on the RFC 6238 steps clients send
    MaxCount,   \* bound on an authenticator's signature counter
    None

ASSUME TwoFactorAssumption ==
    /\ Synced \subseteq Keys /\ Totps \cap Keys = {}
    /\ IsFiniteSet(Totps) /\ IsFiniteSet(Keys)
    /\ MaxStep \in Nat /\ MaxCount \in Nat
    /\ None \notin Users \cup Tickets \cup Totps \cup Keys

VARIABLES
    owner,          \* user of each method, None before it is enrolled
    removed,        \* methods whose row was deleted
    lastUsedStep,   \* totp_credentials.last_used_step
    counter,        \* webauthn_credentials.counter
    device,         \* external: the counter inside each authenticator
    assertions,     \* external: what authenticators have signed
    nonce,          \* Redis: issuance nonce -> user
    challenge,      \* webauthn_challenges by (user, kind)
    expired,        \* challenges whose expires_at has passed
    issuedTo,       \* auxiliary: whom a ticket was made for
    stepUp,         \* users for whom an unexpired step-up token is out
    req

methodVars == <<owner, removed, lastUsedStep, counter>>
deviceVars == <<device, assertions>>
ticketVars == <<nonce, challenge, expired, issuedTo>>
vars == <<methodVars, deviceVars, ticketVars, stepUp, req>>

Methods == Totps \cup Keys
Kinds   == {"register", "auth"}
Steps   == 1..MaxStep
Counts  == 0..MaxCount
Assertion == [key : Keys, ticket : Tickets, count : Counts]

Ops  == {"none", "login", "finishTotp", "verifyTotp", "finishRegister", "finishAuth"}
Pcs  == {"idle", "countTotp", "stepUp", "insert", "lookup", "count", "mint", "done"}
Outs == {"none", "session", "enrolled", "refused"}

(* kept: the methods the user has had ever since the request began.        *)
Request == [op : Ops, pc : Pcs, user : Users \cup {None}, out : Outs,
            ticket : Tickets \cup {None}, signed : Tickets \cup {None},
            method : Methods \cup {None}, new : Nat, seen : Nat,
            kept : SUBSET Methods]

Idle == [op |-> "none", pc |-> "idle", user |-> None, out |-> "none",
         ticket |-> None, signed |-> None, method |-> None, new |-> 0, seen |-> 0,
         kept |-> {}]

Unused      == {m \in Methods : owner[m] = None}
Active(u)   == {m \in Methods : owner[m] = u /\ m \notin removed}
Fresh       == {k \in Tickets : issuedTo[k] = None}

Init ==
    /\ owner = [m \in Methods |-> None] /\ removed = {}
    /\ lastUsedStep = [t \in Totps |-> 0]
    /\ counter = [c \in Keys |-> 0] /\ device = [c \in Keys |-> 0]
    /\ assertions = {}
    /\ nonce = [k \in Tickets |-> None]
    /\ challenge = [u \in Users |-> [kind \in Kinds |-> None]]
    /\ expired = {} /\ issuedTo = [k \in Tickets |-> None]
    /\ stepUp = {}
    /\ req = [r \in Requests |-> Idle]

Enter(r, record) == req[r].pc = "idle" /\ req' = [req EXCEPT ![r] = record]
GoTo(r, pc)      == req' = [req EXCEPT ![r].pc = pc]

(* A request that redeemed a ticket or used a method is kept once it ended,*)
(* for the properties to look at; any other frees its slot.                *)
End(r, out) ==
    req' = [req EXCEPT ![r] = IF @.ticket = None /\ @.method = None THEN Idle
                              ELSE [@ EXCEPT !.pc = "done", !.out = out]]

-----------------------------------------------------------------------------
(* POST /auth/login with the right password: countActive is two SELECTs.   *)
CountWebauthn(r, u) ==
    /\ Enter(r, [Idle EXCEPT !.op = "login", !.pc = "countTotp", !.user = u,
                             !.seen = Cardinality(Active(u) \cap Keys),
                             !.kept = Active(u)])
    /\ UNCHANGED <<methodVars, deviceVars, ticketVars, stepUp>>

(* Mutant: only the first of the two tables decides.                       *)
CountTotp_WebauthnOnly(r) ==
    /\ req[r].pc = "countTotp"
    /\ GoTo(r, IF req[r].seen = 0 THEN "mint" ELSE "stepUp")
    /\ UNCHANGED <<methodVars, deviceVars, ticketVars, stepUp>>

CountTotp(r) ==
    LET n == req[r].seen + Cardinality(Active(req[r].user) \cap Totps) IN
    /\ req[r].pc = "countTotp"
    /\ GoTo(r, IF n = 0 THEN "mint" ELSE "stepUp")
    /\ UNCHANGED <<methodVars, deviceVars, ticketVars, stepUp>>

IssueStepUp(r) ==
    /\ req[r].pc = "stepUp"
    /\ stepUp' = stepUp \cup {req[r].user}
    /\ End(r, "none")
    /\ UNCHANGED <<methodVars, deviceVars, ticketVars>>

ExpireStepUp(u) ==
    /\ u \in stepUp /\ stepUp' = stepUp \ {u}
    /\ UNCHANGED <<methodVars, deviceVars, ticketVars, req>>

(* createOnLogin, the epoch and the signature: module Sessions.            *)
Mint(r) ==
    /\ req[r].pc = "mint"
    /\ End(r, "session")
    /\ UNCHANGED <<methodVars, deviceVars, ticketVars, stepUp>>

-----------------------------------------------------------------------------
(* TOTP.  beginRegister: SET ... EX 120 NX of a random nonce.              *)
BeginTotp(u) ==
    /\ \E k \in Fresh : /\ nonce' = [nonce EXCEPT ![k] = u]
                        /\ issuedTo' = [issuedTo EXCEPT ![k] = u]
    /\ UNCHANGED <<methodVars, deviceVars, challenge, expired, stepUp, req>>

ExpireNonce(k) ==
    /\ nonce[k] # None
    /\ nonce' = [nonce EXCEPT ![k] = None]
    /\ UNCHANGED <<methodVars, deviceVars, challenge, expired, issuedTo, stepUp, req>>

(* Mutant: any nonce that is there will do, whoever it was made for.       *)
ConsumeNonce_AnyUser(r, u, k, s) ==
    /\ Enter(r, IF nonce[k] # None
                THEN [Idle EXCEPT !.op = "finishTotp", !.pc = "insert", !.user = u,
                                  !.ticket = k, !.new = s]
                ELSE Idle)
    /\ nonce' = [nonce EXCEPT ![k] = None]
    /\ UNCHANGED <<methodVars, deviceVars, challenge, expired, issuedTo, stepUp>>

(* finishRegister: GETDEL burns the nonce whoever presents it.             *)
ConsumeNonce(r, u, k, s) ==
    /\ Enter(r, IF nonce[k] = u
                THEN [Idle EXCEPT !.op = "finishTotp", !.pc = "insert", !.user = u,
                                  !.ticket = k, !.new = s]
                ELSE Idle)
    /\ nonce' = [nonce EXCEPT ![k] = None]
    /\ UNCHANGED <<methodVars, deviceVars, challenge, expired, issuedTo, stepUp>>

(* Mutant: the step of the registration code is not burned.                *)
InsertTotp_Unburned(r) ==
    /\ req[r].op = "finishTotp" /\ req[r].pc = "insert"
    /\ \E t \in Totps \cap Unused :
          /\ owner' = [owner EXCEPT ![t] = req[r].user]
          /\ req' = [req EXCEPT ![r].pc = "done", ![r].out = "enrolled", ![r].method = t]
    /\ UNCHANGED <<removed, lastUsedStep, counter, deviceVars, ticketVars, stepUp>>

InsertTotp(r) ==
    /\ req[r].op = "finishTotp" /\ req[r].pc = "insert"
    /\ \E t \in Totps \cap Unused :
          /\ owner' = [owner EXCEPT ![t] = req[r].user]
          /\ lastUsedStep' = [lastUsedStep EXCEPT ![t] = req[r].new]
          /\ req' = [req EXCEPT ![r].pc = "done", ![r].out = "enrolled", ![r].method = t]
    /\ UNCHANGED <<removed, counter, deviceVars, ticketVars, stepUp>>

(* verify: one UPDATE with the condition last_used_step < candidateStep.   *)
VerifyTotp(r, u, t, s) ==
    /\ u \in stepUp
    /\ \/ /\ t \in Active(u) /\ lastUsedStep[t] < s
          /\ lastUsedStep' = [lastUsedStep EXCEPT ![t] = s]
          /\ Enter(r, [Idle EXCEPT !.op = "verifyTotp", !.pc = "mint", !.user = u,
                                   !.method = t, !.new = s])
       \/ /\ ~ (t \in Active(u) /\ lastUsedStep[t] < s)
          /\ UNCHANGED lastUsedStep
          /\ Enter(r, Idle)
    /\ UNCHANGED <<owner, removed, counter, deviceVars, ticketVars, stepUp>>

-----------------------------------------------------------------------------
(* WebAuthn.  begin-* upserts the one challenge row of (user, kind).       *)
UpsertChallenge(u, kind) ==
    /\ \E k \in Fresh : /\ challenge' = [challenge EXCEPT ![u][kind] = k]
                        /\ issuedTo' = [issuedTo EXCEPT ![k] = u]
    /\ UNCHANGED <<methodVars, deviceVars, nonce, expired, stepUp, req>>

BeginRegister(u) == UpsertChallenge(u, "register")

(* The SELECT of the passkeys that precedes the upsert only fills the      *)
(* options; a removal in between leaves what a removal afterwards leaves.  *)
BeginAuth(u) ==
    /\ u \in stepUp /\ Active(u) \cap Keys # {}
    /\ UpsertChallenge(u, "auth")

ExpireChallenge(k) ==
    /\ \E u \in Users, kind \in Kinds : challenge[u][kind] = k
    /\ k \notin expired /\ expired' = expired \cup {k}
    /\ UNCHANGED <<methodVars, deviceVars, nonce, challenge, issuedTo, stepUp, req>>

(* DELETE ... RETURNING: the row is gone even if it had expired.           *)
ConsumeChallenge(u, kind) ==
    /\ challenge' = [challenge EXCEPT ![u][kind] = None]
    /\ UNCHANGED <<nonce, expired, issuedTo>>

Usable(k) == k # None /\ k \notin expired

(* finish-register: an attestation over the challenge `signed`.            *)
FinishRegister(r, u, signed) ==
    LET k == challenge[u]["register"] IN
    /\ Enter(r, IF Usable(k)
                THEN [Idle EXCEPT !.op = "finishRegister", !.user = u, !.ticket = k,
                                  !.pc  = IF signed = k THEN "insert" ELSE "done",
                                  !.out = IF signed = k THEN "none" ELSE "refused"]
                ELSE Idle)
    /\ ConsumeChallenge(u, "register")
    /\ UNCHANGED <<methodVars, deviceVars, stepUp>>

InsertKey(r) ==
    /\ req[r].op = "finishRegister" /\ req[r].pc = "insert"
    /\ \E c \in Keys \cap Unused :
          /\ owner' = [owner EXCEPT ![c] = req[r].user]
          /\ counter' = [counter EXCEPT ![c] = device[c]]
          /\ req' = [req EXCEPT ![r].pc = "done", ![r].out = "enrolled", ![r].method = c]
    /\ UNCHANGED <<removed, lastUsedStep, deviceVars, ticketVars, stepUp>>

(* External: an authenticator signs a challenge of its owner.              *)
Sign(c, k) ==
    LET n == IF c \in Synced THEN 0 ELSE device[c] + 1 IN
    /\ owner[c] # None /\ issuedTo[k] = owner[c] /\ n <= MaxCount
    /\ device' = [device EXCEPT ![c] = n]
    /\ assertions' = assertions \cup {[key |-> c, ticket |-> k, count |-> n]}
    /\ UNCHANGED <<methodVars, ticketVars, stepUp, req>>

(* finish-auth: consume, look the passkey up, verify, store the counter.   *)
FinishAuth(r, u, a) ==
    LET k == challenge[u]["auth"] IN
    /\ u \in stepUp
    /\ Enter(r, IF Usable(k)
                THEN [Idle EXCEPT !.op = "finishAuth", !.pc = "lookup", !.user = u,
                                  !.ticket = k, !.signed = a.ticket,
                                  !.method = a.key, !.new = a.count]
                ELSE Idle)
    /\ ConsumeChallenge(u, "auth")
    /\ UNCHANGED <<methodVars, deviceVars, stepUp>>

(* Mutant: no regression check.                                            *)
LookupKey_NoRegressionCheck(r) ==
    LET q == req[r] IN
    /\ q.op = "finishAuth" /\ q.pc = "lookup"
    /\ IF q.method \in Active(q.user) /\ q.signed = q.ticket
       THEN req' = [req EXCEPT ![r].pc = "count", ![r].seen = counter[q.method]]
       ELSE End(r, "refused")
    /\ UNCHANGED <<methodVars, deviceVars, ticketVars, stepUp>>

(* stored > 0 and new <= stored is a regression; 0 stays acceptable.       *)
LookupKey(r) ==
    LET q == req[r] IN
    /\ q.op = "finishAuth" /\ q.pc = "lookup"
    /\ IF /\ q.method \in Active(q.user) /\ q.signed = q.ticket
          /\ ~ (counter[q.method] > 0 /\ q.new <= counter[q.method])
       THEN req' = [req EXCEPT ![r].pc = "count", ![r].seen = counter[q.method]]
       ELSE End(r, "refused")
    /\ UNCHANGED <<methodVars, deviceVars, ticketVars, stepUp>>

(* Mutant: the counter expected next is stored.                            *)
StoreCounter_OffByOne(r) ==
    LET q == req[r] IN
    /\ q.op = "finishAuth" /\ q.pc = "count"
    /\ counter' = IF q.method \in removed THEN counter
                  ELSE [counter EXCEPT ![q.method] = q.new + 1]
    /\ GoTo(r, "mint")
    /\ UNCHANGED <<owner, removed, lastUsedStep, deviceVars, ticketVars, stepUp>>

(* The UPDATE by id is unconditional; a row deleted meanwhile is no error. *)
StoreCounter(r) ==
    LET q == req[r] IN
    /\ q.op = "finishAuth" /\ q.pc = "count"
    /\ counter' = IF q.method \in removed THEN counter
                  ELSE [counter EXCEPT ![q.method] = q.new]
    /\ GoTo(r, "mint")
    /\ UNCHANGED <<owner, removed, lastUsedStep, deviceVars, ticketVars, stepUp>>

-----------------------------------------------------------------------------
(* DELETE /2fa/methods/:id: gone from the table, and from every kept.      *)
Remove(u, m) ==
    /\ m \in Active(u)
    /\ removed' = removed \cup {m}
    /\ req' = [r \in Requests |-> [req[r] EXCEPT !.kept = @ \ {m}]]
    /\ UNCHANGED <<owner, lastUsedStep, counter, deviceVars, ticketVars, stepUp>>

(* The process dies: what the request has written stays written.           *)
Die(r) ==
    /\ req[r].pc \notin {"idle", "done"}
    /\ End(r, "none")
    /\ UNCHANGED <<methodVars, deviceVars, ticketVars, stepUp>>

-----------------------------------------------------------------------------
(* The endpoints, and what a client may send to each.  The guards in front *)
(* of them are in the actions (u \in stepUp).                              *)
PostLogin(r)         == \E u \in Users : CountWebauthn(r, u)
PostTotpBegin        == \E u \in Users : BeginTotp(u)
PostTotpFinish(r)    == \E u \in Users, k \in Tickets \ Fresh, s \in Steps : ConsumeNonce(r, u, k, s)
PostTotpVerify(r)    == \E u \in Users, t \in Totps \ Unused, s \in Steps : VerifyTotp(r, u, t, s)
PostRegisterBegin    == \E u \in Users : BeginRegister(u)
PostRegisterFinish(r) == \E u \in Users, k \in Tickets \ Fresh : FinishRegister(r, u, k)
PostAuthBegin        == \E u \in Users : BeginAuth(u)
PostAuthFinish(r)    == \E u \in Users, a \in assertions : FinishAuth(r, u, a)
DeleteMethod         == \E u \in Users, m \in Methods : Remove(u, m)

Next ==
    \/ \E r \in Requests : PostLogin(r) \/ PostTotpFinish(r) \/ PostTotpVerify(r)
                          \/ PostRegisterFinish(r) \/ PostAuthFinish(r)
    \/ PostTotpBegin \/ PostRegisterBegin \/ PostAuthBegin \/ DeleteMethod
    \/ \E r \in Requests : CountTotp(r) \/ IssueStepUp(r) \/ Mint(r)
    \/ \E r \in Requests : InsertTotp(r) \/ InsertKey(r) \/ LookupKey(r) \/ StoreCounter(r)
    \/ \E u \in Users : ExpireStepUp(u)
    \/ \E k \in Tickets : ExpireNonce(k) \/ ExpireChallenge(k)
    \/ \E c \in Keys, k \in Tickets \ Fresh : Sign(c, k)
    \/ \E r \in Requests : Die(r)

Spec == Init /\ [][Next]_vars

-----------------------------------------------------------------------------
TypeOK ==
    /\ owner \in [Methods -> Users \cup {None}] /\ removed \subseteq Methods
    /\ lastUsedStep \in [Totps -> 0..MaxStep]
    /\ counter \in [Keys -> Counts] /\ device \in [Keys -> Counts]
    /\ assertions \subseteq Assertion
    /\ nonce \in [Tickets -> Users \cup {None}]
    /\ challenge \in [Users -> [Kinds -> Tickets \cup {None}]]
    /\ expired \subseteq Tickets
    /\ issuedTo \in [Tickets -> Users \cup {None}]
    /\ stepUp \subseteq Users
    /\ req \in [Requests -> Request]

(* "The very same code the user typed at enrolment time is also burned"    *)
(* and "two simultaneous verifies of the same step: exactly one wins": no  *)
(* two requests ever get past the same step of the same credential.        *)
Passed(r) ==
    \/ req[r].op = "verifyTotp" /\ req[r].method # None
    \/ req[r].op = "finishTotp" /\ req[r].out = "enrolled"

CodeOnce ==
    \A r, q \in Requests :
        r # q /\ Passed(r) /\ Passed(q) /\ req[r].method = req[q].method
            => req[r].new # req[q].new

(* A login gets a session on the password alone only if no method was      *)
(* there throughout its two counts.  The counts are not a snapshot: a user *)
(* who swaps one kind of method for the other meanwhile may be let by.     *)
PasswordAlone ==
    \A r \in Requests :
        req[r].op = "login" /\ req[r].pc = "mint" => req[r].kept = {}

(* The stored signature counter falls only when the request that stores it *)
(* was overtaken by another one between its SELECT and its UPDATE.         *)
OnlyOverlapLowersCounter ==
    [][\A c \in Keys : counter'[c] < counter[c] =>
          \E r \in Requests : /\ req[r].pc = "count" /\ req'[r].pc = "mint"
                              /\ req[r].method = c /\ req[r].seen # counter[c]]_vars

(* Nonces and challenges are single-use tickets of the user they were made *)
(* for: one request redeems one, and its caller -- not whoever the ticket  *)
(* names -- is that user, whatever requests, replacements, expiries and    *)
(* deaths surround them.                                                   *)
OpenTickets ==
    {k \in Tickets :
        \/ nonce[k] # None
        \/ k \notin expired /\ \E u \in Users, kind \in Kinds : challenge[u][kind] = k}
Redeemers ==
    [k \in Tickets |-> {<<r, req[r].user>> : r \in {q \in Requests : req[q].ticket = k}}]

TK == INSTANCE Tickets WITH
        Holders <- Users, NoHolder <- None,
        holder <- issuedTo, open <- OpenTickets, redeemers <- Redeemers
ImplementsTickets == TK!Spec
=============================================================================
