-------------------------- MODULE TwoFactor_proofs --------------------------
(***************************************************************************)
(* Theorems about TwoFactor, for any number of users, methods, tickets and *)
(* requests: a code passes once, a session on the password alone, why a    *)
(* counter falls, and that nonces and challenges are tickets.              *)
(***************************************************************************)
EXTENDS TwoFactor, FiniteSetTheorems, TLAPS

(* A method that is nobody's has counted nothing and signed nothing.       *)
MethodInv ==
    /\ \A c \in Keys : owner[c] = None => counter[c] = 0
    /\ \A a \in assertions : owner[a.key] # None

(* A ticket is in one place: the nonce or the one challenge it was made    *)
(* for.                                                                    *)
TicketInv ==
    /\ \A k \in Tickets : nonce[k] # None => issuedTo[k] = nonce[k]
    /\ \A u \in Users, kind \in Kinds :
          challenge[u][kind] # None => issuedTo[challenge[u][kind]] = u /\ nonce[challenge[u][kind]] = None
    /\ \A u \in Users : challenge[u]["register"] # None => challenge[u]["register"] # challenge[u]["auth"]
    /\ \A k \in expired : issuedTo[k] # None

(* A request that got past a code of a TOTP credential.                    *)
PassedCode(q) ==
    \/ q.op = "verifyTotp"
    \/ q.op = "finishTotp" /\ q.out = "enrolled"

(* What a request knows.  The step of a code that passed is burned; a login*)
(* remembers what its first count has seen; a counter that is about to be  *)
(* stored is no regression from the one that was looked up.                *)
Sane(q) ==
    /\ q.pc = "idle" => q = Idle
    /\ q.pc # "idle" => q.user \in Users
    /\ q.pc # "done" => q.out = "none"
    /\ q.method # None => owner[q.method] # None
    /\ q.op = "login" => q.ticket = None /\ q.method = None
    /\ q.pc = "countTotp" =>
          q.op = "login" /\ q.kept \subseteq Active(q.user) /\ (q.seen = 0 => q.kept \cap Keys = {})
    /\ q.op = "login" /\ q.pc = "mint" => q.kept = {}
    /\ q.op = "finishTotp" => q.new \in Steps
    /\ PassedCode(q) => q.method \in Totps /\ q.new \in Steps /\ q.new <= lastUsedStep[q.method]
    /\ q.op = "finishAuth" => q.method \in Keys /\ q.new \in Counts
    /\ q.pc = "count" => q.op = "finishAuth" /\ ~ (q.seen > 0 /\ q.new <= q.seen)

StepsDiffer ==
    \A r, q \in Requests :
        r # q /\ PassedCode(req[r]) /\ PassedCode(req[q]) /\ req[r].method = req[q].method
            => req[r].new # req[q].new

IInv == TypeOK /\ MethodInv /\ TicketInv /\ (\A r \in Requests : Sane(req[r])) /\ StepsDiffer

-----------------------------------------------------------------------------
LEMMA IdleFacts ==
  /\ Idle \in Request /\ Sane(Idle) /\ ~ PassedCode(Idle)
  /\ Idle.pc = "idle" /\ Idle.ticket = None /\ Idle.method = None /\ Idle.op = "none"
BY DEF Idle, Request, Ops, Pcs, Outs, Methods, Sane, PassedCode

LEMMA InitInv == Init => IInv
<1> SUFFICES ASSUME Init  PROVE IInv
  OBVIOUS
<1>1. TypeOK
  BY IdleFacts, TwoFactorAssumption DEF Init, TypeOK, Counts
<1>2. MethodInv /\ TicketInv
  BY DEF Init, MethodInv, TicketInv, Methods, Kinds
<1>3. (\A r \in Requests : Sane(req[r])) /\ StepsDiffer
  BY IdleFacts DEF Init, StepsDiffer
<1> QED BY <1>1, <1>2, <1>3 DEF IInv

-----------------------------------------------------------------------------
(* What one request's step leaves as it is.                                *)
Grows ==
    /\ owner' \in [Methods -> Users \cup {None}] /\ removed' = removed
    /\ \A m \in Methods : owner[m] # None => owner'[m] = owner[m]
    /\ lastUsedStep' \in [Totps -> 0..MaxStep]
    /\ \A t \in Totps : owner[t] # None => lastUsedStep[t] <= lastUsedStep'[t]

LEMMA StillSane ==
  ASSUME IInv, Grows, NEW q \in Request, Sane(q)
  PROVE  Sane(q)'
<1>1. \A u \in Users : Active(u) \subseteq Active(u)'
  BY TwoFactorAssumption DEF Grows, Active
<1>2. PassedCode(q) => q.new <= lastUsedStep'[q.method]
  <2> SUFFICES ASSUME PassedCode(q)  PROVE q.new <= lastUsedStep'[q.method]
    OBVIOUS
  <2>1. /\ q.method \in Totps /\ q.new \in Steps /\ q.new <= lastUsedStep[q.method]
        /\ owner[q.method] # None
    BY TwoFactorAssumption DEF Sane
  <2>2. lastUsedStep[q.method] <= lastUsedStep'[q.method]
    BY <2>1 DEF Grows
  <2>3. lastUsedStep[q.method] \in Nat /\ lastUsedStep'[q.method] \in Nat /\ q.new \in Nat
    BY <2>1, TwoFactorAssumption DEF Grows, IInv, TypeOK, Steps
  <2> QED BY <2>1, <2>2, <2>3
<1>3. q.method # None => owner'[q.method] # None
  BY DEF Sane, Grows, Request
<1>4. q.pc = "countTotp" => q.kept \subseteq Active(q.user)'
  BY <1>1 DEF Sane
<1> QED BY <1>2, <1>3, <1>4 DEF Sane, PassedCode

(* A step of one request that puts q in its place.                         *)
LEMMA RequestMoves ==
  ASSUME IInv, Grows, NEW r \in Requests, NEW q \in Request, req' = [req EXCEPT ![r] = q],
         Sane(q)', TicketInv', MethodInv',
         counter' \in [Keys -> Counts], device' \in [Keys -> Counts], assertions' \subseteq Assertion,
         nonce' \in [Tickets -> Users \cup {None}],
         challenge' \in [Users -> [Kinds -> Tickets \cup {None}]],
         expired' \subseteq Tickets, issuedTo' \in [Tickets -> Users \cup {None}],
         stepUp' \subseteq Users,
         PassedCode(q) =>
             \A p \in Requests \ {r} :
                 PassedCode(req[p]) /\ req[p].method = q.method => req[p].new # q.new
  PROVE  IInv'
<1>1. /\ req' \in [Requests -> Request]
      /\ \A p \in Requests : req'[p] = IF p = r THEN q ELSE req[p]
  BY DEF IInv, TypeOK
<1>2. TypeOK'
  BY <1>1 DEF IInv, TypeOK, Grows
<1>3. ASSUME NEW p \in Requests \ {r}  PROVE Sane(req[p])'
  <2>1. req'[p] = req[p] /\ req[p] \in Request /\ Sane(req[p])
    BY <1>1 DEF IInv, TypeOK
  <2>2. PICK x \in Request : x = req[p]
    BY <2>1
  <2>3. Sane(x)'
    BY <2>1, <2>2, StillSane
  <2> QED BY <2>1, <2>2, <2>3 DEF Sane, PassedCode
<1>4. Sane(req[r])'
  BY <1>1 DEF Sane, PassedCode
<1>5. StepsDiffer'
  BY <1>1 DEF IInv, StepsDiffer, PassedCode
<1> QED BY <1>2, <1>3, <1>4, <1>5 DEF IInv

-----------------------------------------------------------------------------
(* Steps that write no row and no ticket.                                  *)
RowsStay == UNCHANGED <<methodVars, deviceVars, ticketVars>> /\ stepUp' \subseteq Users

LEMMA QuietMoves ==
  ASSUME IInv, RowsStay, NEW r \in Requests, NEW q \in Request, req' = [req EXCEPT ![r] = q],
         Sane(q),
         PassedCode(q) => PassedCode(req[r]) /\ q.method = req[r].method /\ q.new = req[r].new
  PROVE  IInv'
<1> USE DEF RowsStay, methodVars, deviceVars, ticketVars
<1>1. Grows
  BY DEF Grows, IInv, TypeOK
<1>2. Sane(q)'
  BY <1>1, StillSane
<1>3. TicketInv' /\ MethodInv'
  BY DEF IInv, TicketInv, MethodInv
<1>4. PassedCode(q) =>
          \A p \in Requests \ {r} :
              PassedCode(req[p]) /\ req[p].method = q.method => req[p].new # q.new
  BY DEF IInv, StepsDiffer
<1> QED BY <1>1, <1>2, <1>3, <1>4, RequestMoves DEF IInv, TypeOK

LEMMA EndMoves ==
  ASSUME IInv, RowsStay, NEW r \in Requests, NEW out \in Outs \ {"enrolled"}, End(r, out)
  PROVE  IInv'
<1> DEFINE q == [req[r] EXCEPT !.pc = "done", !.out = out]
<1>1. req[r] \in Request /\ Sane(req[r])
  BY DEF IInv, TypeOK
<1>2. req' = [req EXCEPT ![r] = Idle] \/ req' = [req EXCEPT ![r] = q]
  BY DEF End, IInv, TypeOK
<1>3. /\ q \in Request /\ q.pc = "done" /\ q.out = out /\ q.op = req[r].op
      /\ q.user = req[r].user /\ q.ticket = req[r].ticket /\ q.method = req[r].method
      /\ q.new = req[r].new /\ q.seen = req[r].seen /\ q.kept = req[r].kept
  BY <1>1 DEF Request, Pcs
<1> HIDE DEF q
<1>4. CASE req' = [req EXCEPT ![r] = Idle]
  BY <1>4, IdleFacts, QuietMoves
<1>5. CASE req' = [req EXCEPT ![r] = q]
  <2>1. CASE req[r].pc = "idle"
    <3>1. req[r] = Idle
      BY <1>1, <2>1 DEF Sane
    <3>2. req' = [req EXCEPT ![r] = Idle]
      BY <3>1, IdleFacts DEF End, IInv, TypeOK
    <3> QED BY <1>4, <3>2
  <2>2. CASE req[r].pc # "idle"
    <3>1. Sane(q)
      BY <1>1, <1>3, <2>2 DEF Sane, PassedCode
    <3>2. PassedCode(q) => PassedCode(req[r]) /\ q.method = req[r].method /\ q.new = req[r].new
      BY <1>3 DEF PassedCode
    <3> QED BY <1>3, <1>5, <3>1, <3>2, QuietMoves
  <2> QED BY <2>1, <2>2
<1> QED BY <1>2, <1>4, <1>5

LEMMA GoToMoves ==
  ASSUME IInv, RowsStay, NEW r \in Requests, NEW pc \in {"mint", "stepUp"}, GoTo(r, pc),
         req[r].pc \in {"countTotp", "count"},
         req[r].op = "login" /\ pc = "mint" => req[r].kept = {}
  PROVE  IInv'
<1> DEFINE q == [req[r] EXCEPT !.pc = pc]
<1>1. req[r] \in Request /\ Sane(req[r])
  BY DEF IInv, TypeOK
<1>2. req' = [req EXCEPT ![r] = q]
  BY DEF GoTo, IInv, TypeOK
<1>3. /\ q \in Request /\ q.pc = pc /\ q.out = req[r].out /\ q.op = req[r].op
      /\ q.user = req[r].user /\ q.ticket = req[r].ticket /\ q.method = req[r].method
      /\ q.new = req[r].new /\ q.seen = req[r].seen /\ q.kept = req[r].kept
  BY <1>1 DEF Request, Pcs
<1> HIDE DEF q
<1>4. Sane(q)
  BY <1>1, <1>3 DEF Sane, PassedCode
<1>5. PassedCode(q) => PassedCode(req[r]) /\ q.method = req[r].method /\ q.new = req[r].new
  BY <1>3 DEF PassedCode
<1> QED BY <1>2, <1>3, <1>4, <1>5, QuietMoves

-----------------------------------------------------------------------------
(* The password step of a login.                                           *)
LEMMA CountFacts ==
  ASSUME NEW u, NEW S, IsFiniteSet(S)
  PROVE  /\ Cardinality(Active(u) \cap S) \in Nat
         /\ Cardinality(Active(u) \cap S) = 0 => Active(u) \cap S = {}
<1>1. IsFiniteSet(Active(u) \cap S)
  BY FS_Intersection
<1> QED BY <1>1, FS_CardinalityType, FS_EmptySet

LEMMA CountWebauthnKeeps ==
  ASSUME IInv, NEW r \in Requests, NEW u \in Users, CountWebauthn(r, u)
  PROVE  IInv'
<1> DEFINE n == Cardinality(Active(u) \cap Keys)
           q == [Idle EXCEPT !.op = "login", !.pc = "countTotp", !.user = u,
                             !.seen = n, !.kept = Active(u)]
<1>1. req' = [req EXCEPT ![r] = q] /\ RowsStay
  BY DEF CountWebauthn, Enter, RowsStay, IInv, TypeOK
<1>2. n \in Nat /\ (n = 0 => Active(u) \cap Keys = {})
  BY CountFacts, TwoFactorAssumption
<1> HIDE DEF n
<1>3. /\ q.op = "login" /\ q.pc = "countTotp" /\ q.user = u /\ q.out = "none"
      /\ q.ticket = None /\ q.method = None /\ q.seen = n /\ q.kept = Active(u)
  BY DEF Idle
<1>4. q \in Request
  BY <1>2 DEF Idle, Request, Ops, Pcs, Outs, Active
<1> HIDE DEF q
<1>5. Sane(q) /\ ~ PassedCode(q)
  BY <1>2, <1>3 DEF Sane, PassedCode
<1> QED BY <1>1, <1>4, <1>5, QuietMoves

(* Two counts of zero: no method was there all the time.                   *)
LEMMA CountTotpKeeps ==
  ASSUME IInv, NEW r \in Requests, CountTotp(r)
  PROVE  IInv'
<1>1. /\ Sane(req[r]) /\ req[r] \in Request /\ req[r].pc = "countTotp" /\ req[r].op = "login"
      /\ req[r].kept \subseteq Active(req[r].user) /\ req[r].kept \subseteq Methods
      /\ req[r].seen = 0 => req[r].kept \cap Keys = {}
  BY DEF CountTotp, IInv, TypeOK, Sane, Request
<1>2. RowsStay
  BY DEF CountTotp, RowsStay, IInv, TypeOK
<1> DEFINE m == Cardinality(Active(req[r].user) \cap Totps)
           pc == IF req[r].seen + m = 0 THEN "mint" ELSE "stepUp"
<1>3. m \in Nat /\ (m = 0 => Active(req[r].user) \cap Totps = {})
  BY CountFacts, TwoFactorAssumption
<1>4. GoTo(r, pc)
  BY DEF CountTotp
<1>5. pc = "mint" => req[r].seen = 0 /\ m = 0
  BY <1>1, <1>3 DEF Request
<1>6. pc = "mint" => req[r].kept = {}
  BY <1>1, <1>3, <1>5 DEF Methods
<1>7. pc \in {"mint", "stepUp"}
  OBVIOUS
<1> HIDE DEF pc
<1> QED BY <1>1, <1>2, <1>4, <1>6, <1>7, GoToMoves

LEMMA LoginEndsKeep ==
  ASSUME IInv, NEW r \in Requests, IssueStepUp(r) \/ Mint(r) \/ Die(r)
  PROVE  IInv'
<1>1. RowsStay
  <2>1. ASSUME IssueStepUp(r)  PROVE RowsStay
    <3>1. req[r].user \in Users
      BY <2>1 DEF IssueStepUp, IInv, Sane
    <3> QED BY <2>1, <3>1 DEF IssueStepUp, RowsStay, IInv, TypeOK
  <2>2. ASSUME Mint(r) \/ Die(r)  PROVE RowsStay
    BY <2>2 DEF Mint, Die, RowsStay, IInv, TypeOK
  <2> QED BY <2>1, <2>2
<1>2. \E out \in Outs \ {"enrolled"} : End(r, out)
  BY DEF IssueStepUp, Mint, Die, Outs
<1> QED BY <1>1, <1>2, EndMoves

-----------------------------------------------------------------------------
(* The steps that make, redeem or lose a ticket, one lemma for each way.   *)
LEMMA NonceGone ==
  ASSUME IInv, NEW k \in Tickets, nonce' = [nonce EXCEPT ![k] = None],
         UNCHANGED <<challenge, expired, issuedTo>>
  PROVE  TicketInv' /\ nonce' \in [Tickets -> Users \cup {None}]
<1>1. /\ nonce' \in [Tickets -> Users \cup {None}]
      /\ \A j \in Tickets : nonce'[j] = IF j = k THEN None ELSE nonce[j]
  BY DEF IInv, TypeOK
<1>2. \A u \in Users, kind \in Kinds : challenge[u][kind] # None => challenge[u][kind] \in Tickets
  BY DEF IInv, TypeOK
<1> QED BY <1>1, <1>2 DEF IInv, TicketInv

LEMMA ChallengeGone ==
  ASSUME IInv, NEW u \in Users, NEW kind \in Kinds, ConsumeChallenge(u, kind)
  PROVE  /\ TicketInv'
         /\ challenge' \in [Users -> [Kinds -> Tickets \cup {None}]]
         /\ UNCHANGED <<nonce, expired, issuedTo>>
<1>1. /\ challenge' \in [Users -> [Kinds -> Tickets \cup {None}]]
      /\ \A w \in Users, x \in Kinds :
            challenge'[w][x] = IF w = u /\ x = kind THEN None ELSE challenge[w][x]
  BY DEF ConsumeChallenge, IInv, TypeOK
<1>2. UNCHANGED <<nonce, expired, issuedTo>>
  BY DEF ConsumeChallenge
<1>3. "register" \in Kinds /\ "auth" \in Kinds
  BY DEF Kinds
<1> QED BY <1>1, <1>2, <1>3 DEF IInv, TicketInv

LEMMA NonceMade ==
  ASSUME IInv, NEW u \in Users, NEW k \in Fresh,
         nonce' = [nonce EXCEPT ![k] = u], issuedTo' = [issuedTo EXCEPT ![k] = u],
         UNCHANGED <<challenge, expired>>
  PROVE  /\ TicketInv' /\ nonce' \in [Tickets -> Users \cup {None}]
         /\ issuedTo' \in [Tickets -> Users \cup {None}]
<1>1. k \in Tickets /\ issuedTo[k] = None
  BY DEF Fresh
<1>2. /\ nonce' \in [Tickets -> Users \cup {None}]
      /\ \A j \in Tickets : nonce'[j] = IF j = k THEN u ELSE nonce[j]
      /\ issuedTo' \in [Tickets -> Users \cup {None}]
      /\ \A j \in Tickets : issuedTo'[j] = IF j = k THEN u ELSE issuedTo[j]
  BY <1>1 DEF IInv, TypeOK
<1>3. \A w \in Users, kind \in Kinds : challenge[w][kind] # None =>
          challenge[w][kind] \in Tickets /\ challenge[w][kind] # k
  BY <1>1, TwoFactorAssumption DEF IInv, TypeOK, TicketInv
<1>4. expired \subseteq Tickets /\ None \notin Users
  BY TwoFactorAssumption DEF IInv, TypeOK
<1> QED BY <1>1, <1>2, <1>3, <1>4 DEF IInv, TicketInv

LEMMA ChallengeMade ==
  ASSUME IInv, NEW u \in Users, NEW kind \in Kinds, NEW k \in Fresh,
         challenge' = [challenge EXCEPT ![u][kind] = k], issuedTo' = [issuedTo EXCEPT ![k] = u],
         UNCHANGED <<nonce, expired>>
  PROVE  /\ TicketInv' /\ challenge' \in [Users -> [Kinds -> Tickets \cup {None}]]
         /\ issuedTo' \in [Tickets -> Users \cup {None}]
<1>1. k \in Tickets /\ issuedTo[k] = None
  BY DEF Fresh
<1>2. /\ challenge' \in [Users -> [Kinds -> Tickets \cup {None}]]
      /\ \A w \in Users, x \in Kinds :
            challenge'[w][x] = IF w = u /\ x = kind THEN k ELSE challenge[w][x]
      /\ issuedTo' \in [Tickets -> Users \cup {None}]
      /\ \A j \in Tickets : issuedTo'[j] = IF j = k THEN u ELSE issuedTo[j]
  BY <1>1 DEF IInv, TypeOK
<1>3. \A w \in Users, x \in Kinds : challenge[w][x] # None =>
          /\ challenge[w][x] \in Tickets /\ challenge[w][x] # k
          /\ issuedTo[challenge[w][x]] = w /\ nonce[challenge[w][x]] = None
  BY <1>1, TwoFactorAssumption DEF IInv, TypeOK, TicketInv
<1>4. nonce[k] = None /\ expired \subseteq Tickets /\ None \notin Users
  BY <1>1, TwoFactorAssumption DEF IInv, TypeOK, TicketInv
<1>5. \A j \in Tickets : nonce'[j] # None => issuedTo'[j] = nonce'[j]
  BY <1>2, <1>4 DEF IInv, TicketInv
<1>6. \A w \in Users, x \in Kinds : challenge'[w][x] # None =>
          issuedTo'[challenge'[w][x]] = w /\ nonce'[challenge'[w][x]] = None
  BY <1>1, <1>2, <1>3, <1>4
<1>7. \A w \in Users : challenge'[w]["register"] # None =>
          challenge'[w]["register"] # challenge'[w]["auth"]
  BY <1>2, <1>3 DEF IInv, TicketInv, Kinds
<1>8. \A j \in expired' : issuedTo'[j] # None
  BY <1>2, <1>4 DEF IInv, TicketInv
<1> QED BY <1>2, <1>5, <1>6, <1>7, <1>8 DEF TicketInv

LEMMA TicketExpires ==
  ASSUME IInv, NEW k \in Tickets, ExpireChallenge(k)
  PROVE  TicketInv'
<1>1. issuedTo[k] # None
  BY TwoFactorAssumption DEF ExpireChallenge, IInv, TicketInv
<1> QED BY <1>1 DEF ExpireChallenge, IInv, TicketInv

(* A step that moves no request and no method.                             *)
LEMMA TicketMoves ==
  ASSUME IInv, UNCHANGED <<methodVars, req>>, TicketInv', MethodInv',
         device' \in [Keys -> Counts], assertions' \subseteq Assertion,
         nonce' \in [Tickets -> Users \cup {None}],
         challenge' \in [Users -> [Kinds -> Tickets \cup {None}]],
         expired' \subseteq Tickets, issuedTo' \in [Tickets -> Users \cup {None}],
         stepUp' \subseteq Users
  PROVE  IInv'
<1>1. TypeOK'
  BY DEF IInv, TypeOK, methodVars
<1>2. \A r \in Requests : Sane(req[r])'
  BY DEF IInv, Sane, PassedCode, Active, methodVars
<1>3. StepsDiffer'
  BY DEF IInv, StepsDiffer, PassedCode
<1> QED BY <1>1, <1>2, <1>3 DEF IInv

LEMMA TicketStepsKeep ==
  ASSUME IInv,
         \/ \E u \in Users : BeginTotp(u) \/ BeginRegister(u) \/ BeginAuth(u) \/ ExpireStepUp(u)
         \/ \E k \in Tickets : ExpireNonce(k) \/ ExpireChallenge(k)
  PROVE  IInv'
<1> USE DEF deviceVars
<1>1. ASSUME NEW u \in Users, BeginTotp(u)  PROVE IInv'
  BY <1>1, NonceMade, TicketMoves DEF BeginTotp, IInv, TypeOK, MethodInv, methodVars
<1>2. ASSUME NEW u \in Users, NEW kind \in Kinds, UpsertChallenge(u, kind)  PROVE IInv'
  BY <1>2, ChallengeMade, TicketMoves DEF UpsertChallenge, IInv, TypeOK, MethodInv, methodVars
<1>3. ASSUME NEW u \in Users, ExpireStepUp(u)  PROVE IInv'
  BY <1>3, TicketMoves
     DEF ExpireStepUp, ticketVars, IInv, TypeOK, TicketInv, MethodInv, methodVars
<1>4. ASSUME NEW k \in Tickets, ExpireNonce(k)  PROVE IInv'
  BY <1>4, NonceGone, TicketMoves DEF ExpireNonce, IInv, TypeOK, MethodInv, methodVars
<1>5. ASSUME NEW k \in Tickets, ExpireChallenge(k)  PROVE IInv'
  BY <1>5, TicketExpires, TicketMoves DEF ExpireChallenge, IInv, TypeOK, MethodInv, methodVars
<1> QED BY <1>1, <1>2, <1>3, <1>4, <1>5 DEF BeginRegister, BeginAuth, Kinds

LEMMA SignKeeps ==
  ASSUME IInv, NEW c \in Keys, NEW k \in Tickets \ Fresh, Sign(c, k)
  PROVE  IInv'
<1> DEFINE n == IF c \in Synced THEN 0 ELSE device[c] + 1
           a == [key |-> c, ticket |-> k, count |-> n]
<1>1. n \in Counts
  BY TwoFactorAssumption DEF Sign, Counts, IInv, TypeOK
<1>2. /\ device' = [device EXCEPT ![c] = n] /\ assertions' = assertions \cup {a}
      /\ owner[c] # None /\ UNCHANGED <<methodVars, ticketVars, stepUp, req>>
  BY DEF Sign
<1> HIDE DEF n
<1>3. a \in Assertion /\ a.key = c
  BY <1>1 DEF Assertion
<1> HIDE DEF a
<1>4. MethodInv' /\ TicketInv'
  BY <1>2, <1>3 DEF IInv, MethodInv, TicketInv, methodVars, ticketVars
<1> QED BY <1>1, <1>2, <1>3, <1>4, TicketMoves DEF IInv, TypeOK, ticketVars

-----------------------------------------------------------------------------
(* The steps that redeem a ticket.                                         *)
LEMMA ConsumeNonceKeeps ==
  ASSUME IInv, NEW r \in Requests, NEW u \in Users, NEW k \in Tickets, NEW s \in Steps,
         ConsumeNonce(r, u, k, s)
  PROVE  IInv'
<1> DEFINE x == [Idle EXCEPT !.op = "finishTotp", !.pc = "insert", !.user = u,
                             !.ticket = k, !.new = s]
<1>1. /\ req' = [req EXCEPT ![r] = IF nonce[k] = u THEN x ELSE Idle]
      /\ UNCHANGED <<methodVars, deviceVars, challenge, expired, issuedTo, stepUp>>
      /\ nonce' = [nonce EXCEPT ![k] = None]
  BY DEF ConsumeNonce, Enter
<1>2. /\ x.op = "finishTotp" /\ x.pc = "insert" /\ x.user = u /\ x.out = "none"
      /\ x.ticket = k /\ x.method = None /\ x.new = s /\ x.kept = {}
  BY DEF Idle
<1>3. x \in Request
  <2>1. s \in Nat
    BY TwoFactorAssumption DEF Steps
  <2> QED BY <2>1 DEF Idle, Request, Ops, Pcs, Outs
<1> HIDE DEF x
<1>4. Sane(x) /\ ~ PassedCode(x)
  BY <1>2 DEF Sane, PassedCode
<1>5. Grows
  BY <1>1 DEF Grows, IInv, TypeOK, methodVars
<1>6. MethodInv'
  BY <1>1 DEF IInv, MethodInv, methodVars, deviceVars
<1>7. PICK q \in {x, Idle} : req' = [req EXCEPT ![r] = q]
  BY <1>1
<1>8. q \in Request /\ Sane(q) /\ ~ PassedCode(q)
  BY <1>3, <1>4, <1>7, IdleFacts
<1>9. Sane(q)'
  BY <1>5, <1>8, StillSane
<1> QED BY <1>1, <1>5, <1>6, <1>7, <1>8, <1>9, NonceGone, RequestMoves
        DEF IInv, TypeOK, deviceVars, methodVars

(* Finishing a ceremony: the challenge is gone, q has taken the slot.      *)
LEMMA FinishMoves ==
  ASSUME IInv, NEW r \in Requests, NEW u \in Users, NEW kind \in Kinds,
         ConsumeChallenge(u, kind), UNCHANGED <<methodVars, deviceVars, stepUp>>,
         NEW q \in Request, req' = [req EXCEPT ![r] = q], Sane(q), ~ PassedCode(q)
  PROVE  IInv'
<1> USE DEF methodVars, deviceVars
<1>1. Grows
  BY DEF Grows, IInv, TypeOK
<1>2. Sane(q)'
  BY <1>1, StillSane
<1>3. MethodInv'
  BY DEF IInv, MethodInv
<1> QED BY <1>1, <1>2, <1>3, ChallengeGone, RequestMoves DEF IInv, TypeOK

LEMMA FinishRegisterKeeps ==
  ASSUME IInv, NEW r \in Requests, NEW u \in Users, NEW signed \in Tickets,
         FinishRegister(r, u, signed)
  PROVE  IInv'
<1> DEFINE k == challenge[u]["register"]
           pc == IF signed = k THEN "insert" ELSE "done"
           out == IF signed = k THEN "none" ELSE "refused"
           x == [Idle EXCEPT !.op = "finishRegister", !.user = u, !.ticket = k,
                             !.pc = pc, !.out = out]
<1>1. /\ req' = [req EXCEPT ![r] = IF Usable(k) THEN x ELSE Idle]
      /\ UNCHANGED <<methodVars, deviceVars, stepUp>>
      /\ ConsumeChallenge(u, "register")
  BY DEF FinishRegister, Enter
<1>2. k \in Tickets \cup {None} /\ "register" \in Kinds
  BY DEF IInv, TypeOK, Kinds
<1>3. /\ x.op = "finishRegister" /\ x.user = u /\ x.ticket = k /\ x.method = None
      /\ x.pc = pc /\ x.out = out /\ x.kept = {}
  BY DEF Idle
<1>4. pc \in {"insert", "done"} /\ out \in Outs /\ (pc # "done" => out = "none")
  BY DEF Outs
<1> HIDE DEF k, pc, out
<1>5. x \in Request
  BY <1>2, <1>4 DEF Idle, Request, Ops, Pcs, Methods
<1> HIDE DEF x
<1>6. Sane(x) /\ ~ PassedCode(x)
  BY <1>3, <1>4 DEF Sane, PassedCode
<1>7. PICK q \in {x, Idle} : req' = [req EXCEPT ![r] = q]
  BY <1>1
<1> QED BY <1>1, <1>2, <1>5, <1>6, <1>7, IdleFacts, FinishMoves

LEMMA FinishAuthKeeps ==
  ASSUME IInv, NEW r \in Requests, NEW u \in Users, NEW a \in assertions, FinishAuth(r, u, a)
  PROVE  IInv'
<1> DEFINE k == challenge[u]["auth"]
           x == [Idle EXCEPT !.op = "finishAuth", !.pc = "lookup", !.user = u,
                             !.ticket = k, !.signed = a.ticket,
                             !.method = a.key, !.new = a.count]
<1>1. /\ req' = [req EXCEPT ![r] = IF Usable(k) THEN x ELSE Idle]
      /\ UNCHANGED <<methodVars, deviceVars, stepUp>>
      /\ ConsumeChallenge(u, "auth")
  BY DEF FinishAuth, Enter
<1>2. /\ k \in Tickets \cup {None} /\ "auth" \in Kinds
      /\ a.key \in Keys /\ a.ticket \in Tickets /\ a.count \in Counts /\ owner[a.key] # None
  BY DEF IInv, TypeOK, Kinds, Assertion, MethodInv
<1>3. /\ x.op = "finishAuth" /\ x.pc = "lookup" /\ x.user = u /\ x.out = "none"
      /\ x.method = a.key /\ x.new = a.count
  BY DEF Idle
<1> HIDE DEF k
<1>4. x \in Request
  <2>1. a.count \in Nat
    BY <1>2, TwoFactorAssumption DEF Counts
  <2> QED BY <1>2, <2>1 DEF Idle, Request, Ops, Pcs, Outs, Methods
<1> HIDE DEF x
<1>5. Sane(x) /\ ~ PassedCode(x)
  BY <1>2, <1>3 DEF Sane, PassedCode
<1>6. PICK q \in {x, Idle} : req' = [req EXCEPT ![r] = q]
  BY <1>1
<1> QED BY <1>1, <1>2, <1>4, <1>5, <1>6, IdleFacts, FinishMoves

-----------------------------------------------------------------------------
(* The steps that write a row.                                             *)
LEMMA InsertTotpKeeps ==
  ASSUME IInv, NEW r \in Requests, InsertTotp(r)
  PROVE  IInv'
<1>1. PICK t \in Totps \cap Unused :
          /\ owner' = [owner EXCEPT ![t] = req[r].user]
          /\ lastUsedStep' = [lastUsedStep EXCEPT ![t] = req[r].new]
          /\ req' = [req EXCEPT ![r].pc = "done", ![r].out = "enrolled", ![r].method = t]
  BY DEF InsertTotp
<1>2. /\ req[r].op = "finishTotp" /\ req[r].pc = "insert"
      /\ UNCHANGED <<removed, counter, deviceVars, ticketVars, stepUp>>
  BY DEF InsertTotp
<1>3. /\ req[r] \in Request /\ req[r].user \in Users /\ req[r].new \in Steps
      /\ t \in Totps /\ t \in Methods /\ owner[t] = None
  BY <1>1, <1>2 DEF IInv, TypeOK, Sane, Unused, Methods
<1>4. PICK q : q = [req[r] EXCEPT !.pc = "done", !.out = "enrolled", !.method = t]
  OBVIOUS
<1>5. /\ q \in Request /\ q.op = "finishTotp" /\ q.pc = "done" /\ q.out = "enrolled"
      /\ q.method = t /\ q.new = req[r].new /\ q.user = req[r].user
  BY <1>2, <1>3, <1>4 DEF Request, Pcs, Outs
<1>6. req' = [req EXCEPT ![r] = q]
  BY <1>1, <1>4 DEF IInv, TypeOK
<1>7. /\ lastUsedStep' \in [Totps -> 0..MaxStep] /\ lastUsedStep'[t] = req[r].new
      /\ \A x \in Totps \ {t} : lastUsedStep'[x] = lastUsedStep[x]
      /\ owner' \in [Methods -> Users \cup {None}] /\ owner'[t] = req[r].user
      /\ \A m \in Methods \ {t} : owner'[m] = owner[m]
  BY <1>1, <1>3, TwoFactorAssumption DEF IInv, TypeOK, Steps
<1>8. Grows
  BY <1>2, <1>3, <1>7 DEF Grows, IInv, TypeOK
<1>9. Sane(q)'
  BY <1>3, <1>5, <1>7, TwoFactorAssumption DEF Sane, PassedCode, Steps
<1>10. ASSUME NEW p \in Requests, PassedCode(req[p])  PROVE req[p].method # t
  BY <1>3, <1>10, TwoFactorAssumption DEF IInv, Sane
<1>11. MethodInv' /\ TicketInv'
  <2>1. \A c \in Keys : c \in Methods /\ c # t
    BY <1>3, TwoFactorAssumption DEF Methods
  <2>2. \A a \in assertions : a.key \in Keys
    BY DEF IInv, TypeOK, Assertion
  <2> QED BY <1>2, <1>7, <2>1, <2>2
          DEF IInv, MethodInv, TicketInv, deviceVars, ticketVars
<1> QED BY <1>2, <1>5, <1>6, <1>8, <1>9, <1>10, <1>11, RequestMoves
        DEF IInv, TypeOK, deviceVars, ticketVars

LEMMA InsertKeyKeeps ==
  ASSUME IInv, NEW r \in Requests, InsertKey(r)
  PROVE  IInv'
<1>1. PICK c \in Keys \cap Unused :
          /\ owner' = [owner EXCEPT ![c] = req[r].user]
          /\ counter' = [counter EXCEPT ![c] = device[c]]
          /\ req' = [req EXCEPT ![r].pc = "done", ![r].out = "enrolled", ![r].method = c]
  BY DEF InsertKey
<1>2. /\ req[r].op = "finishRegister" /\ req[r].pc = "insert"
      /\ UNCHANGED <<removed, lastUsedStep, deviceVars, ticketVars, stepUp>>
  BY DEF InsertKey
<1>3. /\ req[r] \in Request /\ req[r].user \in Users
      /\ c \in Keys /\ c \in Methods /\ owner[c] = None
  BY <1>1, <1>2 DEF IInv, TypeOK, Sane, Unused, Methods
<1>4. PICK q : q = [req[r] EXCEPT !.pc = "done", !.out = "enrolled", !.method = c]
  OBVIOUS
<1>5. /\ q \in Request /\ q.op = "finishRegister" /\ q.pc = "done" /\ q.out = "enrolled"
      /\ q.method = c /\ q.user = req[r].user
  BY <1>2, <1>3, <1>4 DEF Request, Pcs, Outs
<1>6. req' = [req EXCEPT ![r] = q]
  BY <1>1, <1>4 DEF IInv, TypeOK
<1>7. /\ counter' \in [Keys -> Counts]
      /\ \A x \in Keys \ {c} : counter'[x] = counter[x]
      /\ owner' \in [Methods -> Users \cup {None}] /\ owner'[c] = req[r].user
      /\ \A m \in Methods \ {c} : owner'[m] = owner[m]
  BY <1>1, <1>3 DEF IInv, TypeOK
<1>8. Grows
  BY <1>2, <1>3, <1>7, TwoFactorAssumption DEF Grows, IInv, TypeOK
<1>9. Sane(q)' /\ ~ PassedCode(q)
  BY <1>3, <1>5, <1>7, TwoFactorAssumption DEF Sane, PassedCode
<1>10. MethodInv' /\ TicketInv'
  <2>1. \A a \in assertions : a.key \in Keys
    BY DEF IInv, TypeOK, Assertion
  <2> QED BY <1>2, <1>3, <1>7, <2>1, TwoFactorAssumption
          DEF IInv, MethodInv, TicketInv, deviceVars, ticketVars, Methods
<1> QED BY <1>2, <1>5, <1>6, <1>7, <1>8, <1>9, <1>10, RequestMoves
        DEF IInv, TypeOK, deviceVars, ticketVars

LEMMA VerifyTotpKeeps ==
  ASSUME IInv, NEW r \in Requests, NEW u \in Users, NEW t \in Totps, NEW s \in Steps,
         VerifyTotp(r, u, t, s)
  PROVE  IInv'
<1>1. UNCHANGED <<owner, removed, counter, deviceVars, ticketVars, stepUp>>
  BY DEF VerifyTotp
<1>2. CASE /\ t \in Active(u) /\ lastUsedStep[t] < s
           /\ lastUsedStep' = [lastUsedStep EXCEPT ![t] = s]
           /\ Enter(r, [Idle EXCEPT !.op = "verifyTotp", !.pc = "mint", !.user = u,
                                    !.method = t, !.new = s])
  <2>1. PICK q : q = [Idle EXCEPT !.op = "verifyTotp", !.pc = "mint", !.user = u,
                                  !.method = t, !.new = s]
    OBVIOUS
  <2>2. req' = [req EXCEPT ![r] = q]
    BY <1>2, <2>1 DEF Enter
  <2>3. s \in Nat /\ s \in 0..MaxStep /\ owner[t] # None
    BY <1>2, TwoFactorAssumption DEF Steps, Active
  <2>4. /\ q.op = "verifyTotp" /\ q.pc = "mint" /\ q.user = u /\ q.out = "none"
        /\ q.method = t /\ q.new = s
    BY <2>1 DEF Idle
  <2>5. q \in Request
    BY <2>1, <2>3 DEF Idle, Request, Ops, Pcs, Outs, Methods
  <2>6. /\ lastUsedStep' \in [Totps -> 0..MaxStep] /\ lastUsedStep'[t] = s
        /\ \A x \in Totps \ {t} : lastUsedStep'[x] = lastUsedStep[x]
        /\ lastUsedStep[t] < s
        /\ \A x \in Totps : lastUsedStep[x] \in Int
    BY <1>2, <2>3, TwoFactorAssumption DEF IInv, TypeOK
  <2>7. Grows
    BY <1>1, <2>3, <2>6 DEF Grows, IInv, TypeOK
  <2>8. Sane(q)'
    BY <1>1, <2>3, <2>4, <2>6 DEF Sane, PassedCode
  <2>9. ASSUME NEW p \in Requests, PassedCode(req[p]), req[p].method = t
        PROVE  req[p].new # s
    <3>1. req[p].new \in Nat /\ req[p].new <= lastUsedStep[t]
      BY <2>9, TwoFactorAssumption DEF IInv, Sane, Steps
    <3> QED BY <2>3, <2>6, <3>1
  <2>10. MethodInv' /\ TicketInv'
    BY <1>1 DEF IInv, MethodInv, TicketInv, deviceVars, ticketVars
  <2> QED BY <1>1, <2>2, <2>4, <2>5, <2>7, <2>8, <2>9, <2>10, RequestMoves
          DEF IInv, TypeOK, deviceVars, ticketVars
<1>3. CASE UNCHANGED lastUsedStep /\ Enter(r, Idle)
  <2>1. req' = [req EXCEPT ![r] = Idle] /\ RowsStay
    BY <1>1, <1>3 DEF Enter, RowsStay, methodVars, deviceVars, ticketVars, IInv, TypeOK
  <2> QED BY <2>1, IdleFacts, QuietMoves
<1> QED BY <1>2, <1>3 DEF VerifyTotp

LEMMA LookupKeyKeeps ==
  ASSUME IInv, NEW r \in Requests, LookupKey(r)
  PROVE  IInv'
<1>1. RowsStay /\ req[r].op = "finishAuth" /\ req[r].pc = "lookup"
  BY DEF LookupKey, RowsStay, IInv, TypeOK
<1>2. \/ End(r, "refused")
      \/ /\ req' = [req EXCEPT ![r].pc = "count", ![r].seen = counter[req[r].method]]
         /\ ~ (counter[req[r].method] > 0 /\ req[r].new <= counter[req[r].method])
  BY DEF LookupKey
<1>3. CASE End(r, "refused")
  BY <1>1, <1>3, EndMoves DEF Outs
<1>4. CASE /\ req' = [req EXCEPT ![r].pc = "count", ![r].seen = counter[req[r].method]]
           /\ ~ (counter[req[r].method] > 0 /\ req[r].new <= counter[req[r].method])
  <2> DEFINE q == [req[r] EXCEPT !.pc = "count", !.seen = counter[req[r].method]]
  <2>1. req[r] \in Request /\ Sane(req[r]) /\ req[r].method \in Keys
    BY <1>1 DEF IInv, TypeOK, Sane
  <2>2. counter[req[r].method] \in Nat
    BY <2>1, TwoFactorAssumption DEF IInv, TypeOK, Counts
  <2>3. req' = [req EXCEPT ![r] = q]
    BY <1>4 DEF IInv, TypeOK
  <2>4. /\ q \in Request /\ q.pc = "count" /\ q.seen = counter[req[r].method]
        /\ q.op = req[r].op /\ q.out = req[r].out /\ q.user = req[r].user
        /\ q.ticket = req[r].ticket /\ q.method = req[r].method /\ q.new = req[r].new
    BY <2>1, <2>2 DEF Request, Pcs
  <2> HIDE DEF q
  <2>5. Sane(q) /\ ~ PassedCode(q)
    BY <1>1, <1>4, <2>1, <2>4 DEF Sane, PassedCode
  <2> QED BY <1>1, <2>3, <2>4, <2>5, QuietMoves
<1> QED BY <1>2, <1>3, <1>4

LEMMA StoreCounterKeeps ==
  ASSUME IInv, NEW r \in Requests, StoreCounter(r)
  PROVE  IInv'
<1>1. /\ req[r] \in Request /\ req[r].op = "finishAuth" /\ req[r].pc = "count"
      /\ Sane(req[r]) /\ req[r].method \in Keys /\ req[r].new \in Counts
  BY DEF StoreCounter, IInv, TypeOK, Sane
<1>2. UNCHANGED <<owner, removed, lastUsedStep, deviceVars, ticketVars, stepUp>>
  BY DEF StoreCounter
<1>3. PICK q : q = [req[r] EXCEPT !.pc = "mint"]
  OBVIOUS
<1>4. req' = [req EXCEPT ![r] = q]
  BY <1>3 DEF StoreCounter, GoTo, IInv, TypeOK
<1>5. /\ q \in Request /\ q.pc = "mint" /\ q.op = req[r].op /\ q.out = req[r].out
      /\ q.user = req[r].user /\ q.ticket = req[r].ticket /\ q.method = req[r].method
      /\ q.new = req[r].new
  BY <1>1, <1>3 DEF Request, Pcs
<1>6. /\ counter' \in [Keys -> Counts]
      /\ \A c \in Keys : c # req[r].method => counter'[c] = counter[c]
  BY <1>1 DEF StoreCounter, IInv, TypeOK
<1>7. Grows
  BY <1>2, TwoFactorAssumption DEF Grows, IInv, TypeOK
<1>8. Sane(q) /\ ~ PassedCode(q)
  BY <1>1, <1>5 DEF Sane, PassedCode
<1>9. Sane(q)'
  BY <1>5, <1>7, <1>8, StillSane
<1>10. owner[req[r].method] # None
  BY <1>1, TwoFactorAssumption DEF Sane
<1>11. MethodInv' /\ TicketInv'
  BY <1>2, <1>6, <1>10 DEF IInv, MethodInv, TicketInv, deviceVars, ticketVars
<1> QED BY <1>2, <1>4, <1>5, <1>6, <1>7, <1>8, <1>9, <1>11, RequestMoves
        DEF IInv, TypeOK, deviceVars, ticketVars

-----------------------------------------------------------------------------
(* A method that is deleted is taken from what every request has kept.     *)
LEMMA RemoveKeeps ==
  ASSUME IInv, NEW u \in Users, NEW m \in Methods, Remove(u, m)
  PROVE  IInv'
<1>1. /\ removed' = removed \cup {m}
      /\ req' = [p \in Requests |-> [req[p] EXCEPT !.kept = @ \ {m}]]
      /\ UNCHANGED <<owner, lastUsedStep, counter, deviceVars, ticketVars, stepUp>>
  BY DEF Remove
<1>2. ASSUME NEW p \in Requests
      PROVE  /\ req'[p] \in Request /\ req'[p].kept = req[p].kept \ {m}
             /\ req'[p].op = req[p].op /\ req'[p].pc = req[p].pc
             /\ req'[p].user = req[p].user /\ req'[p].out = req[p].out
             /\ req'[p].ticket = req[p].ticket /\ req'[p].signed = req[p].signed
             /\ req'[p].method = req[p].method
             /\ req'[p].new = req[p].new /\ req'[p].seen = req[p].seen
  BY <1>1 DEF IInv, TypeOK, Request
<1>3. TypeOK'
  BY <1>1, <1>2 DEF IInv, TypeOK, deviceVars, ticketVars
<1>4. MethodInv' /\ TicketInv'
  BY <1>1 DEF IInv, MethodInv, TicketInv, deviceVars, ticketVars
<1>5. ASSUME NEW p \in Requests  PROVE Sane(req[p])'
  <2>1. Sane(req[p]) /\ req[p] \in Request
    BY DEF IInv, TypeOK
  <2>2. req[p].pc = "idle" => req'[p] = Idle
    <3> SUFFICES ASSUME req[p].pc = "idle"  PROVE req'[p] = Idle
      OBVIOUS
    <3>1. req[p] = Idle
      BY <2>1 DEF Sane
    <3>2. [Idle EXCEPT !.kept = @ \ {m}] = Idle
      BY DEF Idle
    <3> QED BY <1>1, <3>1, <3>2
  <2>3. Active(req[p].user)' = Active(req[p].user) \ {m}
    BY <1>1, <1>2 DEF Active
  <2> QED BY <1>1, <1>2, <2>1, <2>2, <2>3 DEF Sane, PassedCode
<1>6. StepsDiffer'
  BY <1>2 DEF IInv, StepsDiffer, PassedCode
<1> QED BY <1>3, <1>4, <1>5, <1>6 DEF IInv

-----------------------------------------------------------------------------
LEMMA NextInv == IInv /\ [Next]_vars => IInv'
<1> SUFFICES ASSUME IInv, [Next]_vars  PROVE IInv'
  OBVIOUS
<1>1. ASSUME NEW r \in Requests,
             PostLogin(r) \/ PostTotpFinish(r) \/ PostTotpVerify(r)
             \/ PostRegisterFinish(r) \/ PostAuthFinish(r)
      PROVE  IInv'
  <2>1. CASE PostLogin(r)
    BY <2>1, CountWebauthnKeeps DEF PostLogin
  <2>2. CASE PostTotpFinish(r)
    BY <2>2, ConsumeNonceKeeps DEF PostTotpFinish
  <2>3. CASE PostTotpVerify(r)
    BY <2>3, VerifyTotpKeeps DEF PostTotpVerify
  <2>4. CASE PostRegisterFinish(r)
    BY <2>4, FinishRegisterKeeps DEF PostRegisterFinish
  <2>5. CASE PostAuthFinish(r)
    BY <2>5, FinishAuthKeeps DEF PostAuthFinish
  <2> QED BY <1>1, <2>1, <2>2, <2>3, <2>4, <2>5
<1>2. CASE PostTotpBegin \/ PostRegisterBegin \/ PostAuthBegin
  BY <1>2, TicketStepsKeep DEF PostTotpBegin, PostRegisterBegin, PostAuthBegin
<1>3. CASE DeleteMethod
  BY <1>3, RemoveKeeps DEF DeleteMethod
<1>4. ASSUME NEW r \in Requests, CountTotp(r) \/ IssueStepUp(r) \/ Mint(r) \/ Die(r)
      PROVE  IInv'
  BY <1>4, CountTotpKeeps, LoginEndsKeep
<1>5. ASSUME NEW r \in Requests, InsertTotp(r) \/ InsertKey(r) \/ LookupKey(r) \/ StoreCounter(r)
      PROVE  IInv'
  BY <1>5, InsertTotpKeeps, InsertKeyKeeps, LookupKeyKeeps, StoreCounterKeeps
<1>6. CASE \/ \E u \in Users : ExpireStepUp(u)
           \/ \E k \in Tickets : ExpireNonce(k) \/ ExpireChallenge(k)
  BY <1>6, TicketStepsKeep
<1>7. CASE \E c \in Keys, k \in Tickets \ Fresh : Sign(c, k)
  BY <1>7, SignKeeps
<1>8. CASE UNCHANGED vars
  BY <1>8, TicketMoves DEF vars, methodVars, deviceVars, ticketVars, IInv, TypeOK, TicketInv, MethodInv
<1> QED BY <1>1, <1>2, <1>3, <1>4, <1>5, <1>6, <1>7, <1>8 DEF Next

(* The invariant the theorems rest on.                                     *)
THEOREM Invariance == Spec => []IInv
BY InitInv, NextInv, PTL DEF Spec

-----------------------------------------------------------------------------
(* Every variable keeps to its range, the counters of authenticators and   *)
(* the steps of codes included.                                            *)
THEOREM TypeCorrect == Spec => []TypeOK
<1>1. IInv => TypeOK
  BY DEF IInv
<1> QED BY <1>1, Invariance, PTL

(* One UPDATE decides: two requests that got past the same step of the same*)
(* credential would both have raised last_used_step to it.  Enrolment burns*)
(* the step of its own code in the same way.                               *)
THEOREM CodesPassOnce == Spec => []CodeOnce
<1>1. IInv => CodeOnce
  BY DEF IInv, StepsDiffer, CodeOnce, Passed, PassedCode
<1> QED BY <1>1, Invariance, PTL

(* A login that is about to mint a session on the password alone has seen  *)
(* each of the two tables empty: no method was there from the first count  *)
(* to the second.                                                          *)
THEOREM NoMethodWasThere == Spec => []PasswordAlone
<1>1. IInv => PasswordAlone
  BY DEF IInv, Sane, PasswordAlone
<1> QED BY <1>1, Invariance, PTL

(* The unconditional UPDATE of a counter lowers it only if the counter has *)
(* moved since the request looked it up.                                   *)
THEOREM CountersFallOnlyInOverlaps == Spec => OnlyOverlapLowersCounter
<1> DEFINE Falls(c) ==
             \E r \in Requests : /\ req[r].pc = "count" /\ req'[r].pc = "mint"
                                 /\ req[r].method = c /\ req[r].seen # counter[c]
<1>1. IInv /\ [Next]_vars => [\A c \in Keys : counter'[c] < counter[c] => Falls(c)]_vars
  <2> SUFFICES ASSUME IInv, Next, NEW c \in Keys, counter'[c] < counter[c]
               PROVE  Falls(c)
    OBVIOUS
  <2>1. counter[c] \in Nat /\ counter'[c] # counter[c]
    BY TwoFactorAssumption DEF IInv, TypeOK, Counts
  <2>2. ASSUME NEW r \in Requests, StoreCounter(r)  PROVE Falls(c)
    <3>1. /\ req[r].op = "finishAuth" /\ req[r].pc = "count" /\ req'[r].pc = "mint"
          /\ req[r] \in Request /\ Sane(req[r])
      BY <2>2 DEF StoreCounter, GoTo, IInv, TypeOK
    <3>2. req[r].method = c /\ counter'[c] = req[r].new
      BY <2>1, <2>2, <3>1 DEF StoreCounter, IInv, TypeOK, Sane
    <3>3. ~ (req[r].seen > 0 /\ req[r].new <= req[r].seen) /\ req[r].new \in Nat
          /\ req[r].seen \in Nat
      BY <3>1 DEF Sane, Request
    <3>4. req[r].seen # counter[c]
      BY <2>1, <3>2, <3>3
    <3> QED BY <3>1, <3>2, <3>4
  <2>3. ASSUME NEW r \in Requests, InsertKey(r)  PROVE FALSE
    <3>1. PICK x \in Keys : owner[x] = None /\ counter' = [counter EXCEPT ![x] = device[x]]
      BY <2>3 DEF InsertKey, Unused
    <3>2. counter[x] = 0 /\ device[x] \in Nat
      BY <3>1, TwoFactorAssumption DEF IInv, MethodInv, TypeOK, Counts
    <3> QED BY <2>1, <3>1, <3>2 DEF IInv, TypeOK
  <2>4. ASSUME UNCHANGED counter  PROVE FALSE
    BY <2>1, <2>4
  <2> QED
    BY <2>2, <2>3, <2>4
    DEF Next, PostLogin, PostTotpFinish, PostTotpVerify, PostRegisterFinish, PostAuthFinish,
        PostTotpBegin, PostRegisterBegin, PostAuthBegin, DeleteMethod,
        CountWebauthn, ConsumeNonce, VerifyTotp, FinishRegister, FinishAuth,
        BeginTotp, BeginRegister, BeginAuth, UpsertChallenge, Remove,
        CountTotp, IssueStepUp, Mint, InsertTotp, LookupKey,
        ExpireStepUp, ExpireNonce, ExpireChallenge, Sign, Die, methodVars
<1> QED BY <1>1, Invariance, PTL DEF Spec, OnlyOverlapLowersCounter

-----------------------------------------------------------------------------
(* The refinement: who redeemed a ticket, and which tickets are open.      *)
LEMMA RedeemersStay ==
  ASSUME \A p \in Requests :
            req'[p].ticket = req[p].ticket /\ (req[p].ticket # None => req'[p].user = req[p].user)
  PROVE  Redeemers' = Redeemers
<1>1. ASSUME NEW k \in Tickets
      PROVE  {<<r, req'[r].user>> : r \in {q \in Requests : req'[q].ticket = k}}
                = {<<r, req[r].user>> : r \in {q \in Requests : req[q].ticket = k}}
  BY TwoFactorAssumption
<1> QED BY <1>1 DEF Redeemers

LEMMA SlotIsFree ==
  ASSUME IInv, NEW r \in Requests, NEW q, Enter(r, q)
  PROVE  /\ req[r].ticket = None /\ req'[r] = q
         /\ \A p \in Requests \ {r} : req'[p] = req[p]
<1>1. req[r] = Idle
  BY DEF Enter, IInv, Sane
<1> QED BY <1>1, IdleFacts DEF Enter, IInv, TypeOK

LEMMA OneRedeems ==
  ASSUME IInv, NEW r \in Requests, NEW u, NEW k \in Tickets,
         NEW q, q.ticket = k, q.user = u, Enter(r, q)
  PROVE  Redeemers' = [Redeemers EXCEPT ![k] = @ \cup {<<r, u>>}]
<1>1. /\ req[r].ticket = None /\ req'[r] = q /\ k # None
      /\ \A p \in Requests \ {r} : req'[p] = req[p]
  BY SlotIsFree, TwoFactorAssumption
<1>2. ASSUME NEW j \in Tickets
      PROVE  {<<p, req'[p].user>> : p \in {s \in Requests : req'[s].ticket = j}}
                = IF j = k
                  THEN {<<p, req[p].user>> : p \in {s \in Requests : req[s].ticket = j}}
                          \cup {<<r, u>>}
                  ELSE {<<p, req[p].user>> : p \in {s \in Requests : req[s].ticket = j}}
  <2>1. {s \in Requests : req'[s].ticket = j}
           = IF j = k THEN {s \in Requests : req[s].ticket = j} \cup {r}
                      ELSE {s \in Requests : req[s].ticket = j}
    BY <1>1, TwoFactorAssumption
  <2>2. req'[r].user = u /\ r \notin {s \in Requests : req[s].ticket = j}
    BY <1>1, TwoFactorAssumption
  <2>3. \A p \in {s \in Requests : req[s].ticket = j} : req'[p] = req[p]
    BY <1>1, <2>2
  <2> QED BY <2>1, <2>2, <2>3
<1> QED BY <1>2 DEF Redeemers

LEMMA NobodyRedeems ==
  ASSUME IInv, NEW r \in Requests, NEW q, q.ticket = None, Enter(r, q)
  PROVE  Redeemers' = Redeemers
BY SlotIsFree, RedeemersStay

LEMMA EndRedeemsNothing ==
  ASSUME IInv, NEW r \in Requests, NEW out, End(r, out)
  PROVE  Redeemers' = Redeemers
<1>1. req[r] \in Request
  BY DEF IInv, TypeOK
<1>2. /\ req'[r].ticket = req[r].ticket
      /\ req[r].ticket # None => req'[r].user = req[r].user
      /\ \A p \in Requests \ {r} : req'[p] = req[p]
  BY <1>1, IdleFacts DEF End, IInv, TypeOK, Request
<1> QED BY <1>2, RedeemersStay

(* A step that touches no ticket.                                          *)
LEMMA NoTicketMoves ==
  ASSUME UNCHANGED ticketVars, Redeemers' = Redeemers
  PROVE  UNCHANGED TK!vars
BY DEF ticketVars, TK!vars, OpenTickets

(* Where an open ticket is.                                                *)
LEMMA Places ==
  ASSUME IInv
  PROVE  /\ OpenTickets \subseteq Tickets
         /\ \A k \in Tickets : nonce[k] # None => k \in OpenTickets
         /\ \A u \in Users, kind \in Kinds : challenge[u][kind] # None =>
               /\ challenge[u][kind] \in Tickets
               /\ issuedTo[challenge[u][kind]] = u /\ nonce[challenge[u][kind]] = None
               /\ challenge[u][kind] \in OpenTickets <=> challenge[u][kind] \notin expired
         /\ \A u, w \in Users, x, y \in Kinds :
               challenge[u][x] # None /\ challenge[u][x] = challenge[w][y] => u = w /\ x = y
         /\ \A k \in Fresh : k \in Tickets /\ k \notin OpenTickets /\ k \notin expired
                             /\ issuedTo[k] = None
<1>1. \A u \in Users, kind \in Kinds : challenge[u][kind] # None =>
         /\ challenge[u][kind] \in Tickets
         /\ issuedTo[challenge[u][kind]] = u /\ nonce[challenge[u][kind]] = None
  BY DEF IInv, TypeOK, TicketInv
<1>2. \A u, w \in Users, x, y \in Kinds :
         challenge[u][x] # None /\ challenge[u][x] = challenge[w][y] => u = w /\ x = y
  BY <1>1 DEF IInv, TicketInv, Kinds
<1>3. \A k \in Fresh : k \in Tickets /\ k \notin OpenTickets /\ k \notin expired
                       /\ issuedTo[k] = None
  BY <1>1, TwoFactorAssumption DEF Fresh, OpenTickets, IInv, TypeOK, TicketInv
<1> QED BY <1>1, <1>2, <1>3 DEF OpenTickets

LEMMA BeginTotpRefines ==
  ASSUME IInv, NEW u \in Users, BeginTotp(u)
  PROVE  TK!Next
<1>1. PICK k \in Fresh : nonce' = [nonce EXCEPT ![k] = u] /\ issuedTo' = [issuedTo EXCEPT ![k] = u]
  BY DEF BeginTotp
<1>2. UNCHANGED <<challenge, expired, req>>
  BY DEF BeginTotp
<1>3. k \in Tickets /\ issuedTo[k] = None /\ u # None
  BY TwoFactorAssumption DEF Fresh
<1>4. OpenTickets' = OpenTickets \cup {k}
  BY <1>1, <1>2, <1>3 DEF OpenTickets, IInv, TypeOK
<1>5. UNCHANGED Redeemers
  BY <1>2 DEF Redeemers
<1>6. TK!Issue(k, u)
  BY <1>1, <1>3, <1>4, <1>5 DEF TK!Issue
<1> QED BY <1>3, <1>6 DEF TK!Next

(* An upsert over a challenge that is still open takes its place.          *)
LEMMA UpsertRefines ==
  ASSUME IInv, NEW u \in Users, NEW kind \in Kinds, UpsertChallenge(u, kind)
  PROVE  TK!Next
<1>1. PICK k \in Fresh : /\ challenge' = [challenge EXCEPT ![u][kind] = k]
                         /\ issuedTo' = [issuedTo EXCEPT ![k] = u]
  BY DEF UpsertChallenge
<1>2. UNCHANGED <<nonce, expired, req>>
  BY DEF UpsertChallenge
<1>3. UNCHANGED Redeemers
  BY <1>2 DEF Redeemers
<1>4. k \in Tickets /\ issuedTo[k] = None /\ k \notin expired /\ k \notin OpenTickets
  BY Places
<1>5. \A w \in Users, x \in Kinds :
          challenge'[w][x] = IF w = u /\ x = kind THEN k ELSE challenge[w][x]
  BY <1>1 DEF IInv, TypeOK
<1>6. PICK old : old = challenge[u][kind]
  OBVIOUS
<1>7. OpenTickets' = (OpenTickets \ {old}) \cup {k}
  <2>1. k \in OpenTickets'
    BY <1>2, <1>4, <1>5 DEF OpenTickets
  <2>2. ASSUME NEW j \in Tickets \ {k}  PROVE j \in OpenTickets' <=> j \in OpenTickets /\ j # old
    <3>1. nonce'[j] = nonce[j] /\ (j \in expired' <=> j \in expired)
      BY <1>2
    <3>2. nonce[j] # None => j # old
      BY <1>6, Places, TwoFactorAssumption
    <3>3. (\E w \in Users, x \in Kinds : challenge'[w][x] = j)
          <=> (j # old /\ \E w \in Users, x \in Kinds : challenge[w][x] = j)
      BY <1>5, <1>6, <2>2, Places, TwoFactorAssumption
    <3> QED BY <3>1, <3>2, <3>3 DEF OpenTickets
  <2> QED BY <1>4, <2>1, <2>2 DEF OpenTickets
<1>8. CASE old \in OpenTickets
  <2>1. old \in Tickets /\ issuedTo[old] = u
    BY <1>6, <1>8, Places, TwoFactorAssumption
  <2>2. TK!Replace(k, u, old)
    BY <1>1, <1>3, <1>4, <1>7, <2>1 DEF TK!Replace
  <2> QED BY <1>4, <2>1, <2>2 DEF TK!Next
<1>9. CASE old \notin OpenTickets
  <2>1. TK!Issue(k, u)
    BY <1>1, <1>3, <1>4, <1>7, <1>9 DEF TK!Issue
  <2> QED BY <1>4, <2>1 DEF TK!Next
<1> QED BY <1>8, <1>9

LEMMA ExpireRefines ==
  ASSUME IInv, NEW k \in Tickets, ExpireNonce(k) \/ ExpireChallenge(k)
  PROVE  TK!Next
<1>1. UNCHANGED <<issuedTo, req>> /\ UNCHANGED Redeemers
  BY DEF ExpireNonce, ExpireChallenge, Redeemers
<1>2. k \in OpenTickets /\ OpenTickets' = OpenTickets \ {k}
  <2>1. CASE ExpireNonce(k)
    BY <2>1, Places, TwoFactorAssumption DEF ExpireNonce, OpenTickets, IInv, TypeOK
  <2>2. CASE ExpireChallenge(k)
    BY <2>2, Places, TwoFactorAssumption DEF ExpireChallenge, OpenTickets
  <2> QED BY <2>1, <2>2
<1>3. TK!Lapse(k)
  BY <1>1, <1>2 DEF TK!Lapse
<1> QED BY <1>3 DEF TK!Next

LEMMA ConsumeNonceRefines ==
  ASSUME IInv, NEW r \in Requests, NEW u \in Users, NEW k \in Tickets, NEW s \in Steps,
         ConsumeNonce(r, u, k, s)
  PROVE  [TK!Next]_(TK!vars)
<1>1. UNCHANGED <<challenge, expired, issuedTo>> /\ nonce' = [nonce EXCEPT ![k] = None]
  BY DEF ConsumeNonce
<1>2. OpenTickets' = IF nonce[k] = None THEN OpenTickets ELSE OpenTickets \ {k}
  BY <1>1, Places, TwoFactorAssumption DEF OpenTickets, IInv, TypeOK
<1>3. CASE nonce[k] = u
  <2>1. PICK q : q = [Idle EXCEPT !.op = "finishTotp", !.pc = "insert", !.user = u,
                                  !.ticket = k, !.new = s]
    OBVIOUS
  <2>2. q.ticket = k /\ q.user = u /\ Enter(r, q)
    BY <1>3, <2>1 DEF ConsumeNonce, Idle
  <2>3. /\ k \in OpenTickets /\ issuedTo[k] = u
        /\ OpenTickets' = OpenTickets \ {k}
        /\ Redeemers' = [Redeemers EXCEPT ![k] = @ \cup {<<r, u>>}]
    BY <1>2, <1>3, <2>2, OneRedeems, Places, TwoFactorAssumption DEF IInv, TicketInv
  <2>4. TK!Redeem(k, r, u)
    BY <1>1, <2>3 DEF TK!Redeem
  <2> QED BY <2>4 DEF TK!Next
<1>4. CASE nonce[k] # u
  <2>1. UNCHANGED Redeemers
    BY <1>4, IdleFacts, NobodyRedeems DEF ConsumeNonce
  <2>2. CASE nonce[k] = None
    BY <1>1, <1>2, <2>1, <2>2 DEF TK!vars
  <2>3. CASE nonce[k] # None
    <3>1. TK!Lapse(k)
      BY <1>1, <1>2, <2>1, <2>3, Places DEF TK!Lapse
    <3> QED BY <3>1 DEF TK!Next
  <2> QED BY <2>2, <2>3
<1> QED BY <1>3, <1>4

LEMMA ConsumeChallengeRefines ==
  ASSUME IInv, NEW r \in Requests, NEW u \in Users, NEW kind \in Kinds,
         ConsumeChallenge(u, kind), NEW q, q.ticket = challenge[u][kind], q.user = u,
         Enter(r, IF Usable(challenge[u][kind]) THEN q ELSE Idle)
  PROVE  [TK!Next]_(TK!vars)
<1>1. PICK k : k = challenge[u][kind]
  OBVIOUS
<1>2. \A w \in Users, x \in Kinds :
          challenge'[w][x] = IF w = u /\ x = kind THEN None ELSE challenge[w][x]
  BY DEF ConsumeChallenge, IInv, TypeOK
<1>3. UNCHANGED <<nonce, expired, issuedTo>>
  BY DEF ConsumeChallenge
<1>4. ASSUME NEW j \in Tickets
      PROVE  j \in OpenTickets' <=> j \in OpenTickets /\ j # k
  <2>1. nonce'[j] = nonce[j] /\ (j \in expired' <=> j \in expired)
    BY <1>3
  <2>2. nonce[j] # None => j # k
    BY <1>1, Places, TwoFactorAssumption
  <2>3. (\E w \in Users, x \in Kinds : challenge'[w][x] = j)
        <=> (j # k /\ \E w \in Users, x \in Kinds : challenge[w][x] = j)
    BY <1>1, <1>2, <1>4, Places, TwoFactorAssumption
  <2> QED BY <2>1, <2>2, <2>3 DEF OpenTickets
<1>5. OpenTickets' = OpenTickets \ {k}
  BY <1>4 DEF OpenTickets
<1>6. CASE Usable(k)
  <2>1. k \in Tickets /\ k \in OpenTickets /\ issuedTo[k] = u
    BY <1>1, <1>6, Places DEF Usable
  <2>2. Redeemers' = [Redeemers EXCEPT ![k] = @ \cup {<<r, u>>}]
    BY <1>1, <1>6, <2>1, OneRedeems
  <2>3. TK!Redeem(k, r, u)
    BY <1>3, <1>5, <2>1, <2>2 DEF TK!Redeem
  <2> QED BY <2>1, <2>3 DEF TK!Next
<1>7. CASE ~ Usable(k)
  <2>1. k \notin OpenTickets
    BY <1>1, <1>7, Places, TwoFactorAssumption DEF Usable
  <2>2. UNCHANGED Redeemers
    BY <1>1, <1>7, IdleFacts, NobodyRedeems
  <2> QED BY <1>3, <1>5, <2>1, <2>2 DEF TK!vars
<1> QED BY <1>6, <1>7

(* Every step is a step of Tickets or a stutter.                           *)
LEMMA StepRefines == IInv /\ [Next]_vars => [TK!Next]_(TK!vars)
<1> SUFFICES ASSUME IInv, [Next]_vars  PROVE [TK!Next]_(TK!vars)
  OBVIOUS
<1>1. ASSUME NEW r \in Requests, PostTotpFinish(r)  PROVE [TK!Next]_(TK!vars)
  BY <1>1, ConsumeNonceRefines DEF PostTotpFinish
<1>2. ASSUME NEW r \in Requests, NEW u \in Users, NEW signed \in Tickets,
             FinishRegister(r, u, signed)
      PROVE  [TK!Next]_(TK!vars)
  <2> DEFINE k == challenge[u]["register"]
             x == [Idle EXCEPT !.op = "finishRegister", !.user = u, !.ticket = k,
                               !.pc  = IF signed = k THEN "insert" ELSE "done",
                               !.out = IF signed = k THEN "none" ELSE "refused"]
  <2>1. PICK q : q = x
    OBVIOUS
  <2>2. q.ticket = k /\ q.user = u /\ "register" \in Kinds
    BY <2>1 DEF Idle, Kinds
  <2>3. Enter(r, IF Usable(k) THEN q ELSE Idle) /\ ConsumeChallenge(u, "register")
    BY <1>2, <2>1 DEF FinishRegister
  <2> QED BY <2>2, <2>3, ConsumeChallengeRefines
<1>3. ASSUME NEW r \in Requests, NEW u \in Users, NEW a \in assertions, FinishAuth(r, u, a)
      PROVE  [TK!Next]_(TK!vars)
  <2> DEFINE k == challenge[u]["auth"]
             x == [Idle EXCEPT !.op = "finishAuth", !.pc = "lookup", !.user = u,
                               !.ticket = k, !.signed = a.ticket,
                               !.method = a.key, !.new = a.count]
  <2>1. PICK q : q = x
    OBVIOUS
  <2>2. q.ticket = k /\ q.user = u /\ "auth" \in Kinds
    BY <2>1 DEF Idle, Kinds
  <2>3. Enter(r, IF Usable(k) THEN q ELSE Idle) /\ ConsumeChallenge(u, "auth")
    BY <1>3, <2>1 DEF FinishAuth
  <2> QED BY <2>2, <2>3, ConsumeChallengeRefines
<1>4. ASSUME NEW r \in Requests, PostLogin(r) \/ PostTotpVerify(r)
      PROVE  UNCHANGED TK!vars
  <2>1. PICK q : q.ticket = None /\ Enter(r, q)
    <3>1. ASSUME NEW u \in Users, CountWebauthn(r, u)  PROVE \E q : q.ticket = None /\ Enter(r, q)
      BY <3>1 DEF CountWebauthn, Idle
    <3>2. ASSUME NEW u, NEW t, NEW s, VerifyTotp(r, u, t, s)
          PROVE  \E q : q.ticket = None /\ Enter(r, q)
      BY <3>2 DEF VerifyTotp, Idle
    <3> QED BY <1>4, <3>1, <3>2 DEF PostLogin, PostTotpVerify
  <2>2. UNCHANGED ticketVars
    BY <1>4 DEF PostLogin, PostTotpVerify, CountWebauthn, VerifyTotp
  <2> QED BY <2>1, <2>2, NobodyRedeems, NoTicketMoves
<1>5. ASSUME NEW r \in Requests, IssueStepUp(r) \/ Mint(r) \/ Die(r)
      PROVE  UNCHANGED TK!vars
  BY <1>5, EndRedeemsNothing, NoTicketMoves DEF IssueStepUp, Mint, Die
<1>6. ASSUME NEW r \in Requests, LookupKey(r)  PROVE UNCHANGED TK!vars
  <2>1. UNCHANGED ticketVars
    BY <1>6 DEF LookupKey
  <2>2. CASE End(r, "refused")
    BY <2>1, <2>2, EndRedeemsNothing, NoTicketMoves
  <2>3. CASE req' = [req EXCEPT ![r].pc = "count", ![r].seen = counter[req[r].method]]
    BY <2>1, <2>3, RedeemersStay, NoTicketMoves DEF IInv, TypeOK, Request
  <2> QED BY <1>6, <2>2, <2>3 DEF LookupKey
<1>7. ASSUME NEW r \in Requests,
             CountTotp(r) \/ InsertTotp(r) \/ InsertKey(r) \/ StoreCounter(r)
      PROVE  UNCHANGED TK!vars
  <2>1. UNCHANGED ticketVars
    BY <1>7 DEF CountTotp, InsertTotp, InsertKey, StoreCounter
  <2>2. ASSUME CountTotp(r) \/ StoreCounter(r)
        PROVE  \A p \in Requests :
                  req'[p].ticket = req[p].ticket /\ req'[p].user = req[p].user
    <3>1. PICK pc : GoTo(r, pc)
      BY <2>2 DEF CountTotp, StoreCounter
    <3> QED BY <3>1 DEF GoTo, IInv, TypeOK, Request
  <2>3. ASSUME InsertTotp(r) \/ InsertKey(r)
        PROVE  \A p \in Requests :
                  req'[p].ticket = req[p].ticket /\ req'[p].user = req[p].user
    <3>1. PICK m : req' = [req EXCEPT ![r].pc = "done", ![r].out = "enrolled", ![r].method = m]
      BY <2>3 DEF InsertTotp, InsertKey
    <3>2. req \in [Requests -> Request]
      BY DEF IInv, TypeOK
    <3> QED BY <3>1, <3>2 DEF Request
  <2> QED BY <1>7, <2>1, <2>2, <2>3, RedeemersStay, NoTicketMoves
<1>8. CASE DeleteMethod
  <2>1. /\ UNCHANGED ticketVars
        /\ \A p \in Requests : req'[p].ticket = req[p].ticket /\ req'[p].user = req[p].user
    BY <1>8 DEF DeleteMethod, Remove, IInv, TypeOK, Request
  <2> QED BY <2>1, RedeemersStay, NoTicketMoves
<1>9. CASE \/ \E u \in Users : ExpireStepUp(u)
           \/ \E c \in Keys, k \in Tickets \ Fresh : Sign(c, k)
           \/ UNCHANGED vars
  BY <1>9, RedeemersStay, NoTicketMoves DEF ExpireStepUp, Sign, vars
<1>10. CASE PostTotpBegin \/ PostRegisterBegin \/ PostAuthBegin
  BY <1>10, BeginTotpRefines, UpsertRefines
     DEF PostTotpBegin, PostRegisterBegin, PostAuthBegin, BeginRegister, BeginAuth, Kinds
<1>11. CASE \E k \in Tickets : ExpireNonce(k) \/ ExpireChallenge(k)
  BY <1>11, ExpireRefines
<1>12. \A r \in Requests : /\ PostRegisterFinish(r) => [TK!Next]_(TK!vars)
                           /\ PostAuthFinish(r) => [TK!Next]_(TK!vars)
  BY <1>2, <1>3 DEF PostRegisterFinish, PostAuthFinish
<1> QED BY <1>1, <1>4, <1>5, <1>6, <1>7, <1>8, <1>9, <1>10, <1>11, <1>12 DEF Next

(* Issuance nonces and challenges are tickets: one request redeems one,    *)
(* its caller is the user the ticket was made for, and none opens again.   *)
THEOREM Refinement == Spec => ImplementsTickets
<1>1. Init => TK!Init
  <2> SUFFICES ASSUME Init  PROVE TK!Init
    OBVIOUS
  <2>1. OpenTickets = {}
    BY TwoFactorAssumption DEF Init, OpenTickets
  <2>2. Redeemers = [k \in Tickets |-> {}]
    BY IdleFacts, TwoFactorAssumption DEF Init, Redeemers
  <2> QED BY <2>1, <2>2 DEF Init, TK!Init
<1> QED BY <1>1, StepRefines, Invariance, PTL DEF Spec, ImplementsTickets, TK!Spec
=============================================================================
