------------------------- MODULE EpochCache_proofs -------------------------
(***************************************************************************)
(* Theorems about EpochCache, for any number of users and callers and any  *)
(* bound on the epoch: its cache keeps up with busts, and it implements    *)
(* EpochRegister.                                                          *)
(***************************************************************************)
EXTENDS EpochCache, TLAPS

LEMMA InitInv == Init => IInv
  BY CacheAssumption DEF Init, IInv, TypeOK, CacheInv, FlightInv, CallInv, Epochs,
     Call, Flight, NoCall, NoFlight

(* A step of one caller, given the record it leaves.                       *)
LEMMA CallerMoves ==
  ASSUME IInv, NEW r \in Requests, NEW c \in Call, call' = [call EXCEPT ![r] = c],
         UNCHANGED <<epoch, cached, bustGen, flight, settled>>,
         \A u \in Users : flight[u].pc # "none" /\ flight[u].owner = r =>
             c.pc = "wait" /\ c.user = u,
         c.pc = "idle" => c = NoCall,
         c.pc # "idle" => c.user \in Users,
         c.pc \in {"reply", "wait", "done"} => c.lo <= settled[c.user],
         c.pc = "reply" /\ c.got # None => c.lo <= c.got /\ c.got <= epoch[c.user],
         c.pc = "wait" =>
             /\ flight[c.user].pc # "none"
             /\ flight[c.user].pc # "reading" => c.lo <= flight[c.user].val,
         c.pc = "done" => c.got \in Epochs /\ c.lo <= c.got /\ c.got <= epoch[c.user]
  PROVE  IInv'
<1>1. /\ \A q \in Requests : q # r => call'[q] = call[q]
      /\ call'[r] = c
      /\ call' \in [Requests -> Call]
  BY DEF IInv, TypeOK
<1>2. TypeOK'
  BY <1>1 DEF IInv, TypeOK
<1>3. CacheInv'
  BY DEF IInv, CacheInv
<1>4. FlightInv'
  BY <1>1 DEF IInv, FlightInv, Waiting
<1>5. CallInv'
  BY <1>1 DEF IInv, CallInv, Within, FlightInv, TypeOK, Flight, Call
<1> QED BY <1>2, <1>3, <1>4, <1>5 DEF IInv

LEMMA GetStep ==
  ASSUME IInv, NEW r \in Requests, NEW u \in Users, Get(r, u)
  PROVE  IInv'
<1>1. PICK reply \in {cached[u]} \cup (IF Faults THEN {None} ELSE {}) :
          call' = [call EXCEPT ![r] = [pc |-> "reply", user |-> u, got |-> reply,
                                       lo |-> settled[u]]]
  BY DEF Get
<1> DEFINE c == [pc |-> "reply", user |-> u, got |-> reply,
                 lo |-> settled[u]]
<1>2. c \in Call /\ (reply # None => reply = cached[u])
  BY CacheAssumption DEF IInv, TypeOK, Call
<1>3. \A w \in Users : ~ (flight[w].pc # "none" /\ flight[w].owner = r)
  BY DEF Get, IInv, FlightInv, Waiting
<1>4. /\ c.pc = "reply" /\ c.user = u /\ c.got = reply /\ c.lo = settled[u]
      /\ settled[u] \in Int
  BY CacheAssumption DEF IInv, TypeOK, Epochs
<1>5. reply # None => settled[u] <= reply /\ reply <= epoch[u]
  BY <1>2 DEF IInv, CacheInv
<1>6. call' = [call EXCEPT ![r] = c]
  BY <1>1
<1>7. UNCHANGED <<epoch, cached, bustGen, flight, settled>>
  BY DEF Get
<1> HIDE DEF c
<1>8. c.lo <= settled[c.user]
  BY <1>4
<1>9. c.got # None => c.lo <= c.got /\ c.got <= epoch[c.user]
  BY <1>4, <1>5
<1> QED BY <1>2, <1>3, <1>4, <1>6, <1>7, <1>8, <1>9, CallerMoves

LEMMA HitStep ==
  ASSUME IInv, NEW r \in Requests, Hit(r)
  PROVE  IInv'
<1> DEFINE c == call'[r]
<1>1. /\ call' = [call EXCEPT ![r] = c] /\ c \in Call
      /\ c.pc = "done" /\ c.user = call[r].user /\ c.got = call[r].got
      /\ c.lo = call[r].lo
  BY DEF Hit, IInv, TypeOK, Call
<1>2. \A w \in Users : ~ (flight[w].pc # "none" /\ flight[w].owner = r)
  BY DEF Hit, IInv, FlightInv, Waiting
<1>3. /\ call[r].user \in Users /\ Within(r, call[r].got)
      /\ call[r].lo <= settled[call[r].user]
  BY DEF Hit, IInv, CallInv
<1> HIDE DEF c
<1> QED BY <1>1, <1>2, <1>3, CallerMoves DEF Hit, Within

LEMMA ReturnStep ==
  ASSUME IInv, NEW r \in Requests, Return(r)
  PROVE  IInv'
<1>1. NoCall \in Call /\ NoCall.pc = "idle"
  BY CacheAssumption DEF NoCall, Call, Epochs
<1>2. \A w \in Users : ~ (flight[w].pc # "none" /\ flight[w].owner = r)
  BY DEF Return, IInv, FlightInv, Waiting
<1> QED BY <1>1, <1>2, CallerMoves DEF Return

(* What a caller finds, and leaves behind, when it joins a flight.         *)
LEMMA Joins ==
  ASSUME IInv, NEW r \in Requests, JoinFlight(r),
         NEW u, u = call[r].user, NEW o, o = flight[u].owner,
         NEW c, c = call'[r]
  PROVE  /\ u \in Users /\ flight[u].pc # "none"
         /\ o \in Requests /\ Waiting(o, u)
         /\ call[o].lo \in Epochs /\ call[r].lo \in Epochs
         /\ call' = [call EXCEPT ![r] = c] /\ c \in Call
         /\ c.pc = "wait" /\ c.user = u /\ c.lo = Lesser(call[r].lo, call[o].lo)
         /\ UNCHANGED <<epoch, cached, bustGen, flight, settled>>
<1>1. u \in Users
  BY DEF JoinFlight, IInv, CallInv
<1>2. flight[u].pc # "none"
  BY <1>1 DEF JoinFlight, IInv, FlightInv
<1>3. o \in Requests /\ Waiting(o, u)
  BY <1>1, <1>2 DEF IInv, FlightInv
<1>4. call[r] \in Call /\ call[o].lo \in Epochs /\ call[r].lo \in Epochs
  BY <1>3 DEF IInv, TypeOK, Call
<1> DEFINE l == Lesser(call[r].lo, call[o].lo)
           d == [call[r] EXCEPT !.pc = "wait", !.lo = l]
<1>5. l \in Epochs
  BY <1>4 DEF Lesser
<1>6. call' = [call EXCEPT ![r] = d]
  BY DEF JoinFlight
<1>7. c = d
  BY <1>6 DEF IInv, TypeOK
<1> HIDE DEF l
<1>8. d \in Call /\ d.pc = "wait" /\ d.user = u /\ d.lo = l
  BY <1>4, <1>5 DEF Call
<1> QED BY <1>1, <1>2, <1>3, <1>4, <1>6, <1>7, <1>8 DEF JoinFlight, l

LEMMA JoinStep ==
  ASSUME IInv, NEW r \in Requests, JoinFlight(r)
  PROVE  IInv'
<1> DEFINE c == call'[r]
           u == call[r].user
           o == flight[u].owner
<1>1. /\ u \in Users /\ flight[u].pc # "none"
      /\ o \in Requests /\ Waiting(o, u)
      /\ call[o].lo \in Epochs /\ call[r].lo \in Epochs
      /\ call' = [call EXCEPT ![r] = c] /\ c \in Call
      /\ c.pc = "wait" /\ c.user = u /\ c.lo = Lesser(call[r].lo, call[o].lo)
      /\ UNCHANGED <<epoch, cached, bustGen, flight, settled>>
  BY Joins
<1>2. call[r].lo <= settled[u]
  BY DEF JoinFlight, IInv, CallInv
<1>3. flight[u].pc # "reading" => Within(o, flight[u].val)
  BY <1>1 DEF IInv, CallInv, Waiting
<1>4. \A w \in Users : ~ (flight[w].pc # "none" /\ flight[w].owner = r)
  BY DEF JoinFlight, IInv, FlightInv, Waiting
<1>5. settled[u] \in Epochs
  BY <1>1 DEF IInv, TypeOK
<1> HIDE DEF c, u, o
<1>6. c.lo <= call[o].lo /\ c.lo <= call[r].lo /\ c.lo \in Epochs
  BY <1>1, CacheAssumption DEF Lesser, Epochs
<1>7. c.lo <= settled[u] /\ (flight[u].pc # "reading" => c.lo <= flight[u].val)
  BY <1>1, <1>2, <1>3, <1>5, <1>6, CacheAssumption DEF Epochs, Within
<1> QED BY <1>1, <1>4, <1>7, CallerMoves

LEMMA StartStep ==
  ASSUME IInv, NEW r \in Requests, StartFlight(r)
  PROVE  IInv'
<1> DEFINE u == call[r].user
<1>1. u \in Users /\ call[r].lo <= settled[u] /\ flight[u].pc = "none"
  BY DEF StartFlight, IInv, CallInv, NoFlight
<1>2. /\ \A q \in Requests : q # r => call'[q] = call[q]
      /\ call'[r].pc = "wait" /\ call'[r].user = u /\ call'[r].lo = call[r].lo
      /\ call' \in [Requests -> Call]
  BY DEF StartFlight, IInv, TypeOK, Call
<1>3. /\ \A w \in Users : w # u => flight'[w] = flight[w]
      /\ flight'[u] = [pc |-> "reading", gen |-> bustGen[u], val |-> None, owner |-> r]
      /\ flight' \in [Users -> Flight]
  BY <1>1 DEF StartFlight, IInv, TypeOK, Flight
<1>4. TypeOK'
  BY <1>2, <1>3 DEF StartFlight, IInv, TypeOK
<1>5. CacheInv'
  BY DEF StartFlight, IInv, CacheInv
<1>6. FlightInv'
  BY <1>1, <1>2, <1>3 DEF StartFlight, IInv, FlightInv, Waiting, TypeOK
<1>7. CallInv'
  BY <1>1, <1>2, <1>3 DEF StartFlight, IInv, CallInv, Within
<1> QED BY <1>4, <1>5, <1>6, <1>7 DEF IInv

(* A step of one flight that neither lands nor changes its owner.          *)
LEMMA FlightMoves ==
  ASSUME IInv, NEW u \in Users, NEW f \in Flight, flight' = [flight EXCEPT ![u] = f],
         UNCHANGED <<epoch, bustGen, call, settled>>,
         \A w \in Users : w # u => cached'[w] = cached[w],
         cached'[u] = cached[u] \/ (f.val = cached'[u] /\ settled[u] <= f.val),
         cached' \in [Users -> Epochs \cup {None}],
         flight[u].pc # "none", f.pc \in {"read", "setting"},
         f.owner = flight[u].owner, f.gen = flight[u].gen,
         f.val \in Epochs, f.val <= epoch[u],
         settled[u] <= f.val \/ f.pc = "setting" \/ f.gen # bustGen[u],
         \A r \in Requests : Waiting(r, u) => call[r].lo <= f.val
  PROVE  IInv'
<1>1. /\ \A w \in Users : w # u => flight'[w] = flight[w]
      /\ flight'[u] = f
      /\ flight' \in [Users -> Flight]
  BY DEF IInv, TypeOK
<1>2. TypeOK'
  BY <1>1 DEF IInv, TypeOK
<1>3. CacheInv'
  BY DEF IInv, CacheInv
<1>4. FlightInv'
  BY <1>1 DEF IInv, FlightInv, Waiting
<1>5. CallInv'
  BY <1>1 DEF IInv, CallInv, Within, Waiting
<1> QED BY <1>2, <1>3, <1>4, <1>5 DEF IInv

LEMMA ReadDbStep ==
  ASSUME IInv, NEW u \in Users, ReadDb(u)
  PROVE  IInv'
<1> DEFINE f == flight'[u]
<1>1. /\ flight' = [flight EXCEPT ![u] = f] /\ f \in Flight
      /\ f.pc = "read" /\ f.val = epoch[u] /\ f.gen = flight[u].gen
      /\ f.owner = flight[u].owner
  BY DEF ReadDb, IInv, TypeOK, Flight
<1>2. epoch[u] \in Epochs /\ epoch[u] <= epoch[u] /\ settled[u] <= epoch[u]
  BY CacheAssumption DEF IInv, TypeOK, CacheInv, Epochs
<1>3. \A r \in Requests : Waiting(r, u) => call[r].lo <= epoch[u]
  BY CacheAssumption DEF IInv, TypeOK, CallInv, CacheInv, Call, Epochs, Waiting
<1>4. cached' \in [Users -> Epochs \cup {None}]
  BY DEF ReadDb, IInv, TypeOK
<1> HIDE DEF f
<1> QED BY <1>1, <1>2, <1>3, <1>4, FlightMoves DEF ReadDb

LEMMA StoreStep ==
  ASSUME IInv, NEW u \in Users, Store(u)
  PROVE  IInv'
<1> DEFINE f == flight'[u]
<1>1. /\ flight' = [flight EXCEPT ![u] = f] /\ f \in Flight
      /\ f.pc = "setting" /\ f.val = flight[u].val /\ f.gen = flight[u].gen
      /\ f.owner = flight[u].owner
  BY DEF Store, IInv, TypeOK, Flight
<1>2. /\ flight[u].val \in Epochs /\ flight[u].val <= epoch[u]
      /\ settled[u] <= flight[u].val
  BY DEF Store, IInv, FlightInv
<1>3. \A r \in Requests : Waiting(r, u) => call[r].lo <= flight[u].val
  BY DEF Store, IInv, CallInv, Waiting, Within
<1>4. /\ cached' \in [Users -> Epochs \cup {None}]
      /\ \A w \in Users : w # u => cached'[w] = cached[w]
      /\ cached'[u] = cached[u] \/ cached'[u] = flight[u].val
  BY <1>2 DEF Store, IInv, TypeOK
<1> HIDE DEF f
<1> QED BY <1>1, <1>2, <1>3, <1>4, FlightMoves DEF Store

(* A flight lands: its value respects the bound of every caller.           *)
LEMMA LandStep ==
  ASSUME IInv, NEW u \in Users, flight[u].pc \in {"read", "setting"}, Land(u),
         UNCHANGED <<epoch, cached, bustGen, settled>>
  PROVE  IInv'
<1>1. /\ \A w \in Users : w # u => flight'[w] = flight[w]
      /\ flight'[u] = NoFlight
      /\ flight' \in [Users -> Flight]
  BY CacheAssumption DEF Land, IInv, TypeOK, Flight, NoFlight
<1>2. flight[u].val \in Epochs
  BY DEF IInv, FlightInv
<1>3. ASSUME NEW r \in Requests, Waiting(r, u)
      PROVE  /\ call'[r] \in Call
             /\ call'[r].pc = "done" /\ call'[r].got = flight[u].val
             /\ call'[r].user = u /\ call'[r].lo = call[r].lo
  BY <1>2, <1>3 DEF Land, IInv, TypeOK, Call, Waiting
<1>4. \A r \in Requests : ~ Waiting(r, u) => call'[r] = call[r]
  BY DEF Land
<1>5. call' \in [Requests -> Call]
  BY <1>3, <1>4 DEF Land, IInv, TypeOK
<1>6. TypeOK'
  BY <1>1, <1>2, <1>3, <1>4, <1>5 DEF IInv, TypeOK
<1>7. CacheInv'
  BY DEF IInv, CacheInv
<1>8. FlightInv'
  BY <1>1, <1>4 DEF IInv, FlightInv, Waiting, NoFlight
<1>9. CallInv'
  <2> SUFFICES ASSUME NEW r \in Requests
               PROVE  CallInv!(r)'
    BY DEF CallInv
  <2>1. CASE Waiting(r, u)
    BY <1>1, <1>3, <2>1 DEF IInv, CallInv, Within, Waiting
  <2>2. CASE ~ Waiting(r, u)
    BY <1>1, <1>4, <2>2 DEF IInv, CallInv, Within, Waiting
  <2> QED BY <2>1, <2>2
<1> QED BY <1>6, <1>7, <1>8, <1>9 DEF IInv

LEMMA SkipStoreStep ==
  ASSUME IInv, NEW u \in Users, SkipStore(u)
  PROVE  IInv'
BY LandStep DEF SkipStore

LEMMA StoredStep ==
  ASSUME IInv, NEW u \in Users, Stored(u)
  PROVE  IInv'
BY LandStep DEF Stored

LEMMA ReadDbFailsStep ==
  ASSUME IInv, NEW u \in Users, ReadDbFails(u)
  PROVE  IInv'
<1>1. /\ \A w \in Users : w # u => flight'[w] = flight[w]
      /\ flight'[u] = NoFlight
      /\ flight' \in [Users -> Flight]
  BY CacheAssumption DEF ReadDbFails, IInv, TypeOK, Flight, NoFlight
<1>2. NoCall \in Call
  BY CacheAssumption DEF NoCall, Call, Epochs
<1>3. /\ \A r \in Requests : Waiting(r, u) => call'[r] = NoCall
      /\ \A r \in Requests : ~ Waiting(r, u) => call'[r] = call[r]
      /\ call' \in [Requests -> Call]
  BY <1>2 DEF ReadDbFails, IInv, TypeOK
<1>4. TypeOK'
  BY <1>1, <1>3 DEF ReadDbFails, IInv, TypeOK, NoCall
<1>5. CacheInv'
  BY DEF ReadDbFails, IInv, CacheInv
<1>6. FlightInv'
  BY <1>1, <1>3 DEF ReadDbFails, IInv, FlightInv, Waiting, NoFlight
<1>7. CallInv'
  BY <1>1, <1>3 DEF ReadDbFails, IInv, CallInv, Within, Waiting, NoCall
<1> QED BY <1>4, <1>5, <1>6, <1>7 DEF IInv

LEMMA UpdateEpochStep ==
  ASSUME IInv, NEW r \in Requests, NEW u \in Users, UpdateEpoch(r, u)
  PROVE  IInv'
<1> DEFINE c == [NoCall EXCEPT !.pc = "bust", !.user = u]
<1>1. /\ c \in Call /\ c.pc = "bust" /\ c.user = u
      /\ call[r].pc = "idle" /\ call' = [call EXCEPT ![r] = c]
  <2>1. NoCall \in Call
    BY CacheAssumption DEF NoCall, Call, Epochs
  <2>2. c \in Call /\ c.pc = "bust" /\ c.user = u
    BY <2>1 DEF Call
  <2> QED BY <2>2 DEF UpdateEpoch
<1> HIDE DEF c
<1>2. /\ \A q \in Requests : q # r => call'[q] = call[q]
      /\ call'[r] = c /\ call' \in [Requests -> Call]
  BY <1>1 DEF IInv, TypeOK
<1>3. /\ \A w \in Users : w # u => epoch'[w] = epoch[w]
      /\ epoch'[u] = epoch[u] + 1
      /\ epoch' \in [Users -> Epochs]
  BY CacheAssumption DEF UpdateEpoch, IInv, TypeOK, Epochs
<1>4. \A w \in Users : epoch[w] \in Int /\ epoch'[w] \in Int /\ epoch[w] <= epoch'[w]
  BY <1>3 DEF IInv, TypeOK, Epochs
<1>5. \A w \in Users, v \in Int : v <= epoch[w] => v <= epoch'[w]
  BY <1>4
<1>6. TypeOK'
  BY <1>1, <1>2, <1>3 DEF UpdateEpoch, IInv, TypeOK
<1>7. CacheInv'
  BY <1>5 DEF UpdateEpoch, IInv, TypeOK, CacheInv, Epochs
<1>8. FlightInv'
  BY <1>1, <1>2, <1>5 DEF UpdateEpoch, IInv, FlightInv, Waiting, Epochs
<1>9. CallInv'
  <2>1. \A q \in Requests : \A v :
            q # r /\ call[q].user \in Users /\ Within(q, v) => Within(q, v)'
    BY <1>2, <1>5 DEF Within, Epochs
  <2> QED BY <1>1, <1>2, <2>1 DEF UpdateEpoch, IInv, CallInv
<1> QED BY <1>6, <1>7, <1>8, <1>9 DEF IInv

(* A bust: no flight of the user may store what it read before.            *)
LEMMA BustStep ==
  ASSUME IInv, NEW r \in Requests, Bust(r)
  PROVE  IInv'
<1> DEFINE u == call[r].user
<1>1. u \in Users /\ call[r].pc = "bust"
  BY DEF Bust, IInv, CallInv
<1>2. NoCall \in Call /\ NoCall.pc = "idle"
  BY CacheAssumption DEF NoCall, Call, Epochs
<1>3. /\ \A q \in Requests : q # r => call'[q] = call[q]
      /\ call'[r] = NoCall /\ call' \in [Requests -> Call]
  BY <1>2 DEF Bust, IInv, TypeOK
<1>4. /\ \A w \in Users : w # u => bustGen'[w] = bustGen[w]
      /\ bustGen'[u] = bustGen[u] + 1 /\ bustGen[u] \in Nat
      /\ bustGen' \in [Users -> Nat]
  BY <1>1 DEF Bust, IInv, TypeOK
<1>5. /\ \A w \in Users : w # u => cached'[w] = cached[w] /\ settled'[w] = settled[w]
      /\ \/ cached'[u] = None /\ settled'[u] = epoch[u]
         \/ cached'[u] = cached[u] /\ settled'[u] = settled[u]
      /\ cached' \in [Users -> Epochs \cup {None}]
      /\ settled' \in [Users -> Epochs]
  BY <1>1 DEF Bust, IInv, TypeOK
<1>6. \A w \in Users : settled[w] <= settled'[w] /\ settled'[w] <= epoch[w]
                        /\ settled[w] \in Int /\ settled'[w] \in Int
  BY <1>1, <1>5, CacheAssumption DEF IInv, TypeOK, CacheInv, Epochs
<1>7. TypeOK'
  BY <1>2, <1>3, <1>4, <1>5 DEF Bust, IInv, TypeOK
<1>8. CacheInv'
  BY <1>5, <1>6 DEF Bust, IInv, CacheInv
<1>9. FlightInv'
  <2> SUFFICES ASSUME NEW w \in Users
               PROVE  FlightInv!(w)'
    BY DEF FlightInv
  <2>1. flight[w].gen \in Nat
    BY DEF IInv, TypeOK, Flight
  <2>2. flight[w].pc # "none" => flight[w].owner # r
    BY <1>1 DEF IInv, FlightInv, Waiting
  <2>3. CASE w = u
    BY <1>1, <1>3, <1>4, <2>1, <2>2, <2>3 DEF Bust, IInv, FlightInv, Waiting
  <2>4. CASE w # u
    BY <1>1, <1>3, <1>4, <1>5, <2>2, <2>4 DEF Bust, IInv, FlightInv, Waiting
  <2> QED BY <2>3, <2>4
<1>10. CallInv'
  <2>1. \A q \in Requests : q # r /\ call[q].pc \in {"reply", "wait", "done"}
            => call[q].lo <= settled'[call[q].user]
    BY <1>6, CacheAssumption DEF IInv, TypeOK, Call, CallInv, Epochs
  <2> QED BY <1>2, <1>3, <2>1 DEF Bust, IInv, CallInv, Within
<1> QED BY <1>7, <1>8, <1>9, <1>10 DEF IInv

LEMMA ExpireKeyStep ==
  ASSUME IInv, NEW u \in Users, ExpireKey(u)
  PROVE  IInv'
<1>1. /\ \A w \in Users : w # u => cached'[w] = cached[w]
      /\ cached'[u] = None /\ cached' \in [Users -> Epochs \cup {None}]
  BY DEF ExpireKey, IInv, TypeOK
<1>2. TypeOK' /\ CacheInv'
  BY <1>1 DEF ExpireKey, IInv, TypeOK, CacheInv
<1>3. FlightInv' /\ CallInv'
  BY DEF ExpireKey, IInv, FlightInv, CallInv, Waiting, Within
<1> QED BY <1>2, <1>3 DEF IInv

LEMMA RestartStep ==
  ASSUME IInv, Restart
  PROVE  IInv'
<1>1. NoCall \in Call /\ NoFlight \in Flight
  BY CacheAssumption DEF NoCall, Call, NoFlight, Flight, Epochs
<1>2. TypeOK'
  BY <1>1 DEF Restart, IInv, TypeOK, NoCall
<1>3. CacheInv'
  BY DEF Restart, IInv, CacheInv
<1>4. FlightInv'
  BY DEF Restart, IInv, FlightInv, NoFlight
<1>5. CallInv'
  BY DEF Restart, IInv, CallInv, NoCall
<1> QED BY <1>2, <1>3, <1>4, <1>5 DEF IInv

LEMMA StutterStep ==
  ASSUME IInv, UNCHANGED vars
  PROVE  IInv'
BY DEF vars, IInv, TypeOK, CacheInv, FlightInv, CallInv, Waiting, Within

-----------------------------------------------------------------------------
(* The inductive invariant, and what follows from it.                      *)
THEOREM Invariance == Spec => []IInv
<1>1. Init => IInv
  BY InitInv
<1>2. IInv /\ [Next]_vars => IInv'
  <2> SUFFICES ASSUME IInv, [Next]_vars
               PROVE  IInv'
    OBVIOUS
  <2>1. CASE \E r \in Requests, u \in Users : Get(r, u) \/ UpdateEpoch(r, u)
    BY <2>1, GetStep, UpdateEpochStep
  <2>2. CASE \E r \in Requests : CallerStep(r)
    BY <2>2, HitStep, StartStep, JoinStep, ReturnStep, BustStep DEF CallerStep
  <2>3. CASE \E u \in Users : FlightStep(u) \/ ReadDbFails(u) \/ ExpireKey(u)
    BY <2>3, ReadDbStep, SkipStoreStep, StoreStep, StoredStep, ReadDbFailsStep,
       ExpireKeyStep DEF FlightStep
  <2>4. CASE Restart
    BY <2>4, RestartStep
  <2>5. CASE UNCHANGED vars
    BY <2>5, StutterStep
  <2> QED BY <2>1, <2>2, <2>3, <2>4, <2>5 DEF Next
<1> QED BY <1>1, <1>2, PTL DEF Spec

(* Every value stays in its type; a completed get always has an epoch, and *)
(* never the null of a cache miss.                                         *)
THEOREM TypeCorrect == Spec => []TypeOK
<1>1. IInv => TypeOK
  BY DEF IInv
<1> QED BY <1>1, Invariance, PTL

(* Redis never holds an epoch older than the last bust that reached it,    *)
(* however database reads, busts, expiries, failures and restarts mix.     *)
THEOREM CacheKeepsUp == Spec => []CacheKeepsUpWithBusts
<1>1. IInv => CacheKeepsUpWithBusts
  BY DEF IInv, CacheInv, CacheKeepsUpWithBusts
<1> QED BY <1>1, Invariance, PTL

-----------------------------------------------------------------------------
(* Every step of the cache is a step of the register, or a stutter.        *)
LEMMA ReadsOfOne ==
  ASSUME NEW r \in Requests, NEW c \in Call, call \in [Requests -> Call],
         call' = [call EXCEPT ![r] = c]
  PROVE  readOf' = [readOf EXCEPT ![r] = ReadOf(c)]
<1>1. \A q \in Requests : call'[q] = IF q = r THEN c ELSE call[q]
  OBVIOUS
<1>2. \A q \in Requests : ReadOf(call'[q]) = IF q = r THEN ReadOf(c) ELSE ReadOf(call[q])
  BY <1>1
<1>3. readOf' = [q \in Requests |-> ReadOf(call'[q])]
  BY DEF readOf, ReadOf
<1> HIDE DEF readOf
<1> QED BY <1>2, <1>3 DEF readOf

LEMMA InitRefines == Init => Register!RegisterInit
  BY DEF Init, Register!RegisterInit, Register!NoRead, readOf, ReadOf, NoCall

LEMMA GetRefines ==
  ASSUME IInv, IInv', NEW r \in Requests, NEW u \in Users, Get(r, u)
  PROVE  Register!BeginRead(r, u)
<1> DEFINE c == call'[r]
<1>1. /\ call' = [call EXCEPT ![r] = c] /\ c \in Call
      /\ c.pc = "reply" /\ c.user = u /\ c.lo = settled[u]
  BY DEF Get, IInv, TypeOK
<1>2. ReadOf(call[r]) = Register!NoRead
  BY DEF Get, ReadOf, Register!NoRead
<1>3. readOf[r] = Register!NoRead
  BY <1>2 DEF readOf
<1> HIDE DEF c
<1>4. ReadOf(c) = [user |-> u, lo |-> settled[u], val |-> None]
  BY <1>1 DEF ReadOf
<1>5. readOf' = [readOf EXCEPT ![r] = [user |-> u, lo |-> settled[u], val |-> None]]
  BY <1>1, <1>4, ReadsOfOne DEF IInv, TypeOK
<1> QED BY <1>3, <1>5 DEF Get, Register!BeginRead

LEMMA HitRefines ==
  ASSUME IInv, IInv', NEW r \in Requests, Hit(r)
  PROVE  Register!AnswerReads({r}, call[r].user, call[r].got)
<1> DEFINE c == call'[r]
<1>1. /\ call' = [call EXCEPT ![r] = c] /\ c \in Call
      /\ c.pc = "done" /\ c.user = call[r].user /\ c.got = call[r].got
      /\ c.lo = call[r].lo
  BY DEF Hit, IInv, TypeOK, Call
<1>2. readOf[r] = [user |-> call[r].user, lo |-> call[r].lo, val |-> None]
  BY DEF Hit, readOf, ReadOf
<1>3. Register!CanAnswer(r, call[r].user, call[r].got)
  BY <1>2 DEF Hit, IInv, CallInv, Within, Register!CanAnswer, Register!Pending
<1> HIDE DEF c
<1>4. ReadOf(c) = [user |-> call[r].user, lo |-> call[r].lo, val |-> call[r].got]
  BY <1>1 DEF ReadOf
<1>5. readOf' = [readOf EXCEPT ![r] = ReadOf(c)]
  BY <1>1, ReadsOfOne DEF IInv, TypeOK
<1>6. readOf = [q \in Requests |-> readOf[q]]
  BY DEF readOf
<1>7. [readOf[r] EXCEPT !.val = call[r].got] = ReadOf(c)
  BY <1>2, <1>4
<1>8. readOf' = [q \in Requests |-> IF q \in {r} THEN [readOf[q] EXCEPT !.val = call[r].got]
                                   ELSE readOf[q]]
  BY <1>5, <1>6, <1>7
<1> QED BY <1>3, <1>8 DEF Hit, Register!AnswerReads

(* A caller keeps its read when it starts a flight.                        *)
LEMMA StartRefines ==
  ASSUME IInv, IInv', NEW r \in Requests, StartFlight(r)
  PROVE  UNCHANGED <<epoch, settled, readOf>>
<1> DEFINE c == call'[r]
<1>1. /\ call' = [call EXCEPT ![r] = c] /\ c \in Call
      /\ c.pc = "wait" /\ c.user = call[r].user /\ c.lo = call[r].lo
  BY DEF StartFlight, IInv, TypeOK, Call
<1> HIDE DEF c
<1>2. ReadOf(c) = ReadOf(call[r])
  BY <1>1 DEF StartFlight, ReadOf
<1>3. readOf' = [readOf EXCEPT ![r] = ReadOf(c)]
  BY <1>1, ReadsOfOne DEF IInv, TypeOK
<1> QED BY <1>2, <1>3 DEF StartFlight, readOf

(* A caller that joins a flight may fall back to the flight's own bound.   *)
LEMMA JoinRefines ==
  ASSUME IInv, IInv', NEW r \in Requests, JoinFlight(r)
  PROVE  \/ UNCHANGED <<epoch, settled, readOf>>
         \/ \E q \in Requests, u \in Users : Register!ShareRead(r, q, u)
<1> DEFINE c == call'[r]
           u == call[r].user
           o == flight[u].owner
<1>1. /\ u \in Users /\ o \in Requests /\ Waiting(o, u)
      /\ call[o].lo \in Epochs /\ call[r].lo \in Epochs
      /\ call' = [call EXCEPT ![r] = c] /\ c \in Call
      /\ c.pc = "wait" /\ c.user = u /\ c.lo = Lesser(call[r].lo, call[o].lo)
      /\ UNCHANGED <<epoch, settled>>
  BY Joins
<1>2. call[o].lo \in Int /\ call[r].lo \in Int
  BY <1>1, CacheAssumption DEF Epochs
<1>3. /\ readOf[r] = [user |-> u, lo |-> call[r].lo, val |-> None]
      /\ readOf[o] = [user |-> u, lo |-> call[o].lo, val |-> None]
  BY <1>1 DEF JoinFlight, readOf, ReadOf, Waiting
<1> HIDE DEF c, u, o
<1>4. readOf' = [readOf EXCEPT ![r] = [user |-> u, lo |-> c.lo, val |-> None]]
  <2>1. ReadOf(c) = [user |-> u, lo |-> c.lo, val |-> None]
    BY <1>1 DEF ReadOf
  <2> QED BY <1>1, <2>1, ReadsOfOne DEF IInv, TypeOK
<1>5. CASE call[o].lo < call[r].lo
  <2>1. c.lo = call[o].lo
    BY <1>1, <1>2, <1>5 DEF Lesser
  <2>2. [readOf[r] EXCEPT !.lo = readOf[o].lo] = [user |-> u, lo |-> c.lo, val |-> None]
    BY <1>3, <2>1
  <2>3. readOf' = [readOf EXCEPT ![r].lo = readOf[o].lo]
    BY <1>4, <2>2
  <2>4. /\ readOf[r].user = u /\ readOf[r].val = None /\ readOf[r].lo = call[r].lo
        /\ readOf[o].user = u /\ readOf[o].val = None /\ readOf[o].lo = call[o].lo
    BY <1>3
  <2>5. Register!ShareRead(r, o, u)
    BY <1>1, <1>5, <2>3, <2>4 DEF Register!ShareRead, Register!Pending
  <2> QED BY <1>1, <2>5
<1>6. CASE ~ (call[o].lo < call[r].lo)
  <2>1. c.lo = call[r].lo
    BY <1>1, <1>2, <1>6 DEF Lesser
  <2>2. readOf' = readOf
    BY <1>3, <1>4, <2>1 DEF readOf
  <2> QED BY <1>1, <2>2
<1> QED BY <1>5, <1>6

LEMMA ReturnRefines ==
  ASSUME IInv, IInv', NEW r \in Requests, Return(r)
  PROVE  Register!EndReads({r})
<1>1. NoCall \in Call
  BY CacheAssumption DEF NoCall, Call, Epochs
<1>2. ReadOf(NoCall) = Register!NoRead
  BY DEF NoCall, ReadOf, Register!NoRead
<1>3. readOf' = [readOf EXCEPT ![r] = Register!NoRead]
  BY <1>1, <1>2, ReadsOfOne DEF Return, IInv, TypeOK
<1>4. readOf' = [q \in Requests |-> IF q \in {r} THEN Register!NoRead ELSE readOf[q]]
  BY <1>3 DEF readOf
<1> QED BY <1>4 DEF Return, Register!EndReads

LEMMA UpdateEpochRefines ==
  ASSUME IInv, IInv', NEW r \in Requests, NEW u \in Users, UpdateEpoch(r, u)
  PROVE  Register!Bump(u)
<1> DEFINE c == call'[r]
<1>1. call' = [call EXCEPT ![r] = c] /\ c \in Call /\ c.pc = "bust"
  BY DEF UpdateEpoch, IInv, TypeOK, NoCall
<1> HIDE DEF c
<1>2. ReadOf(c) = ReadOf(call[r])
  BY <1>1 DEF UpdateEpoch, ReadOf
<1>3. readOf' = [readOf EXCEPT ![r] = ReadOf(c)]
  BY <1>1, ReadsOfOne DEF IInv, TypeOK
<1>4. readOf' = readOf
  BY <1>2, <1>3 DEF readOf
<1> QED BY <1>4 DEF UpdateEpoch, Register!Bump

LEMMA BustRefines ==
  ASSUME IInv, IInv', NEW r \in Requests, Bust(r)
  PROVE  \/ UNCHANGED <<epoch, settled, readOf>>
         \/ \E u \in Users : Register!Settle(u)
<1>1. NoCall \in Call
  BY CacheAssumption DEF NoCall, Call, Epochs
<1>2. ReadOf(NoCall) = ReadOf(call[r])
  BY DEF Bust, NoCall, ReadOf
<1>3. readOf' = [readOf EXCEPT ![r] = ReadOf(NoCall)]
  BY <1>1, ReadsOfOne DEF Bust, IInv, TypeOK
<1>4. readOf' = readOf
  BY <1>2, <1>3 DEF readOf
<1>5. call[r].user \in Users
  BY DEF Bust, IInv, CallInv
<1> QED BY <1>4, <1>5 DEF Bust, Register!Settle

(* The callers of a flight are answered together.                          *)
LEMMA LandRefines ==
  ASSUME IInv, IInv', NEW u \in Users, flight[u].pc \in {"read", "setting"}, Land(u),
         UNCHANGED <<epoch, settled>>
  PROVE  Register!AnswerReads({r \in Requests : Waiting(r, u)}, u, flight[u].val)
<1> DEFINE S == {r \in Requests : Waiting(r, u)}
<1>1. ASSUME NEW r \in Requests, Waiting(r, u)
      PROVE  /\ readOf[r] = [user |-> u, lo |-> call[r].lo, val |-> None]
             /\ readOf[r].user = u /\ readOf[r].lo = call[r].lo /\ readOf[r].val = None
             /\ call[r].lo <= flight[u].val /\ flight[u].val <= epoch[u]
  BY <1>1 DEF readOf, ReadOf, Waiting, IInv, CallInv, Within
<1>2. \A r \in S : Register!CanAnswer(r, u, flight[u].val)
  BY <1>1 DEF Register!CanAnswer, Register!Pending
<1>3. ASSUME NEW r \in Requests
      PROVE  ReadOf(call'[r]) = IF r \in S THEN [readOf[r] EXCEPT !.val = flight[u].val]
                                ELSE readOf[r]
  <2>1. CASE Waiting(r, u)
    <3>1. /\ call'[r].pc = "done" /\ call'[r].got = flight[u].val
          /\ call'[r].user = u /\ call'[r].lo = call[r].lo
      BY <2>1 DEF Land, IInv, TypeOK, Call, Waiting
    <3>2. ReadOf(call'[r]) = [user |-> u, lo |-> call[r].lo, val |-> flight[u].val]
      BY <3>1 DEF ReadOf
    <3>3. r \in S
      BY <2>1
    <3>4. [readOf[r] EXCEPT !.val = flight[u].val] = ReadOf(call'[r])
      <4>1. readOf[r] = [user |-> u, lo |-> call[r].lo, val |-> None]
        BY <1>1, <2>1
      <4> QED BY <3>2, <4>1
    <3> QED BY <3>3, <3>4
  <2>2. CASE ~ Waiting(r, u)
    BY <2>2 DEF Land, readOf
  <2> QED BY <2>1, <2>2
<1>4. readOf' = [r \in Requests |-> ReadOf(call'[r])]
  BY DEF readOf, ReadOf
<1>5. readOf' = [r \in Requests |-> IF r \in S THEN [readOf[r] EXCEPT !.val = flight[u].val]
                                   ELSE readOf[r]]
  BY <1>3, <1>4
<1> QED BY <1>2, <1>5 DEF Register!AnswerReads

LEMMA ReadDbFailsRefines ==
  ASSUME IInv, IInv', NEW u \in Users, ReadDbFails(u)
  PROVE  Register!EndReads({r \in Requests : Waiting(r, u)})
<1>1. ReadOf(NoCall) = Register!NoRead
  BY DEF NoCall, ReadOf, Register!NoRead
<1>2. readOf' = [r \in Requests |-> ReadOf(call'[r])]
  BY DEF readOf, ReadOf
<1>3. \A r \in Requests : call'[r] = IF Waiting(r, u) THEN NoCall ELSE call[r]
  BY DEF ReadDbFails
<1>4. \A r \in Requests : ReadOf(call'[r]) = IF Waiting(r, u) THEN Register!NoRead
                                             ELSE readOf[r]
  BY <1>1, <1>3 DEF readOf
<1>5. readOf' = [r \in Requests |-> IF r \in {q \in Requests : Waiting(q, u)}
                                   THEN Register!NoRead ELSE readOf[r]]
  BY <1>2, <1>4
<1> QED BY <1>5 DEF ReadDbFails, Register!EndReads

LEMMA RestartRefines ==
  ASSUME Restart
  PROVE  Register!EndReads(Requests)
<1>1. readOf' = [r \in Requests |-> Register!NoRead]
  BY DEF Restart, readOf, ReadOf, NoCall, Register!NoRead
<1>2. readOf' = [r \in Requests |-> IF r \in Requests THEN Register!NoRead ELSE readOf[r]]
  BY <1>1
<1> QED BY <1>2 DEF Restart, Register!EndReads

LEMMA StepRefines ==
  ASSUME IInv, IInv', [Next]_vars
  PROVE  [Register!RegisterNext]_<<epoch, settled, readOf>>
<1>1. CASE \E r \in Requests, u \in Users : Get(r, u) \/ UpdateEpoch(r, u)
  BY <1>1, GetRefines, UpdateEpochRefines DEF Register!RegisterNext
<1>2. ASSUME NEW r \in Requests, CallerStep(r)
      PROVE  [Register!RegisterNext]_<<epoch, settled, readOf>>
  <2>1. CASE Hit(r)
    <3>1. {r} \in SUBSET Requests /\ call[r].user \in Users /\ call[r].got \in Epochs
      BY <2>1 DEF Hit, IInv, CallInv, Within
    <3> QED BY <2>1, <3>1, HitRefines DEF Register!RegisterNext, Register!Epochs, Epochs
  <2>2. CASE StartFlight(r)
    BY <2>2, StartRefines
  <2>3. CASE JoinFlight(r)
    BY <2>3, JoinRefines DEF Register!RegisterNext
  <2>4. CASE Return(r)
    <3>1. {r} \in SUBSET Requests
      OBVIOUS
    <3> QED BY <2>4, <3>1, ReturnRefines DEF Register!RegisterNext
  <2>5. CASE Bust(r)
    BY <2>5, BustRefines DEF Register!RegisterNext
  <2> QED BY <1>2, <2>1, <2>2, <2>3, <2>4, <2>5 DEF CallerStep
<1>3. ASSUME NEW u \in Users, FlightStep(u) \/ ReadDbFails(u) \/ ExpireKey(u)
      PROVE  [Register!RegisterNext]_<<epoch, settled, readOf>>
  <2>1. {r \in Requests : Waiting(r, u)} \in SUBSET Requests
    OBVIOUS
  <2>2. CASE ReadDb(u) \/ Store(u) \/ ExpireKey(u)
    BY <2>2 DEF ReadDb, Store, ExpireKey, readOf
  <2>3. CASE SkipStore(u) \/ Stored(u)
    <3>1. flight[u].pc \in {"read", "setting"} /\ Land(u) /\ UNCHANGED <<epoch, settled>>
      BY <2>3 DEF SkipStore, Stored
    <3>2. flight[u].val \in Epochs
      BY <3>1 DEF IInv, FlightInv
    <3> QED BY <2>1, <3>1, <3>2, LandRefines
            DEF Register!RegisterNext, Register!Epochs, Epochs
  <2>4. CASE ReadDbFails(u)
    BY <2>1, <2>4, ReadDbFailsRefines DEF Register!RegisterNext
  <2> QED BY <1>3, <2>2, <2>3, <2>4 DEF FlightStep
<1>4. CASE Restart
  <2>1. Requests \in SUBSET Requests
    OBVIOUS
  <2> QED BY <1>4, <2>1, RestartRefines DEF Register!RegisterNext
<1>5. CASE UNCHANGED vars
  BY <1>5 DEF vars, readOf
<1> QED BY <1>1, <1>2, <1>3, <1>4, <1>5 DEF Next

(* The cache implements the register: what a get returns lies between the  *)
(* epoch settled when it, or the flight it joined, began and the current   *)
(* one, and no failure or restart ever makes it anything else.             *)
THEOREM Refinement == Spec => ImplementsRegister
<1>1. Init => Register!RegisterInit
  BY InitRefines
<1>2. IInv /\ IInv' /\ [Next]_vars => [Register!RegisterNext]_(Register!registerVars)
  BY StepRefines DEF Register!registerVars
<1> QED BY <1>1, <1>2, Invariance, PTL DEF Spec, ImplementsRegister, Register!RegisterSpec
=============================================================================
