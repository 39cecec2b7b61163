----------------------------- MODULE EpochCache -----------------------------
(***************************************************************************)
(* SessionEpochCache: the Redis-backed cache in front of                   *)
(* users.session_epoch, with its per-user map of in-flight database reads  *)
(* and its per-user bust generation, and bumpEpoch, which writes the       *)
(* column and then busts the cache.                                        *)
(*                                                                         *)
(* One API process talks to Redis over one connection, which executes      *)
(* commands in the order they are sent; a command therefore takes effect   *)
(* in the step that sends it, and its reply is a later step.               *)
(***************************************************************************)
EXTENDS Integers

CONSTANTS
    Users,
    Requests,   \* callers of get and of bumpEpoch
    MaxEpoch,   \* bound on session_epoch
    Faults,     \* may Redis commands and database reads fail, and the API die?
    None

ASSUME CacheAssumption == /\ MaxEpoch \in Nat
                          /\ Faults \in BOOLEAN
                          /\ None \notin Users /\ None \notin Int
                          /\ None \notin Requests

VARIABLES
    epoch,      \* users.session_epoch, in PostgreSQL
    cached,     \* the key session-epoch:<user> in Redis, None if absent
    bustGen,    \* the process's map of bust generations
    flight,     \* the process's in-flight map: one database read per user
    call,       \* each caller's progress
    settled     \* auxiliary: the epoch when the last DEL that worked was sent

vars == <<epoch, cached, bustGen, flight, call, settled>>

Epochs == 0..MaxEpoch

(* got is the reply of the GET and later the result; lo is the settled     *)
(* epoch at the GET or, for a caller that joined a flight, that of the     *)
(* flight's owner if it is lower.                                          *)
Call == [pc : {"idle", "reply", "wait", "done", "bust"}, user : Users \cup {None},
         got : Epochs \cup {None}, lo : Epochs]

NoCall == [pc |-> "idle", user |-> None, got |-> None, lo |-> 0]

Flight == [pc : {"none", "reading", "read", "setting"}, gen : Nat,
           val : Epochs \cup {None}, owner : Requests \cup {None}]

NoFlight == [pc |-> "none", gen |-> 0, val |-> None, owner |-> None]

Waiting(r, u) == call[r].pc = "wait" /\ call[r].user = u

Lesser(a, b) == IF a < b THEN a ELSE b

-----------------------------------------------------------------------------
Init ==
    /\ epoch = [u \in Users |-> 0]
    /\ settled = [u \in Users |-> 0]
    /\ cached = [u \in Users |-> None]
    /\ bustGen = [u \in Users |-> 0]
    /\ flight = [u \in Users |-> NoFlight]
    /\ call = [r \in Requests |-> NoCall]

(* get: the Redis GET.  An error counts as a miss.                         *)
Get(r, u) ==
    /\ call[r].pc = "idle"
    /\ \E reply \in {cached[u]} \cup (IF Faults THEN {None} ELSE {}) :
          call' = [call EXCEPT ![r] =
                     [pc |-> "reply", user |-> u, got |-> reply,
                      lo |-> settled[u]]]
    /\ UNCHANGED <<epoch, cached, bustGen, flight, settled>>

(* Mutant: a null reply is taken for an epoch.                             *)
Hit_NoNullCheck(r) ==
    /\ call[r].pc = "reply"
    /\ call' = [call EXCEPT ![r].pc = "done"]
    /\ UNCHANGED <<epoch, cached, bustGen, flight, settled>>

Hit(r) ==
    /\ call[r].pc = "reply" /\ call[r].got # None
    /\ call' = [call EXCEPT ![r].pc = "done"]
    /\ UNCHANGED <<epoch, cached, bustGen, flight, settled>>

(* A miss starts the user's database read, or joins the one under way.     *)
StartFlight(r) ==
    LET u == call[r].user IN
    /\ call[r].pc = "reply" /\ call[r].got = None
    /\ flight[u] = NoFlight
    /\ flight' = [flight EXCEPT ![u] = [pc |-> "reading", gen |-> bustGen[u],
                                        val |-> None, owner |-> r]]
    /\ call' = [call EXCEPT ![r].pc = "wait"]
    /\ UNCHANGED <<epoch, cached, bustGen, settled>>

JoinFlight(r) ==
    LET u == call[r].user IN
    /\ call[r].pc = "reply" /\ call[r].got = None
    /\ flight[u] # NoFlight
    /\ call' = [call EXCEPT ![r].pc = "wait",
                            ![r].lo = Lesser(@, call[flight[u].owner].lo)]
    /\ UNCHANGED <<epoch, cached, bustGen, flight, settled>>

(* readDb: the SELECT reads the committed epoch.                           *)
ReadDb(u) ==
    /\ flight[u].pc = "reading"
    /\ flight' = [flight EXCEPT ![u].pc = "read", ![u].val = epoch[u]]
    /\ UNCHANGED <<epoch, cached, bustGen, call, settled>>

(* Mutant: only the caller that started the flight resumes.                *)
Land_OwnerOnly(u) ==
    /\ flight' = [flight EXCEPT ![u] = NoFlight]
    /\ call' = [call EXCEPT ![flight[u].owner].pc = "done",
                            ![flight[u].owner].got = flight[u].val]

(* The promise of the flight resolves: every caller that awaits it resumes *)
(* and the finally handler has removed it from the map.                    *)
Land(u) ==
    /\ flight' = [flight EXCEPT ![u] = NoFlight]
    /\ call' = [r \in Requests |->
                  IF Waiting(r, u)
                  THEN [call[r] EXCEPT !.pc = "done", !.got = flight[u].val]
                  ELSE call[r]]

(* A bust since the flight began: answer, but do not store.                *)
SkipStore(u) ==
    /\ flight[u].pc = "read" /\ flight[u].gen # bustGen[u]
    /\ Land(u)
    /\ UNCHANGED <<epoch, cached, bustGen, settled>>

(* Mutant: no generation check before the SET.                             *)
Store_NoGenCheck(u) ==
    /\ flight[u].pc = "read"
    /\ flight' = [flight EXCEPT ![u].pc = "setting"]
    /\ cached' = [cached EXCEPT ![u] = flight[u].val]
    /\ UNCHANGED <<epoch, bustGen, call, settled>>

(* No bust since the flight began: SET with a TTL; an error is logged.     *)
Store(u) ==
    /\ flight[u].pc = "read" /\ flight[u].gen = bustGen[u]
    /\ flight' = [flight EXCEPT ![u].pc = "setting"]
    /\ \/ cached' = [cached EXCEPT ![u] = flight[u].val]
       \/ Faults /\ UNCHANGED cached
    /\ UNCHANGED <<epoch, bustGen, call, settled>>

Stored(u) ==
    /\ flight[u].pc = "setting"
    /\ Land(u)
    /\ UNCHANGED <<epoch, cached, bustGen, settled>>

(* readDb rejects: every caller fails, the finally handler clears the map. *)
ReadDbFails(u) ==
    /\ Faults
    /\ flight[u].pc = "reading"
    /\ flight' = [flight EXCEPT ![u] = NoFlight]
    /\ call' = [r \in Requests |-> IF Waiting(r, u) THEN NoCall ELSE call[r]]
    /\ UNCHANGED <<epoch, cached, bustGen, settled>>

(* The caller uses the epoch it got.                                       *)
Return(r) ==
    /\ call[r].pc = "done"
    /\ call' = [call EXCEPT ![r] = NoCall]
    /\ UNCHANGED <<epoch, cached, bustGen, flight, settled>>

(* bumpEpoch: the UPDATE of users commits, and only then ...               *)
UpdateEpoch(r, u) ==
    /\ call[r].pc = "idle"
    /\ epoch[u] < MaxEpoch
    /\ epoch' = [epoch EXCEPT ![u] = @ + 1]
    /\ call' = [call EXCEPT ![r] = [NoCall EXCEPT !.pc = "bust", !.user = u]]
    /\ UNCHANGED <<cached, bustGen, flight, settled>>

(* Mutant: bust only deletes the key.                                      *)
Bust_DelOnly(r) ==
    LET u == call[r].user IN
    /\ call[r].pc = "bust"
    /\ cached' = [cached EXCEPT ![u] = None]
    /\ settled' = [settled EXCEPT ![u] = epoch[u]]
    /\ call' = [call EXCEPT ![r] = NoCall]
    /\ UNCHANGED <<epoch, bustGen, flight>>

(* ... bust: the generation first, then the Redis DEL; an error is logged. *)
Bust(r) ==
    LET u == call[r].user IN
    /\ call[r].pc = "bust"
    /\ bustGen' = [bustGen EXCEPT ![u] = @ + 1]
    /\ \/ /\ cached' = [cached EXCEPT ![u] = None]
          /\ settled' = [settled EXCEPT ![u] = epoch[u]]
       \/ Faults /\ UNCHANGED <<cached, settled>>
    /\ call' = [call EXCEPT ![r] = NoCall]
    /\ UNCHANGED <<epoch, flight>>

(* Mutant: SET without EX, so that the key stays.                          *)
ExpireKey_NoTtl(u) == FALSE /\ UNCHANGED vars /\ u \in Users

(* The TTL of the key runs out.                                            *)
ExpireKey(u) ==
    /\ cached[u] # None
    /\ cached' = [cached EXCEPT ![u] = None]
    /\ UNCHANGED <<epoch, bustGen, flight, call, settled>>

(* The API process dies and restarts: its maps and callers are gone, a     *)
(* bust that had not run never will.  Redis and PostgreSQL keep theirs.    *)
Restart ==
    /\ Faults
    /\ bustGen' = [u \in Users |-> 0]
    /\ flight' = [u \in Users |-> NoFlight]
    /\ call' = [r \in Requests |-> NoCall]
    /\ UNCHANGED <<epoch, cached, settled>>

-----------------------------------------------------------------------------
CallerStep(r) == Hit(r) \/ StartFlight(r) \/ JoinFlight(r) \/ Return(r) \/ Bust(r)
FlightStep(u) == ReadDb(u) \/ SkipStore(u) \/ Store(u) \/ Stored(u)

Next ==
    \/ \E r \in Requests, u \in Users : Get(r, u) \/ UpdateEpoch(r, u)
    \/ \E r \in Requests : CallerStep(r)
    \/ \E u \in Users : FlightStep(u) \/ ReadDbFails(u) \/ ExpireKey(u)
    \/ Restart

Spec == Init /\ [][Next]_vars

(* The process runs its continuations, PostgreSQL and Redis answer, and    *)
(* Redis expires keys.                                                     *)
Fairness ==
    /\ \A r \in Requests : WF_vars(CallerStep(r))
    /\ \A u \in Users : WF_vars(FlightStep(u)) /\ WF_vars(ExpireKey(u))

LiveSpec == Spec /\ Fairness

-----------------------------------------------------------------------------
TypeOK ==
    /\ epoch \in [Users -> Epochs]
    /\ settled \in [Users -> Epochs]
    /\ cached \in [Users -> Epochs \cup {None}]
    /\ bustGen \in [Users -> Nat]
    /\ flight \in [Users -> Flight]
    /\ call \in [Requests -> Call]
    /\ \A r \in Requests : call[r].pc = "done" => call[r].got \in Epochs

(* The cached entry is never older than the last bust that reached Redis:  *)
(* the generation check keeps a database read that began before the bust   *)
(* from planting what it read behind the DEL.                              *)
CacheKeepsUpWithBusts ==
    \A u \in Users : cached[u] # None => settled[u] <= cached[u]

(* The cache implements the register of EpochRegister.                     *)
ReadOf(c) ==
    IF c.pc \in {"reply", "wait", "done"}
    THEN [user |-> c.user, lo |-> c.lo, val |-> IF c.pc = "done" THEN c.got ELSE None]
    ELSE [user |-> None, lo |-> 0, val |-> None]

readOf == [r \in Requests |-> ReadOf(call[r])]

Register == INSTANCE EpochRegister WITH read <- readOf

ImplementsRegister == Register!RegisterSpec

(* Whatever fails, when bumps have ceased Redis ends up with the current   *)
(* epoch or nothing, for good: a lost DEL costs at most the TTL.           *)
Converges == <>[](\A u \in Users : cached[u] \in {None, epoch[u]})

(* Every get is answered or fails: no caller is left awaiting a flight     *)
(* that is gone from the map or that nobody flies.                         *)
GetsEnd == \A r \in Requests : call[r].pc \in {"reply", "wait"} ~>
                                    call[r].pc \notin {"reply", "wait"}

(* The strengthening that makes CacheKeepsUpWithBusts inductive and proves *)
(* the refinement.                                                         *)
(*   CacheInv:  what is settled or cached is not ahead of the column.      *)
(*   FlightInv: a flight has an owner that awaits it; a value it may still *)
(*              store was read after the last bust.                        *)
(*   CallInv:   a caller's bound was settled, and every value on its way   *)
(*              to the caller respects it.                                 *)
CacheInv ==
    \A u \in Users :
        /\ settled[u] <= epoch[u]
        /\ cached[u] # None => settled[u] <= cached[u] /\ cached[u] <= epoch[u]

FlightInv ==
    \A u \in Users :
        /\ flight[u].pc = "none" => flight[u] = NoFlight
        /\ flight[u].pc # "none" =>
              /\ flight[u].owner \in Requests /\ Waiting(flight[u].owner, u)
              /\ flight[u].gen <= bustGen[u]
        /\ flight[u].pc \in {"read", "setting"} =>
              flight[u].val \in Epochs /\ flight[u].val <= epoch[u]
        /\ flight[u].pc = "read" /\ flight[u].gen = bustGen[u] =>
              settled[u] <= flight[u].val

Within(r, v) == v \in Epochs /\ call[r].lo <= v /\ v <= epoch[call[r].user]

CallInv ==
    \A r \in Requests :
        /\ call[r].pc = "idle" => call[r] = NoCall
        /\ call[r].pc # "idle" => call[r].user \in Users
        /\ call[r].pc \in {"reply", "wait", "done"} => call[r].lo <= settled[call[r].user]
        /\ call[r].pc = "reply" /\ call[r].got # None => Within(r, call[r].got)
        /\ call[r].pc = "wait" =>
              /\ flight[call[r].user].pc # "none"
              /\ flight[call[r].user].pc # "reading" =>
                    Within(r, flight[call[r].user].val)
        /\ call[r].pc = "done" => Within(r, call[r].got)

IInv == TypeOK /\ CacheInv /\ FlightInv /\ CallInv

=============================================================================
