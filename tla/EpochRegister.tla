--------------------------- MODULE EpochRegister ---------------------------
(***************************************************************************)
(* What SessionService.getEpoch and bumpEpoch promise about                *)
(* users.session_epoch, without saying how: an epoch that only grows and   *)
(* reads that may lag, but not behind the epoch that was settled when they *)
(* began.  An epoch is settled when the bump that made it current has      *)
(* cleared the cache.  A read that shares another read's database query    *)
(* inherits the earlier start of the two.                                  *)
(***************************************************************************)
EXTENDS Integers

CONSTANTS
    Users,
    Requests,
    MaxEpoch,   \* a natural number, the bound on session_epoch
    None        \* neither a user nor a number

VARIABLES
    epoch,      \* users.session_epoch
    settled,    \* the oldest epoch a read that begins now can return
    read        \* the reads under way

registerVars == <<epoch, settled, read>>

Epochs == 0..MaxEpoch

Read == [user : Users \cup {None}, lo : Epochs, val : Epochs \cup {None}]

NoRead == [user |-> None, lo |-> 0, val |-> None]

Pending(r, u) == u \in Users /\ read[r].user = u /\ read[r].val = None

-----------------------------------------------------------------------------
RegisterInit ==
    /\ epoch = [u \in Users |-> 0]
    /\ settled = [u \in Users |-> 0]
    /\ read = [r \in Requests |-> NoRead]

BeginRead(r, u) ==
    /\ read[r] = NoRead
    /\ read' = [read EXCEPT ![r] = [user |-> u, lo |-> settled[u], val |-> None]]
    /\ UNCHANGED <<epoch, settled>>

(* Read r joins the query of read q, which may have begun earlier.         *)
ShareRead(r, q, u) ==
    /\ Pending(r, u) /\ Pending(q, u)
    /\ read[q].lo < read[r].lo
    /\ read' = [read EXCEPT ![r].lo = read[q].lo]
    /\ UNCHANGED <<epoch, settled>>

CanAnswer(r, u, v) == Pending(r, u) /\ read[r].lo <= v /\ v <= epoch[u]

(* The reads of S are answered together, with the same epoch.              *)
AnswerReads(S, u, v) ==
    /\ \A r \in S : CanAnswer(r, u, v)
    /\ read' = [r \in Requests |->
                  IF r \in S THEN [read[r] EXCEPT !.val = v] ELSE read[r]]
    /\ UNCHANGED <<epoch, settled>>

(* Reads end: their values were used, or they failed.                      *)
EndReads(S) ==
    /\ read' = [r \in Requests |-> IF r \in S THEN NoRead ELSE read[r]]
    /\ UNCHANGED <<epoch, settled>>

Bump(u) ==
    /\ epoch[u] < MaxEpoch
    /\ epoch' = [epoch EXCEPT ![u] = @ + 1]
    /\ UNCHANGED <<settled, read>>

Settle(u) ==
    /\ settled' = [settled EXCEPT ![u] = epoch[u]]
    /\ UNCHANGED <<epoch, read>>

RegisterNext ==
    \/ \E r \in Requests, u \in Users : BeginRead(r, u)
    \/ \E r, q \in Requests, u \in Users : ShareRead(r, q, u)
    \/ \E S \in SUBSET Requests, u \in Users, v \in Epochs : AnswerReads(S, u, v)
    \/ \E S \in SUBSET Requests : EndReads(S)
    \/ \E u \in Users : Bump(u) \/ Settle(u)

RegisterSpec == RegisterInit /\ [][RegisterNext]_registerVars
=============================================================================
