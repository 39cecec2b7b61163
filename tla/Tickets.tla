------------------------------- MODULE Tickets -------------------------------
(***************************************************************************)
(* What a single-use ticket promises: it is issued to one holder, one      *)
(* request redeems it, the party that request acts for is the holder, and  *)
(* a ticket that was redeemed or has lapsed never opens again.             *)
(*                                                                         *)
(* TOTP issuance nonces and WebAuthn challenges (TwoFactor) and invite     *)
(* codes (Signup) are tickets: two modules, three stores, one promise.     *)
(***************************************************************************)
CONSTANTS Tickets, Holders, Requests, NoHolder

VARIABLES
    holder,     \* whom each ticket was issued to
    open,       \* tickets that can still be redeemed
    redeemers   \* who redeemed each ticket: <<request, whom it acted for>>

vars == <<holder, open, redeemers>>

Init ==
    /\ holder = [k \in Tickets |-> NoHolder]
    /\ open = {}
    /\ redeemers = [k \in Tickets |-> {}]

Issue(k, h) ==
    /\ holder[k] = NoHolder
    /\ holder' = [holder EXCEPT ![k] = h]
    /\ open' = open \cup {k}
    /\ UNCHANGED redeemers

(* A new ticket may take the place of an earlier one of the same holder.   *)
Replace(k, h, old) ==
    /\ holder[k] = NoHolder /\ holder[old] = h
    /\ holder' = [holder EXCEPT ![k] = h]
    /\ open' = (open \ {old}) \cup {k}
    /\ UNCHANGED redeemers

(* Holding the ticket is not enough: r must act for the party it was       *)
(* issued to.                                                              *)
Redeem(k, r, h) ==
    /\ k \in open /\ holder[k] = h
    /\ open' = open \ {k}
    /\ redeemers' = [redeemers EXCEPT ![k] = @ \cup {<<r, h>>}]
    /\ UNCHANGED holder

Lapse(k) ==
    /\ k \in open
    /\ open' = open \ {k}
    /\ UNCHANGED <<holder, redeemers>>

Next ==
    \/ \E k \in Tickets, h \in Holders : Issue(k, h)
    \/ \E k, old \in Tickets, h \in Holders : Replace(k, h, old)
    \/ \E k \in Tickets, r \in Requests, h \in Holders : Redeem(k, r, h)
    \/ \E k \in Tickets : Lapse(k)

Spec == Init /\ [][Next]_vars
=============================================================================
