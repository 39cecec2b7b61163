----------------------------- MODULE Membership -----------------------------
(***************************************************************************)
(* What the sharing endpoints promise about one shared vault: the user who *)
(* founds it owns it for good; everybody else gets in by the owner's       *)
(* invitation and their own acceptance, once, and out again by a removal;  *)
(* an invitation that was declined is never offered again.                 *)
(*                                                                         *)
(* Sharing implements it; SharedKeys takes it for its server.              *)
(***************************************************************************)
CONSTANTS Vaults, Users

VARIABLE member

Standing == {"none", "owner", "invited", "member", "declined"}

Init == member = [v \in Vaults |-> [u \in Users |-> "none"]]

Become(v, u, s) == member' = [member EXCEPT ![v][u] = s]

Found(v, u) ==
    /\ \A w \in Users : member[v][w] = "none"
    /\ Become(v, u, "owner")

Invite(v, by, u) ==
    /\ member[v][by] = "owner" /\ member[v][u] = "none"
    /\ Become(v, u, "invited")

Accept(v, u)  == member[v][u] = "invited" /\ Become(v, u, "member")
Decline(v, u) == member[v][u] = "invited" /\ Become(v, u, "declined")
Leave(v, u)   == member[v][u] = "member"  /\ Become(v, u, "none")

Next ==
    \E v \in Vaults, u \in Users :
        \/ Found(v, u)
        \/ \E by \in Users : Invite(v, by, u)
        \/ Accept(v, u) \/ Decline(v, u) \/ Leave(v, u)

Spec == Init /\ [][Next]_member
=============================================================================
