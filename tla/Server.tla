------------------------------- MODULE Server -------------------------------
(***************************************************************************)
(* Two parts of the API that write tables of their own: Sharing and Signup.*)
(* No statement of one touches a variable of the other, so each property   *)
(* can be looked at with the other part at rest: a behaviour has one part  *)
(* of Scope in focus.                                                      *)
(***************************************************************************)
EXTENDS Sharing

CONSTANTS
    Accounts, Codes,    \* of Signup
    Scope               \* the parts to explore

ASSUME NoneIsNoCode == None \notin Accounts \cup Codes

VARIABLES focus, invited, expired, redeemed, email, personal, signupReq, winners

SU == INSTANCE Signup WITH Emails <- Users, req <- signupReq
signupVars == <<invited, expired, redeemed, email, personal, signupReq, winners>>
serverVars == <<vars, signupVars, focus>>

ServerInit == focus \in Scope /\ Init /\ SU!Init

ServerNext ==
    /\ UNCHANGED focus
    /\ \/ focus = "sharing" /\ Next /\ UNCHANGED <<signupVars>>
       \/ focus = "signup" /\ SU!Next /\ UNCHANGED <<vars>>

ServerSpec == ServerInit /\ [][ServerNext]_serverVars

(* Every variable of the two parts has its type.                           *)
TypesOK == TypeOK /\ SU!TypeOK

(* The properties of Signup: accounts are whole, codes are tickets.        *)
AccountsAreWhole == SU!AccountsAreWhole
CodesAreTickets  == SU!ImplementsTickets
=============================================================================
