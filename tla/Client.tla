------------------------------- MODULE Client -------------------------------
(***************************************************************************)
(* What the browser does outside the editors: the keys of shared vaults,   *)
(* the session of a tab, and an account's own keys from signup to sign-in. *)
(* The three modules look at a tab from three sides and share no variable: *)
(* SharedKeys leaves open when a tab signs in, renews, locks or reloads,   *)
(* ClientSession what is in the key store, Account what follows a sign-in. *)
(* A behaviour has one part of Scope in focus.                             *)
(***************************************************************************)
EXTENDS SharedKeys, Integers

CONSTANTS
    MaxTimers,                                  \* of ClientSession
    Accounts, Passwords, Secrets, Phrases, MaxParams, MaxFactors, Wizards, Browsers, \* of Account
    MaxReach,   \* bound of "keys": the pages signed in times the vaults founded
    Scope                                       \* the parts to explore

VARIABLES focus,
    session, stale, tab,
    params, users, factors, totp, wizard, drawn, notes, signin, jar

CS == INSTANCE ClientSession
AC == INSTANCE Account WITH tab <- signin, cookie <- jar

ASSUME BoundsAssumption == MaxTimers \in Nat \ {0, 1} /\ MaxParams \in Nat \ {0}

(* None is no account, no request, no key and no ciphertext.               *)
ASSUME NoneIsNoTerm ==
    /\ None \notin Accounts \cup AC!Request
    /\ \A sk \in Secrets :
          None \notin {AC!Dek(sk), AC!SigningSk(sk), AC!KxSk(sk),
                      [dek |-> AC!Dek(sk), signing |-> AC!SigningSk(sk), kx |-> AC!KxSk(sk)]}
    /\ \A a \in Accounts, sk \in Secrets, p \in 1..MaxParams :
          /\ None # <<"totp", a>>
          /\ None # AC!Wrap(<<"totp", a>>, AC!Dek(sk), AC!Aad("totp", a, p))

sessionVars == <<session, stale, tab>>
accountVars == <<params, users, factors, totp, wizard, drawn, notes, signin, jar>>
clientVars  == <<vars, sessionVars, accountVars, focus>>

ClientInit == focus \in Scope /\ Init /\ CS!Init /\ AC!Init

Reach == Cardinality({d \in Tabs : realm[d] # {}})
         * Cardinality({v \in Vaults : \E u \in Users : member[v][u] # "none"})

ClientNext ==
    /\ UNCHANGED focus
    /\ \/ focus = "keys" /\ Next /\ Reach' <= MaxReach /\ UNCHANGED <<sessionVars, accountVars>>
       \/ focus = "session" /\ CS!Next /\ UNCHANGED <<vars, accountVars>>
       \/ focus = "account" /\ AC!Next /\ UNCHANGED <<vars, sessionVars>>

ClientSpec == ClientInit /\ [][ClientNext]_clientVars

(* Every variable of the three parts has its type.                         *)
TypesOK == TypeOK /\ CS!TypeOK /\ AC!TypeOK

(* The property of ClientSession: see there.                               *)
ChainUnbroken == CS!ChainUnbroken

(* The properties of Account: see there.                                   *)
AccountOpens  == AC!AccountOpens
RightKeysOnly == AC!RightKeysOnly
=============================================================================
