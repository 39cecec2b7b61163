--------------------------- MODULE ClientSession ---------------------------
(***************************************************************************)
(* The session in a browser: tabs that share the refresh cookie, each with *)
(* its own access token in memory, the timer that renews the token, the    *)
(* idle lock, logout, the bootstrap of a page and the way back to the      *)
(* login page, which unmounts AuthProvider and wipes nothing.  What lies   *)
(* in keyStore beside the token is the matter of SharedKeys and Account.   *)
(*                                                                         *)
(* A mounted AuthProvider has one variable `timer`: setTimeout adds a      *)
(* pending timeout and clearTimeout takes away the one the variable refers *)
(* to (handle).  The catch branch of doRefresh overwrites the variable     *)
(* without clearing it, so there may be timeouts nothing refers to.        *)
(*                                                                         *)
(* The server is the one RefreshFamilies describes, seen from here: the    *)
(* current token of a living family rotates, an earlier one kills it.      *)
(***************************************************************************)
EXTENDS Integers

CONSTANTS
    Tabs,
    MaxTimers   \* bound on a tab's pending timeouts and requests

VARIABLES
    session,    \* the family of the cookie: alive, or dead or absent
    stale,      \* the browser's cookie is not the family's latest token
    tab

vars == <<session, stale, tab>>

(* The requests of a mounted AuthProvider: its bootstrap's and those of    *)
(* useAutoRefresh.                                                         *)
Kinds   == {"boot", "refresh"}
Flights == {"none", "sent", "ok", "denied", "error"}
Tab == [page : {"login", "boot", "authed"}, token : {"none", "live", "expired"},
        pending : 0..MaxTimers, handle : BOOLEAN,
        fly : [Kinds -> Flights], old : SUBSET Kinds]   \* old: with an earlier token

LoginPage == [page |-> "login", token |-> "none", pending |-> 0,
              handle |-> FALSE, fly |-> [k \in Kinds |-> "none"], old |-> {}]

Init == session = "dead" /\ stale = FALSE /\ tab = [t \in Tabs |-> LoginPage]

Put(t, record) == tab' = [tab EXCEPT ![t] = record]
Flying(q)      == {k \in Kinds : q.fly[k] # "none"}
Mounted(q)     == q.page \in {"boot", "authed"}
Sent(q, k)     == [q EXCEPT !.fly[k] = "sent", !.old = IF stale THEN @ \cup {k} ELSE @ \ {k}]
Ended(q, k)    == [q EXCEPT !.fly[k] = "none", !.old = @ \ {k}]

Cleared(q)   == [q EXCEPT !.pending = IF q.handle THEN @ - 1 ELSE @, !.handle = FALSE]
Scheduled(q) == [Cleared(q) EXCEPT !.pending = @ + 1, !.handle = TRUE]

(* accessTokenStore.set: its listener schedules.                           *)
SetToken(q) == Scheduled([q EXCEPT !.token = "live"])

-----------------------------------------------------------------------------
(* The login page, once no request of an earlier session is on its way; it *)
(* goes on in the same page under a new AuthProvider.                      *)
SignIn(t) ==
    /\ tab[t].page = "login" /\ \A u \in Tabs : Flying(tab[u]) = {}
    /\ session' = "alive" /\ stale' = FALSE
    /\ Put(t, SetToken([LoginPage EXCEPT !.page = "authed"]))

(* A sign-in that fails wipes both stores; the cookie may have been set.   *)
SignInFails(t) ==
    /\ tab[t].page = "login"
    /\ Put(t, [tab[t] EXCEPT !.token = "none"])
    /\ \/ UNCHANGED <<session, stale>>
       \/ /\ \A u \in Tabs : Flying(tab[u]) = {}
          /\ session' = "alive" /\ stale' = FALSE

(* A page of the authed tree is opened: AuthProvider mounts.  A token that *)
(* has not expired is taken over and its renewal scheduled.  Otherwise the *)
(* bootstrap refreshes once; and if there is an expired token, its renewal *)
(* is scheduled too, at once.                                              *)
Mount(t) ==
    LET q == tab[t]
        booting == Sent([q EXCEPT !.page = "boot"], "boot")
    IN /\ q.page = "login"
       /\ \/ q.token = "none" /\ Put(t, booting)
          \/ q.token = "live" /\ Put(t, Scheduled([q EXCEPT !.page = "authed"]))
          \/ q.token # "none" /\ Put(t, Scheduled([booting EXCEPT !.token = "expired"]))
       /\ UNCHANGED <<session, stale>>

(* Back to the login page without a page load: the effects are cleaned up, *)
(* so that timeouts and requests that are left do nothing here any more.   *)
Unmount(t) ==
    /\ Mounted(tab[t])
    /\ Put(t, [LoginPage EXCEPT !.token = tab[t].token])
    /\ UNCHANGED <<session, stale>>

(* doRefresh returns at once while a refresh is in flight.                 *)
Refreshing(q) == IF q.fly["refresh"] = "none" THEN Sent(q, "refresh") ELSE q

TimerFires(t) ==
    /\ tab[t].pending > 0
    /\ \/ /\ tab[t].handle
          /\ Put(t, Refreshing([tab[t] EXCEPT !.pending = @ - 1, !.handle = FALSE]))
       \/ /\ tab[t].pending > (IF tab[t].handle THEN 1 ELSE 0)
          /\ Put(t, Refreshing([tab[t] EXCEPT !.pending = @ - 1]))
    /\ UNCHANGED <<session, stale>>

(* visibilitychange, with the token about to expire or expired.            *)
BecomeVisible(t) ==
    LET q == tab[t] IN
    /\ Mounted(q) /\ q.token # "none" /\ q.fly["refresh"] = "none"
    /\ q.pending + (IF q.fly["boot"] = "none" THEN 0 ELSE 1) < MaxTimers
    /\ Put(t, Refreshing(q))
    /\ UNCHANGED <<session, stale>>

(* POST /auth/refresh: a rotation leaves every other request on its way    *)
(* with a token that is not the latest.                                    *)
Awaiting(u) == {k \in Kinds : tab[u].fly[k] = "sent"}

Serve(t, k) ==
    /\ tab[t].fly[k] = "sent"
    /\ IF session = "alive" /\ k \notin tab[t].old
       THEN /\ tab' = [u \in Tabs |->
                          [tab[u] EXCEPT !.fly[k] = IF u = t THEN "ok" ELSE @,
                                         !.old = @ \cup IF u = t THEN Awaiting(u) \ {k}
                                                       ELSE Awaiting(u)]]
            /\ stale' = TRUE
            /\ UNCHANGED session
       ELSE /\ session' = "dead"
            /\ Put(t, [tab[t] EXCEPT !.fly[k] = "denied"])
            /\ UNCHANGED stale

(* The request, or the answer to one that was served, is lost.             *)
NetworkFails(t, k) ==
    /\ tab[t].fly[k] \in {"sent", "ok"}
    /\ Put(t, [tab[t] EXCEPT !.fly[k] = "error"])
    /\ UNCHANGED <<session, stale>>

(* The answer arrives, and the new cookie with it.  The wrapper's          *)
(* schedule() after set() finds the timer the listener has just set.       *)
Refreshed(t) ==
    /\ tab[t].fly["refresh"] = "ok"
    /\ stale' = FALSE
    /\ Put(t, SetToken(Ended(tab[t], "refresh")))
    /\ UNCHANGED session

(* 401: wipe both stores, and a page load of the login page, with which    *)
(* timeouts and requests end.                                              *)
AuthLost(t) ==
    /\ tab[t].fly["refresh"] = "denied"
    /\ Put(t, LoginPage)
    /\ UNCHANGED <<session, stale>>

(* Mutant: no retry after a network error.                                 *)
RetryLater_Never(t) ==
    /\ tab[t].fly["refresh"] = "error"
    /\ Put(t, Ended(tab[t], "refresh"))
    /\ UNCHANGED <<session, stale>>

(* Any other error: try again in 30 s.                                     *)
RetryLater(t) ==
    /\ tab[t].fly["refresh"] = "error"
    /\ Put(t, [Ended(tab[t], "refresh") EXCEPT !.pending = @ + 1, !.handle = TRUE])
    /\ UNCHANGED <<session, stale>>

(* The bootstrap ends: with a token the page shows; without one the gate   *)
(* leaves for the login page.  A refused or lost answer wipes nothing.     *)
Booted(t) ==
    LET q == Ended(tab[t], "boot") IN
    /\ tab[t].page = "boot"
    /\ \/ /\ tab[t].fly["boot"] = "ok"
          /\ stale' = FALSE
          /\ Put(t, [SetToken(q) EXCEPT !.page = "authed"])
       \/ /\ tab[t].fly["boot"] \in {"denied", "error"}
          /\ Put(t, IF q.token = "live" THEN [q EXCEPT !.page = "authed"] ELSE LoginPage)
          /\ UNCHANGED stale
    /\ UNCHANGED session

(* onIdle: wipe both stores; the gate then loads the login page.           *)
AutoLock(t) ==
    /\ tab[t].page = "authed"
    /\ Put(t, LoginPage)
    /\ UNCHANGED <<session, stale>>

(* The same after the API's logout, whether it succeeded or not.           *)
Logout(t) ==
    /\ tab[t].page = "authed"
    /\ session' \in {session, "dead"}
    /\ Put(t, LoginPage)
    /\ UNCHANGED stale

(* "Sign out everywhere": revoke-all ends every family of the user, this   *)
(* one too; whether it succeeds or not, the tab wipes and leaves.          *)
RevokeAllHere(t) == tab[t].token = "live" /\ Logout(t)

(* Another device revokes the session, or it expires.                      *)
RevokedElsewhere ==
    /\ session = "alive" /\ session' = "dead"
    /\ UNCHANGED <<stale, tab>>

(* A request whose page was unmounted or replaced, and which nobody waits  *)
(* for, is served all the same; or its answer brings the browser a cookie. *)
(* (A refused one ends the session: RevokedElsewhere.)                     *)
LeftBehind ==
    /\ session = "alive"
    /\ \/ /\ stale' = TRUE
          /\ tab' = [u \in Tabs |-> [tab[u] EXCEPT !.old = @ \cup Awaiting(u)]]
       \/ stale' = FALSE /\ UNCHANGED tab
    /\ UNCHANGED session

(* A page load, at any time.                                               *)
NewPage(t) ==
    /\ tab[t] # LoginPage
    /\ Put(t, LoginPage)
    /\ UNCHANGED <<session, stale>>

Next ==
    \/ RevokedElsewhere \/ LeftBehind
    \/ \E t \in Tabs :
          \/ SignIn(t) \/ SignInFails(t) \/ Mount(t) \/ Unmount(t)
          \/ TimerFires(t) \/ BecomeVisible(t)
          \/ \E k \in Kinds : Serve(t, k) \/ NetworkFails(t, k)
          \/ Refreshed(t) \/ AuthLost(t) \/ RetryLater(t) \/ Booted(t)
          \/ AutoLock(t) \/ Logout(t) \/ RevokeAllHere(t) \/ NewPage(t)

Spec == Init /\ [][Next]_vars

-----------------------------------------------------------------------------
TypeOK ==
    /\ session \in {"alive", "dead"} /\ stale \in BOOLEAN
    /\ tab \in [Tabs -> Tab]

(* A page of the authed tree that has a token will renew it: a timeout is  *)
(* pending or a refresh in flight, whatever errors, wipes, visibility      *)
(* changes and ways back and forth came before, and however often the      *)
(* timer fired while a refresh was in flight.                              *)
ChainUnbroken ==
    \A t \in Tabs : Mounted(tab[t]) /\ tab[t].token = "live"
        => tab[t].pending > 0 \/ tab[t].fly["refresh"] # "none"

=============================================================================
