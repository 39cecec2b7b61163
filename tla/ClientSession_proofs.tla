------------------------ MODULE ClientSession_proofs ------------------------
(***************************************************************************)
(* Theorems about ClientSession, for any number of tabs and of pending     *)
(* timeouts: whatever happens to it, a page with a token goes on renewing  *)
(* it, and its timeouts do not multiply.                                   *)
(***************************************************************************)
EXTENDS ClientSession, TLAPS

Busy(q, k) == IF q.fly[k] = "none" THEN 0 ELSE 1

(* What the chain rests on: the variable `timer` refers to a timeout that  *)
(* is pending, so clearTimeout never takes away another one, and the one   *)
(* it takes away is replaced; a request takes the place of the timeout that*)
(* started it, and gives it back; the login page has neither.              *)
Links(q) ==
    /\ q.handle => q.pending > 0
    /\ Mounted(q) /\ q.token = "live" => q.pending > 0 \/ q.fly["refresh"] # "none"
    /\ q.pending + Busy(q, "boot") + Busy(q, "refresh") \leq MaxTimers
    /\ q.page = "login" => /\ q.pending = 0 /\ q.handle = FALSE
                           /\ q.fly["boot"] = "none" /\ q.fly["refresh"] = "none"

Shape == [page : {"login", "boot", "authed"}, token : {"none", "live", "expired"},
          pending : Nat, handle : BOOLEAN, fly : [Kinds -> Flights], old : SUBSET Kinds]

IInv ==
    /\ session \in {"alive", "dead"} /\ stale \in BOOLEAN
    /\ tab \in [Tabs -> Shape] /\ \A t \in Tabs : Links(tab[t])

LEMMA TabMoves ==
  ASSUME IInv, NEW t \in Tabs, NEW q \in Shape, Put(t, q), Links(q),
         stale' \in BOOLEAN, session' \in {"alive", "dead"}
  PROVE  IInv'
<1>1. tab' \in [Tabs -> Shape] /\ \A u \in Tabs : tab'[u] = IF u = t THEN q ELSE tab[u]
  BY DEF IInv, Put
<1>2. \A p \in Shape : Links(p) <=> Links(p)'
  BY DEF Links, Mounted, Busy
<1> QED BY <1>1, <1>2 DEF IInv

LEMMA LoginPageLinks ==
  ASSUME MaxTimers \in Nat \ {0, 1}
  PROVE  /\ LoginPage \in Shape /\ Links(LoginPage)
         /\ LoginPage.page = "login" /\ LoginPage.pending = 0 /\ LoginPage.handle = FALSE
         /\ LoginPage.fly["boot"] = "none" /\ LoginPage.fly["refresh"] = "none"
BY DEF LoginPage, Shape, Links, Busy, Mounted, Kinds, Flights

(* The operators a step is made of.                                        *)
LEMMA ScheduledFields ==
  ASSUME NEW q \in Shape, q.handle => q.pending > 0
  PROVE  /\ Scheduled(q) \in Shape /\ Scheduled(q).handle = TRUE
         /\ q.handle => Scheduled(q).pending = q.pending
         /\ ~ q.handle => Scheduled(q).pending = q.pending + 1
         /\ Scheduled(q).page = q.page /\ Scheduled(q).token = q.token
         /\ Scheduled(q).fly = q.fly
<1> DEFINE n == IF q.handle THEN q.pending - 1 ELSE q.pending
<1>1. n \in Nat /\ n + 1 = (IF q.handle THEN q.pending ELSE q.pending + 1) /\ n + 1 \in Nat
  BY DEF Shape
<1>2. Scheduled(q) = [[q EXCEPT !.pending = n, !.handle = FALSE] EXCEPT !.pending = @ + 1, !.handle = TRUE]
  BY DEF Scheduled, Cleared
<1> HIDE DEF n
<1>3. Scheduled(q) = [q EXCEPT !.pending = n + 1, !.handle = TRUE]
  BY <1>1, <1>2 DEF Shape
<1> QED BY <1>1, <1>3 DEF Shape

LEMMA SetTokenFields ==
  ASSUME NEW q \in Shape, q.handle => q.pending > 0
  PROVE  /\ SetToken(q) \in Shape /\ SetToken(q).handle = TRUE
         /\ q.handle => SetToken(q).pending = q.pending
         /\ ~ q.handle => SetToken(q).pending = q.pending + 1
         /\ SetToken(q).page = q.page /\ SetToken(q).token = "live"
         /\ SetToken(q).fly = q.fly
<1> DEFINE p == [q EXCEPT !.token = "live"]
<1>1. p \in Shape /\ p.handle = q.handle /\ p.pending = q.pending
      /\ p.page = q.page /\ p.fly = q.fly /\ p.token = "live"
  BY DEF Shape
<1>2. SetToken(q) = Scheduled(p) BY DEF SetToken
<1> HIDE DEF p
<1> QED BY <1>1, <1>2, ScheduledFields

LEMMA SentFields ==
  ASSUME NEW q \in Shape, NEW k \in Kinds
  PROVE  /\ Sent(q, k) \in Shape /\ Sent(q, k).page = q.page /\ Sent(q, k).token = q.token
         /\ Sent(q, k).pending = q.pending /\ Sent(q, k).handle = q.handle
         /\ Sent(q, k).fly[k] = "sent" /\ \A j \in Kinds \ {k} : Sent(q, k).fly[j] = q.fly[j]
<1> DEFINE f == [q.fly EXCEPT ![k] = "sent"]
           o == IF stale THEN q.old \cup {k} ELSE q.old \ {k}
<1>1. f \in [Kinds -> Flights] /\ f[k] = "sent" /\ \A j \in Kinds \ {k} : f[j] = q.fly[j]
  BY DEF Shape, Flights
<1>2. o \in SUBSET Kinds BY DEF Shape
<1>3. Sent(q, k) = [q EXCEPT !.fly = f, !.old = o]
  BY DEF Sent, Shape
<1> HIDE DEF f, o
<1> QED BY <1>1, <1>2, <1>3 DEF Shape

LEMMA EndedFields ==
  ASSUME NEW q \in Shape, NEW k \in Kinds
  PROVE  /\ Ended(q, k) \in Shape /\ Ended(q, k).page = q.page /\ Ended(q, k).token = q.token
         /\ Ended(q, k).pending = q.pending /\ Ended(q, k).handle = q.handle
         /\ Ended(q, k).fly[k] = "none" /\ \A j \in Kinds \ {k} : Ended(q, k).fly[j] = q.fly[j]
<1> DEFINE f == [q.fly EXCEPT ![k] = "none"]
           o == q.old \ {k}
<1>1. f \in [Kinds -> Flights] /\ f[k] = "none" /\ \A j \in Kinds \ {k} : f[j] = q.fly[j]
  BY DEF Shape, Flights
<1>2. o \in SUBSET Kinds BY DEF Shape
<1>3. Ended(q, k) = [q EXCEPT !.fly = f, !.old = o]
  BY DEF Ended, Shape
<1> HIDE DEF f, o
<1> QED BY <1>1, <1>2, <1>3 DEF Shape

(* A timeout that has fired, or a tab that has room, may start a refresh.  *)
LEMMA RefreshingLinks ==
  ASSUME MaxTimers \in Nat \ {0, 1}, NEW q \in Shape, Mounted(q), q.handle => q.pending > 0,
         q.pending + Busy(q, "boot") + 1 \leq MaxTimers
  PROVE  Refreshing(q) \in Shape /\ Links(Refreshing(q))
<1>1. q.pending \in Nat /\ q.page # "login" BY DEF Shape, Mounted
<1>2. CASE q.fly["refresh"] = "none"
  <2>1. Refreshing(q) = Sent(q, "refresh") BY <1>2 DEF Refreshing
  <2>2. "refresh" \in Kinds /\ "boot" \in Kinds \ {"refresh"} BY DEF Kinds
  <2> QED BY <1>1, <1>2, <2>1, <2>2, SentFields DEF Links, Busy, Mounted
<1>3. CASE q.fly["refresh"] # "none"
  BY <1>1, <1>3 DEF Refreshing, Links, Busy, Mounted
<1> QED BY <1>2, <1>3

(* A page with a timeout that it knows of, or a token it need not renew.   *)
LEMMA TimedLinks ==
  ASSUME NEW q \in Shape, q.pending > 0, Mounted(q),
         q.pending + Busy(q, "boot") + Busy(q, "refresh") \leq MaxTimers
  PROVE  Links(q)
<1>1. q.page # "login" BY DEF Mounted
<1> QED BY <1>1 DEF Links

LEMMA ScheduledLinks ==
  ASSUME MaxTimers \in Nat \ {0, 1}, NEW q \in Shape, q.pending = 0, q.handle = FALSE, Mounted(q),
         q.fly["boot"] = "none" \/ q.fly["refresh"] = "none"
  PROVE  Scheduled(q) \in Shape /\ Links(Scheduled(q))
<1> DEFINE p == Scheduled(q)
<1>1. p \in Shape /\ p.pending = 1 /\ p.page = q.page /\ p.fly = q.fly
  <2>1. ~ q.handle /\ 0 + 1 = 1 OBVIOUS
  <2> QED BY <2>1, ScheduledFields
<1> HIDE DEF p
<1>2. Mounted(p) BY <1>1 DEF Mounted
<1>3. p.pending + Busy(p, "boot") + Busy(p, "refresh") \leq MaxTimers
  BY <1>1 DEF Busy
<1> QED BY <1>1, <1>2, <1>3, TimedLinks DEF p

-----------------------------------------------------------------------------
LEMMA InitInv == ASSUME MaxTimers \in Nat \ {0, 1} PROVE Init => IInv
BY LoginPageLinks DEF Init, IInv

(* The steps of the login page, and of a page of the authed tree that is   *)
(* shown or left.                                                          *)
LEMMA PageStep ==
  ASSUME MaxTimers \in Nat \ {0, 1}, IInv, NEW t \in Tabs,
         \/ SignIn(t) \/ SignInFails(t) \/ Mount(t) \/ Unmount(t)
         \/ AuthLost(t) \/ AutoLock(t) \/ Logout(t) \/ NewPage(t)
  PROVE  IInv'
<1> DEFINE q == tab[t]
<1>1. q \in Shape /\ Links(q) /\ session \in {"alive", "dead"} /\ stale \in BOOLEAN
  BY DEF IInv
<1>2. stale' \in BOOLEAN /\ session' \in {"alive", "dead"}
  BY <1>1 DEF SignIn, SignInFails, Mount, Unmount, AuthLost, AutoLock, Logout, NewPage
<1>3. CASE SignIn(t)
  <2> DEFINE p == [LoginPage EXCEPT !.page = "authed"]
  <2>1. p \in Shape /\ p.handle = FALSE /\ p.pending = 0 /\ p.page = "authed"
        /\ p.fly["boot"] = "none" /\ p.fly["refresh"] = "none"
    BY LoginPageLinks DEF Shape
  <2>2. Put(t, SetToken(p)) BY <1>3 DEF SignIn
  <2> HIDE DEF p
  <2>3. SetToken(p) \in Shape /\ Links(SetToken(p))
    <3> DEFINE e == [p EXCEPT !.token = "live"]
    <3>1. /\ e \in Shape /\ e.pending = 0 /\ e.handle = FALSE /\ e.page = "authed"
          /\ e.fly["boot"] = "none"
      BY <2>1 DEF Shape
    <3>2. SetToken(p) = Scheduled(e) BY DEF SetToken
    <3> HIDE DEF e
    <3>3. Mounted(e) BY <3>1 DEF Mounted
    <3> QED BY <3>1, <3>2, <3>3, ScheduledLinks
  <2> QED BY <1>2, <2>2, <2>3, TabMoves
<1>4. CASE SignInFails(t)
  <2> DEFINE p == [q EXCEPT !.token = "none"]
  <2>1. p \in Shape /\ Links(p)
    BY <1>1 DEF Shape, Links, Busy, Mounted
  <2>2. Put(t, p) BY <1>4 DEF SignInFails
  <2> QED BY <1>2, <2>1, <2>2, TabMoves
<1>5. CASE Mount(t)
  <2> DEFINE p == [q EXCEPT !.page = "boot"]
             b == Sent(p, "boot")
             e == [b EXCEPT !.token = "expired"]
             a == [q EXCEPT !.page = "authed"]
  <2>1. /\ q.page = "login" /\ q.pending = 0 /\ q.handle = FALSE
        /\ q.fly["boot"] = "none" /\ q.fly["refresh"] = "none"
    BY <1>1, <1>5 DEF Mount, Links
  <2>2. p \in Shape /\ p.pending = 0 /\ p.handle = FALSE /\ p.page = "boot"
        /\ p.fly["refresh"] = "none" /\ p.token = q.token
    BY <1>1, <2>1 DEF Shape
  <2>3. b \in Shape /\ b.pending = 0 /\ b.handle = FALSE /\ b.page = "boot"
        /\ b.fly["refresh"] = "none" /\ b.token = q.token
    <3>1. "boot" \in Kinds /\ "refresh" \in Kinds \ {"boot"} BY DEF Kinds
    <3> HIDE DEF p
    <3> QED BY <2>2, <3>1, SentFields
  <2>4. e \in Shape /\ e.pending = 0 /\ e.handle = FALSE /\ e.page = "boot"
        /\ e.fly["refresh"] = "none" /\ e.token = "expired"
    <3> HIDE DEF b
    <3> QED BY <2>3 DEF Shape
  <2>5. a \in Shape /\ a.pending = 0 /\ a.handle = FALSE /\ a.page = "authed"
        /\ a.fly["boot"] = "none" /\ a.fly["refresh"] = "none"
    BY <1>1, <2>1 DEF Shape
  <2>6. \/ Put(t, b) /\ q.token = "none"
        \/ Put(t, Scheduled(a))
        \/ Put(t, Scheduled(e))
    BY <1>5 DEF Mount
  <2> HIDE DEF b, e, a
  <2>7. q.token = "none" => Links(b)
    BY <2>3 DEF Links, Busy, Mounted
  <2>8. Scheduled(a) \in Shape /\ Links(Scheduled(a))
    <3>1. Mounted(a) BY <2>5 DEF Mounted
    <3> QED BY <2>5, <3>1, ScheduledLinks
  <2>9. Scheduled(e) \in Shape /\ Links(Scheduled(e))
    <3>1. Mounted(e) BY <2>4 DEF Mounted
    <3> QED BY <2>4, <3>1, ScheduledLinks
  <2> QED BY <1>2, <2>3, <2>6, <2>7, <2>8, <2>9, TabMoves
<1>6. CASE Unmount(t)
  <2> DEFINE p == [LoginPage EXCEPT !.token = q.token]
  <2>1. p \in Shape /\ Links(p)
    BY <1>1, LoginPageLinks DEF Shape, Links, Busy, Mounted
  <2>2. Put(t, p) BY <1>6 DEF Unmount
  <2> QED BY <1>2, <2>1, <2>2, TabMoves
<1>7. CASE AuthLost(t) \/ AutoLock(t) \/ Logout(t) \/ NewPage(t)
  BY <1>2, <1>7, LoginPageLinks, TabMoves DEF AuthLost, AutoLock, Logout, NewPage
<1> QED BY <1>3, <1>4, <1>5, <1>6, <1>7

(* The steps that start a refresh, lose one or put it off.                 *)
LEMMA RefreshStep ==
  ASSUME MaxTimers \in Nat \ {0, 1}, IInv, NEW t \in Tabs,
         \/ TimerFires(t) \/ BecomeVisible(t) \/ RetryLater(t)
         \/ \E k \in Kinds : NetworkFails(t, k)
  PROVE  IInv'
<1> DEFINE q == tab[t]
<1>1. q \in Shape /\ Links(q) /\ q.pending \in Nat
  BY DEF IInv, Shape
<1>2. stale' \in BOOLEAN /\ session' \in {"alive", "dead"}
  BY DEF IInv, TimerFires, BecomeVisible, RetryLater, NetworkFails
<1>3. CASE TimerFires(t)
  <2>1. PICK handle \in BOOLEAN :
            /\ Put(t, Refreshing([q EXCEPT !.pending = @ - 1, !.handle = handle]))
            /\ handle => q.pending > 1
    <3>1. [q EXCEPT !.pending = @ - 1] = [q EXCEPT !.pending = @ - 1, !.handle = q.handle]
      BY <1>1 DEF Shape
    <3>2. q.handle \in BOOLEAN BY <1>1 DEF Shape
    <3> QED BY <1>1, <1>3, <3>1, <3>2 DEF TimerFires
  <2> DEFINE p == [q EXCEPT !.pending = @ - 1, !.handle = handle]
  <2>2. q.pending > 0 /\ q.pending - 1 \in Nat
    BY <1>1, <1>3 DEF TimerFires
  <2>3. Mounted(q) /\ Busy(q, "boot") \in {0, 1}
    BY <1>1, <2>2 DEF Links, Mounted, Shape, Busy
  <2>4. p \in Shape /\ p.pending = q.pending - 1 /\ p.handle = handle
        /\ Mounted(p) /\ p.fly = q.fly /\ Busy(p, "boot") = Busy(q, "boot")
    BY <1>1, <2>2, <2>3 DEF Shape, Mounted, Busy
  <2>5. Refreshing(p) \in Shape /\ Links(Refreshing(p))
    <3>1. p.handle => p.pending > 0 BY <1>1, <2>1, <2>4
    <3>2. q.pending + Busy(q, "boot") + Busy(q, "refresh") \leq MaxTimers
      BY <1>1 DEF Links
    <3>3. p.pending + Busy(p, "boot") + 1 \leq MaxTimers
      BY <1>1, <2>2, <2>3, <2>4, <3>2 DEF Busy
    <3>4. p \in Shape /\ Mounted(p) BY <2>4
    <3> HIDE DEF p
    <3> QED BY <3>1, <3>3, <3>4, RefreshingLinks
  <2> QED BY <1>2, <2>1, <2>5, TabMoves
<1>4. CASE BecomeVisible(t)
  <2>1. /\ Mounted(q) /\ Put(t, Refreshing(q))
        /\ q.pending + Busy(q, "boot") + 1 \leq MaxTimers
    BY <1>1, <1>4 DEF BecomeVisible, Busy
  <2>2. Refreshing(q) \in Shape /\ Links(Refreshing(q))
    <3>1. q.handle => q.pending > 0 BY <1>1 DEF Links
    <3> HIDE DEF q
    <3> QED BY <1>1, <2>1, <3>1, RefreshingLinks
  <2> QED BY <1>2, <2>1, <2>2, TabMoves
<1>5. CASE RetryLater(t)
  <2> DEFINE e == Ended(q, "refresh")
             p == [e EXCEPT !.pending = @ + 1, !.handle = TRUE]
  <2>1. /\ e \in Shape /\ e.page = q.page /\ e.pending = q.pending
        /\ e.fly["refresh"] = "none" /\ e.fly["boot"] = q.fly["boot"]
    <3>1. "refresh" \in Kinds /\ "boot" \in Kinds \ {"refresh"} BY DEF Kinds
    <3> QED BY <1>1, <3>1, EndedFields
  <2>2. q.fly["refresh"] = "error" /\ Put(t, p)
    BY <1>5 DEF RetryLater
  <2> HIDE DEF e
  <2>3. p \in Shape /\ p.page = q.page /\ p.pending = q.pending + 1 /\ p.fly = e.fly
    <3>1. p = [e EXCEPT !.pending = q.pending + 1, !.handle = TRUE] BY <2>1
    <3>2. q.pending + 1 \in Nat BY <1>1
    <3> QED BY <2>1, <3>1, <3>2 DEF Shape
  <2>4. Links(p)
    BY <1>1, <2>1, <2>2, <2>3 DEF Links, Busy, Mounted
  <2> QED BY <1>2, <2>2, <2>3, <2>4, TabMoves
<1>6. ASSUME NEW k \in Kinds, NetworkFails(t, k)  PROVE IInv'
  <2> DEFINE f == [q.fly EXCEPT ![k] = "error"]
             p == [q EXCEPT !.fly = f]
  <2>1. f \in [Kinds -> Flights] /\ q.fly[k] # "none"
        /\ \A j \in Kinds : f[j] = "none" <=> q.fly[j] = "none"
    BY <1>1, <1>6 DEF Shape, Flights, NetworkFails
  <2>2. Put(t, p) BY <1>1, <1>6 DEF NetworkFails, Shape
  <2> HIDE DEF f
  <2>3. p \in Shape /\ Links(p)
    BY <1>1, <2>1 DEF Shape, Links, Busy, Mounted, Kinds
  <2> QED BY <1>2, <2>2, <2>3, TabMoves
<1> QED BY <1>3, <1>4, <1>5, <1>6

(* The answers that bring a token, and the end of the bootstrap.           *)
LEMMA AnswerStep ==
  ASSUME MaxTimers \in Nat \ {0, 1}, IInv, NEW t \in Tabs, Refreshed(t) \/ Booted(t)
  PROVE  IInv'
<1> DEFINE q == tab[t]
<1>1. q \in Shape /\ Links(q) /\ q.pending \in Nat
  BY DEF IInv, Shape
<1>2. stale' \in BOOLEAN /\ session' \in {"alive", "dead"}
  BY DEF IInv, Refreshed, Booted
<1>3. /\ "refresh" \in Kinds /\ "boot" \in Kinds \ {"refresh"}
      /\ "boot" \in Kinds /\ "refresh" \in Kinds \ {"boot"}
  BY DEF Kinds
<1>4. CASE Refreshed(t)
  <2> DEFINE e == Ended(q, "refresh")
  <2>1. /\ e \in Shape /\ e.page = q.page /\ e.pending = q.pending /\ e.handle = q.handle
        /\ e.fly["refresh"] = "none" /\ e.fly["boot"] = q.fly["boot"]
    BY <1>1, <1>3, EndedFields
  <2>2. q.fly["refresh"] = "ok" /\ Put(t, SetToken(e))
    BY <1>4 DEF Refreshed
  <2> HIDE DEF e
  <2>3. SetToken(e) \in Shape /\ Links(SetToken(e))
    <3> DEFINE p == SetToken(e)
    <3>1. e.handle => e.pending > 0 BY <1>1, <2>1 DEF Links
    <3>2. /\ p \in Shape /\ p.page = e.page /\ p.fly = e.fly
          /\ e.handle => p.pending = e.pending
          /\ ~ e.handle => p.pending = e.pending + 1
      BY <2>1, <3>1, SetTokenFields
    <3> HIDE DEF p
    <3>3. p.pending > 0 /\ p.pending \leq q.pending + 1
      <4> HIDE DEF q
      <4> QED BY <1>1, <2>1, <3>1, <3>2 DEF Shape
    <3>4. q.pending + Busy(q, "boot") + 1 \leq MaxTimers /\ q.page # "login"
      BY <1>1, <2>2 DEF Links, Busy
    <3>5. Mounted(p) BY <1>1, <2>1, <3>2, <3>4 DEF Mounted, Shape
    <3>6. p.pending + Busy(p, "boot") + Busy(p, "refresh") \leq MaxTimers
      BY <1>1, <2>1, <3>2, <3>3, <3>4 DEF Busy, Shape
    <3>7. p \in Shape /\ Links(p) BY <3>2, <3>3, <3>5, <3>6, TimedLinks
    <3> QED BY <3>7 DEF p
  <2> QED BY <1>2, <2>2, <2>3, TabMoves
<1>5. CASE Booted(t)
  <2> DEFINE e == Ended(q, "boot")
             s == [SetToken(e) EXCEPT !.page = "authed"]
             a == [e EXCEPT !.page = "authed"]
  <2>1. /\ e \in Shape /\ e.page = q.page /\ e.pending = q.pending /\ e.handle = q.handle
        /\ e.fly["boot"] = "none" /\ e.fly["refresh"] = q.fly["refresh"] /\ e.token = q.token
    BY <1>1, <1>3, EndedFields
  <2>2. /\ q.page = "boot"
        /\ \/ q.fly["boot"] = "ok" /\ Put(t, s)
           \/ e.token = "live" /\ Put(t, a)
           \/ Put(t, LoginPage)
    BY <1>5 DEF Booted
  <2> HIDE DEF e
  <2>3. a \in Shape /\ (e.token = "live" => Links(a))
    BY <1>1, <2>1, <2>2 DEF Shape, Links, Busy, Mounted
  <2>4. s \in Shape /\ (q.fly["boot"] = "ok" => Links(s))
    <3> DEFINE p == SetToken(e)
    <3>1. /\ p \in Shape /\ p.handle = TRUE /\ p.fly = e.fly
          /\ (e.handle => p.pending = e.pending) /\ (~ e.handle => p.pending = e.pending + 1)
      BY <1>1, <2>1, SetTokenFields DEF Links
    <3> HIDE DEF p
    <3>2. s = [p EXCEPT !.page = "authed"] BY DEF p
    <3> HIDE DEF p, s
    <3>3. s \in Shape /\ s.page = "authed" /\ s.pending = p.pending /\ s.fly = e.fly
      BY <3>1, <3>2 DEF Shape
    <3>4. (e.handle => e.pending > 0) /\ e.pending \in Nat BY <1>1, <2>1 DEF Links
    <3>5. s.pending > 0 /\ s.pending \leq q.pending + 1 BY <2>1, <3>1, <3>3, <3>4 DEF Shape
    <3>6. ASSUME q.fly["boot"] = "ok"
          PROVE  s.pending + Busy(s, "boot") + Busy(s, "refresh") \leq MaxTimers
      <4>1. q.pending + 1 + Busy(q, "refresh") \leq MaxTimers
        BY <1>1, <3>6 DEF Links, Busy
      <4>2. Busy(s, "boot") = 0 /\ Busy(s, "refresh") = Busy(q, "refresh")
        BY <2>1, <3>3 DEF Busy
      <4>3. Busy(q, "refresh") \in {0, 1} /\ s.pending \in Nat BY <3>3 DEF Busy, Shape
      <4> QED BY <1>1, <3>5, <4>1, <4>2, <4>3
    <3>7. Mounted(s) BY <3>3 DEF Mounted
    <3> QED BY <3>3, <3>5, <3>6, <3>7, TimedLinks
  <2> QED BY <1>2, <2>2, <2>3, <2>4, LoginPageLinks, TabMoves
<1> QED BY <1>4, <1>5

(* The server's answer, and a request nobody waits for, which may make the *)
(* others' tokens old.                                                     *)
LEMMA OldLinks ==
  ASSUME IInv, NEW u \in Tabs, NEW old \in SUBSET Kinds
  PROVE  [tab[u] EXCEPT !.old = old] \in Shape /\ Links([tab[u] EXCEPT !.old = old])
<1>1. tab[u] \in Shape /\ Links(tab[u]) BY DEF IInv
<1> QED BY <1>1 DEF Shape, Links, Busy, Mounted

LEMMA ServeStep ==
  ASSUME MaxTimers \in Nat \ {0, 1}, IInv, NEW t \in Tabs, NEW k \in Kinds, Serve(t, k)
  PROVE  IInv'
<1>1. \A u \in Tabs : tab[u] \in Shape /\ Links(tab[u]) /\ Awaiting(u) \in SUBSET Kinds
  BY DEF IInv, Awaiting
<1>2. tab[t].fly[k] = "sent" BY DEF Serve
<1>3. ASSUME NEW answer \in {"ok", "denied"}, NEW old \in SUBSET Kinds
      PROVE  /\ [tab[t] EXCEPT !.fly[k] = answer, !.old = old] \in Shape
             /\ Links([tab[t] EXCEPT !.fly[k] = answer, !.old = old])
  <2> DEFINE f == [tab[t].fly EXCEPT ![k] = answer]
  <2>1. f \in [Kinds -> Flights] /\ \A j \in Kinds : f[j] = "none" <=> tab[t].fly[j] = "none"
    BY <1>1, <1>2 DEF Shape, Flights
  <2>2. [tab[t] EXCEPT !.fly[k] = answer, !.old = old] = [tab[t] EXCEPT !.fly = f, !.old = old]
    BY <1>1 DEF Shape
  <2> DEFINE p == [tab[t] EXCEPT !.fly = f, !.old = old]
  <2> HIDE DEF f
  <2>3. /\ p \in Shape /\ p.fly = f /\ p.pending = tab[t].pending /\ p.handle = tab[t].handle
        /\ p.page = tab[t].page /\ p.token = tab[t].token
    BY <1>1, <2>1 DEF Shape
  <2> HIDE DEF p
  <2>4. \A j \in Kinds : Busy(p, j) = Busy(tab[t], j) /\ (p.fly[j] = "none" <=> tab[t].fly[j] = "none")
    BY <2>1, <2>3 DEF Busy
  <2>5. Links(p)
    BY <1>1, <2>3, <2>4 DEF Links, Mounted, Kinds
  <2> QED BY <2>2, <2>3, <2>5 DEF p
<1>4. CASE session = "alive" /\ k \notin tab[t].old
  <2> DEFINE old(u) == tab[u].old \cup (IF u = t THEN Awaiting(u) \ {k} ELSE Awaiting(u))
             r(u) == IF u = t THEN [tab[t] EXCEPT !.fly[k] = "ok", !.old = old(t)]
                     ELSE [tab[u] EXCEPT !.old = old(u)]
  <2>1. \A u \in Tabs : old(u) \in SUBSET Kinds BY <1>1 DEF Shape
  <2>2. tab' = [u \in Tabs |-> r(u)]
    <3>1. ASSUME NEW u \in Tabs, u # t
          PROVE  [tab[u] EXCEPT !.fly[k] = @, !.old = old(u)] = [tab[u] EXCEPT !.old = old(u)]
      <4>1. [tab[u].fly EXCEPT ![k] = @] = tab[u].fly BY <1>1 DEF Shape
      <4> QED BY <1>1, <4>1 DEF Shape
    <3>2. tab' = [u \in Tabs |-> [tab[u] EXCEPT !.fly[k] = IF u = t THEN "ok" ELSE @,
                                               !.old = old(u)]]
      BY <1>4 DEF Serve
    <3>3. \A u \in Tabs : [tab[u] EXCEPT !.fly[k] = IF u = t THEN "ok" ELSE @,
                                         !.old = old(u)] = r(u)
      <4> HIDE DEF old
      <4> QED BY <3>1
    <3> HIDE DEF old, r
    <3> QED BY <3>2, <3>3
  <2> HIDE DEF old
  <2>3. \A u \in Tabs : r(u) \in Shape /\ Links(r(u))
    BY <1>3, <2>1, OldLinks
  <2>4. stale' = TRUE /\ session' = session BY <1>4 DEF Serve
  <2> HIDE DEF r
  <2>5. tab' \in [Tabs -> Shape] /\ \A u \in Tabs : Links(tab'[u])
    BY <2>2, <2>3
  <2> QED BY <2>4, <2>5 DEF IInv, Links, Busy, Mounted
<1>5. CASE ~ (session = "alive" /\ k \notin tab[t].old)
  <2> DEFINE p == [tab[t] EXCEPT !.fly[k] = "denied"]
  <2>1. p = [tab[t] EXCEPT !.fly[k] = "denied", !.old = tab[t].old] /\ tab[t].old \in SUBSET Kinds
    BY <1>1 DEF Shape
  <2>2. Put(t, p) /\ session' = "dead" /\ stale' \in BOOLEAN
    BY <1>5 DEF Serve, IInv
  <2> HIDE DEF p
  <2> QED BY <1>3, <2>1, <2>2, TabMoves
<1> QED BY <1>4, <1>5

LEMMA LeftBehindStep ==
  ASSUME MaxTimers \in Nat \ {0, 1}, IInv, LeftBehind
  PROVE  IInv'
<1>1. session' = session /\ stale' \in BOOLEAN BY DEF LeftBehind
<1>2. CASE UNCHANGED tab
  BY <1>1, <1>2 DEF IInv, Links, Busy, Mounted
<1>3. CASE tab' = [u \in Tabs |-> [tab[u] EXCEPT !.old = @ \cup Awaiting(u)]]
  <2> DEFINE r(u) == [tab[u] EXCEPT !.old = tab[u].old \cup Awaiting(u)]
  <2>1. \A u \in Tabs : tab[u].old \cup Awaiting(u) \in SUBSET Kinds
    BY DEF IInv, Shape, Awaiting
  <2>2. \A u \in Tabs : r(u) \in Shape /\ Links(r(u))
    BY <2>1, OldLinks
  <2>3. tab' = [u \in Tabs |-> r(u)] BY <1>3
  <2> HIDE DEF r
  <2>4. tab' \in [Tabs -> Shape] /\ \A u \in Tabs : Links(tab'[u])
    BY <2>2, <2>3
  <2> QED BY <1>1, <2>4 DEF IInv, Links, Busy, Mounted
<1> QED BY <1>2, <1>3 DEF LeftBehind

LEMMA NextInv ==
  ASSUME MaxTimers \in Nat \ {0, 1}
  PROVE  IInv /\ [Next]_vars => IInv'
<1> SUFFICES ASSUME IInv, [Next]_vars  PROVE IInv'
  OBVIOUS
<1>1. CASE UNCHANGED vars
  BY <1>1 DEF vars, IInv, Links, Busy, Mounted
<1>2. CASE RevokedElsewhere
  BY <1>2 DEF RevokedElsewhere, IInv, Links, Busy, Mounted
<1>3. ASSUME NEW t \in Tabs, RevokeAllHere(t)  PROVE Logout(t)
  BY <1>3 DEF RevokeAllHere
<1> QED BY <1>1, <1>2, <1>3, PageStep, RefreshStep, AnswerStep, ServeStep, LeftBehindStep
        DEF Next

LEMMA InvChain == IInv => ChainUnbroken
BY DEF IInv, Links, ChainUnbroken

LEMMA InvTypes == ASSUME MaxTimers \in Nat \ {0, 1} PROVE IInv => TypeOK
<1> SUFFICES ASSUME IInv  PROVE TypeOK
  OBVIOUS
<1>1. ASSUME NEW t \in Tabs  PROVE tab[t] \in Tab
  <2>1. tab[t] \in Shape /\ Links(tab[t]) BY DEF IInv
  <2>2. tab[t].pending \in 0..MaxTimers
    BY <2>1 DEF Links, Shape, Busy
  <2> QED BY <2>1, <2>2 DEF Shape, Tab
<1> QED BY <1>1 DEF TypeOK, IInv

(* A page of the authed tree that has a token has a pending timeout or a   *)
(* refresh in flight, for any number of tabs and any bound on timeouts:    *)
(* clearTimeout never meets a variable that refers to none, and never takes*)
(* the last one away from a page that keeps its token.                     *)
THEOREM TokensAreRenewed == ASSUME MaxTimers \in Nat \ {0, 1} PROVE Spec => []ChainUnbroken
<1>1. Init => IInv BY InitInv
<1>2. IInv /\ [Next]_vars => IInv' BY NextInv
<1>3. IInv => ChainUnbroken BY InvChain
<1> QED BY <1>1, <1>2, <1>3, PTL DEF Spec

(* A tab never has more pending timeouts than the bound, which guards only *)
(* BecomeVisible: no other step can add one without taking one.            *)
THEOREM TypeCorrect == ASSUME MaxTimers \in Nat \ {0, 1} PROVE Spec => []TypeOK
<1>1. Init => IInv BY InitInv
<1>2. IInv /\ [Next]_vars => IInv' BY NextInv
<1>3. IInv => TypeOK BY InvTypes
<1> QED BY <1>1, <1>2, <1>3, PTL DEF Spec
=============================================================================
