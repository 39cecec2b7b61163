-------------------------- MODULE Editors_proofs --------------------------
(***************************************************************************)
(* Theorems about Editors, for any number of tabs, visits, requests and    *)
(* rows, any length of a history and any token, class or list of words.    *)
(* Of CredentialEditor: no password is lost.  Of PageEditor: the history   *)
(* holds the last versions, and a version names one body.  Of VaultList:   *)
(* the badges count the vault.  Of PageList: the cards keep up, and the    *)
(* search finds the pages whose token begins with the bytes sent.  Of      *)
(* Generator: what the dialog shows is what was asked for.                 *)
(***************************************************************************)
EXTENDS Editors, FiniteSetTheorems, WellFoundedInduction, TLAPS

-----------------------------------------------------------------------------
(* The histories of Body, as sequences.                                    *)
LEMMA HistoriesAreSequences ==
  UNION {[1..n -> Passwords] : n \in 0..HistoryMax}
    = {h \in Seq(Passwords) : Len(h) <= HistoryMax}
<1>1. ASSUME NEW n \in 0..HistoryMax, NEW h \in [1..n -> Passwords]
      PROVE  h \in Seq(Passwords) /\ Len(h) <= HistoryMax
  BY <1>1, CredentialAssumption
<1>2. ASSUME NEW h \in Seq(Passwords), Len(h) <= HistoryMax
      PROVE  \E n \in 0..HistoryMax : h \in [1..n -> Passwords]
  <2>1. Len(h) \in 0..HistoryMax /\ h \in [1..Len(h) -> Passwords]
    BY <1>2, CredentialAssumption
  <2> QED BY <2>1
<1> QED BY <1>1, <1>2

(* A body the client makes of another one is a body, and it remembers what *)
(* that one remembered, unless its history is full.                        *)
LEMMA RotatedBody ==
  ASSUME NEW body \in Body, NEW p \in Passwords
  PROVE  Rotated(body, p) \in Body
<1> DEFINE h == <<body.password>> \o body.history
           k == IF Len(h) < HistoryMax THEN Len(h) ELSE HistoryMax
<1>1. body.password \in Passwords /\ body.history \in Seq(Passwords)
      /\ Len(body.history) <= HistoryMax
  BY HistoriesAreSequences DEF Body
<1>2. h \in Seq(Passwords) /\ k \in 0..Len(h) /\ k <= HistoryMax
  BY <1>1, CredentialAssumption
<1>3. SubSeq(h, 1, k) \in Seq(Passwords) /\ Len(SubSeq(h, 1, k)) <= HistoryMax
  <2> HIDE DEF h, k
  <2> QED BY <1>2
<1>4. SubSeq(h, 1, k) \in UNION {[1..n -> Passwords] : n \in 0..HistoryMax}
  BY <1>3, HistoriesAreSequences
<1>5. Rotated(body, p) = IF p = body.password THEN body
                         ELSE [password |-> p, history |-> SubSeq(h, 1, k)]
  BY DEF Rotated
<1> HIDE DEF h, k
<1> QED BY <1>4, <1>5 DEF Body

(* Rotating a password into the history loses nothing but what a full      *)
(* history pushes out.                                                     *)
LEMMA RotatedRemembers ==
  ASSUME NEW body \in Body, NEW p \in Passwords, NEW S,
         S \subseteq Remembered(body) \/ Len(body.history) = HistoryMax
  PROVE  \/ S \cup {p} \subseteq Remembered(Rotated(body, p))
         \/ Len(Rotated(body, p).history) = HistoryMax
<1> DEFINE h == <<body.password>> \o body.history
<1>1. body.password \in Passwords /\ body.history \in Seq(Passwords)
      /\ Len(body.history) <= HistoryMax
  BY HistoriesAreSequences DEF Body
<1>2. CASE p = body.password
  BY <1>2 DEF Rotated, Remembered
<1>3. CASE p # body.password /\ Len(h) >= HistoryMax
  <2>1. Rotated(body, p).history = SubSeq(h, 1, HistoryMax)
    BY <1>1, <1>3, CredentialAssumption DEF Rotated
  <2>2. h \in Seq(Passwords) BY <1>1
  <2>3. Len(SubSeq(h, 1, HistoryMax)) = HistoryMax
    <3> HIDE DEF h
    <3> QED BY <1>3, <2>2, CredentialAssumption
  <2> QED BY <2>1, <2>3
<1>4. CASE p # body.password /\ Len(h) < HistoryMax
  <2>1. /\ h \in Seq(Passwords) /\ Len(h) = Len(body.history) + 1 /\ h[1] = body.password
        /\ \A i \in 1..Len(body.history) : h[i + 1] = body.history[i]
    BY <1>1
  <2>2. Rotated(body, p) = [password |-> p, history |-> SubSeq(h, 1, Len(h))]
    BY <1>1, <1>4, CredentialAssumption DEF Rotated
  <2>3. SubSeq(h, 1, Len(h)) = h
    <3> HIDE DEF h
    <3> QED BY <2>1
  <2>4. Remembered(Rotated(body, p)) = {p} \cup {h[i] : i \in 1..Len(h)}
    <3>1. DOMAIN h = 1..Len(h)
      <4> HIDE DEF h
      <4> QED BY <2>1
    <3>2. Rotated(body, p).password = p /\ Rotated(body, p).history = h
      <4> HIDE DEF h
      <4> QED BY <2>2, <2>3
    <3> HIDE DEF h
    <3> QED BY <3>1, <3>2, Zenon DEF Remembered
  <2>5. ASSUME NEW x \in Remembered(body)  PROVE x \in {h[i] : i \in 1..Len(h)}
    <3>1. CASE x = body.password BY <2>1, <3>1, <1>1
    <3>2. CASE x # body.password
      <4>1. PICK i \in 1..Len(body.history) : x = body.history[i]
        BY <3>2, <1>1, <2>5 DEF Remembered
      <4>2. i + 1 \in 1..Len(h) /\ x = h[i + 1]
        BY <4>1, <2>1, <1>1
      <4> QED BY <4>2
    <3> QED BY <3>1, <3>2
  <2>6. S \subseteq Remembered(body)
    BY <1>1, <1>4, <2>1, CredentialAssumption
  <2> QED BY <2>4, <2>5, <2>6
<1>5. Len(h) \in Nat BY <1>1
<1> QED BY <1>2, <1>3, <1>4, <1>5, CredentialAssumption

-----------------------------------------------------------------------------
(* What the tabs hold of the row's own version is the row.                 *)
Copies(q) == {q.got, q.baseline, q.base} \ {None}
Genuine(q) ==
    row # None => \A b \in Copies(q) : b.version <= row.version
                                       /\ (b.version = row.version => b = row)

(* A save has its baseline and its draft; an editor on the screen has one. *)
Captured(q) ==
    /\ q.save # "none" => q.baseline # None /\ q.base # None /\ q.next # None
    /\ q.page = "open" /\ q.baseline # None => q.draft # None
    /\ q.page = "closed" => q.got = None /\ q.baseline = None

IInv ==
    /\ TypeOK
    /\ \A t \in Tabs : Genuine(tab[t]) /\ Captured(tab[t])
    /\ PasswordsAreKept
    /\ row # None => row.body.password \in stored

(* A tab moves, and the row does not.                                      *)
LEMMA TabMoves ==
  ASSUME IInv, NEW t \in Tabs, NEW q \in Tab, Put(t, q), UNCHANGED <<row, stored>>,
         Genuine(q), Captured(q)
  PROVE  IInv'
<1>1. tab' \in [Tabs -> Tab] /\ \A u \in Tabs : tab'[u] = IF u = t THEN q ELSE tab[u]
  BY DEF IInv, TypeOK, Put
<1>2. TypeOK' BY <1>1 DEF IInv, TypeOK
<1>3. ASSUME NEW u \in Tabs  PROVE Genuine(tab[u])' /\ Captured(tab[u])'
  BY <1>1 DEF IInv, Genuine, Captured, Copies
<1>4. PasswordsAreKept' BY DEF IInv, PasswordsAreKept, Decrypts
<1> QED BY <1>2, <1>3, <1>4 DEF IInv

(* The row moves by an Update, or is gone by a Delete.                     *)
LEMMA UpdateStep ==
  ASSUME IInv, NEW t \in Tabs, Update(t)
  PROVE  IInv'
<1> DEFINE q == tab[t]
<1>1. /\ q \in Tab /\ q.base \in Blob /\ q.next \in Passwords
      /\ Genuine(q) /\ Captured(q)
  BY DEF IInv, TypeOK, Tab, Captured, Update
<1>2. CASE ~ Holds(q.base)
  <2>1. [q EXCEPT !.save = "missed"] \in Tab BY <1>1 DEF Tab, Saves
  <2>2. Genuine([q EXCEPT !.save = "missed"]) BY <1>1, <2>1 DEF Genuine, Copies, Tab
  <2>3. Captured([q EXCEPT !.save = "missed"])
    BY <1>1, <2>1, CredentialAssumption DEF Captured, Tab, Update
  <2> QED BY <1>2, <2>1, <2>2, <2>3, TabMoves DEF Update
<1>3. CASE Holds(q.base)
  <2> DEFINE p == [q EXCEPT !.save = "stored"]
  <2>1. /\ row' = Patched(q) /\ stored' = stored \cup {q.next} /\ tab' = [tab EXCEPT ![t] = p]
        /\ q.base.version < MaxVersion /\ q.save = "sent"
    BY <1>3 DEF Update, Put
  <2>2. /\ row \in Blob /\ row # None /\ q.base = row
        /\ row.version \in Nat /\ row.version < MaxVersion /\ row.body \in Body
    <3>1. row \in Blob /\ row # None /\ q.base.version = row.version
      BY <1>3 DEF IInv, TypeOK, Holds
    <3>2. q.base = row \/ q.base = None
      BY <1>1, <3>1, <1>3 DEF Genuine, Copies, Tab
    <3> QED BY <1>1, <2>1, <3>1, <3>2 DEF Blob, Versions, Captured
  <2>3. /\ row'.version = row.version + 1 /\ row'.bound = row.version + 1
        /\ row'.body = Rotated(row.body, q.next)
    BY <2>1, <2>2 DEF Patched
  <2>4. row' \in Blob
    <3>1. Rotated(row.body, q.next) \in Body
      BY <1>1, <2>2, RotatedBody
    <3>2. row.version + 1 \in Versions
      BY <2>2, CredentialAssumption DEF Versions
    <3> QED BY <2>1, <2>2, <3>1, <3>2 DEF Patched, Blob
  <2>5. p \in Tab /\ p.save = "stored" /\ Copies(p) = Copies(q)
        /\ p.base = q.base /\ p.next = q.next /\ p.page = q.page
        /\ p.baseline = q.baseline /\ p.draft = q.draft
    BY <1>1 DEF Tab, Saves, Copies
  <2>6. tab' \in [Tabs -> Tab] /\ \A u \in Tabs : tab'[u] = IF u = t THEN p ELSE tab[u]
    BY <2>1, <2>5 DEF IInv, TypeOK
  <2>7. TypeOK'
    BY <1>1, <2>1, <2>4, <2>6 DEF IInv, TypeOK
  <2>8. ASSUME NEW u \in Tabs  PROVE Genuine(tab[u])' /\ Captured(tab[u])'
    <3>1. Copies(tab'[u]) = Copies(tab[u]) /\ Genuine(tab[u]) /\ Captured(tab[u])
      BY <2>5, <2>6 DEF IInv
    <3>2. \A b \in Copies(tab[u]) : b \in Blob /\ b.version <= row.version
      BY <2>2, <3>1 DEF Genuine, IInv, TypeOK, Tab, Copies
    <3>3. \A b \in Copies(tab[u]) : b.version <= row'.version /\ b.version # row'.version
      BY <2>2, <2>3, <3>2 DEF Blob, Versions
    <3>4. Genuine(tab[u])'
      BY <3>1, <3>3 DEF Genuine
    <3>5. Captured(tab[u])'
      BY <2>1, <2>5, <2>6, <3>1 DEF Captured
    <3> QED BY <3>4, <3>5
  <2>9. PasswordsAreKept' /\ row'.body.password \in stored'
    <3>1. \/ stored \subseteq Remembered(row.body)
          \/ Len(row.body.history) = HistoryMax
      BY <2>2 DEF IInv, PasswordsAreKept
    <3>2. \/ stored' \subseteq Remembered(row'.body)
          \/ Len(row'.body.history) = HistoryMax
      BY <1>1, <2>1, <2>2, <2>3, <3>1, RotatedRemembers
    <3>3. Decrypts(row)' BY <2>3 DEF Decrypts
    <3>4. row'.body.password = q.next
      BY <2>2, <2>3, <1>1 DEF Rotated, Body
    <3> QED BY <2>1, <3>2, <3>3, <3>4 DEF PasswordsAreKept
  <2> QED BY <2>7, <2>8, <2>9 DEF IInv
<1> QED BY <1>2, <1>3

(* Deleting the row closes the tab and leaves nothing to remember.         *)
LEMMA DeleteStep ==
  ASSUME IInv, NEW t \in Tabs, Delete(t)
  PROVE  IInv'
<1>1. Closed \in Tab /\ Captured(Closed) BY DEF Closed, Tab, Saves, Captured
<1>2. tab' \in [Tabs -> Tab] /\ \A u \in Tabs : tab'[u] = IF u = t THEN Closed ELSE tab[u]
  BY <1>1 DEF IInv, TypeOK, Put, Delete
<1>3. row' = None /\ stored' = stored BY DEF Delete
<1>4. TypeOK' BY <1>2, <1>3 DEF IInv, TypeOK
<1>5. ASSUME NEW u \in Tabs  PROVE Genuine(tab[u])' /\ Captured(tab[u])'
  BY <1>1, <1>2, <1>3 DEF IInv, Genuine, Captured
<1> QED BY <1>3, <1>4, <1>5 DEF IInv, PasswordsAreKept

(* Every other step of a tab leaves a record that is as good as its old one.*)
LEMMA TabStep ==
  ASSUME IInv, NEW t \in Tabs,
         \/ GetById(t) \/ Loaded(t) \/ LoadFailed(t)
         \/ \E p \in Passwords : Type(t, p)
         \/ Leave(t) \/ Save(t) \/ SelectAfterMiss(t) \/ SaveDone(t)
         \/ SaveLost(t) \/ Refetch(t) \/ Proceed(t) \/ CancelSave(t)
  PROVE  IInv'
<1> DEFINE q == tab[t]
<1>1. /\ q \in Tab /\ Genuine(q) /\ Captured(q)
      /\ row # None => row \in Blob
      /\ UNCHANGED <<row, stored>>
  BY
  DEF IInv, TypeOK, GetById, Loaded, LoadFailed, Type, Leave, Save, SelectAfterMiss,
      SaveDone, SaveLost, Refetch, Proceed, CancelSave
<1>2. /\ Closed \in Tab /\ Genuine(Closed) /\ Captured(Closed)
      /\ NoSave(q) \in Tab /\ Genuine(NoSave(q)) /\ Captured(NoSave(q))
  BY <1>1 DEF Closed, NoSave, Tab, Saves, Genuine, Captured, Copies
<1>3. ASSUME GetById(t)  PROVE IInv'
  <2> DEFINE p == [q EXCEPT !.page = "open", !.got = row]
  <2>1. p \in Tab /\ Put(t, p)
    BY <1>1, <1>3 DEF GetById, Tab, Saves
  <2>2. Genuine(p) /\ Captured(p)
    BY <1>1, <1>3
    DEF GetById, Readable, Genuine, Captured, Copies, Tab, Blob, Versions
  <2> QED BY <1>1, <2>1, <2>2, TabMoves
<1>4. ASSUME Loaded(t)  PROVE IInv'
  <2> DEFINE p == IF q.baseline = None
                  THEN [q EXCEPT !.got = None, !.baseline = q.got, !.draft = q.got.body.password]
                  ELSE [q EXCEPT !.got = None, !.baseline = q.got]
  <2>1. q.got \in Blob /\ q.got.body.password \in Passwords
    BY <1>1, <1>4 DEF Loaded, Tab, Blob, Body
  <2>2. p \in Tab /\ Put(t, p)
    BY <1>1, <1>4, <2>1 DEF Loaded, Tab
  <2>3. Genuine(p)
    BY <1>1, <1>4, <2>1 DEF Loaded, Genuine, Copies, Tab
  <2>4. Captured(p)
    BY <1>1, <1>4, <2>1, CredentialAssumption DEF Loaded, Captured, Tab
  <2> QED BY <1>1, <2>2, <2>3, <2>4, TabMoves
<1>5. ASSUME LoadFailed(t)  PROVE IInv'
  <2> DEFINE p == [q EXCEPT !.page = "error", !.got = None, !.draft = None]
  <2>1. p \in Tab /\ Put(t, p)
    BY <1>1, <1>5 DEF LoadFailed, Tab, Saves
  <2>2. Genuine(p) /\ Captured(p)
    BY <1>1, <1>5 DEF LoadFailed, Genuine, Captured, Copies, Tab
  <2> QED BY <1>1, <2>1, <2>2, TabMoves
<1>6. ASSUME NEW d \in Passwords, Type(t, d)  PROVE IInv'
  <2> DEFINE p == [q EXCEPT !.draft = d]
  <2>1. p \in Tab /\ Put(t, p)
    BY <1>1, <1>6 DEF Type, Tab
  <2>2. Genuine(p) /\ Captured(p)
    BY <1>1, <1>6, CredentialAssumption
    DEF Type, Editing, Genuine, Captured, Copies, Tab
  <2> QED BY <1>1, <2>1, <2>2, TabMoves
<1>7. ASSUME Leave(t) \/ SaveDone(t)  PROVE IInv'
  BY <1>1, <1>2, <1>7, TabMoves DEF Leave, SaveDone
<1>8. ASSUME SaveLost(t)  PROVE IInv'
  BY <1>1, <1>2, <1>8, TabMoves DEF SaveLost
<1>9. ASSUME Save(t)  PROVE IInv'
  <2> DEFINE p == [q EXCEPT !.save = "sent", !.base = q.baseline, !.next = q.draft]
  <2>1. p \in Tab /\ Put(t, p)
    BY <1>1, <1>9 DEF Save, Tab, Saves, Editing
  <2>2. Genuine(p) /\ Captured(p)
    BY <1>1, <1>9 DEF Save, Genuine, Captured, Copies, Tab, Editing
  <2> QED BY <1>1, <2>1, <2>2, TabMoves
<1>10. ASSUME SelectAfterMiss(t)  PROVE IInv'
  <2> DEFINE p == [q EXCEPT !.save = "conflict"]
  <2>1. p \in Tab /\ (Put(t, p) \/ Put(t, NoSave(q)))
    BY <1>1, <1>10 DEF SelectAfterMiss, Readable, Tab, Saves
  <2>2. Put(t, p) => Genuine(p) /\ Captured(p)
    BY <1>1, <1>10 DEF SelectAfterMiss, Readable, Genuine, Captured, Copies, Tab
  <2> QED BY <1>1, <1>2, <2>1, <2>2, TabMoves
<1>11. ASSUME Refetch(t)  PROVE IInv'
  <2>1. CASE Put(t, NoSave(q))
    BY <1>1, <1>2, <2>1, TabMoves
  <2>2. CASE row # None /\ Put(t, [q EXCEPT !.save = "fetched", !.base = row])
    <3> DEFINE p == [q EXCEPT !.save = "fetched", !.base = row]
    <3>1. p \in Tab
      BY <1>1, <2>2 DEF Tab, Saves
    <3>2. Genuine(p)
      BY <1>1, <2>2 DEF Genuine, Copies, Tab, Blob, Versions
    <3>3. Captured(p)
      BY <1>1, <1>11, <2>2 DEF Refetch, Captured, Tab
    <3> QED BY <1>1, <2>2, <3>1, <3>2, <3>3, TabMoves
  <2> QED BY <1>11, <2>1, <2>2 DEF Refetch, Readable
<1>12. ASSUME Proceed(t)  PROVE IInv'
  <2> DEFINE p == [q EXCEPT !.save = "sent", !.baseline = q.base]
  <2>1. p \in Tab /\ Put(t, p)
    BY <1>1, <1>12 DEF Proceed, Tab, Saves
  <2>2. Genuine(p) /\ Captured(p)
    BY <1>1, <1>12 DEF Proceed, Genuine, Captured, Copies, Tab
  <2> QED BY <1>1, <2>1, <2>2, TabMoves
<1>13. ASSUME CancelSave(t)  PROVE IInv'
  <2> DEFINE p == NoSave([q EXCEPT !.baseline = q.base])
  <2>1. p \in Tab /\ Put(t, p)
    BY <1>1, <1>13 DEF CancelSave, NoSave, Tab, Saves
  <2>2. Genuine(p) /\ Captured(p)
    BY <1>1, <1>13 DEF CancelSave, NoSave, Genuine, Captured, Copies, Tab
  <2> QED BY <1>1, <2>1, <2>2, TabMoves
<1> QED BY <1>3, <1>4, <1>5, <1>6, <1>7, <1>8, <1>9, <1>10, <1>11, <1>12, <1>13

-----------------------------------------------------------------------------
LEMMA InitInv == Init => IInv
<1> SUFFICES ASSUME Init  PROVE IInv
  OBVIOUS
<1>1. PICK p \in Passwords : row = Created(p) /\ stored = {p}
  BY DEF Init
<1>2. 1 \in Versions BY CredentialAssumption DEF Versions
<1>3. <<>> \in UNION {[1..n -> Passwords] : n \in 0..HistoryMax}
  BY HistoriesAreSequences, CredentialAssumption
<1>4. row \in Blob
  BY <1>1, <1>2, <1>3 DEF Created, Blob, Body
<1>5. Closed \in Tab /\ Captured(Closed) /\ Copies(Closed) = {}
  BY DEF Closed, Tab, Saves, Captured, Copies
<1>6. tab = [t \in Tabs |-> Closed] BY DEF Init
<1>7. PasswordsAreKept /\ row.body.password \in stored
  BY <1>1 DEF PasswordsAreKept, Created, Decrypts, Remembered
<1> QED BY <1>1, <1>4, <1>5, <1>6, <1>7 DEF IInv, TypeOK, Genuine

(* Every step of CredentialEditor keeps the invariant.                     *)
LEMMA NextInv == IInv /\ [Next]_vars => IInv'
<1> SUFFICES ASSUME IInv, [Next]_vars  PROVE IInv'
  OBVIOUS
<1>1. CASE UNCHANGED vars
  BY <1>1
  DEF vars, IInv, TypeOK, Genuine, Captured, Copies, PasswordsAreKept, Decrypts
<1>2. CASE Next
  BY <1>2, TabStep, UpdateStep, DeleteStep DEF Next
<1> QED BY <1>1, <1>2

(* Every variable has its type in every reachable state, and the row can   *)
(* be decrypted and has lost no password: for any number of tabs, versions *)
(* and passwords, and a history of any length.                             *)
THEOREM NoPasswordIsLost == Spec => [](TypeOK /\ PasswordsAreKept)
<1>1. IInv => TypeOK /\ PasswordsAreKept BY DEF IInv
<1> QED BY <1>1, InitInv, NextInv, PTL DEF Spec

(* A step that writes the row is an UPDATE whose witness is the row, and   *)
(* what the client computed from: the compare-and-swap compares versions,  *)
(* and a version names one body.                                           *)
THEOREM EverySaveBuildsOnTheRow == Spec => SavesBuildOnTheRow
<1>1. ASSUME IInv, [Next]_vars, row' # row, row' # None
      PROVE  \E t \in Tabs : /\ tab[t].base = row
                             /\ row'.version = row.version + 1
                             /\ row'.body = Rotated(row.body, tab[t].next)
  <2>1. PICK t \in Tabs : Update(t) /\ Holds(tab[t].base) /\ row' = Patched(tab[t])
    BY <1>1 DEF Next, vars, GetById, Loaded, LoadFailed, Type, Leave, Save, Update,
       SelectAfterMiss, SaveDone, SaveLost, Refetch, Proceed, CancelSave, Delete
  <2>2. /\ row # None /\ row \in Blob /\ tab[t] \in Tab
        /\ tab[t].base # None /\ tab[t].base.version = row.version
    BY <1>1, <2>1 DEF IInv, TypeOK, Holds, Captured, Update
  <2>3. tab[t].base = row
    BY <1>1, <2>2 DEF IInv, Genuine, Copies
  <2> QED BY <2>1, <2>2, <2>3 DEF Patched
<1> QED BY <1>1, InitInv, NextInv, PTL DEF Spec, SavesBuildOnTheRow

-----------------------------------------------------------------------------
(* The instances count as this module does.                                *)
LEMMA SameCardinality ==
  \A S : /\ PE!Cardinality(S) = Cardinality(S)
         /\ VL!Cardinality(S) = Cardinality(S)
         /\ GE!Cardinality(S) = Cardinality(S)
BY DEF PE!Cardinality, VL!Cardinality, GE!Cardinality, Cardinality

-----------------------------------------------------------------------------
(* PageEditor.                                                             *)

(* The histories of the log, as sequences.                                 *)
LEMMA LogsAreSequences ==
  UNION {[1..n -> PE!Body] : n \in PE!Versions} = {l \in Seq(PE!Body) : Len(l) \in PE!Versions}
<1>1. ASSUME NEW n \in PE!Versions, NEW l \in [1..n -> PE!Body]
      PROVE  l \in Seq(PE!Body) /\ Len(l) \in PE!Versions
  BY <1>1, PageAssumption DEF PE!Versions
<1>2. ASSUME NEW l \in Seq(PE!Body), Len(l) \in PE!Versions
      PROVE  \E n \in PE!Versions : l \in [1..n -> PE!Body]
  <2>1. l \in [1..Len(l) -> PE!Body]
    BY <1>2
  <2> QED BY <1>2, <2>1
<1> QED BY <1>1, <1>2

Entry(l, v)       == [version |-> v, body |-> l[v]]
Entries(l, lo, n) == {Entry(l, v) : v \in lo..n}
Newer(h, v)       == {b \in h : b.version > v}
LastEntries(l, n) == {Entry(l, v) : v \in {k \in PE!Versions : k < n /\ k >= n - PageHistoryMax}}

(* In a set with one entry for each version from lo to n, n - v entries    *)
(* are newer than v; so the trim keeps the last HistoryMax of them.        *)
LEMMA NewerEntries ==
  ASSUME NEW l, NEW n \in Nat, NEW lo \in 1..n, NEW v \in lo..n
  PROVE  Cardinality(Newer(Entries(l, lo, n), v)) = n - v
<1> DEFINE S == Newer(Entries(l, lo, n), v)
           f == [i \in 1..(n - v) |-> Entry(l, v + i)]
<1>1. ASSUME NEW i \in 1..(n - v)  PROVE f[i] \in S /\ f[i].version = v + i
  BY DEF Entry, Entries, Newer
<1>2. f \in Injection(1..(n - v), S)
  <2>1. f \in [1..(n - v) -> S]
    <3> HIDE DEF S
    <3> QED BY <1>1
  <2>2. ASSUME NEW i \in 1..(n - v), NEW j \in 1..(n - v), f[i] = f[j]  PROVE i = j
    <3> HIDE DEF f
    <3> QED BY <1>1, <2>2
  <2> HIDE DEF f, S
  <2> QED BY <2>1, <2>2 DEF Injection, IsInjective
<1>3. ASSUME NEW c \in S  PROVE \E i \in 1..(n - v) : f[i] = c
  <2>1. PICK u \in lo..n : c = Entry(l, u) /\ c.version > v
    BY DEF Entries, Newer
  <2>2. u - v \in 1..(n - v) /\ v + (u - v) = u
    BY <2>1 DEF Entry
  <2>3. f[u - v] = Entry(l, u)
    BY <2>2
  <2> HIDE DEF f
  <2> QED BY <2>1, <2>2, <2>3
<1>4. f \in Surjection(1..(n - v), S)
  <2> HIDE DEF f, S
  <2> QED BY <1>2, <1>3 DEF Surjection, Injection
<1>5. ExistsBijection(1..(n - v), S)
  <2> HIDE DEF f, S
  <2> QED BY <1>2, <1>4 DEF ExistsBijection, Bijection
<1>6. n - v \in Nat
  OBVIOUS
<1>7. Cardinality(S) = n - v
  <2> HIDE DEF S
  <2> QED BY <1>5, <1>6, FS_CountingElements
<1> QED BY <1>7

(* Trimming the entries of versions lo..n to the newest PageHistoryMax     *)
(* leaves the last ones, whatever CHOOSE does: the entry of a version has  *)
(* as many entries above it as there are later versions.                   *)
LEMMA NewestEntries ==
  ASSUME NEW l, NEW n \in Nat, NEW lo \in 1..n
  PROVE  PE!Newest(Entries(l, lo, n)) = {Entry(l, v) : v \in {k \in lo..n : n - k < PageHistoryMax}}
<1> DEFINE h == Entries(l, lo, n)
           last == {Entry(l, v) : v \in {k \in lo..n : n - k < PageHistoryMax}}
<1>1. ASSUME NEW v \in lo..n  PROVE Cardinality(Newer(h, v)) = n - v
  BY NewerEntries
<1>2. PE!Newest(h) = {b \in h : Cardinality(Newer(h, b.version)) < PageHistoryMax}
  BY SameCardinality DEF PE!Newest, Newer
<1>3. ASSUME NEW b \in PE!Newest(h)  PROVE b \in last
  <2>1. PICK v \in lo..n : b = Entry(l, v)
    BY <1>2 DEF Entries
  <2>2. b.version = v /\ Cardinality(Newer(h, v)) < PageHistoryMax
    BY <1>2, <2>1 DEF Entry
  <2> QED BY <1>1, <2>1, <2>2
<1>4. ASSUME NEW v \in lo..n, n - v < PageHistoryMax  PROVE Entry(l, v) \in PE!Newest(h)
  <2>1. Entry(l, v) \in h /\ Entry(l, v).version = v
    BY DEF Entries, Entry
  <2> HIDE DEF h
  <2> QED BY <1>1, <1>2, <1>4, <2>1
<1> QED BY <1>3, <1>4

-----------------------------------------------------------------------------
(* The row is the last version the log has, and the history the last ones  *)
(* before it.                                                              *)
RowInv ==
    /\ page \in PE!Blob \cup {None} /\ hist \subseteq PE!Blob
    /\ log \in Seq(PE!Body) /\ Len(log) \in PE!Versions
    /\ page # None => Len(log) = page.version
    /\ PE!HistoryIsTheLastVersions

Written(b) == b.version <= Len(log) /\ b.body = log[b.version]

(* What a visit holds was written, and what it edits has a draft.          *)
Honest(q) ==
    /\ \A b \in {q.got, q.baseline, q.dialog} \ {None} : Written(b)
    /\ q.baseline # None => q.doc \in Texts

(* A request under way has a baseline, a body and a visit that edits.      *)
Underway(w, visits) ==
    w.pc # "free" =>
        /\ w.visit \in Visits /\ w.base \in PE!Blob /\ w.body \in PE!Body
        /\ ~ visits[w.visit].error => visits[w.visit].doc \in Texts
        /\ w.pc = "sent" => w.base.version < PageMaxVersion
        /\ w.pc = "stored" => Written([version |-> w.base.version + 1, body |-> w.body])

PageInv ==
    /\ RowInv
    /\ visit \in [Visits -> PE!Visit] /\ put \in [Puts -> PE!Put]
    /\ \A t \in Visits : Honest(visit[t])
    /\ \A p \in Puts : Underway(put[p], visit)

(* The page row holds the body its version names.                          *)
LEMMA TheRowIsWritten ==
  ASSUME PageInv, page # None
  PROVE  page \in PE!Blob /\ Written(page)
BY PageAssumption
DEF PageInv, RowInv, PE!HistoryIsTheLastVersions, Written, PE!Versions

(* HistoryIsTheLastVersions in the words of this module.                   *)
LEMMA HistoryInstance ==
  PE!HistoryIsTheLastVersions
    <=> (page # None => page.body = log[page.version] /\ hist = LastEntries(log, page.version))
BY DEF PE!HistoryIsTheLastVersions, LastEntries, Entry

(* A visit moves, at most one request with it, and the row does not.       *)
LEMMA VisitMoves ==
  ASSUME PageInv, NEW t \in Visits, NEW q \in PE!Visit, Honest(q), PE!Become(t, q),
         UNCHANGED <<page, hist, log>>,
         ~ q.error => ~ visit[t].error /\ (visit[t].doc \in Texts => q.doc \in Texts),
         \/ put' = put
         \/ \E p \in Puts, w \in PE!Put : put' = [put EXCEPT ![p] = w] /\ Underway(w, visit')
  PROVE  PageInv'
<1>1. /\ visit' \in [Visits -> PE!Visit]
      /\ \A u \in Visits : visit'[u] = IF u = t THEN q ELSE visit[u]
  BY DEF PageInv, PE!Become
<1>2. RowInv'
  BY DEF PageInv, RowInv, PE!HistoryIsTheLastVersions
<1>3. ASSUME NEW u \in Visits  PROVE Honest(visit[u])'
  BY <1>1 DEF PageInv, Honest, Written
<1>4. ASSUME NEW w, Underway(w, visit)  PROVE Underway(w, visit')
  BY <1>1, <1>4 DEF Underway, Written
<1>5. /\ put' \in [Puts -> PE!Put]
      /\ \A p \in Puts : put'[p] = put[p] \/ Underway(put'[p], visit')
  BY DEF PageInv
<1>6. ASSUME NEW p \in Puts  PROVE Underway(put[p], visit)'
  <2>1. Underway(put'[p], visit')
    BY <1>4, <1>5 DEF PageInv
  <2> QED BY <2>1 DEF Underway, Written
<1> QED BY <1>1, <1>2, <1>3, <1>5, <1>6 DEF PageInv

(* A request moves alone.                                                  *)
LEMMA PutMoves ==
  ASSUME PageInv, NEW p \in Puts, NEW w \in PE!Put, put' = [put EXCEPT ![p] = w],
         Underway(w, visit), UNCHANGED <<page, hist, log, visit>>
  PROVE  PageInv'
<1>1. RowInv'
  BY DEF PageInv, RowInv, PE!HistoryIsTheLastVersions
<1>2. ASSUME NEW u \in Visits  PROVE Honest(visit[u])'
  BY DEF PageInv, Honest, Written
<1>3. /\ put' \in [Puts -> PE!Put]
      /\ \A r \in Puts : Underway(put'[r], visit)
  BY DEF PageInv
<1>4. ASSUME NEW r \in Puts  PROVE Underway(put[r], visit)'
  BY <1>3 DEF Underway, Written
<1> QED BY <1>1, <1>2, <1>3, <1>4 DEF PageInv

(* What a visit does without the server: load, type, reload, cancel.       *)
LEMMA VisitStep ==
  ASSUME PageInv, NEW t \in Visits,
         \/ PE!GetById(t) \/ PE!Loaded(t) \/ PE!LoadFailed(t)
         \/ \E x \in Texts : PE!Type(t, x)
         \/ PE!ReloadLatest(t) \/ PE!CancelDialog(t)
  PROVE  PageInv'
<1> DEFINE q == visit[t]
<1>1. /\ q \in PE!Visit /\ Honest(q) /\ UNCHANGED <<page, hist, log, put>>
      /\ page # None => page \in PE!Blob /\ Written(page)
  <2>1. q \in PE!Visit /\ Honest(q) /\ UNCHANGED <<page, hist, log, put>>
    BY
    DEF PageInv, PE!GetById, PE!Loaded, PE!LoadFailed, PE!Type, PE!ReloadLatest,
        PE!CancelDialog
  <2> QED BY <2>1, TheRowIsWritten
<1>2. CASE PE!GetById(t)
  <2> DEFINE p == [q EXCEPT !.got = page]
  <2>1. p \in PE!Visit /\ PE!Become(t, p) /\ Honest(p)
    BY <1>1, <1>2 DEF PE!GetById, PE!Readable, PE!Visit, Honest
  <2> QED BY <1>1, <1>2, <2>1, VisitMoves DEF PE!GetById, PE!Visit
<1>3. CASE PE!Loaded(t)
  <2> DEFINE p == [q EXCEPT !.got = None, !.baseline = q.got, !.doc = q.got.body.text]
  <2>1. q.got \in PE!Blob /\ q.got.body.text \in Texts
    BY <1>1, <1>3 DEF PE!Loaded, PE!Visit, PE!Blob, PE!Body
  <2>2. p \in PE!Visit /\ PE!Become(t, p) /\ Honest(p)
    BY <1>1, <1>3, <2>1 DEF PE!Loaded, PE!Visit, Honest
  <2>3. ~ p.error => ~ q.error /\ (q.doc \in Texts => p.doc \in Texts)
    BY <1>1, <2>1 DEF PE!Visit
  <2> QED BY <1>1, <2>2, <2>3, VisitMoves
<1>4. CASE PE!LoadFailed(t)
  <2> DEFINE p == [PE!Unopened EXCEPT !.error = TRUE]
  <2>1. p \in PE!Visit /\ PE!Become(t, p) /\ Honest(p) /\ p.error
    BY <1>4 DEF PE!LoadFailed, PE!Visit, Honest, PE!Unopened
  <2> QED BY <1>1, <2>1, VisitMoves
<1>5. ASSUME NEW x \in Texts, PE!Type(t, x)  PROVE PageInv'
  <2> DEFINE p == [q EXCEPT !.doc = x]
  <2>1. p \in PE!Visit /\ PE!Become(t, p) /\ Honest(p)
    BY <1>1, <1>5 DEF PE!Type, PE!Visit, Honest
  <2>2. ~ p.error => ~ q.error /\ (q.doc \in Texts => p.doc \in Texts)
    BY <1>1 DEF PE!Visit
  <2> QED BY <1>1, <2>1, <2>2, VisitMoves
<1>6. CASE PE!ReloadLatest(t)
  <2> DEFINE p == [q EXCEPT !.baseline = q.dialog, !.doc = q.dialog.body.text, !.dialog = None]
  <2>1. q.dialog \in PE!Blob /\ q.dialog.body.text \in Texts
    BY <1>1, <1>6 DEF PE!ReloadLatest, PE!Visit, PE!Blob, PE!Body
  <2>2. p \in PE!Visit /\ PE!Become(t, p) /\ Honest(p)
    BY <1>1, <1>6, <2>1 DEF PE!ReloadLatest, PE!Visit, Honest
  <2>3. ~ p.error => ~ q.error /\ (q.doc \in Texts => p.doc \in Texts)
    BY <1>1, <2>1 DEF PE!Visit
  <2> QED BY <1>1, <2>2, <2>3, VisitMoves
<1>7. CASE PE!CancelDialog(t)
  <2> DEFINE p == [q EXCEPT !.dialog = None]
  <2>1. p \in PE!Visit /\ PE!Become(t, p) /\ Honest(p)
    BY <1>1, <1>7 DEF PE!CancelDialog, PE!Visit, Honest
  <2>2. ~ p.error => ~ q.error /\ (q.doc \in Texts => p.doc \in Texts)
    BY <1>1 DEF PE!Visit
  <2> QED BY <1>1, <2>1, <2>2, VisitMoves
<1> QED BY <1>2, <1>3, <1>4, <1>5, <1>6, <1>7

(* The three buttons send what the visit holds.                            *)
LEMMA PersistStep ==
  ASSUME PageInv, NEW t \in Visits, NEW sort \in {"save", "favourite", "restore"},
         NEW text \in Texts, NEW fav \in BOOLEAN, PE!Persist(t, sort, text, fav)
  PROVE  PageInv'
<1> DEFINE q == visit[t]
           n == [q EXCEPT !.saving = TRUE]
           w == [pc |-> "sent", visit |-> t, kind |-> sort, base |-> q.baseline,
                 body |-> [text |-> text, fav |-> fav]]
<1>1. /\ q \in PE!Visit /\ Honest(q) /\ UNCHANGED <<page, hist, log>> /\ PE!Become(t, n)
      /\ q.baseline # None /\ q.baseline.version < PageMaxVersion
      /\ \E p \in Puts : put' = [put EXCEPT ![p] = w]
  BY DEF PageInv, PE!Persist, PE!Editing
<1>2. n \in PE!Visit /\ Honest(n) /\ n.doc = q.doc /\ n.error = q.error
  BY <1>1 DEF PE!Visit, Honest
<1>3. q.baseline \in PE!Blob /\ q.doc \in Texts
  BY <1>1 DEF PE!Visit, Honest
<1>4. w \in PE!Put
  <2>1. [text |-> text, fav |-> fav] \in PE!Body BY DEF PE!Body
  <2> QED BY <1>3, <2>1 DEF PE!Put
<1>5. visit'[t] = n
  BY <1>1 DEF PageInv, PE!Become
<1>6. Underway(w, visit')
  <2>1. [text |-> text, fav |-> fav] \in PE!Body BY DEF PE!Body
  <2> QED BY <1>1, <1>2, <1>3, <1>5, <2>1 DEF Underway
<1> HIDE DEF n, w
<1>7. \E p \in Puts, v \in PE!Put : put' = [put EXCEPT ![p] = v] /\ Underway(v, visit')
  BY <1>1, <1>4, <1>6
<1> QED BY <1>1, <1>2, <1>3, <1>7, VisitMoves

(* The three buttons that start a PUT.                                     *)
LEMMA ButtonStep ==
  ASSUME PageInv, NEW t \in Visits, PE!Save(t) \/ PE!ToggleFavorite(t) \/ PE!RestoreVersion(t)
  PROVE  PageInv'
<1>1. visit[t] \in PE!Visit /\ Honest(visit[t])
  BY DEF PageInv
<1>2. ASSUME PE!Editing(t)
      PROVE  visit[t].doc \in Texts /\ visit[t].baseline.body.fav \in BOOLEAN
  BY <1>1, <1>2 DEF PE!Editing, Honest, PE!Visit, PE!Blob, PE!Body
<1>3. PE!Editing(t)
  BY DEF PE!Save, PE!ToggleFavorite, PE!RestoreVersion, PE!Persist
<1>4. CASE PE!Save(t)
  BY <1>2, <1>3, <1>4, PersistStep DEF PE!Save
<1>5. CASE PE!ToggleFavorite(t)
  <2>1. (~ visit[t].baseline.body.fav) \in BOOLEAN BY <1>2, <1>3
  <2> QED BY <1>2, <1>3, <1>5, <2>1, PersistStep DEF PE!ToggleFavorite
<1>6. CASE PE!RestoreVersion(t)
  <2>1. PICK v \in PE!Offered : PE!Persist(t, "restore", log[v].text, visit[t].baseline.body.fav)
    BY <1>6 DEF PE!RestoreVersion
  <2>2. log[v].text \in Texts
    <3>1. log \in Seq(PE!Body) /\ Len(log) \in Nat
      BY DEF PageInv, RowInv
    <3>2. v \in 1..Len(log)
      BY <3>1 DEF PE!Offered
    <3>3. log[v] \in PE!Body BY <3>1, <3>2
    <3> QED BY <3>3 DEF PE!Body
  <2> QED BY <1>2, <1>3, <2>1, <2>2, PersistStep
<1> QED BY <1>4, <1>5, <1>6

(* An answer reaches its visit, which keeps its draft or takes another.    *)
LEMMA AnswerStep ==
  ASSUME PageInv, NEW p \in Puts, put[p].pc # "free", NEW record, PE!Answer(p, record),
         ~ visit[put[p].visit].error =>
             /\ record \in PE!Visit /\ Honest(record) /\ ~ record.error
             /\ record.doc \in Texts
  PROVE  PageInv'
<1> DEFINE t == put[p].visit
           n == [record EXCEPT !.saving = FALSE]
<1>1. /\ t \in Visits /\ UNCHANGED <<page, hist, log>>
      /\ put' = [put EXCEPT ![p] = PE!Free] /\ visit[t] \in PE!Visit
      /\ IF visit[t].error THEN UNCHANGED visit ELSE PE!Become(t, n)
  BY DEF PageInv, Underway, PE!Answer
<1>2. PE!Free \in PE!Put /\ Underway(PE!Free, visit) /\ Underway(PE!Free, visit')
  BY DEF PE!Free, PE!Put, Underway
<1>3. CASE visit[t].error
  BY <1>1, <1>2, <1>3, PutMoves
<1>4. CASE ~ visit[t].error
  <2>1. n \in PE!Visit /\ Honest(n) /\ ~ n.error /\ n.doc \in Texts
    BY <1>4 DEF PE!Visit, Honest
  <2> HIDE DEF n, t
  <2> QED BY <1>1, <1>2, <1>4, <2>1, VisitMoves
<1> QED BY <1>1, <1>3, <1>4 DEF PE!Visit

(* The answers of a PUT reach the visit that sent it.                      *)
LEMMA AnswersStep ==
  ASSUME PageInv, NEW p \in Puts, PE!Saved(p) \/ PE!Conflict(p) \/ PE!PutLost(p)
  PROVE  PageInv'
<1> DEFINE q == put[p]
           v == visit[q.visit]
<1>1. /\ q.pc # "free" /\ q \in PE!Put
      /\ q.visit \in Visits /\ q.base \in PE!Blob /\ q.body \in PE!Body
      /\ v \in PE!Visit /\ Honest(v) /\ (~ v.error => v.doc \in Texts)
      /\ page # None => page \in PE!Blob /\ Written(page)
  BY TheRowIsWritten DEF PageInv, Underway, PE!Saved, PE!Conflict, PE!PutLost
<1>2. ~ v.error => PE!DraftAfter(q) \in Texts
  BY <1>1 DEF PE!DraftAfter, PE!Body
<1>3. CASE PE!Saved(p)
  <2> DEFINE b == [version |-> q.base.version + 1, body |-> q.body]
             n == [v EXCEPT !.baseline = b, !.doc = PE!DraftAfter(q)]
  <2>1. q.pc = "stored" /\ PE!Answer(p, n)
    BY <1>3 DEF PE!Saved
  <2>2. Written(b) /\ b \in PE!Blob
    <3>1. Written(b)
      BY <1>1, <2>1 DEF PageInv, Underway
    <3>2. Len(log) \in 1..PageMaxVersion /\ q.base.version \in 1..PageMaxVersion
      BY <1>1 DEF PageInv, RowInv, PE!Versions, PE!Blob
    <3>3. q.base.version + 1 \in PE!Versions
      BY <3>1, <3>2, PageAssumption DEF Written, PE!Versions
    <3> QED BY <1>1, <3>1, <3>3 DEF PE!Blob
  <2>3. ASSUME ~ v.error  PROVE n \in PE!Visit /\ Honest(n) /\ ~ n.error /\ n.doc \in Texts
    <3> HIDE DEF b, v
    <3> QED BY <1>1, <1>2, <2>2, <2>3 DEF PE!Visit, Honest
  <2> HIDE DEF n
  <2> QED BY <1>1, <2>1, <2>3, AnswerStep
<1>4. CASE PE!Conflict(p)
  <2> DEFINE n == IF ~ PE!Readable THEN v ELSE [v EXCEPT !.dialog = page, !.doc = PE!DraftAfter(q)]
  <2>1. PE!Answer(p, n)
    BY <1>4 DEF PE!Conflict
  <2>2. ASSUME ~ v.error  PROVE n \in PE!Visit /\ Honest(n) /\ ~ n.error /\ n.doc \in Texts
    <3> HIDE DEF v
    <3> QED BY <1>1, <1>2, <2>2 DEF PE!Visit, Honest, PE!Readable
  <2> HIDE DEF n
  <2> QED BY <1>1, <2>1, <2>2, AnswerStep
<1>5. CASE PE!PutLost(p)
  BY <1>1, <1>5, AnswerStep DEF PE!PutLost
<1> QED BY <1>3, <1>4, <1>5

(* The PATCH: the version is compared, the row is moved to the history and *)
(* the history is trimmed.                                                 *)
LEMMA StoredStep ==
  ASSUME PageInv, NEW p \in Puts, put[p].pc = "sent", PE!Holds(put[p].base),
         page' = [version |-> page.version + 1, body |-> put[p].body],
         hist' = PE!Newest(hist \cup {page}), log' = Append(log, put[p].body),
         put' = [put EXCEPT ![p].pc = "stored"], visit' = visit
  PROVE  PageInv'
<1> DEFINE q == put[p]
           n == page.version
<1>1. /\ q \in PE!Put /\ q.base \in PE!Blob /\ q.body \in PE!Body /\ q.visit \in Visits
      /\ q.base.version < PageMaxVersion /\ q.base.version = n
      /\ ~ visit[q.visit].error => visit[q.visit].doc \in Texts
  BY DEF PageInv, Underway, PE!Holds
<1>2. /\ page # None /\ page \in PE!Blob /\ hist \subseteq PE!Blob /\ n \in PE!Versions
         /\ n < PageMaxVersion
      /\ log \in Seq(PE!Body) /\ Len(log) = n /\ page.body = log[n]
      /\ hist = LastEntries(log, n)
  BY <1>1, HistoryInstance DEF PageInv, RowInv, PE!Holds, PE!Blob
<1>3. n \in Nat /\ n >= 1 /\ n + 1 \in PE!Versions
  BY <1>2, PageAssumption DEF PE!Versions
<1>4. /\ log' \in Seq(PE!Body) /\ Len(log') = n + 1 /\ log'[n + 1] = q.body
      /\ \A v \in 1..n : log'[v] = log[v]
  BY <1>1, <1>2
<1>5. page' \in PE!Blob
  BY <1>1, <1>3 DEF PE!Blob
<1>6. hist' = LastEntries(log', n + 1)
  <2> DEFINE lo == IF n > PageHistoryMax THEN n - PageHistoryMax ELSE 1
             K  == {k \in PE!Versions : k < n + 1 /\ k >= (n + 1) - PageHistoryMax}
  <2>1. lo \in 1..n
    BY <1>3, PageAssumption
  <2>2. page = Entry(log, n)
    BY <1>2 DEF PE!Blob, Entry
  <2>3. lo..n = {k \in PE!Versions : k < n /\ k >= n - PageHistoryMax} \cup {n}
    BY <1>2, <1>3, PageAssumption DEF PE!Versions
  <2>4. hist \cup {page} = Entries(log, lo, n)
    <3> HIDE DEF lo
    <3> QED BY <1>2, <2>2, <2>3 DEF Entries, LastEntries
  <2>5. hist' = {Entry(log, v) : v \in {k \in lo..n : n - k < PageHistoryMax}}
    <3> HIDE DEF lo, n
    <3>1. PE!Newest(Entries(log, lo, n)) = {Entry(log, v) : v \in {k \in lo..n : n - k < PageHistoryMax}}
      BY <1>3, <2>1, NewestEntries
    <3> QED BY <2>4, <3>1
  <2>6. {k \in lo..n : n - k < PageHistoryMax} = K
    BY <1>2, <1>3, PageAssumption DEF PE!Versions
  <2>7. \A v \in K : Entry(log', v) = Entry(log, v)
    BY <1>3, <1>4 DEF Entry, PE!Versions
  <2>8. hist' = {Entry(log, v) : v \in K}
    BY <2>5, <2>6
  <2>9. \A b : b \in LastEntries(log', n + 1) <=> \E v \in K : b = Entry(log', v)
    <3> HIDE DEF n
    <3> QED BY DEF LastEntries
  <2> HIDE DEF K, n
  <2>10. ASSUME NEW b  PROVE b \in hist' <=> b \in LastEntries(log', n + 1)
    BY <2>7, <2>8, <2>9
  <2> QED BY <2>10
<1>7. PE!HistoryIsTheLastVersions'
  <2>1. page'.version = n + 1 /\ page'.body = log'[page'.version]
    BY <1>4
  <2>2. PE!HistoryIsTheLastVersions'
          <=> (page' # None => /\ page'.body = log'[page'.version]
                               /\ hist' = LastEntries(log', page'.version))
    BY DEF PE!HistoryIsTheLastVersions, LastEntries, Entry
  <2> HIDE DEF n
  <2> QED BY <1>6, <2>1, <2>2
<1>8. hist' \subseteq PE!Blob
  BY <1>2 DEF PE!Newest
<1>9. RowInv'
  BY <1>3, <1>4, <1>5, <1>7, <1>8 DEF RowInv
<1>10. ASSUME NEW b, Written(b), b.version \in PE!Versions  PROVE Written(b)'
  BY <1>2, <1>3, <1>4, <1>10 DEF Written, PE!Versions
<1>11. ASSUME NEW t \in Visits  PROVE Honest(visit[t])'
  <2>1. visit[t] \in PE!Visit /\ Honest(visit[t])
    BY DEF PageInv
  <2>2. \A b \in {visit[t].got, visit[t].baseline, visit[t].dialog} \ {None} :
           Written(b) /\ b.version \in PE!Versions
    BY <2>1 DEF PE!Visit, Honest, PE!Blob
  <2> QED BY <1>10, <2>1, <2>2 DEF Honest
<1>12. /\ put' \in [Puts -> PE!Put]
       /\ \A r \in Puts : put'[r] = IF r = p THEN [q EXCEPT !.pc = "stored"] ELSE put[r]
  <2>1. [q EXCEPT !.pc = "stored"] \in PE!Put
    BY <1>1 DEF PE!Put
  <2> QED BY <2>1 DEF PageInv
<1>13. ASSUME NEW r \in Puts  PROVE Underway(put[r], visit)'
  <2>1. CASE r # p
    <3>1. put'[r] = put[r] /\ Underway(put[r], visit) BY <1>12, <2>1 DEF PageInv
    <3>2. ASSUME put[r].pc = "stored"
          PROVE  Written([version |-> put[r].base.version + 1, body |-> put[r].body])'
      <4>1. /\ Written([version |-> put[r].base.version + 1, body |-> put[r].body])
            /\ put[r].base.version \in 1..PageMaxVersion
        BY <3>1, <3>2 DEF Underway, PE!Blob, PE!Versions
      <4>2. put[r].base.version + 1 \in PE!Versions
        <5>1. put[r].base.version + 1 <= Len(log)
          BY <4>1 DEF Written
        <5> QED BY <1>2, <4>1, <5>1, PageAssumption DEF PE!Versions
      <4>3. Written([version |-> put[r].base.version + 1, body |-> put[r].body])
            /\ log[put[r].base.version + 1] = put[r].body
        BY <4>1 DEF Written
      <4> QED BY <1>2, <1>3, <1>4, <3>1, <4>2, <4>3 DEF Written, PE!Versions
    <3> QED BY <3>1, <3>2 DEF Underway
  <2>2. CASE r = p
    <3>1. /\ put'[r].pc = "stored" /\ put'[r].visit = q.visit /\ put'[r].base = q.base
          /\ put'[r].body = q.body
      BY <1>1, <1>12, <2>2 DEF PE!Put
    <3>2. Written([version |-> put[r].base.version + 1, body |-> put[r].body])'
      BY <1>1, <1>3, <1>4, <3>1 DEF Written
    <3> QED BY <1>1, <3>1, <3>2 DEF Underway
  <2> QED BY <2>1, <2>2
<1> QED BY <1>9, <1>11, <1>12, <1>13 DEF PageInv

(* PagesService.update: the compare-and-swap, the new history entry and the *)
(* trim, in one transaction.                                               *)
LEMMA PatchStep ==
  ASSUME PageInv, NEW p \in Puts, PE!Patch(p)
  PROVE  PageInv'
<1> DEFINE q == put[p]
<1>1. /\ q.pc = "sent" /\ q \in PE!Put /\ q.visit \in Visits /\ visit[q.visit] \in PE!Visit
      /\ Underway(q, visit) /\ Honest(visit[q.visit])
  BY DEF PageInv, Underway, PE!Patch
<1>2. CASE PE!Readable /\ ~ PE!Holds(q.base) /\ put' = [put EXCEPT ![p].pc = "conflict"]
           /\ UNCHANGED <<page, hist, log, visit>>
  <2> DEFINE w == [q EXCEPT !.pc = "conflict"]
  <2>1. w \in PE!Put /\ Underway(w, visit) /\ put' = [put EXCEPT ![p] = w]
    BY <1>1, <1>2 DEF PE!Put, Underway
  <2> QED BY <1>2, <2>1, PutMoves
<1>3. CASE put' = [put EXCEPT ![p] = PE!Free] /\ UNCHANGED <<page, hist, log>>
           /\ PE!Become(q.visit, [visit[q.visit] EXCEPT !.saving = FALSE])
  <2> DEFINE n == [visit[q.visit] EXCEPT !.saving = FALSE]
  <2>1. PE!Free \in PE!Put /\ Underway(PE!Free, visit')
    BY DEF PE!Free, PE!Put, Underway
  <2>2. n \in PE!Visit /\ Honest(n) /\ n.error = visit[q.visit].error
        /\ n.doc = visit[q.visit].doc
    BY <1>1 DEF PE!Visit, Honest
  <2> HIDE DEF n
  <2> QED BY <1>1, <1>3, <2>1, <2>2, VisitMoves DEF n
<1> QED BY <1>1, <1>2, <1>3, StoredStep DEF PE!Patch

(* Deletion of the page.                                                   *)
LEMMA PageDeleteStep ==
  ASSUME PageInv, NEW t \in Visits, PE!Delete(t)
  PROVE  PageInv'
<1>1. page' = None /\ hist' = {} /\ UNCHANGED <<log, visit, put>>
  BY DEF PE!Delete
<1>2. RowInv'
  BY <1>1 DEF PageInv, RowInv, PE!HistoryIsTheLastVersions
<1>3. ASSUME NEW u \in Visits  PROVE Honest(visit[u])'
  BY <1>1 DEF PageInv, Honest, Written
<1>4. ASSUME NEW p \in Puts  PROVE Underway(put[p], visit)'
  BY <1>1 DEF PageInv, Underway, Written
<1> QED BY <1>1, <1>2, <1>3, <1>4 DEF PageInv

(* The page starts at version 1 with an empty history.                     *)
LEMMA PageInitInv == PE!Init => PageInv
<1> SUFFICES ASSUME PE!Init  PROVE PageInv
  OBVIOUS
<1>1. PICK x \in Texts : page = PE!Created(x) /\ log = <<PE!Created(x).body>>
  BY DEF PE!Init
<1>2. hist = {} /\ visit = [t \in Visits |-> PE!Unopened] /\ put = [p \in Puts |-> PE!Free]
  BY DEF PE!Init
<1>3. page.version = 1 /\ page.body = log[1] /\ page \in PE!Blob /\ log \in Seq(PE!Body)
      /\ Len(log) = 1
  BY <1>1, PageAssumption DEF PE!Created, PE!Blob, PE!Body, PE!Versions
<1>4. {v \in {n \in PE!Versions : n < page.version /\ n >= page.version - PageHistoryMax} : TRUE}
        = {}
  BY <1>3, PageAssumption DEF PE!Versions
<1>5. RowInv
  BY <1>2, <1>3, <1>4, PageAssumption
  DEF RowInv, PE!HistoryIsTheLastVersions, PE!Versions
<1>6. PE!Unopened \in PE!Visit /\ Honest(PE!Unopened) /\ PE!Free \in PE!Put
      /\ Underway(PE!Free, visit)
  BY DEF PE!Unopened, PE!Visit, Honest, PE!Free, PE!Put, Underway
<1> QED BY <1>2, <1>5, <1>6 DEF PageInv

(* Every step of PageEditor keeps PageInv.                                 *)
LEMMA PageNextInv == PageInv /\ [PE!Next]_(PE!vars) => PageInv'
<1> SUFFICES ASSUME PageInv, [PE!Next]_(PE!vars)  PROVE PageInv'
  OBVIOUS
<1>1. CASE UNCHANGED PE!vars
  BY <1>1
  DEF PE!vars, PageInv, RowInv, PE!HistoryIsTheLastVersions, Honest, Underway,
      Written
<1>2. CASE PE!Next
  BY <1>2, VisitStep, ButtonStep, AnswersStep, PatchStep, PageDeleteStep DEF PE!Next
<1> QED BY <1>1, <1>2

(* PageInv gives the three properties of the page.                         *)
LEMMA PageInvImplies == PageInv => PE!TypeOK /\ PE!HistoryIsTheLastVersions /\ PE!CopiesAreTrue
<1> SUFFICES ASSUME PageInv  PROVE PE!TypeOK /\ PE!HistoryIsTheLastVersions /\ PE!CopiesAreTrue
  OBVIOUS
<1>1. PE!TypeOK
  BY LogsAreSequences DEF PageInv, RowInv, PE!TypeOK
<1> QED BY <1>1 DEF PageInv, RowInv, PE!CopiesAreTrue, Honest, Written

-----------------------------------------------------------------------------
(* VaultList.                                                              *)

(* What was read of a row is no newer than the row, and is the row when it *)
(* is as new.                                                              *)
TrueRead(r, c) ==
    \/ r = VL!NoRow
    \/ /\ r.version \in 1..VaultMaxVersion /\ r.version <= rows[c].version
       /\ r.version = rows[c].version => r = rows[c]

(* A run has read no row before it was listed; a run that is done has read *)
(* every row listed.                                                       *)
BulkInv ==
    \A c \in Credentials :
        /\ listed[c] <= rows[c].version
        /\ TrueRead(bulk.read[c], c) /\ TrueRead(reuse[c], c)
        /\ bulk.pc = "reading" /\ bulk.read[c].version > 0 =>
               listed[c] > 0 /\ bulk.read[c].version >= listed[c]
        /\ bulk.pc = "scheduled" => bulk.read[c] = VL!NoRow
        /\ bulk.pc = "done" => /\ listed[c] > 0 <=> reuse[c].version > 0
                               /\ listed[c] <= reuse[c].version

VaultInv == VL!TypeOK /\ BulkInv

(* The version of a row is a number, and a row that is there is a row.     *)
LEMMA PresentRows ==
  ASSUME VL!TypeOK, NEW c \in Credentials
  PROVE  /\ rows[c].version \in 0..VL!Gone
         /\ VL!Present(c) => rows[c] \in VL!Row
         /\ VL!NoRow \in VL!Row /\ VL!NoRow.version = 0
<1>1. rows[c] \in VL!Row \cup {[version |-> VL!Gone, password |-> None]}
  BY DEF VL!TypeOK
<1> QED BY <1>1, VaultAssumption DEF VL!Row, VL!Gone, VL!Present, VL!NoRow

(* What the server lists is at most as new as the rows.                    *)
LEMMA ListingType ==
  ASSUME VL!TypeOK
  PROVE  /\ VL!Listing \in [Credentials -> 0..VaultMaxVersion]
         /\ \A c \in Credentials : VL!Listing[c] <= rows[c].version
<1>1. \A c \in Credentials : /\ VL!Listing[c] \in 0..VaultMaxVersion
                             /\ VL!Listing[c] <= rows[c].version
  BY PresentRows, VaultAssumption DEF VL!Listing, VL!Present, VL!Gone
<1> QED BY <1>1, VaultAssumption DEF VL!Listing

(* The types of the constants a list starts with.                          *)
LEMMA FreshRuns ==
  /\ VL!Unread \in [Credentials -> VL!Row] /\ \A c \in Credentials : VL!Unread[c] = VL!NoRow
  /\ VL!Unlisted \in [Credentials -> 0..VaultMaxVersion]
     /\ \A c \in Credentials : VL!Unlisted[c] = 0
  /\ VL!Skeleton \in [pc : {"skeleton", "shown", "error"}, view : VL!Row]
  /\ \A l : /\ VL!Scheduled(l).pc \in {"none", "scheduled"} /\ VL!Scheduled(l).read = VL!Unread
            /\ VL!Scheduled(l) \in [pc : {"none", "scheduled", "reading", "done", "failed"},
                                 read : [Credentials -> VL!Row]]
  /\ VL!NoRun.pc = "none" /\ VL!NoRun.read = VL!Unread
<1>1. VL!NoRow \in VL!Row
  BY VaultAssumption DEF VL!NoRow, VL!Row
<1>2. VL!Unread \in [Credentials -> VL!Row] /\ \A c \in Credentials : VL!Unread[c] = VL!NoRow
  BY <1>1 DEF VL!Unread
<1>3. VL!Unlisted \in [Credentials -> 0..VaultMaxVersion]
      /\ \A c \in Credentials : VL!Unlisted[c] = 0
  BY VaultAssumption DEF VL!Unlisted
<1>4. VL!Skeleton \in [pc : {"skeleton", "shown", "error"}, view : VL!Row]
  BY <1>1 DEF VL!Skeleton
<1> QED BY <1>2, <1>3, <1>4 DEF VL!Scheduled, VL!NoRun

(* The run starts anew, and the list and the map may change with it.       *)
LEMMA BulkStarts ==
  ASSUME VaultInv, kind' = kind, rows' = rows,
         query' \in BOOLEAN, load' \in BOOLEAN, screen' \in {"booting", "list", "error"},
         known' \subseteq Credentials,
         card' \in [Credentials -> [pc : {"skeleton", "shown", "error"}, view : VL!Row]],
         listed' \in {listed, VL!Listing, VL!Unlisted}, reuse' \in {reuse, VL!Unread},
         bulk'.pc \in {"none", "scheduled", "failed"}, bulk'.read = VL!Unread,
         bulk' \in [pc : {"none", "scheduled", "reading", "done", "failed"},
                    read : [Credentials -> VL!Row]]
  PROVE  VaultInv'
<1>1. VL!TypeOK'
  BY ListingType, FreshRuns DEF VaultInv, VL!TypeOK
<1>2. ASSUME NEW c \in Credentials
      PROVE  /\ listed'[c] <= rows'[c].version
             /\ TrueRead(bulk.read[c], c)' /\ TrueRead(reuse[c], c)'
  <2>1. listed'[c] <= rows'[c].version
    BY ListingType, FreshRuns, PresentRows, VaultAssumption
    DEF VaultInv, BulkInv, VL!Gone
  <2>2. TrueRead(bulk.read[c], c)' /\ TrueRead(reuse[c], c)'
    BY FreshRuns DEF VaultInv, BulkInv, TrueRead
  <2> QED BY <2>1, <2>2
<1> QED BY <1>1, <1>2, FreshRuns DEF VaultInv, BulkInv

(* Loading the list.                                                       *)
LEMMA ListSteps ==
  ASSUME VaultInv, VL!Boot \/ VL!Listed \/ VL!LoadFailed \/ VL!RunFails
  PROVE  VaultInv'
<1> USE DEF VaultInv
<1>1. ASSUME NEW s
      PROVE  VL!Kept(s) \in [Credentials -> [pc : {"skeleton", "shown", "error"}, view : VL!Row]]
  BY FreshRuns DEF VL!Kept, VL!TypeOK
<1>2. CASE VL!Boot
  BY <1>2, FreshRuns, BulkStarts DEF VL!Boot, VL!TypeOK
<1>3. CASE VL!Listed
  BY <1>1, <1>3, FreshRuns, BulkStarts DEF VL!Listed, VL!SetList, VL!TypeOK
<1>4. CASE VL!LoadFailed
  BY <1>4, FreshRuns, BulkStarts DEF VL!LoadFailed, VL!TypeOK, VL!NoRun
<1>5. CASE VL!RunFails
  BY <1>5, FreshRuns, BulkStarts DEF VL!RunFails, VL!TypeOK, VL!NoRun
<1> QED BY <1>2, <1>3, <1>4, <1>5

(* A card or the search box: neither the run nor the rows.                 *)
LEMMA CardSteps ==
  ASSUME VaultInv, VL!Search \/ \E c \in Credentials : VL!DoDecrypt(c) \/ VL!DecryptFails(c)
  PROVE  VaultInv'
<1> DEFINE Cards == [Credentials -> [pc : {"skeleton", "shown", "error"}, view : VL!Row]]
<1>1. /\ UNCHANGED <<kind, rows, listed, bulk, reuse, load, screen>>
      /\ VL!TypeOK /\ card \in Cards
  BY DEF VaultInv, VL!TypeOK, VL!Search, VL!DoDecrypt, VL!DecryptFails
<1>2. ASSUME card' \in Cards, known' \subseteq Credentials, query' \in BOOLEAN
      PROVE  VaultInv'
  <2>1. VL!TypeOK' BY <1>1, <1>2 DEF VL!TypeOK
  <2>2. BulkInv' BY <1>1 DEF VaultInv, BulkInv, TrueRead
  <2> QED BY <2>1, <2>2 DEF VaultInv
<1>3. CASE VL!Search
  <2>1. card' \in Cards
    BY <1>1, <1>3, FreshRuns DEF VL!Search, VL!Kept
  <2> QED BY <1>1, <1>2, <1>3, <2>1 DEF VL!Search, VL!TypeOK
<1>4. ASSUME NEW c \in Credentials, VL!DoDecrypt(c)  PROVE VaultInv'
  <2>1. rows[c] \in VL!Row
    BY <1>1, <1>4, PresentRows DEF VL!DoDecrypt
  <2>2. [pc |-> "shown", view |-> rows[c]] \in [pc : {"skeleton", "shown", "error"}, view : VL!Row]
    BY <2>1
  <2>3. card' \in Cards
    BY <1>1, <1>4, <2>2, FreshRuns DEF VL!DoDecrypt
  <2> QED BY <1>1, <1>2, <1>4, <2>3 DEF VL!DoDecrypt, VL!TypeOK
<1>5. ASSUME NEW c \in Credentials, VL!DecryptFails(c)  PROVE VaultInv'
  <2>1. card' \in Cards
    BY <1>1, <1>5 DEF VL!DecryptFails
  <2> QED BY <1>1, <1>2, <1>5, <2>1 DEF VL!DecryptFails, VL!TypeOK
<1> QED BY <1>3, <1>4, <1>5

(* The scan that builds the reuse set, one credential at a time.           *)
LEMMA BulkSteps ==
  ASSUME VaultInv, VL!RequestIdleCallback \/ VL!BuildReuseSet
         \/ \E c \in Credentials : VL!GetCredential(c)
  PROVE  VaultInv'
<1>1. UNCHANGED <<kind, rows, listed, query, card, known, load, screen>> /\ VL!TypeOK /\ BulkInv
  BY DEF VaultInv, VL!RequestIdleCallback, VL!BuildReuseSet, VL!GetCredential
<1>2. CASE VL!RequestIdleCallback
  <2>1. bulk' = [bulk EXCEPT !.pc = "reading"] /\ reuse' = reuse
    BY <1>2 DEF VL!RequestIdleCallback
  <2>2. bulk'.pc = "reading" /\ bulk'.read = bulk.read
    BY <1>1, <2>1 DEF VL!TypeOK
  <2>3. VL!TypeOK'
    BY <1>1, <2>1 DEF VL!TypeOK
  <2>4. bulk.pc = "scheduled" /\ VL!NoRow.version = 0
    BY <1>2 DEF VL!RequestIdleCallback, VL!NoRow
  <2> QED BY <1>1, <2>1, <2>2, <2>3, <2>4 DEF VaultInv, BulkInv, TrueRead
<1>3. CASE VL!BuildReuseSet
  <2>1. /\ bulk'.pc = "done" /\ bulk'.read = VL!Unread /\ reuse' = bulk.read
           /\ bulk.pc = "reading"
        /\ bulk' \in [pc : {"none", "scheduled", "reading", "done", "failed"},
                      read : [Credentials -> VL!Row]]
        /\ \A c \in Credentials : listed[c] > 0 => bulk.read[c] # VL!NoRow
    BY <1>3, FreshRuns DEF VL!BuildReuseSet, VL!NoRun
  <2>2. VL!TypeOK'
    BY <1>1, <2>1 DEF VL!TypeOK
  <2>3. \A c \in Credentials : listed[c] \in Nat /\ VL!NoRow.version = 0
    BY <1>1 DEF VL!TypeOK, VL!NoRow
  <2> QED BY <1>1, <2>1, <2>2, <2>3, FreshRuns DEF VaultInv, BulkInv, TrueRead
<1>4. ASSUME NEW c \in Credentials, VL!GetCredential(c)  PROVE VaultInv'
  <2>1. rows[c] \in VL!Row /\ rows[c].version \in 1..VaultMaxVersion /\ listed[c] > 0
        /\ bulk.pc = "reading"
    BY <1>1, <1>4, PresentRows DEF VL!GetCredential, VL!Present
  <2>2. /\ bulk' = [bulk EXCEPT !.read = [bulk.read EXCEPT ![c] = rows[c]]]
        /\ bulk.read \in [Credentials -> VL!Row] /\ reuse' = reuse
    BY <1>1, <1>4 DEF VL!GetCredential, VL!TypeOK
  <2>3. [bulk.read EXCEPT ![c] = rows[c]] \in [Credentials -> VL!Row]
    BY <2>1, <2>2
  <2>4. /\ bulk'.pc = "reading" /\ bulk'.read = [bulk.read EXCEPT ![c] = rows[c]]
        /\ bulk' \in [pc : {"none", "scheduled", "reading", "done", "failed"},
                      read : [Credentials -> VL!Row]]
    BY <1>1, <2>1, <2>2, <2>3 DEF VL!TypeOK
  <2>5. VL!TypeOK'
    BY <1>1, <2>2, <2>4 DEF VL!TypeOK
  <2> QED BY <1>1, <2>1, <2>2, <2>4, <2>5 DEF VaultInv, BulkInv, TrueRead
<1> QED BY <1>2, <1>3, <1>4

(* The row moves, always to a higher version.                              *)
LEMMA RowSteps ==
  ASSUME VaultInv, NEW c \in Credentials, VL!Deleted(c) \/ \E p \in Passwords : VL!Saved(c, p)
  PROVE  VaultInv'
<1>1. UNCHANGED <<kind, listed, query, card, known, bulk, reuse, load, screen>>
      /\ VL!TypeOK /\ BulkInv
  BY DEF VaultInv, VL!Deleted, VL!Saved
<1>2. PICK r \in VL!Row \cup {[version |-> VL!Gone, password |-> None]} :
         rows' = [rows EXCEPT ![c] = r] /\ r.version > rows[c].version
  <2>1. rows[c].version \in 0..VL!Gone
    BY <1>1, PresentRows
  <2>2. CASE VL!Deleted(c)
    <3> DEFINE s == [version |-> VL!Gone, password |-> None]
    <3>1. rows' = [rows EXCEPT ![c] = s] /\ s.version > rows[c].version
      BY <2>1, <2>2, VaultAssumption DEF VL!Deleted, VL!Present, VL!Gone
    <3> QED BY <3>1
  <2>3. ASSUME NEW p \in Passwords, VL!Saved(c, p)
        PROVE  \E r \in VL!Row : rows' = [rows EXCEPT ![c] = r] /\ r.version > rows[c].version
    <3> DEFINE s == [version |-> rows[c].version + 1, password |-> p]
    <3>1. s \in VL!Row /\ s.version > rows[c].version
      BY <2>1, <2>3, VaultAssumption DEF VL!Saved, VL!Row, VL!Gone
    <3>2. rows' = [rows EXCEPT ![c] = s]
      BY <1>1, <2>3 DEF VL!Saved, VL!TypeOK
    <3> QED BY <3>1, <3>2
  <2> QED BY <2>2, <2>3
<1>3. /\ rows' \in [Credentials -> VL!Row \cup {[version |-> VL!Gone, password |-> None]}]
      /\ \A d \in Credentials : rows'[d] = IF d = c THEN r ELSE rows[d]
  BY <1>1, <1>2 DEF VL!TypeOK
<1>4. VL!TypeOK'
  BY <1>1, <1>3 DEF VL!TypeOK
<1>5. ASSUME NEW d \in Credentials
      PROVE  /\ rows'[d].version >= rows[d].version
             /\ rows'[d].version = rows[d].version => rows'[d] = rows[d]
             /\ rows[d].version \in Int /\ rows'[d].version \in Int
  <2>1. rows[d].version \in 0..VL!Gone /\ rows'[d].version \in 0..VL!Gone
    <3>1. rows'[d].version \in 0..VL!Gone
      <4>1. rows'[d] \in VL!Row \cup {[version |-> VL!Gone, password |-> None]}
        BY <1>3
      <4> QED BY <4>1, VaultAssumption DEF VL!Row, VL!Gone
    <3> QED BY <1>1, <3>1, PresentRows
  <2> QED BY <1>2, <1>3, <2>1, VaultAssumption DEF VL!Gone
<1>6. ASSUME NEW d \in Credentials, NEW s, TrueRead(s, d)  PROVE TrueRead(s, d)'
  BY <1>5, <1>6 DEF TrueRead
<1>7. ASSUME NEW d \in Credentials  PROVE listed'[d] <= rows'[d].version
  BY <1>1, <1>5 DEF BulkInv, VL!TypeOK
<1>8. BulkInv'
  <2>1. ASSUME NEW d \in Credentials  PROVE TrueRead(bulk.read[d], d)' /\ TrueRead(reuse[d], d)'
    <3>1. TrueRead(bulk.read[d], d) /\ TrueRead(reuse[d], d) BY <1>1 DEF BulkInv
    <3> QED BY <1>1, <1>6, <3>1 DEF TrueRead
  <2> QED BY <1>1, <1>7, <2>1 DEF BulkInv
<1> QED BY <1>4, <1>8 DEF VaultInv

(* The list starts with nothing read.                                      *)
LEMMA VaultInitInv == VL!Init => VaultInv
<1> SUFFICES ASSUME VL!Init  PROVE VaultInv
  OBVIOUS
<1>1. \A c \in Credentials : rows[c] \in VL!Row /\ rows[c].version \in 0..VaultMaxVersion
  BY VaultAssumption DEF VL!Init, VL!Row, VL!NoRow
<1>2. rows \in [Credentials -> VL!Row \cup {[version |-> VL!Gone, password |-> None]}]
  BY <1>1 DEF VL!Init
<1>3. VL!TypeOK
  BY <1>2, FreshRuns DEF VL!Init, VL!TypeOK, VL!NoRun
<1> QED BY <1>1, <1>3, FreshRuns, VaultAssumption
DEF VL!Init, VaultInv, BulkInv, TrueRead

(* Every step of VaultList keeps VaultInv.                                 *)
LEMMA VaultNextInv == VaultInv /\ [VL!Next]_(VL!vaultVars) => VaultInv'
<1> SUFFICES ASSUME VaultInv, [VL!Next]_(VL!vaultVars)  PROVE VaultInv'
  OBVIOUS
<1>1. CASE UNCHANGED VL!vaultVars
  BY <1>1 DEF VL!vaultVars, VaultInv, VL!TypeOK, BulkInv, TrueRead
<1>2. CASE VL!Next
  BY <1>2, ListSteps, CardSteps, BulkSteps, RowSteps DEF VL!Next
<1> QED BY <1>1, <1>2

(* The map is the vault once the run is done and the list is what there is.*)
LEMMA TheMapIsTheVault ==
  ASSUME VaultInv, bulk.pc = "done", listed = VL!Listing, NEW d \in Credentials
  PROVE  /\ reuse[d].version > 0 <=> VL!Present(d)
         /\ VL!Present(d) => reuse[d] = rows[d]
<1>1. /\ listed[d] = IF VL!Present(d) THEN rows[d].version ELSE 0
      /\ listed[d] > 0 <=> reuse[d].version > 0
      /\ listed[d] <= reuse[d].version /\ TrueRead(reuse[d], d)
      /\ rows[d].version \in 0..VL!Gone /\ VL!NoRow.version = 0
  BY PresentRows DEF VaultInv, BulkInv, VL!Listing
<1> QED BY <1>1, VaultAssumption DEF VL!Present, TrueRead, VL!Gone

(* VaultInv gives the property of the badges.                              *)
LEMMA VaultInvImplies == VaultInv => VL!TypeOK /\ VL!BadgesAreRight
<1> SUFFICES ASSUME VaultInv, bulk.pc = "done", listed = VL!Listing,
                    NEW c \in Credentials, card[c].pc = "shown", card[c].view = rows[c]
             PROVE  VL!ReuseCount(c) = VL!Cardinality({d \in Credentials \ {c} :
                                        VL!Present(d) /\ rows[d].password = rows[c].password})
  BY DEF VaultInv, VL!BadgesAreRight
<1> DEFINE S == VL!SamePassword(c)
<1>1. S = {d \in Credentials : VL!Present(d) /\ rows[d].password = rows[c].password}
  BY TheMapIsTheVault DEF VL!SamePassword
<1>2. S \ {c} = {d \in Credentials \ {c} : VL!Present(d) /\ rows[d].password = rows[c].password}
  BY <1>1
<1>3. S \in SUBSET Credentials
  BY DEF VL!SamePassword
<1>4. IsFiniteSet(S) /\ Cardinality(S) \in Nat
  BY <1>3, VaultAssumption, FS_Subset, FS_CardinalityType
<1>5. Cardinality(S \ {c}) = IF c \in S THEN Cardinality(S) - 1 ELSE Cardinality(S)
  BY <1>4, FS_RemoveElement
<1>6. VL!ReuseCount(c) = Cardinality(S \ {c})
  BY <1>4, <1>5, SameCardinality DEF VL!ReuseCount
<1> QED BY <1>2, <1>6, SameCardinality

-----------------------------------------------------------------------------
(* PageList.                                                               *)

(* A set of numbers has a least element, and a greatest if it is bounded.  *)
LEMMA Least ==
  ASSUME NEW S, S \subseteq Nat, S # {}
  PROVE  \E i \in S : \A j \in S : i <= j
<1> DEFINE R == {ss \in Nat \X Nat : ss[1] < ss[2]}
<1>1. IsWellFoundedOn(R, Nat)
  BY NatLessThanWellFounded DEF OpToRel
<1>2. \E i \in S : \A j \in S : ~ (<<j, i>> \in R)
  <2> HIDE DEF R
  <2> QED BY <1>1, WFMin
<1>3. ASSUME NEW i \in S, NEW j \in S, ~ (<<j, i>> \in R)  PROVE i <= j
  <2>1. i \in Nat /\ j \in Nat OBVIOUS
  <2>2. ~ (j < i) BY <1>3, <2>1
  <2> QED BY <2>1, <2>2
<1> QED BY <1>2, <1>3

(* A nonempty set of numbers up to m has a greatest one.                   *)
LEMMA Greatest ==
  ASSUME NEW m \in Nat, NEW S, S \subseteq 1..m, S # {}
  PROVE  \E i \in S : \A j \in S : j <= i
<1> DEFINE T == {n \in Nat : m - n \in S}
<1>1. T \subseteq Nat /\ T # {}
  <2>1. PICK i \in S : TRUE OBVIOUS
  <2>2. m - i \in Nat /\ m - (m - i) = i BY <2>1
  <2>3. m - i \in T BY <2>1, <2>2
  <2> QED BY <2>3
<1>2. PICK n \in T : \A k \in T : n <= k
  <2> HIDE DEF T
  <2> QED BY <1>1, Least
<1>3. m - n \in S /\ n \in Nat
  OBVIOUS
<1>4. ASSUME NEW j \in S  PROVE j <= m - n
  <2>1. m - j \in Nat /\ m - (m - j) = j /\ j \in Int OBVIOUS
  <2>2. n <= m - j BY <1>2, <2>1
  <2> QED BY <1>3, <2>1, <2>2
<1> QED BY <1>3, <1>4

-----------------------------------------------------------------------------
Byte     == 0..MaxByte
Matches(prefix, token) == \A i \in DOMAIN prefix : token[i] = prefix[i]

(* A token that is not before the prefix, and has its bytes up to k where  *)
(* the rest of the prefix is as high as can be, begins with the prefix.    *)
LEMMA RestIsHighest ==
  ASSUME NEW prefix \in Seq(Byte), Len(prefix) <= Width, NEW token \in [1..Width -> Byte],
         ~ PL!Before(token, PL!Padded(prefix)), NEW k \in Nat,
         \A i \in 1..Len(prefix) : i <= k => token[i] = prefix[i],
         \A i \in 1..Len(prefix) : i > k => prefix[i] = MaxByte
  PROVE  Matches(prefix, token)
<1> DEFINE S == {i \in 1..Len(prefix) : token[i] # prefix[i]}
<1>1. Len(prefix) \in Nat /\ DOMAIN prefix = 1..Len(prefix)
      /\ \A i \in 1..Len(prefix) : prefix[i] \in Byte /\ i \in 1..Width /\ token[i] \in Byte
  BY ListAssumption
<1>2. ASSUME S # {}  PROVE FALSE
  <2>1. S \subseteq Nat BY <1>1
  <2>2. PICK n \in S : \A j \in S : n <= j
    <3> HIDE DEF S
    <3> QED BY <1>2, <2>1, Least
  <2>3. n \in 1..Len(prefix) /\ n \in 1..Width /\ token[n] # prefix[n] /\ n > k
    BY <1>1
  <2>4. token[n] < PL!Padded(prefix)[n]
    <3>1. prefix[n] = MaxByte BY <2>3
    <3>2. token[n] \in 0..MaxByte /\ token[n] # MaxByte BY <1>1, <2>3, <3>1 DEF Byte
    <3> QED BY <1>1, <2>3, <3>1, <3>2, ListAssumption DEF PL!Padded
  <2>5. ASSUME NEW j \in 1..(n - 1)  PROVE token[j] = PL!Padded(prefix)[j]
    <3>1. j \in 1..Len(prefix) /\ j \notin S /\ j \in 1..Width
      BY <1>1, <2>2, <2>3
    <3> QED BY <3>1, <1>1 DEF PL!Padded
  <2> QED BY <2>3, <2>4, <2>5 DEF PL!Before
<1> QED BY <1>1, <1>2 DEF Matches

(* The range finds the tokens that begin with the prefix, the highest one  *)
(* excepted.                                                               *)
THEOREM RangeOfAPrefix ==
  ASSUME NEW prefix \in Seq(Byte), Len(prefix) <= Width, NEW token \in [1..Width -> Byte]
  PROVE  PL!InRange(prefix, token)
           <=> Matches(prefix, token) /\ \E i \in 1..Width : token[i] < MaxByte
<1> DEFINE room == {i \in DOMAIN prefix : prefix[i] < MaxByte}
           m == Len(prefix)
<1>1. /\ m \in Nat /\ DOMAIN prefix = 1..m
      /\ \A i \in 1..m : prefix[i] \in Byte /\ i \in 1..Width
      /\ \A i \in 1..Width : token[i] \in Byte
  BY ListAssumption
<1>2. ASSUME Matches(prefix, token)  PROVE ~ PL!Before(token, PL!Padded(prefix))
  <2>1. ASSUME NEW i \in 1..Width  PROVE PL!Padded(prefix)[i] <= token[i]
    <3>1. PL!Padded(prefix)[i] = IF i <= m THEN prefix[i] ELSE 0
      BY DEF PL!Padded
    <3> QED BY <1>1, <1>2, <3>1 DEF Matches, Byte
  <2>2. \A i \in 1..Width : PL!Padded(prefix)[i] \in Int /\ token[i] \in Int
    BY <1>1, ListAssumption DEF PL!Padded, Byte
  <2> QED BY <2>1, <2>2 DEF PL!Before
<1>3. CASE room = {}
  <2>1. ASSUME NEW i \in 1..m  PROVE prefix[i] = MaxByte
    <3>1. ~ (prefix[i] < MaxByte) BY <1>1, <1>3
    <3>2. prefix[i] \in 0..MaxByte BY <1>1 DEF Byte
    <3> QED BY <3>1, <3>2, ListAssumption
  <2>2. PL!High(prefix) = [i \in 1..Width |-> MaxByte]
    BY <1>3 DEF PL!High
  <2>3. ASSUME PL!InRange(prefix, token)
        PROVE  Matches(prefix, token) /\ \E i \in 1..Width : token[i] < MaxByte
    <3>1. ~ PL!Before(token, PL!Padded(prefix)) /\ PL!Before(token, PL!High(prefix))
      BY <2>3 DEF PL!InRange
    <3>2. Matches(prefix, token)
      <4>1. /\ \A i \in 1..Len(prefix) : i <= 0 => token[i] = prefix[i]
            /\ \A i \in 1..Len(prefix) : i > 0 => prefix[i] = MaxByte
        BY <1>1, <2>1
      <4> QED BY <3>1, <4>1, RestIsHighest
    <3>3. \E i \in 1..Width : token[i] < MaxByte
      BY <2>2, <3>1 DEF PL!Before
    <3> QED BY <3>2, <3>3
  <2>4. ASSUME Matches(prefix, token), NEW i \in 1..Width, token[i] < MaxByte
        PROVE  PL!Before(token, PL!High(prefix))
    <3> DEFINE S == {j \in 1..Width : token[j] < MaxByte}
    <3>1. S \subseteq Nat /\ S # {} BY <2>4
    <3>2. PICK n \in S : \A j \in S : n <= j
      <4> HIDE DEF S
      <4> QED BY <3>1, Least
    <3>3. n \in 1..Width /\ token[n] < PL!High(prefix)[n]
      BY <2>2
    <3>4. ASSUME NEW j \in 1..(n - 1)  PROVE token[j] = PL!High(prefix)[j]
      <4>1. j \in 1..Width /\ j \notin S BY <3>2, <3>3, ListAssumption
      <4>2. token[j] \in 0..MaxByte /\ ~ (token[j] < MaxByte) BY <1>1, <4>1 DEF Byte
      <4> QED BY <2>2, <4>1, <4>2, ListAssumption
    <3> QED BY <3>3, <3>4 DEF PL!Before
  <2> QED BY <1>2, <2>3, <2>4 DEF PL!InRange
<1>4. CASE room # {}
  <2> DEFINE k == CHOOSE k \in room : \A i \in room : i <= k
  <2>1. k \in room /\ \A i \in room : i <= k
    <3>1. room \subseteq 1..m BY <1>1
    <3>2. \E n \in room : \A i \in room : i <= n
      <4> HIDE DEF room
      <4> QED BY <1>1, <1>4, <3>1, Greatest
    <3> QED BY <3>2
  <2>2. PL!High(prefix) = [i \in 1..Width |-> IF i < k THEN prefix[i]
                                           ELSE IF i = k THEN prefix[k] + 1 ELSE 0]
    BY <1>4 DEF PL!High
  <2>3. k \in 1..m /\ k \in 1..Width /\ prefix[k] < MaxByte /\ prefix[k] \in 0..MaxByte
    BY <1>1, <2>1 DEF Byte
  <2>4. ASSUME NEW i \in 1..m, i > k  PROVE prefix[i] = MaxByte
    <3>1. i \notin room /\ i \in DOMAIN prefix
      <4> HIDE DEF room, k
      <4> QED BY <1>1, <2>1, <2>3, <2>4
    <3> QED BY <1>1, <3>1, ListAssumption DEF Byte
  <2> HIDE DEF k, room
  <2>5. ASSUME PL!InRange(prefix, token)
        PROVE  Matches(prefix, token)
    <3>1. ~ PL!Before(token, PL!Padded(prefix)) /\ PL!Before(token, PL!High(prefix))
      BY <2>5 DEF PL!InRange
    <3>2. PICK n \in 1..Width : token[n] < PL!High(prefix)[n]
                                /\ \A j \in 1..(n - 1) : token[j] = PL!High(prefix)[j]
      BY <3>1 DEF PL!Before
    <3>3. ~ (n > k)
      <4>1. ASSUME n > k  PROVE FALSE
        <5>1. PL!High(prefix)[n] = 0 BY <2>2, <2>3, <4>1, ListAssumption
        <5>2. token[n] \in 0..MaxByte BY <1>1 DEF Byte
        <5> QED BY <3>2, <5>1, <5>2, ListAssumption
      <4> QED BY <4>1
    <3>4. ASSUME NEW j \in 1..(n - 1)
          PROVE  token[j] = prefix[j] /\ token[j] = PL!Padded(prefix)[j]
      <4>1. j \in 1..Width /\ j < k /\ j \in 1..m BY <1>1, <2>3, <3>3, ListAssumption
      <4>2. PL!High(prefix)[j] = prefix[j] BY <2>2, <4>1
      <4> QED BY <3>2, <4>1, <4>2, <1>1 DEF PL!Padded
    <3>5. n \in 1..m /\ PL!Padded(prefix)[n] = prefix[n] /\ token[n] \in 0..MaxByte
          /\ prefix[n] \in 0..MaxByte
      <4>1. n \in 1..m BY <1>1, <2>3, <3>3, ListAssumption
      <4> QED BY <1>1, <4>1 DEF PL!Padded, Byte
    <3>6. ~ (token[n] < prefix[n])
      BY <3>1, <3>4, <3>5 DEF PL!Before
    <3>7. n = k /\ token[n] = prefix[n]
      <4>1. CASE n < k
        <5>1. PL!High(prefix)[n] = prefix[n] BY <2>2, <4>1
        <5> QED BY <3>2, <3>6, <5>1
      <4>2. CASE n = k
        <5>1. PL!High(prefix)[n] = prefix[n] + 1 BY <2>2, <4>2
        <5> QED BY <3>2, <3>5, <3>6, <4>2, <5>1, ListAssumption
      <4> QED BY <2>3, <3>3, <4>1, <4>2, ListAssumption
    <3>8. \A i \in 1..Len(prefix) : i <= k => token[i] = prefix[i]
      BY <1>1, <2>3, <3>4, <3>7
    <3>9. k \in Nat BY <2>3
    <3> QED BY <2>4, <3>1, <3>8, <3>9, RestIsHighest
  <2>6. ASSUME Matches(prefix, token)
        PROVE  PL!Before(token, PL!High(prefix)) /\ token[k] < MaxByte
    <3>1. ASSUME NEW i \in 1..k  PROVE token[i] = prefix[i] /\ i \in 1..Width
      <4>1. i \in 1..m BY <1>1, <2>3
      <4> QED BY <1>1, <2>6, <4>1 DEF Matches
    <3>2. k \in 1..k /\ PL!High(prefix)[k] = prefix[k] + 1
      BY <2>2, <2>3
    <3>3. token[k] < PL!High(prefix)[k] /\ token[k] < MaxByte
      BY <2>3, <3>1, <3>2, ListAssumption
    <3>4. ASSUME NEW j \in 1..(k - 1)  PROVE token[j] = PL!High(prefix)[j]
      <4>1. j \in 1..k /\ j < k BY <2>3
      <4> QED BY <2>2, <3>1, <4>1
    <3> QED BY <2>3, <3>3, <3>4 DEF PL!Before
  <2> QED BY <1>2, <2>3, <2>5, <2>6 DEF PL!InRange
<1> QED BY <1>3, <1>4

-----------------------------------------------------------------------------
(* Nothing a request or the list holds is newer than the row, unless that  *)
(* is gone; what the run has read is no older than the list.               *)
NotNewer(l) == \A p \in Pages : pages[p] = 0 \/ l[p] <= pages[p]

ListInv ==
    /\ PL!TypeOK
    /\ NotNewer(list) /\ \A r \in Requests : NotNewer(asked[r].rows)
    /\ run.pc = "reading" =>
           \A p \in Pages : run.read[p] > 0 => list[p] > 0 /\ list[p] <= run.read[p]
    /\ PL!CardsKeepUp

ListRuns == [pc : {"none", "reading", "done", "failed"}, read : PL!Lists]
Asks == [pc : {"idle", "typed", "sent", "answered"}, kind : {"boot", "all", "title"}, rows : PL!Lists]

(* The types of the empty listing and of the runs that hold it.            *)
LEMMA NothingListed ==
  /\ PL!Nothing \in PL!Lists /\ \A p \in Pages : PL!Nothing[p] = 0
  /\ PL!NoRun \in ListRuns /\ PL!NoRun.pc = "none" /\ PL!Idle \in Asks
     /\ PL!Idle.rows = PL!Nothing
  /\ \A l : PL!Restarted(l) \in ListRuns /\ PL!Restarted(l).pc \in {"none", "reading"}
            /\ PL!Restarted(l).read = PL!Nothing
<1>1. PL!Nothing \in PL!Lists /\ \A p \in Pages : PL!Nothing[p] = 0
  BY ListAssumption DEF PL!Nothing, PL!Lists, PL!Versions
<1> QED BY <1>1 DEF PL!NoRun, PL!Idle, ListRuns, Asks, PL!Restarted

(* An empty listing is not newer than the pages.                           *)
LEMMA NothingIsNotNewer ==
  ASSUME PL!TypeOK  PROVE NotNewer(PL!Nothing)
<1>1. \A p \in Pages : PL!Nothing[p] = 0 /\ pages[p] \in 0..ListMaxVersion
  BY NothingListed DEF PL!TypeOK, PL!Lists, PL!Versions
<1>2. ASSUME NEW p \in Pages  PROVE PL!Nothing[p] <= pages[p]
  <2>1. PL!Nothing[p] = 0 /\ pages[p] \in 0..ListMaxVersion BY <1>1
  <2> QED BY <2>1, ListAssumption
<1> QED BY <1>2 DEF NotNewer

(* An answer lists pages at their versions.                                *)
LEMMA AnswerType ==
  ASSUME PL!TypeOK, NEW sort
  PROVE  PL!Answer(sort) \in PL!Lists /\ NotNewer(PL!Answer(sort))
<1>1. \A p \in Pages : PL!Answer(sort)[p] \in {0, pages[p]} /\ pages[p] \in PL!Versions
      /\ 0 \in PL!Versions
  BY ListAssumption DEF PL!Answer, PL!TypeOK, PL!Lists, PL!Versions
<1> QED BY <1>1, ListAssumption DEF PL!Answer, NotNewer, PL!Lists, PL!Versions

(* The requests move, and a new list may start the run anew.               *)
LEMMA RequestsMove ==
  ASSUME ListInv, pages' = pages, view' \in {"booting", "list", "error"},
         cards' \in {cards, PL!Nothing},
         asked' \in [Requests -> Asks], \A r \in Requests : NotNewer(asked'[r].rows),
         \/ UNCHANGED <<list, run, cards>>
         \/ /\ list' \in PL!Lists /\ NotNewer(list')
            /\ run' \in ListRuns /\ run'.pc \in {"none", "reading"} /\ run'.read = PL!Nothing
  PROVE  ListInv'
<1>1. PL!TypeOK'
  BY NothingListed DEF ListInv, PL!TypeOK, ListRuns, Asks
<1>2. NotNewer(list)' /\ \A r \in Requests : NotNewer(asked[r].rows)'
  BY DEF ListInv, NotNewer
<1>3. ASSUME run'.pc = "reading", NEW p \in Pages, run'.read[p] > 0
      PROVE  list'[p] > 0 /\ list'[p] <= run'.read[p]
  BY <1>3, NothingListed DEF ListInv
<1>4. PL!CardsKeepUp'
  BY DEF ListInv, PL!CardsKeepUp
<1> QED BY <1>1, <1>2, <1>3, <1>4 DEF ListInv

(* Typing, timers and requests.                                            *)
LEMMA RequestSteps ==
  ASSUME ListInv,
         \/ PL!Boot \/ PL!Type
         \/ \E r \in Requests : PL!TimerFires(r) \/ PL!Serve(r) \/ PL!Listed(r) \/ PL!Failed(r)
  PROVE  ListInv'
<1>1. /\ PL!TypeOK /\ pages' = pages /\ asked \in [Requests -> Asks] /\ list \in PL!Lists
      /\ view \in {"booting", "list", "error"}
      /\ NotNewer(list) /\ NotNewer(PL!Nothing)
      /\ \A r \in Requests : asked[r] \in Asks /\ NotNewer(asked[r].rows)
  BY NothingIsNotNewer
     DEF ListInv, PL!TypeOK, Asks, PL!Boot, PL!Type, PL!TimerFires, PL!Serve,
        PL!Listed, PL!SetList, PL!Failed
<1>2. ASSUME NEW a \in Asks, NotNewer(a.rows), NEW r \in Requests,
             NEW kept \in [Requests -> Asks], \A s \in Requests : NotNewer(kept[s].rows),
             asked' = [kept EXCEPT ![r] = a]
      PROVE  asked' \in [Requests -> Asks] /\ \A s \in Requests : NotNewer(asked'[s].rows)
  BY <1>2
<1>3. CASE PL!Boot
  <2> DEFINE kept == [r \in Requests |-> IF asked[r].kind = "boot" THEN PL!Idle ELSE asked[r]]
             a == [pc |-> "sent", kind |-> "boot", rows |-> PL!Nothing]
  <2>1. PICK r \in Requests : asked' = [kept EXCEPT ![r] = a]
    BY <1>3 DEF PL!Boot
  <2>2. kept \in [Requests -> Asks] /\ \A s \in Requests : NotNewer(kept[s].rows)
    BY <1>1, NothingListed
  <2>3. a \in Asks /\ a.rows = PL!Nothing
    BY NothingListed DEF Asks
  <2>4. asked' \in [Requests -> Asks] /\ \A s \in Requests : NotNewer(asked'[s].rows)
    <3> HIDE DEF kept, a
    <3> QED BY <1>1, <1>2, <2>1, <2>2, <2>3
  <2>5. run' \in ListRuns /\ run'.pc \in {"none", "reading"} /\ run'.read = PL!Nothing
        /\ UNCHANGED <<list, cards, view>>
    BY <1>3, NothingListed DEF PL!Boot
  <2> QED BY <1>1, <2>4, <2>5, RequestsMove
<1>4. CASE PL!Type
  <2> DEFINE kept == [r \in Requests |-> IF asked[r].pc = "typed" THEN PL!Idle ELSE asked[r]]
  <2>1. PICK r \in Requests, sort \in {"all", "title"} :
           asked' = [kept EXCEPT ![r] = [pc |-> "typed", kind |-> sort, rows |-> PL!Nothing]]
    BY <1>4 DEF PL!Type
  <2>2. kept \in [Requests -> Asks] /\ \A s \in Requests : NotNewer(kept[s].rows)
    BY <1>1, NothingListed
  <2>3. [pc |-> "typed", kind |-> sort, rows |-> PL!Nothing] \in Asks
    BY NothingListed DEF Asks
  <2>4. asked' \in [Requests -> Asks] /\ \A s \in Requests : NotNewer(asked'[s].rows)
    <3> HIDE DEF kept
    <3> QED BY <1>1, <1>2, <2>1, <2>2, <2>3
  <2> QED BY <1>1, <1>4, <2>4, RequestsMove DEF PL!Type
<1>5. ASSUME NEW r \in Requests, PL!TimerFires(r)  PROVE ListInv'
  <2> DEFINE a == [asked[r] EXCEPT !.pc = "sent"]
  <2>1. a \in Asks /\ a.rows = asked[r].rows /\ asked' = [asked EXCEPT ![r] = a]
    BY <1>1, <1>5 DEF PL!TimerFires, Asks
  <2>2. asked' \in [Requests -> Asks] /\ \A s \in Requests : NotNewer(asked'[s].rows)
    <3> HIDE DEF a
    <3> QED BY <1>1, <1>2, <2>1
  <2> QED BY <1>1, <1>5, <2>2, RequestsMove DEF PL!TimerFires
<1>6. ASSUME NEW r \in Requests, PL!Serve(r)  PROVE ListInv'
  <2> DEFINE a == [pc |-> "answered", kind |-> IF asked[r].kind = "boot" THEN "boot" ELSE "all",
                   rows |-> PL!Answer(asked[r].kind)]
  <2>1. asked' = [asked EXCEPT ![r] = a]
    BY <1>1, <1>6 DEF PL!Serve
  <2>2. a \in Asks /\ NotNewer(a.rows)
    BY <1>1, AnswerType DEF Asks
  <2>3. asked' \in [Requests -> Asks] /\ \A s \in Requests : NotNewer(asked'[s].rows)
    <3> HIDE DEF a
    <3> QED BY <1>1, <1>2, <2>1, <2>2
  <2> QED BY <1>1, <1>6, <2>3, RequestsMove DEF PL!Serve
<1>7. ASSUME NEW r \in Requests, PL!Listed(r)  PROVE ListInv'
  <2>1. asked' \in [Requests -> Asks] /\ \A s \in Requests : NotNewer(asked'[s].rows)
    BY <1>1, <1>2, <1>7, NothingListed DEF PL!Listed
  <2>2. list' \in PL!Lists /\ NotNewer(list') /\ cards' = cards /\ view' = "list"
        /\ run' \in ListRuns /\ run'.pc \in {"none", "reading"} /\ run'.read = PL!Nothing
    BY <1>1, <1>7, NothingListed DEF PL!Listed, PL!SetList, Asks
  <2> QED BY <1>1, <2>1, <2>2, RequestsMove
<1>8. ASSUME NEW r \in Requests, PL!Failed(r)  PROVE ListInv'
  <2>1. asked' \in [Requests -> Asks] /\ \A s \in Requests : NotNewer(asked'[s].rows)
    BY <1>1, <1>8, NothingListed DEF PL!Failed
  <2>2. list' = PL!Nothing /\ cards' = PL!Nothing /\ view' = "error" /\ run' = PL!NoRun
    BY <1>8 DEF PL!Failed
  <2> QED BY <1>1, <2>1, <2>2, NothingListed, RequestsMove DEF PL!NoRun
<1> QED BY <1>3, <1>4, <1>5, <1>6, <1>7, <1>8

(* The run that decrypts a listing, one page at a time.                    *)
LEMMA RunSteps ==
  ASSUME ListInv, PL!RunFails \/ PL!Decrypted \/ \E p \in Pages : PL!ReadPage(p)
  PROVE  ListInv'
<1>1. /\ UNCHANGED <<pages, list, asked, view>> /\ PL!TypeOK /\ run \in ListRuns
         /\ run.pc = "reading"
      /\ \A p \in Pages : run.read[p] > 0 => list[p] > 0 /\ list[p] <= run.read[p]
      /\ list \in [Pages -> PL!Versions] /\ run.read \in [Pages -> PL!Versions]
      /\ pages \in [Pages -> PL!Versions]
      /\ NotNewer(list)' /\ \A r \in Requests : NotNewer(asked[r].rows)'
  BY
  DEF ListInv, PL!TypeOK, ListRuns, PL!Lists, PL!RunFails, PL!Decrypted,
      PL!ReadPage, NotNewer
<1>2. ASSUME cards' = cards, run' = [run EXCEPT !.pc = "failed"]  PROVE ListInv'
  <2>1. run' \in ListRuns /\ run'.pc = "failed"
    BY <1>1, <1>2 DEF ListRuns
  <2> QED BY <1>1, <1>2, <2>1 DEF ListInv, PL!TypeOK, ListRuns, PL!CardsKeepUp
<1>3. CASE PL!Decrypted
  <2>1. run' \in ListRuns /\ run'.pc = "done" /\ cards' = run.read
    BY <1>3, NothingListed DEF PL!Decrypted, ListRuns
  <2>2. PL!CardsKeepUp'
    <3>1. ASSUME NEW p \in Pages
          PROVE  (list[p] > 0 <=> run.read[p] > 0) /\ list[p] <= run.read[p]
      <4>1. list[p] \in Nat /\ run.read[p] \in Nat
        BY <1>1, ListAssumption DEF PL!Versions
      <4> QED BY <1>1, <1>3, <4>1 DEF PL!Decrypted
    <3> QED BY <1>1, <2>1, <3>1 DEF PL!CardsKeepUp
  <2> QED BY <1>1, <2>1, <2>2 DEF ListInv, PL!TypeOK, ListRuns, PL!Lists
<1>4. ASSUME NEW p \in Pages, PL!ReadPage(p), pages[p] # 0  PROVE ListInv'
  <2> DEFINE read == [run.read EXCEPT ![p] = pages[p]]
  <2>1. run' = [run EXCEPT !.read = read] /\ cards' = cards /\ list[p] > 0
    BY <1>1, <1>4 DEF PL!ReadPage
  <2>2. read \in [Pages -> PL!Versions]
    BY <1>1
  <2>3. run' \in ListRuns /\ run'.pc = "reading" /\ run'.read = read
    <3> HIDE DEF read
    <3> QED BY <1>1, <2>1, <2>2 DEF ListRuns, PL!Lists
  <2>4. ASSUME NEW d \in Pages, read[d] > 0  PROVE list[d] > 0 /\ list[d] <= read[d]
    BY <1>1, <1>4, <2>1, <2>4 DEF ListInv, NotNewer
  <2> QED BY <1>1, <2>1, <2>3, <2>4 DEF ListInv, PL!TypeOK, ListRuns, PL!CardsKeepUp
<1> QED BY <1>1, <1>2, <1>3, <1>4 DEF PL!RunFails, PL!ReadPage

(* Creation, update and deletion of pages behind the list.                 *)
LEMMA PageSteps ==
  ASSUME ListInv, NEW p \in Pages, PL!Saved(p) \/ PL!Deleted(p)
  PROVE  ListInv'
<1>1. UNCHANGED <<list, cards, run, asked, view>> /\ PL!TypeOK /\ pages[p] \in PL!Versions
  BY DEF ListInv, PL!TypeOK, PL!Lists, PL!Saved, PL!Deleted
<1>2. PICK v \in PL!Versions : pages' = [pages EXCEPT ![p] = v]
                                /\ (v = 0 \/ (pages[p] > 0 /\ v > pages[p]))
  <2>1. CASE PL!Saved(p)
    <3>1. pages' = [pages EXCEPT ![p] = pages[p] + 1] /\ pages[p] \in 1..(ListMaxVersion - 1)
      BY <1>1, <2>1 DEF PL!Saved, PL!TypeOK, PL!Lists
    <3>2. pages[p] + 1 \in PL!Versions /\ pages[p] > 0 /\ pages[p] + 1 > pages[p]
      BY <3>1, ListAssumption DEF PL!Versions
    <3> QED BY <3>1, <3>2
  <2>2. CASE PL!Deleted(p)
    <3>1. 0 \in PL!Versions BY ListAssumption DEF PL!Versions
    <3>2. pages' = [pages EXCEPT ![p] = 0] BY <2>2 DEF PL!Deleted
    <3> QED BY <3>1, <3>2
  <2> QED BY <2>1, <2>2
<1>3. /\ pages' \in PL!Lists
      /\ \A d \in Pages : pages'[d] = IF d = p THEN v ELSE pages[d]
  BY <1>1, <1>2 DEF PL!TypeOK, PL!Lists
<1>4. ASSUME NEW l \in PL!Lists, NotNewer(l)
      PROVE  \A d \in Pages : pages'[d] = 0 \/ l[d] <= pages'[d]
  <2>1. \A d \in Pages : l[d] \in Int BY ListAssumption DEF PL!Lists, PL!Versions
  <2> QED BY <1>1, <1>2, <1>3, <1>4, <2>1 DEF NotNewer, PL!Versions
<1>5. NotNewer(list)' /\ \A r \in Requests : NotNewer(asked[r].rows)'
  <2>1. list \in PL!Lists /\ \A r \in Requests : asked[r].rows \in PL!Lists
    BY <1>1 DEF PL!TypeOK
  <2> QED BY <1>1, <1>4, <2>1 DEF ListInv, NotNewer
<1> QED BY <1>1, <1>3, <1>5 DEF ListInv, PL!TypeOK, PL!CardsKeepUp

(* The list starts with nothing listed.                                    *)
LEMMA ListInitInv == PL!Init => ListInv
<1> SUFFICES ASSUME PL!Init  PROVE ListInv
  OBVIOUS
<1>1. pages \in PL!Lists
  BY ListAssumption DEF PL!Init, PL!Lists, PL!Versions
<1>2. PL!TypeOK
  BY <1>1, NothingListed DEF PL!Init, PL!TypeOK, ListRuns, Asks
<1> QED BY <1>2, NothingListed, NothingIsNotNewer
DEF PL!Init, ListInv, PL!CardsKeepUp

(* Every step of PageList keeps ListInv.                                   *)
LEMMA ListNextInv == ListInv /\ [PL!Next]_(PL!listVars) => ListInv'
<1> SUFFICES ASSUME ListInv, [PL!Next]_(PL!listVars)  PROVE ListInv'
  OBVIOUS
<1>1. CASE UNCHANGED PL!listVars
  BY <1>1 DEF PL!listVars, ListInv, PL!TypeOK, NotNewer, PL!CardsKeepUp
<1>2. CASE PL!Next
  BY <1>2, RequestSteps, RunSteps, PageSteps DEF PL!Next
<1> QED BY <1>1, <1>2

(* A request for a title that becomes an answer has been served.           *)
LEMMA TitlesAreFound ==
  ASSUME ListInv, [PL!Next]_(PL!listVars), NEW r \in Requests, NEW p \in Pages,
         asked[r].pc = "sent", asked[r].kind = "title", asked'[r].pc = "answered"
  PROVE  asked'[r].rows[p] > 0 <=> /\ pages[p] > 0
                                   /\ \A i \in DOMAIN Sought : Token[p][i] = Sought[i]
                                   /\ \E i \in 1..Width : Token[p][i] < MaxByte
<1>1. asked \in [Requests -> Asks]
  BY DEF ListInv, PL!TypeOK, Asks
<1>2. PL!Serve(r)
  <2>1. ~ PL!Boot /\ ~ PL!Type
    BY <1>1 DEF PL!Boot, PL!Type, PL!Idle
  <2>2. ASSUME NEW s \in Requests, PL!TimerFires(s) \/ PL!Listed(s) \/ PL!Failed(s)  PROVE FALSE
    BY <1>1, <2>2 DEF PL!TimerFires, PL!Listed, PL!Failed, PL!Idle
  <2>3. ASSUME NEW s \in Requests, PL!Serve(s)  PROVE s = r
    BY <1>1, <2>3 DEF PL!Serve
  <2>4. asked' # asked
    BY <1>1
  <2> QED BY <2>1, <2>2, <2>3, <2>4
  DEF PL!Next, PL!listVars, PL!RunFails, PL!Decrypted, PL!ReadPage, PL!Saved,
      PL!Deleted
<1>3. asked'[r].rows = PL!Answer("title")
  BY <1>1, <1>2 DEF PL!Serve
<1>4. PL!Answer("title")[p] = IF p \in PL!Found THEN pages[p] ELSE 0
  BY DEF PL!Answer
<1>5. p \in PL!Found <=> Matches(Sought, Token[p]) /\ \E i \in 1..Width : Token[p][i] < MaxByte
  BY ListAssumption, RangeOfAPrefix DEF PL!Found, Byte
<1> QED BY <1>3, <1>4, <1>5 DEF Matches

-----------------------------------------------------------------------------
(* Generator.                                                              *)

(* A number drawn for a sequence is an index of it, counted from 0.        *)
LEMMA DrawnIndex ==
  ASSUME NEW T, NEW s \in Seq(T), s # <<>>, NEW range \in Nat, NEW k \in GE!Random(Len(s), range)
  PROVE  k + 1 \in DOMAIN s /\ s[k + 1] \in T
<1>1. Len(s) \in Nat /\ Len(s) > 0
  OBVIOUS
<1>2. PICK v \in 0..(range - 1) : k = v % Len(s)
  BY DEF GE!Random
<1>3. v \in Int /\ k \in 0..(Len(s) - 1)
  BY <1>1, <1>2
<1> QED BY <1>1, <1>3

(* A random number below m is below m.                                     *)
LEMMA DrawnNumber ==
  ASSUME NEW m \in Nat, m > 0, NEW range \in Nat, NEW k \in GE!Random(m, range)
  PROVE  k \in 0..(m - 1)
<1>1. PICK v \in 0..(range - 1) : k = v % m
  BY DEF GE!Random
<1> QED BY <1>1

Drawn(s) == {s[n] : n \in DOMAIN s}

(* A swap moves two elements of a sequence and loses none.                 *)
LEMMA SwapKeepsAll ==
  ASSUME NEW T, NEW s \in Seq(T), NEW i \in 1..Len(s), NEW j \in 1..Len(s)
  PROVE  /\ GE!Swapped(s, i, j) \in Seq(T) /\ Len(GE!Swapped(s, i, j)) = Len(s)
         /\ Drawn(GE!Swapped(s, i, j)) = Drawn(s)
<1> DEFINE w == GE!Swapped(s, i, j)
<1>1. /\ w \in Seq(T) /\ Len(w) = Len(s) /\ DOMAIN w = 1..Len(s) /\ DOMAIN s = 1..Len(s)
      /\ \A n \in 1..Len(s) : w[n] = IF n = j THEN s[i] ELSE IF n = i THEN s[j] ELSE s[n]
  BY DEF GE!Swapped
<1>2. \A n \in 1..Len(s) : \E k \in 1..Len(s) : w[k] = s[n]
  BY <1>1
<1>3. \A n \in 1..Len(s) : \E k \in 1..Len(s) : s[k] = w[n]
  BY <1>1
<1>4. {w[n] : n \in 1..Len(s)} = {s[n] : n \in 1..Len(s)}
  <2> HIDE DEF w
  <2>1. ASSUME NEW n \in 1..Len(s)  PROVE w[n] \in {s[k] : k \in 1..Len(s)}
    BY <1>3
  <2>2. ASSUME NEW n \in 1..Len(s)  PROVE s[n] \in {w[k] : k \in 1..Len(s)}
    BY <1>2
  <2> QED BY <2>1, <2>2
<1>5. w \in Seq(T) /\ Len(w) = Len(s) /\ Drawn(w) = Drawn(s)
  <2> HIDE DEF w
  <2> QED BY <1>1, <1>4 DEF Drawn
<1> QED BY <1>5

(* The rank of a class is less than the number of classes.                 *)
LEMMA CountBelow ==
  ASSUME NEW S \in SUBSET GE!Classes
  PROVE  /\ IsFiniteSet(S) /\ GE!Cardinality(S) \in Nat /\ GE!Cardinality(S) <= MinLength
         /\ \A c \in S : LET B == {d \in S : d < c} IN
               GE!Cardinality(B) \in Nat /\ GE!Cardinality(B) < GE!Cardinality(S)
<1>1. GE!Classes = 1..Len(Charsets) /\ Len(Charsets) \in Nat
  BY GeneratorAssumption DEF GE!Classes
<1>2. IsFiniteSet(GE!Classes) /\ Cardinality(GE!Classes) = Len(Charsets)
  <2>1. /\ IsFiniteSet(1..Len(Charsets))
        /\ Cardinality(1..Len(Charsets))
             = IF 1 > Len(Charsets) THEN 0 ELSE (Len(Charsets) - 1) + 1
    BY <1>1, FS_Interval
  <2> QED BY <1>1, <2>1
<1>3. IsFiniteSet(S) /\ Cardinality(S) \in Nat /\ Cardinality(S) <= MinLength
  <2>1. IsFiniteSet(S) /\ Cardinality(S) <= Len(Charsets)
    BY <1>2, FS_Subset
  <2>2. Cardinality(S) \in Nat
    BY <2>1, FS_CardinalityType
  <2> QED BY <1>1, <2>1, <2>2, GeneratorAssumption
<1>4. ASSUME NEW c \in S
      PROVE  LET B == {d \in S : d < c} IN Cardinality(B) \in Nat
             /\ Cardinality(B) < Cardinality(S)
  <2> DEFINE B == {d \in S : d < c}
  <2>1. c \notin B /\ B \in SUBSET S
    <3>1. c \in Int BY <1>1
    <3> QED BY <3>1
  <2> HIDE DEF B
  <2>2. Cardinality(B) \in Nat /\ Cardinality(B) <= Cardinality(S)
        /\ (Cardinality(S) = Cardinality(B) => S = B)
    BY <1>3, <2>1, FS_Subset, FS_CardinalityType
  <2>3. Cardinality(B) < Cardinality(S)
    BY <1>3, <2>1, <2>2
  <2> QED BY <2>2, <2>3 DEF B
<1> QED BY <1>3, <1>4, SameCardinality

(* The classes of the dialog are finitely many, at most MinLength.         *)
LEMMA FiniteClasses ==
  ASSUME dialog \in GE!Dialog
  PROVE  /\ IsFiniteSet(dialog.classes) /\ GE!Cardinality(dialog.classes) \in Nat
         /\ GE!Cardinality(dialog.classes) <= MinLength
         /\ dialog.classes \subseteq GE!Classes
         /\ \A c \in dialog.classes : GE!Rank(c) \in Nat
            /\ GE!Rank(c) < GE!Cardinality(dialog.classes)
<1>1. dialog.classes \in SUBSET GE!Classes
  BY DEF GE!Dialog
<1> QED BY <1>1, CountBelow DEF GE!Rank

(* Two classes never share a place in the order.                           *)
LEMMA RankInjective ==
  ASSUME dialog \in GE!Dialog, NEW c \in dialog.classes, NEW d \in dialog.classes,
         GE!Rank(c) = GE!Rank(d)
  PROVE  c = d
<1>1. c \in Int /\ d \in Int
  BY FiniteClasses, GeneratorAssumption DEF GE!Classes
<1>2. ASSUME NEW a \in dialog.classes, NEW b \in dialog.classes, a \in Int, b \in Int, a < b
      PROVE  GE!Rank(a) # GE!Rank(b)
  <2> DEFINE A == {e \in dialog.classes : e < a}
             B == {e \in dialog.classes : e < b}
  <2>1. A \in SUBSET B /\ a \in B /\ a \notin A
    <3>1. \A e \in dialog.classes : e \in Int BY FiniteClasses, GeneratorAssumption DEF GE!Classes
    <3> QED BY <1>2, <3>1
  <2>2. IsFiniteSet(B)
    <3>1. B \in SUBSET dialog.classes OBVIOUS
    <3> QED BY <3>1, FiniteClasses, FS_Subset
  <2>3. Cardinality(A) # Cardinality(B)
    <3> HIDE DEF A, B
    <3> QED BY <2>1, <2>2, FS_Subset
  <2> QED BY <2>3, SameCardinality DEF GE!Rank
<1> QED BY <1>1, <1>2

-----------------------------------------------------------------------------
Chosen   == UNION {GE!Letters(c) : c \in dialog.classes}
GenRuns     == [pc : {"letters", "fill", "shuffle", "words", "done", "error"},
             out : Seq(GE!Tokens), i : 0..MaxLength]

(* Appending a token adds it to what was drawn.                            *)
LEMMA DrawnAppended ==
  ASSUME NEW s \in Seq(GE!Tokens), NEW x \in GE!Tokens
  PROVE  /\ Append(s, x) \in Seq(GE!Tokens) /\ Len(Append(s, x)) = Len(s) + 1
         /\ Drawn(Append(s, x)) = Drawn(s) \cup {x}
<1> DEFINE w == Append(s, x)
<1>1. /\ w \in Seq(GE!Tokens) /\ Len(w) = Len(s) + 1 /\ Len(s) \in Nat
      /\ DOMAIN w = 1..(Len(s) + 1) /\ DOMAIN s = 1..Len(s)
      /\ w[Len(s) + 1] = x /\ \A n \in 1..Len(s) : w[n] = s[n]
  OBVIOUS
<1>2. \A n \in 1..(Len(s) + 1) : n = Len(s) + 1 \/ n \in 1..Len(s)
  BY <1>1
<1> HIDE DEF w
<1> QED BY <1>1, <1>2 DEF w, Drawn

(* How far the run has come.  Only the letters of the classes chosen are   *)
(* drawn, and of each class whose turn has come there is one.              *)
GenProgress ==
    /\ gen.pc \in {"letters", "fill", "shuffle"} =>
           dialog.tab = "password" /\ Drawn(gen.out) \subseteq Chosen
    /\ gen.pc = "letters" =>
           /\ Len(gen.out) = gen.i /\ gen.i <= GE!Cardinality(dialog.classes)
           /\ \A c \in dialog.classes : GE!Rank(c) < gen.i
              => GE!Letters(c) \cap Drawn(gen.out) # {}
    /\ gen.pc \in {"fill", "shuffle"} =>
           \A c \in dialog.classes : GE!Letters(c) \cap Drawn(gen.out) # {}
    /\ gen.pc = "fill" => Len(gen.out) <= dialog.length
    /\ gen.pc = "shuffle" => Len(gen.out) = dialog.length /\ gen.i <= Len(gen.out)
    /\ gen.pc = "words" => /\ dialog.tab = "passphrase" /\ Len(gen.out) <= dialog.words
                           /\ Drawn(gen.out) \subseteq GE!WordSet

GenInv == dialog \in GE!Dialog /\ gen \in GenRuns /\ GenProgress /\ GE!EveryClassAppears

(* EveryClassAppears in the words of this module.                          *)
LEMMA ShownIsDrawn ==
  GE!EveryClassAppears
    <=> (dialog.open /\ gen.pc = "done" =>
            IF dialog.tab = "password"
            THEN /\ Len(gen.out) = dialog.length /\ Drawn(gen.out) \subseteq Chosen
                 /\ \A c \in dialog.classes : GE!Letters(c) \cap Drawn(gen.out) # {}
            ELSE Len(gen.out) = dialog.words /\ Drawn(gen.out) \subseteq GE!WordSet)
BY DEF GE!EveryClassAppears, Drawn, Chosen

(* The run moves, and the dialog does not.                                 *)
LEMMA GenTypes ==
  ASSUME GenInv
  PROVE  /\ gen.out \in Seq(GE!Tokens) /\ gen.i \in 0..MaxLength /\ Len(gen.out) \in Nat
         /\ dialog.length \in MinLength..MaxLength /\ dialog.words \in MinWords..MaxWords
         /\ dialog.classes \subseteq GE!Classes
         /\ \A c \in GE!Classes : Charsets[c] \in Seq(GE!Tokens) /\ Charsets[c] # <<>>
                               /\ \A n \in DOMAIN Charsets[c] : Charsets[c][n] \in GE!Letters(c)
BY GeneratorAssumption DEF GenInv, GenRuns, GE!Dialog, GE!Classes, GE!Letters

(* One letter of every chosen class.                                       *)
LEMMA ClassLetterStep ==
  ASSUME GenInv, GE!ClassLetter
  PROVE  GenInv'
<1>1. gen.pc = "letters" /\ dialog' = dialog /\ gen \in GenRuns /\ dialog \in GE!Dialog
      /\ GenProgress
  BY DEF GenInv, GE!ClassLetter
<1>2. CASE gen.i < GE!Cardinality(dialog.classes)
  <2>1. PICK c \in dialog.classes :
           /\ GE!Rank(c) = gen.i
           /\ \E k \in GE!Random(Len(Charsets[c]), Bytes) :
                 gen' = [gen EXCEPT !.out = Append(gen.out, Charsets[c][k + 1]), !.i = gen.i + 1]
    BY <1>1, <1>2 DEF GE!ClassLetter
  <2>a. PICK k \in GE!Random(Len(Charsets[c]), Bytes) :
           gen' = [gen EXCEPT !.out = Append(gen.out, Charsets[c][k + 1]), !.i = gen.i + 1]
    BY <2>1
  <2> DEFINE x == Charsets[c][k + 1]
  <2>2. x \in GE!Tokens /\ x \in GE!Letters(c) /\ x \in Chosen
    <3>1. k + 1 \in DOMAIN Charsets[c] /\ x \in GE!Tokens
      BY GenTypes, GeneratorAssumption, DrawnIndex
    <3> QED BY <3>1, GenTypes DEF Chosen
  <2>3. gen.i + 1 \in 0..MaxLength
    <3>1. gen.i \in Nat /\ GE!Cardinality(dialog.classes) \in Nat
          /\ GE!Cardinality(dialog.classes) <= MinLength
      BY <1>1, GenTypes, FiniteClasses
    <3> QED BY <1>2, <3>1, GeneratorAssumption
  <2>4. /\ gen' \in GenRuns /\ gen'.pc = "letters" /\ gen'.out = Append(gen.out, x)
        /\ gen'.i = gen.i + 1
    <3> HIDE DEF x
    <3> QED BY <1>1, <2>a, <2>2, <2>3, DrawnAppended DEF GenRuns, x
  <2>5. Drawn(gen'.out) = Drawn(gen.out) \cup {x} /\ Len(gen'.out) = Len(gen.out) + 1
    <3> HIDE DEF x
    <3> QED BY <2>2, <2>4, GenTypes, DrawnAppended
  <2>6. ASSUME NEW d \in dialog.classes, GE!Rank(d) < gen.i + 1
        PROVE  GE!Letters(d) \cap Drawn(gen'.out) # {}
    <3>1. CASE GE!Rank(d) < gen.i BY <1>1, <2>5, <3>1 DEF GenProgress
    <3>2. CASE GE!Rank(d) = gen.i
      <4>1. d = c
        BY <1>1, <2>1, <3>2, RankInjective
      <4> QED BY <2>2, <2>5, <4>1
    <3> QED BY <1>1, <2>6, <3>1, <3>2, FiniteClasses, GenTypes
  <2>7. Chosen' = Chosen /\ \A d \in dialog.classes : GE!Rank(d)' = GE!Rank(d)
    BY <1>1 DEF Chosen, GE!Rank
  <2>8. GenProgress'
    <3> HIDE DEF x
    <3> QED BY <1>1, <1>2, <2>2, <2>4, <2>5, <2>6, <2>7, GenTypes, FiniteClasses
    DEF GenProgress
  <2>9. GE!EveryClassAppears'
    BY <2>4 DEF GE!EveryClassAppears
  <2> QED BY <1>1, <2>4, <2>8, <2>9 DEF GenInv
<1>3. CASE ~ (gen.i < GE!Cardinality(dialog.classes))
  <2>1. gen' = [gen EXCEPT !.pc = "fill"]
    BY <1>1, <1>3 DEF GE!ClassLetter
  <2>2. gen' \in GenRuns /\ gen'.pc = "fill" /\ gen'.out = gen.out
    BY <1>1, <2>1 DEF GenRuns
  <2>3. \A c \in dialog.classes : GE!Letters(c) \cap Drawn(gen.out) # {}
    <3>1. gen.i = GE!Cardinality(dialog.classes) /\ gen.i \in Nat
      BY <1>1, <1>3, GenTypes, FiniteClasses DEF GenProgress
    <3> QED BY <1>1, <3>1, FiniteClasses DEF GenProgress
  <2>4. Len(gen.out) <= dialog.length
    BY <1>1, GenTypes, FiniteClasses, GeneratorAssumption DEF GenProgress
  <2>5. GenProgress'
    BY <1>1, <2>2, <2>3, <2>4 DEF GenProgress, Chosen
  <2>6. GE!EveryClassAppears'
    BY <2>2 DEF GE!EveryClassAppears
  <2> QED BY <1>1, <2>2, <2>5, <2>6 DEF GenInv
<1> QED BY <1>2, <1>3

(* The rest of the length.                                                 *)
LEMMA FillStep ==
  ASSUME GenInv, GE!Fill
  PROVE  GenInv'
<1>1. gen.pc = "fill" /\ dialog' = dialog /\ gen \in GenRuns /\ dialog \in GE!Dialog
      /\ GenProgress
  BY DEF GenInv, GE!Fill
<1>2. CASE Len(gen.out) < dialog.length
  <2>1. PICK place \in GE!All :
           gen' = [gen EXCEPT !.out = Append(gen.out, Charsets[place[1]][place[2]])]
    BY <1>1, <1>2 DEF GE!Fill
  <2>b. PICK c \in dialog.classes : \E n \in DOMAIN Charsets[c] : place = <<c, n>>
    BY DEF GE!All
  <2>2. PICK n \in DOMAIN Charsets[c] : place = <<c, n>>
    BY <2>b
  <2> DEFINE x == Charsets[c][n]
  <2>3. x \in GE!Tokens /\ x \in Chosen
    BY GenTypes, <2>2 DEF Chosen
  <2>4. gen' \in GenRuns /\ gen'.pc = "fill" /\ gen'.out = Append(gen.out, x)
    <3>1. gen' = [gen EXCEPT !.out = Append(gen.out, x)] BY <2>1, <2>2
    <3> HIDE DEF x
    <3> QED BY <1>1, <2>3, <3>1, DrawnAppended DEF GenRuns
  <2>5. Drawn(gen'.out) = Drawn(gen.out) \cup {x} /\ Len(gen'.out) = Len(gen.out) + 1
    <3> HIDE DEF x
    <3> QED BY <2>3, <2>4, GenTypes, DrawnAppended
  <2>6. GenProgress'
    <3>1. Chosen' = Chosen BY <1>1 DEF Chosen
    <3> HIDE DEF x
    <3> QED BY <1>1, <1>2, <2>3, <2>4, <2>5, <3>1, GenTypes DEF GenProgress
  <2>7. GE!EveryClassAppears'
    BY <2>4 DEF GE!EveryClassAppears
  <2> QED BY <1>1, <2>4, <2>6, <2>7 DEF GenInv
<1>3. CASE ~ (Len(gen.out) < dialog.length)
  <2>1. gen' = [gen EXCEPT !.pc = "shuffle", !.i = Len(gen.out)]
    BY <1>1, <1>3 DEF GE!Fill
  <2>2. Len(gen.out) = dialog.length /\ Len(gen.out) \in 0..MaxLength
    BY <1>1, <1>3, GenTypes, GeneratorAssumption DEF GenProgress
  <2>3. gen' \in GenRuns /\ gen'.pc = "shuffle" /\ gen'.out = gen.out /\ gen'.i = Len(gen.out)
    BY <1>1, <2>1, <2>2 DEF GenRuns
  <2>4. GenProgress'
    BY <1>1, <2>2, <2>3 DEF GenProgress, Chosen
  <2>5. GE!EveryClassAppears'
    BY <2>3 DEF GE!EveryClassAppears
  <2> QED BY <1>1, <2>3, <2>4, <2>5 DEF GenInv
<1> QED BY <1>2, <1>3

(* The Fisher-Yates shuffle exchanges letters and drops none.              *)
LEMMA ShuffleStep ==
  ASSUME GenInv, GE!Shuffle
  PROVE  GenInv'
<1>1. gen.pc = "shuffle" /\ dialog' = dialog /\ gen \in GenRuns /\ dialog \in GE!Dialog
      /\ GenProgress
  BY DEF GenInv, GE!Shuffle
<1>2. Chosen' = Chosen BY <1>1 DEF Chosen
<1>3. CASE gen.i > 1
  <2>1. PICK j \in GE!Random(gen.i, Bytes) :
           gen' = [gen EXCEPT !.out = GE!Swapped(gen.out, gen.i, j + 1), !.i = gen.i - 1]
    BY <1>1, <1>3 DEF GE!Shuffle
  <2>2. gen.i \in 1..Len(gen.out) /\ j + 1 \in 1..Len(gen.out)
    <3>1. gen.i \in Nat /\ gen.i <= Len(gen.out)
      BY <1>1, GenTypes, GeneratorAssumption DEF GenProgress
    <3>2. j \in 0..(gen.i - 1) BY <1>3, <3>1, DrawnNumber, GeneratorAssumption
    <3> QED BY <1>3, <3>1, <3>2, GenTypes
  <2> DEFINE w == GE!Swapped(gen.out, gen.i, j + 1)
  <2>3. w \in Seq(GE!Tokens) /\ Len(w) = Len(gen.out) /\ Drawn(w) = Drawn(gen.out)
    <3>1. gen.out \in Seq(GE!Tokens) BY GenTypes
    <3> QED BY <2>2, <3>1, SwapKeepsAll
  <2> HIDE DEF w
  <2>4. gen.i - 1 \in 0..MaxLength
    BY <1>3, GenTypes, GeneratorAssumption
  <2>5. gen' \in GenRuns /\ gen'.pc = "shuffle" /\ gen'.out = w /\ gen'.i = gen.i - 1
    BY <1>1, <2>1, <2>3, <2>4 DEF GenRuns, w
  <2>6. GenProgress'
    BY <1>1, <1>2, <2>2, <2>3, <2>5, GenTypes DEF GenProgress
  <2>7. GE!EveryClassAppears'
    BY <2>5 DEF GE!EveryClassAppears
  <2> QED BY <1>1, <2>5, <2>6, <2>7 DEF GenInv
<1>4. CASE ~ (gen.i > 1)
  <2>1. gen' = [gen EXCEPT !.pc = "done"]
    BY <1>1, <1>4 DEF GE!Shuffle
  <2>2. gen' \in GenRuns /\ gen'.pc = "done" /\ gen'.out = gen.out
    BY <1>1, <2>1 DEF GenRuns
  <2>3. GenProgress'
    BY <2>2 DEF GenProgress
  <2>4. GE!EveryClassAppears'
    BY <1>1, <2>2 DEF GenProgress, GE!EveryClassAppears, Drawn, Chosen
  <2> QED BY <1>1, <2>2, <2>3, <2>4 DEF GenInv
<1> QED BY <1>3, <1>4

(* One word of the passphrase.                                             *)
LEMMA DrawWordStep ==
  ASSUME GenInv, GE!DrawWord
  PROVE  GenInv'
<1>1. gen.pc = "words" /\ dialog' = dialog /\ gen \in GenRuns /\ dialog \in GE!Dialog
      /\ GenProgress
  BY DEF GenInv, GE!DrawWord
<1>2. CASE Len(gen.out) < dialog.words
  <2>1. PICK k \in GE!Random(Len(Words), Bytes16) :
           gen' = [gen EXCEPT !.out = Append(gen.out, Words[k + 1])]
    BY <1>1, <1>2 DEF GE!DrawWord
  <2> DEFINE x == Words[k + 1]
  <2>2. x \in GE!Tokens /\ x \in GE!WordSet
    <3>1. k + 1 \in DOMAIN Words /\ x \in GE!Tokens BY GeneratorAssumption, DrawnIndex
    <3> QED BY <3>1 DEF GE!WordSet
  <2> HIDE DEF x
  <2>3. gen' \in GenRuns /\ gen'.pc = "words" /\ gen'.out = Append(gen.out, x)
    BY <1>1, <2>1, <2>2, DrawnAppended DEF GenRuns, x
  <2>4. Drawn(gen'.out) = Drawn(gen.out) \cup {x} /\ Len(gen'.out) = Len(gen.out) + 1
    BY <2>2, <2>3, GenTypes, DrawnAppended
  <2>5. GenProgress'
    BY <1>1, <1>2, <2>2, <2>3, <2>4, GenTypes, GeneratorAssumption DEF GenProgress
  <2>6. GE!EveryClassAppears'
    BY <2>3 DEF GE!EveryClassAppears
  <2> QED BY <1>1, <2>3, <2>5, <2>6 DEF GenInv
<1>3. CASE ~ (Len(gen.out) < dialog.words)
  <2>1. gen' = [gen EXCEPT !.pc = "done"]
    BY <1>1, <1>3 DEF GE!DrawWord
  <2>2. gen' \in GenRuns /\ gen'.pc = "done" /\ gen'.out = gen.out
    BY <1>1, <2>1 DEF GenRuns
  <2>3. GenProgress'
    BY <2>2 DEF GenProgress
  <2>4. Len(gen.out) = dialog.words
    BY <1>1, <1>3, GenTypes, GeneratorAssumption DEF GenProgress
  <2>5. GE!EveryClassAppears'
    BY <1>1, <2>2, <2>4 DEF GenProgress, GE!EveryClassAppears, Drawn
  <2> QED BY <1>1, <2>2, <2>3, <2>5 DEF GenInv
<1> QED BY <1>2, <1>3

(* A new run knows what is asked for and has drawn nothing.                *)
LEMMA GenStarts ==
  ASSUME GenInv, NEW record \in GE!Dialog, GE!Choose(record)
  PROVE  GenInv'
<1>1. dialog' \in GE!Dialog /\ gen' = GE!Started
  BY DEF GE!Choose
<1>2. /\ gen' \in GenRuns /\ gen'.out = <<>> /\ gen'.i = 0
      /\ gen'.pc \in {"letters", "words", "error"}
      /\ gen'.pc = "words" => dialog'.tab = "passphrase"
      /\ gen'.pc = "letters" => dialog'.tab = "password"
  BY <1>1, GeneratorAssumption DEF GE!Started, GenRuns, GE!Dialog
<1>3. Drawn(gen'.out) = {} /\ Len(gen'.out) = 0
  BY <1>2 DEF Drawn
<1>5. /\ dialog'.classes \in SUBSET GE!Classes /\ GE!Cardinality(dialog'.classes) \in Nat
      /\ dialog'.words \in Nat
  <2>1. dialog'.classes \in SUBSET GE!Classes /\ dialog'.words \in MinWords..MaxWords
    BY <1>1 DEF GE!Dialog
  <2> QED BY <2>1, CountBelow, GeneratorAssumption
<1>4. \A c \in dialog'.classes : ~ (GE!Rank(c)' < 0)
  <2>1. ASSUME NEW c \in dialog'.classes  PROVE GE!Rank(c)' \in Nat
    BY <1>5, CountBelow DEF GE!Rank
  <2> QED BY <2>1
<1>6. GenProgress'
  BY <1>2, <1>3, <1>4, <1>5 DEF GenProgress
<1>7. GE!EveryClassAppears'
  BY <1>2 DEF GE!EveryClassAppears
<1> QED BY <1>1, <1>2, <1>6, <1>7 DEF GenInv

(* The dialog's own handlers.                                              *)
LEMMA DialogStep ==
  ASSUME GenInv, GE!Open \/ GE!SetOptions \/ GE!Regenerate \/ GE!Close \/ GE!UseThis
  PROVE  GenInv'
<1>1. dialog \in GE!Dialog
  BY DEF GenInv
<1>2. CASE GE!Open
  <2>1. [dialog EXCEPT !.open = TRUE] \in GE!Dialog BY <1>1 DEF GE!Dialog
  <2> QED BY <1>2, <2>1, GenStarts DEF GE!Open
<1>3. CASE GE!SetOptions
  <2>1. \A b \in {"password", "passphrase"} : [dialog EXCEPT !.tab = b] \in GE!Dialog
    BY <1>1 DEF GE!Dialog
  <2>2. \A n \in MinLength..MaxLength : [dialog EXCEPT !.length = n] \in GE!Dialog
    BY <1>1 DEF GE!Dialog
  <2>3. \A n \in MinWords..MaxWords : [dialog EXCEPT !.words = n] \in GE!Dialog
    BY <1>1 DEF GE!Dialog
  <2>4. ASSUME NEW c \in GE!Classes
        PROVE  [dialog EXCEPT !.classes = (@ \cup {c}) \ (@ \cap {c})] \in GE!Dialog
    <3>1. dialog.classes \in SUBSET GE!Classes BY <1>1 DEF GE!Dialog
    <3>2. (dialog.classes \cup {c}) \ (dialog.classes \cap {c}) \in SUBSET GE!Classes BY <3>1
    <3> QED BY <1>1, <3>2 DEF GE!Dialog
  <2> QED BY <1>3, <2>1, <2>2, <2>3, <2>4, GenStarts DEF GE!SetOptions
<1>4. CASE GE!Regenerate
  BY <1>1, <1>4, GenStarts DEF GE!Regenerate
<1>5. CASE GE!Close \/ GE!UseThis
  <2>1. dialog' = [dialog EXCEPT !.open = FALSE] /\ gen' = gen /\ gen.pc \in {"done", "error"}
    BY <1>5 DEF GE!Close, GE!UseThis, GE!Waiting
  <2>2. dialog' \in GE!Dialog /\ ~ dialog'.open
    BY <1>1, <2>1 DEF GE!Dialog
  <2>3. GenProgress' BY <2>1 DEF GenProgress
  <2>4. GE!EveryClassAppears' BY <2>2 DEF GE!EveryClassAppears
  <2> QED BY <2>1, <2>2, <2>3, <2>4 DEF GenInv
<1> QED BY <1>2, <1>3, <1>4, <1>5

(* The dialog starts closed.                                               *)
LEMMA GenInitInv == GE!Init => GenInv
<1> SUFFICES ASSUME GE!Init  PROVE GenInv
  OBVIOUS
<1>1. dialog \in GE!Dialog
  BY GeneratorAssumption DEF GE!Init, GE!Dialog
<1>2. gen \in GenRuns /\ gen.pc = "done" /\ ~ dialog.open
  BY GeneratorAssumption DEF GE!Init, GenRuns
<1> QED BY <1>1, <1>2 DEF GenInv, GenProgress, GE!EveryClassAppears

(* Every step of Generator keeps GenInv.                                   *)
LEMMA GenNextInv == GenInv /\ [GE!Next]_(GE!genVars) => GenInv'
<1> SUFFICES ASSUME GenInv, [GE!Next]_(GE!genVars)  PROVE GenInv'
  OBVIOUS
<1>1. CASE UNCHANGED GE!genVars
  BY <1>1 DEF GE!genVars, GenInv, GenProgress, GE!EveryClassAppears, Chosen, GE!Rank
<1>2. CASE GE!Next
  BY <1>2, ClassLetterStep, FillStep, ShuffleStep, DrawWordStep, DialogStep
  DEF GE!Next
<1> QED BY <1>1, <1>2

(* GenInv gives the property of the letters.                               *)
LEMMA GenInvImplies == GenInv => GE!TypeOK /\ GE!EveryClassAppears
BY DEF GenInv, GenRuns, GE!TypeOK

-----------------------------------------------------------------------------
(* The composition: whichever part is in focus, the others rest, so a      *)
(* behaviour of Editors is a behaviour of all five.                        *)
LEMMA PartsMove ==
  [EditorsNext]_editorsVars =>
      /\ [Next]_vars /\ [PE!Next]_(PE!vars) /\ [PL!Next]_(PL!listVars)
      /\ [VL!Next]_(VL!vaultVars) /\ [GE!Next]_(GE!genVars)
<1>1. PE!vars = pageVars /\ PL!listVars = listVars /\ VL!vaultVars = vaultVars
      /\ GE!genVars = genVars
  BY
  DEF PE!vars, PL!listVars, VL!vaultVars, GE!genVars, pageVars, listVars, vaultVars,
      genVars
<1>2. /\ UNCHANGED pageVars <=> UNCHANGED PE!vars
      /\ UNCHANGED listVars <=> UNCHANGED PL!listVars
      /\ UNCHANGED vaultVars <=> UNCHANGED VL!vaultVars
      /\ UNCHANGED genVars <=> UNCHANGED GE!genVars
  BY
  DEF PE!vars, PL!listVars, VL!vaultVars, GE!genVars, pageVars, listVars, vaultVars,
      genVars
<1>3. UNCHANGED editorsVars
        => UNCHANGED vars /\ UNCHANGED pageVars /\ UNCHANGED listVars
           /\ UNCHANGED vaultVars /\ UNCHANGED genVars
  BY DEF editorsVars
<1> QED BY <1>2, <1>3 DEF EditorsNext

(* Every part of the composition runs its own specification: a step of one *)
(* is a step or a stutter of each.                                         *)
THEOREM PartsRun ==
  EditorsSpec => Spec /\ PE!Spec /\ PL!Spec /\ VL!Spec /\ GE!Spec
<1>1. EditorsInit => Init /\ PE!Init /\ PL!Init /\ VL!Init /\ GE!Init
  BY DEF EditorsInit
<1> QED BY <1>1, PartsMove, PTL
DEF EditorsSpec, Spec, PE!Spec, PL!Spec, VL!Spec, GE!Spec

(* The inductive invariants hold in every behaviour of their parts.        *)
THEOREM PartsInvariance ==
  EditorsSpec => [](IInv /\ PageInv /\ ListInv /\ VaultInv /\ GenInv)
<1>1. Spec => []IInv BY InitInv, NextInv, PTL DEF Spec
<1>2. PE!Spec => []PageInv BY PageInitInv, PageNextInv, PTL DEF PE!Spec
<1>3. PL!Spec => []ListInv BY ListInitInv, ListNextInv, PTL DEF PL!Spec
<1>4. VL!Spec => []VaultInv BY VaultInitInv, VaultNextInv, PTL DEF VL!Spec
<1>5. GE!Spec => []GenInv BY GenInitInv, GenNextInv, PTL DEF GE!Spec
<1> QED BY <1>1, <1>2, <1>3, <1>4, <1>5, PartsRun, PTL

(* Every variable of the five parts keeps its type.                        *)
THEOREM EditorsTypes == EditorsSpec => []TypesOK
<1>1. IInv /\ PageInv /\ ListInv /\ VaultInv /\ GenInv => TypesOK
  BY PageInvImplies, VaultInvImplies, GenInvImplies DEF IInv, ListInv, TypesOK
<1> QED BY <1>1, PartsInvariance, PTL

(* Of a credential: in every behaviour of Editors no password is lost and  *)
(* every save builds on the row it replaces.                               *)
THEOREM PasswordsStay == EditorsSpec => []PasswordsAreKept /\ SavesBuildOnTheRow
BY PartsRun, NoPasswordIsLost, EverySaveBuildsOnTheRow, PTL

(* Of a page: page_versions holds the last HistoryMax versions before the  *)
(* row's, each as it was written: the snapshot, the update and the trim    *)
(* are one transaction, whatever the visits send and lose.                 *)
THEOREM TheHistoryIsWhole == EditorsSpec => []HistoryIsTheLastVersions
BY PageInvImplies, PartsInvariance, PTL DEF HistoryIsTheLastVersions

(* Whatever a visit holds of a page as version v is what v was written     *)
(* with, its own saves included.                                           *)
THEOREM VersionsNameBodies == EditorsSpec => []CopiesAreTrue
BY PageInvImplies, PartsInvariance, PTL DEF CopiesAreTrue

(* Of the lists: a finished decrypt run has a card for each page listed,   *)
(* none of them older than its entry; and a finished bulk run, its list    *)
(* still the vault, gives a card the number of other credentials with its  *)
(* password.                                                               *)
THEOREM ListsKeepUp == EditorsSpec => []ListsAreTrue
<1>1. ListInv /\ VaultInv => ListsAreTrue
  BY VaultInvImplies DEF ListInv, ListsAreTrue
<1> QED BY <1>1, PartsInvariance, PTL

(* Of the search: the answer lists the pages there are whose token begins  *)
(* with the bytes sent, the highest token excepted.                        *)
THEOREM SearchIsExact == EditorsSpec => SearchFindsTheTitle
<1>1. ListInv /\ [PL!Next]_(PL!listVars)
        => [\A r \in Requests :
               asked[r].pc = "sent" /\ asked[r].kind = "title" /\ asked'[r].pc = "answered" =>
                 \A p \in Pages :
                    asked'[r].rows[p] > 0 <=>
                        /\ pages[p] > 0
                        /\ \A i \in DOMAIN Sought : Token[p][i] = Sought[i]
                        /\ \E i \in 1..Width : Token[p][i] < MaxByte]_(PL!listVars)
  BY TitlesAreFound
<1>2. EditorsSpec => PL!SearchFindsTheTitle
  BY <1>1, PartsMove, PartsInvariance, PTL DEF EditorsSpec, PL!SearchFindsTheTitle
<1> QED BY <1>2 DEF SearchFindsTheTitle

(* Of the generator: a password shown has the length and the classes       *)
(* chosen, with a letter of each; a passphrase the number of words.        *)
THEOREM EveryClassIsThere == EditorsSpec => []EveryClassAppears
BY GenInvImplies, PartsInvariance, PTL DEF EveryClassAppears
=============================================================================
