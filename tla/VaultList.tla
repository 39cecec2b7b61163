----------------------------- MODULE VaultList -----------------------------
(***************************************************************************)
(* The list of a vault's credentials, with the badges that say in how many *)
(* other credentials a password is used.                                   *)
(*                                                                         *)
(* A card decrypts its credential once, when it scrolls into view.  The    *)
(* badges are counted in a map that a bulk run, begun when the browser is  *)
(* idle, fills from all credentials listed.  Cards, the run and the list   *)
(* read the rows at different times.  A shared vault has no bulk run.      *)
(***************************************************************************)
EXTENDS Integers, FiniteSets

CONSTANTS
    Credentials,
    Matching,       \* those whose name or URL matches what the user searches for
    Passwords,
    MaxVersion,     \* bound on the versions of a credential
    None

VARIABLES
    kind,       \* "personal" or "shared"
    rows,       \* the version and password of each row
    listed,     \* the version each credential is listed with (0: not listed)
    query,      \* the search box holds a query
    card,       \* each card's progress and what it shows
    known,      \* credentials some card has reported as decrypted
    bulk,       \* the current bulk run and what it has read
    reuse,      \* what the last finished bulk run has read: the reuse map
    load,       \* a list request is on its way
    screen      \* what the page shows

vaultVars == <<kind, rows, listed, query, card, known, bulk, reuse, load, screen>>

Gone     == MaxVersion + 1
Row      == [version : 0..MaxVersion, password : Passwords \cup {None}]
NoRow    == [version |-> 0, password |-> None]
Unread   == [c \in Credentials |-> NoRow]
Unlisted == [c \in Credentials |-> 0]
Skeleton == [pc |-> "skeleton", view |-> NoRow]
NoRun    == [pc |-> "none", read |-> Unread]

Present(c) == rows[c].version \in 1..MaxVersion
Listing    == [c \in Credentials |-> IF Present(c) THEN rows[c].version ELSE 0]

Init ==
    /\ kind \in {"personal", "shared"}
    /\ rows \in [Credentials -> {NoRow} \cup [version : {1}, password : Passwords]]
    /\ listed = Unlisted /\ query = FALSE
    /\ card = [c \in Credentials |-> Skeleton] /\ known = {}
    /\ bulk = NoRun /\ reuse = Unread
    /\ load = FALSE /\ screen = "booting"

-----------------------------------------------------------------------------
(* The effect that schedules the bulk run: not for an empty list.          *)
Scheduled(l) ==
    IF kind = "personal" /\ l # Unlisted THEN [NoRun EXCEPT !.pc = "scheduled"] ELSE NoRun

(* The page is opened, or its access token is renewed: an earlier request  *)
(* is dropped, and the effect runs again.                                  *)
Boot ==
    /\ screen # "error"
    /\ load' = TRUE
    /\ bulk' = Scheduled(listed)
    /\ UNCHANGED <<kind, rows, listed, query, card, known, reuse, screen>>

(* orderedIds: a search hides the decrypted credentials it does not match; *)
(* a card that is hidden is unmounted, and starts anew when it comes back. *)
Shown(l, q, k) == {c \in Credentials : l[c] > 0 /\ (q => c \notin k \/ c \in Matching)}
Kept(shown)    == [c \in Credentials |-> IF c \in shown THEN card[c] ELSE Skeleton]

(* Mutant: the effect's cleanup does not cancel the run.                   *)
SetList_KeepsRun(l) ==
    /\ listed' = l
    /\ bulk' = IF bulk.pc \in {"none", "done"} THEN Scheduled(l) ELSE bulk

SetList(l) == listed' = l /\ bulk' = Scheduled(l)

(* vault.service getPersonal or getVaultSummary reads the rows, and the    *)
(* page takes the answer.  Rows that change on the way make it as stale as *)
(* rows that change later, and a bulk run under way is dropped with it.    *)
Listed ==
    /\ load
    /\ SetList(Listing)
    /\ card' = Kept(Shown(Listing, query, known))
    /\ load' = FALSE /\ screen' = "list"
    /\ UNCHANGED <<kind, rows, query, known, reuse>>

(* The page is replaced by a message, for good.                            *)
LoadFailed ==
    /\ load
    /\ screen' = "error" /\ load' = FALSE
    /\ listed' = Unlisted /\ bulk' = NoRun /\ reuse' = Unread /\ known' = {} /\ query' = FALSE
    /\ card' = [c \in Credentials |-> Skeleton]
    /\ UNCHANGED <<kind, rows>>

Search ==
    /\ screen = "list" /\ listed # Unlisted
    /\ query' = ~ query
    /\ card' = Kept(Shown(listed, ~ query, known))
    /\ UNCHANGED <<kind, rows, listed, known, bulk, reuse, load, screen>>

-----------------------------------------------------------------------------
(* doDecrypt, once the card has scrolled into view.  It shows what it got  *)
(* and never looks again; its request may as well be sent when it is       *)
(* answered, for nothing can be told from the time in between.             *)
DoDecrypt(c) ==
    /\ c \in Shown(listed, query, known) /\ card[c].pc = "skeleton" /\ Present(c)
    /\ known' = known \cup {c}
    /\ card' = [d \in Credentials |->
                   IF d \notin Shown(listed, query, known') THEN Skeleton
                   ELSE IF d = c THEN [pc |-> "shown", view |-> rows[c]] ELSE card[d]]
    /\ UNCHANGED <<kind, rows, listed, query, bulk, reuse, load, screen>>

(* The row is gone, the key is missing, the request is lost.               *)
DecryptFails(c) ==
    /\ c \in Shown(listed, query, known) /\ card[c].pc = "skeleton"
    /\ card' = [card EXCEPT ![c].pc = "error"]
    /\ UNCHANGED <<kind, rows, listed, query, known, bulk, reuse, load, screen>>

-----------------------------------------------------------------------------
RequestIdleCallback ==
    /\ bulk.pc = "scheduled"
    /\ bulk' = [bulk EXCEPT !.pc = "reading"]
    /\ UNCHANGED <<kind, rows, listed, query, card, known, reuse, load, screen>>

GetCredential(c) ==
    /\ bulk.pc = "reading" /\ listed[c] > 0 /\ bulk.read[c] = NoRow /\ Present(c)
    /\ bulk' = [bulk EXCEPT !.read[c] = rows[c]]
    /\ UNCHANGED <<kind, rows, listed, query, card, known, reuse, load, screen>>

(* buildReuseSet: the passwords are hashed and dropped.                    *)
BuildReuseSet ==
    /\ bulk.pc = "reading" /\ \A c \in Credentials : listed[c] > 0 => bulk.read[c] # NoRow
    /\ reuse' = bulk.read
    /\ bulk' = [NoRun EXCEPT !.pc = "done"]
    /\ UNCHANGED <<kind, rows, listed, query, card, known, load, screen>>

(* A credential is gone, the key is missing, a request is lost: nothing is *)
(* reported, and the map stays what it was.                                *)
RunFails ==
    /\ bulk.pc = "reading"
    /\ bulk' = [NoRun EXCEPT !.pc = "failed"]
    /\ UNCHANGED <<kind, rows, listed, query, card, known, reuse, load, screen>>

-----------------------------------------------------------------------------
(* Another tab, or another member, adds or saves a credential.             *)
Saved(c, p) ==
    /\ rows[c].version < MaxVersion
    /\ rows' = [rows EXCEPT ![c] = [version |-> @.version + 1, password |-> p]]
    /\ UNCHANGED <<kind, listed, query, card, known, bulk, reuse, load, screen>>

Deleted(c) ==
    /\ Present(c)
    /\ rows' = [rows EXCEPT ![c] = [version |-> Gone, password |-> None]]
    /\ UNCHANGED <<kind, listed, query, card, known, bulk, reuse, load, screen>>

Next ==
    \/ Boot \/ Listed \/ LoadFailed \/ Search
    \/ RequestIdleCallback \/ BuildReuseSet \/ RunFails
    \/ \E c \in Credentials :
          \/ DoDecrypt(c) \/ DecryptFails(c)
          \/ GetCredential(c) \/ Deleted(c)
          \/ \E p \in Passwords : Saved(c, p)

Spec == Init /\ [][Next]_vaultVars

-----------------------------------------------------------------------------
TypeOK ==
    /\ kind \in {"personal", "shared"} /\ query \in BOOLEAN
    /\ rows \in [Credentials -> Row \cup {[version |-> Gone, password |-> None]}]
    /\ listed \in [Credentials -> 0..MaxVersion]
    /\ card \in [Credentials -> [pc : {"skeleton", "shown", "error"}, view : Row]]
    /\ known \subseteq Credentials
    /\ bulk \in [pc : {"none", "scheduled", "reading", "done", "failed"},
                 read : [Credentials -> Row]]
    /\ reuse \in [Credentials -> Row]
    /\ load \in BOOLEAN /\ screen \in {"booting", "list", "error"}

(* reuseCountForCred: the ids with the card's password, less the card's    *)
(* own if it is among them.                                                *)
SamePassword(c) == {d \in Credentials : reuse[d].version > 0 /\ reuse[d].password = card[c].view.password}

ReuseCount(c) ==
    Cardinality(SamePassword(c)) - (IF c \in SamePassword(c) THEN 1 ELSE 0)

(* Once the bulk run is done and nothing has changed since the list was    *)
(* read, a card that shows the row has the right badge: it counts the other*)
(* credentials of the vault with that password, all of them and no others, *)
(* although the card, the run and the list each read the rows on their own.*)
BadgesAreRight ==
    bulk.pc = "done" /\ listed = Listing =>
        \A c \in Credentials :
            card[c].pc = "shown" /\ card[c].view = rows[c] =>
                ReuseCount(c) = Cardinality({d \in Credentials \ {c} :
                                    Present(d) /\ rows[d].password = rows[c].password})
=============================================================================
