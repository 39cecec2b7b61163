------------------------------ MODULE PageList ------------------------------
(***************************************************************************)
(* The list of pages: what the server answers, and the view that shows it, *)
(* searches in it and decrypts every page for its card.                    *)
(*                                                                         *)
(* The view has no order among its requests.  A run of the decrypt effect  *)
(* is dropped when a new list is set or the token is renewed; a search is  *)
(* never dropped, so an older answer may replace a newer one.              *)
(***************************************************************************)
EXTENDS Integers, Sequences

CONSTANTS
    Pages,
    Token,          \* the search token of each page's title, a digest of 8 bytes
    Sought,         \* the token of the title the user searches for
    Requests,       \* lists to be asked for, and asked for but not yet arrived
    MaxVersion,     \* bound on the versions of a page
    MaxByte, Width  \* a search token: Width (8) bytes up to MaxByte (255)

VARIABLES
    pages,      \* the version of each row (0: deleted)
    list,       \* the version of each page listed (0: not listed)
    cards,      \* the version of each decrypted card (0: none)
    run,        \* the current run of the decrypt effect and what it has read
    asked,      \* requests for a list; one that is "typed" waits for its timeout
    page        \* what the view shows

listVars == <<pages, list, cards, run, asked, page>>

Versions == 0..MaxVersion
Nothing  == [p \in Pages |-> 0]
Lists    == [Pages -> Versions]

NoRun == [pc |-> "none", read |-> Nothing]
Idle  == [pc |-> "idle", kind |-> "all", rows |-> Nothing]

Init ==
    /\ pages = [p \in Pages |-> 1]
    /\ list = Nothing /\ cards = Nothing /\ run = NoRun
    /\ asked = [r \in Requests |-> Idle]
    /\ page = "booting"

-----------------------------------------------------------------------------
(* prefixRange: the tokens from the prefix filled up with zeros to the     *)
(* prefix plus one; above the highest prefix there is only the highest     *)
(* token.  A digit is a byte.                                              *)
Padded(prefix) == [i \in 1..Width |-> IF i <= Len(prefix) THEN prefix[i] ELSE 0]

(* Mutant: a byte that overflows is reset, and nothing is carried.         *)
High_NoCarry(prefix) ==
    [i \in 1..Width |-> IF i # Len(prefix) THEN Padded(prefix)[i]
                        ELSE (prefix[i] + 1) % (MaxByte + 1)]

High(prefix) ==
    LET room == {i \in DOMAIN prefix : prefix[i] < MaxByte} IN
    IF room = {} THEN [i \in 1..Width |-> MaxByte]
    ELSE LET k == CHOOSE k \in room : \A i \in room : i <= k IN
         [i \in 1..Width |-> IF i < k THEN prefix[i] ELSE IF i = k THEN prefix[k] + 1 ELSE 0]

(* How the database orders bytea values.                                   *)
Before(a, b) == \E i \in 1..Width : a[i] < b[i] /\ \A j \in 1..(i - 1) : a[j] = b[j]

InRange(prefix, token) == ~ Before(token, Padded(prefix)) /\ Before(token, High(prefix))

(* A search sends the whole token of the title typed, so its range is the  *)
(* one token: computeTitleSearchToken shortens a digest of the whole title,*)
(* and a title that only begins with the one typed has another.            *)
Found == {p \in Pages : InRange(Sought, Token[p])}

(* pages.list, with q or without.                                          *)
Answer(kind) == [p \in Pages |-> IF kind = "title" => p \in Found THEN pages[p] ELSE 0]

-----------------------------------------------------------------------------
(* The decrypt effect: a list with no page in it starts no run.            *)
Restarted(l) == IF l = Nothing THEN NoRun ELSE [pc |-> "reading", read |-> Nothing]

(* The load effect: the page is opened, or its access token is renewed.    *)
(* An earlier load is dropped, and the decrypt effect runs again.          *)
Boot ==
    /\ page # "error"
    /\ LET kept == [r \in Requests |-> IF asked[r].kind = "boot" THEN Idle ELSE asked[r]] IN
       \E r \in Requests :
          /\ kept[r].pc = "idle"
          /\ asked' = [kept EXCEPT ![r] = [pc |-> "sent", kind |-> "boot", rows |-> Nothing]]
    /\ run' = Restarted(list)
    /\ UNCHANGED <<pages, list, cards, page>>

(* What the view shows: a message, "Loading", "No pages yet", or the search*)
(* box and the cards.                                                      *)
SearchBox == page = "list" /\ list # Nothing

(* onQueryChange: an empty query and the body search ask for all pages.    *)
(* The timeout of an earlier query is cleared.                             *)
Type ==
    /\ SearchBox
    /\ LET kept == [r \in Requests |-> IF asked[r].pc = "typed" THEN Idle ELSE asked[r]] IN
       \E r \in Requests, kind \in {"all", "title"} :
          /\ kept[r].pc = "idle"
          /\ asked' = [kept EXCEPT ![r] = [pc |-> "typed", kind |-> kind, rows |-> Nothing]]
    /\ UNCHANGED <<pages, list, cards, run, page>>

TimerFires(r) ==
    /\ asked[r].pc = "typed"
    /\ asked' = [asked EXCEPT ![r].pc = "sent"]
    /\ UNCHANGED <<pages, list, cards, run, page>>

Serve(r) ==
    /\ asked[r].pc = "sent"
    /\ asked' = [asked EXCEPT ![r] =
                    [pc |-> "answered", kind |-> IF @.kind = "boot" THEN "boot" ELSE "all",
                     rows |-> Answer(@.kind)]]
    /\ UNCHANGED <<pages, list, cards, run, page>>

SetList(l) == list' = l /\ run' = Restarted(l)

Listed(r) ==
    /\ asked[r].pc = "answered"
    /\ SetList(asked[r].rows)
    /\ asked' = [asked EXCEPT ![r] = Idle]
    /\ page' = "list"
    /\ UNCHANGED <<pages, cards>>

(* A failed request replaces the view by a message, for good.              *)
Failed(r) ==
    /\ asked[r].pc \in {"sent", "answered"}
    /\ page' = "error"
    /\ list' = Nothing /\ cards' = Nothing /\ run' = NoRun
    /\ asked' = [q \in Requests |-> Idle]
    /\ UNCHANGED pages

(* The run gets every listed page; one that is gone fails it, silently.    *)
ReadPage(p) ==
    /\ run.pc = "reading" /\ list[p] > 0 /\ run.read[p] = 0
    /\ run' = IF pages[p] = 0 THEN [run EXCEPT !.pc = "failed"]
              ELSE [run EXCEPT !.read[p] = pages[p]]
    /\ UNCHANGED <<pages, list, cards, asked, page>>

RunFails ==
    /\ run.pc = "reading" /\ run' = [run EXCEPT !.pc = "failed"]
    /\ UNCHANGED <<pages, list, cards, asked, page>>

(* All of them decrypted: the cards are replaced at once.                  *)
Decrypted ==
    /\ run.pc = "reading" /\ \A p \in Pages : list[p] > 0 => run.read[p] > 0
    /\ cards' = run.read
    /\ run' = [pc |-> "done", read |-> Nothing]
    /\ UNCHANGED <<pages, list, asked, page>>

(* Another tab saves a page, or deletes it.                                *)
Saved(p) ==
    /\ pages[p] \in 1..(MaxVersion - 1)
    /\ pages' = [pages EXCEPT ![p] = @ + 1]
    /\ UNCHANGED <<list, cards, run, asked, page>>

Deleted(p) ==
    /\ pages[p] > 0
    /\ pages' = [pages EXCEPT ![p] = 0]
    /\ UNCHANGED <<list, cards, run, asked, page>>

Next ==
    \/ Boot \/ Type \/ RunFails \/ Decrypted
    \/ \E r \in Requests : TimerFires(r) \/ Serve(r) \/ Listed(r) \/ Failed(r)
    \/ \E p \in Pages : ReadPage(p) \/ Saved(p) \/ Deleted(p)

Spec == Init /\ [][Next]_listVars

-----------------------------------------------------------------------------
TypeOK ==
    /\ pages \in Lists /\ list \in Lists /\ cards \in Lists
    /\ run \in [pc : {"none", "reading", "done", "failed"}, read : Lists]
    /\ asked \in [Requests -> [pc : {"idle", "typed", "sent", "answered"},
                               kind : {"boot", "all", "title"}, rows : Lists]]
    /\ page \in {"booting", "list", "error"}

(* Once the decrypt effect is done there is a card for every page listed,  *)
(* none for another, and no card is older than the entry it stands for:    *)
(* pages change and lists overtake each other while a run reads them one   *)
(* by one, but a run that outlives its list or its token is dropped.       *)
CardsKeepUp ==
    run.pc = "done" =>
        \A p \in Pages : /\ list[p] > 0 <=> cards[p] > 0
                         /\ list[p] <= cards[p]

(* A search lists the pages there are whose token begins with the bytes    *)
(* sent, and no others: however far the carry goes, the upper end of the   *)
(* range leaves out the next token.  The one exception is the highest      *)
(* token, which a search for the highest prefix does not find.             *)
SearchFindsTheTitle ==
    [][\A r \in Requests :
          asked[r].pc = "sent" /\ asked[r].kind = "title" /\ asked'[r].pc = "answered" =>
              \A p \in Pages :
                  asked'[r].rows[p] > 0 <=> /\ pages[p] > 0
                                            /\ \A i \in DOMAIN Sought : Token[p][i] = Sought[i]
                                            /\ \E i \in 1..Width : Token[p][i] < MaxByte]_listVars
=============================================================================
