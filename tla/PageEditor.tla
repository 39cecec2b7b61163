----------------------------- MODULE PageEditor -----------------------------
(***************************************************************************)
(* One page, its last versions on the server, and the visits of its edit   *)
(* page.                                                                   *)
(*                                                                         *)
(* The PATCH runs in a transaction that locks the row with its first       *)
(* statement, so from there to its commit it is one step.  A visit keeps a *)
(* baseline and the draft `doc` that a save sends.  Visits do not end: one *)
(* that was left takes no more steps.                                      *)
(***************************************************************************)
EXTENDS Integers, Sequences, FiniteSets

CONSTANTS
    Visits,
    Texts,          \* contents of a page, its title included
    Puts,           \* PATCH requests under way
    MaxVersion,     \* bound on the versions of the row
    HistoryMax,     \* versions the server keeps: 10 in the code
    None

VARIABLES
    row,        \* pages: version and body, or None once it is deleted
    hist,       \* page_versions: earlier versions
    log,        \* auxiliary: log[v] is the body version v was written with
    visit,
    put

vars == <<row, hist, log, visit, put>>

Versions == 1..MaxVersion
Body     == [text : Texts, fav : BOOLEAN]
Blob     == [version : Versions, body : Body]

(* got: the answer the latest run of the load effect has on its way.       *)
(* dialog: the fresh row of the conflict dialog.                           *)
Visit == [got : Blob \cup {None}, error : BOOLEAN, baseline : Blob \cup {None},
          doc : Texts \cup {None}, saving : BOOLEAN, dialog : Blob \cup {None}]
Put   == [pc : {"free", "sent", "stored", "conflict"}, visit : Visits \cup {None},
          kind : {"none", "save", "favourite", "restore"},
          base : Blob \cup {None}, body : Body \cup {None}]

Unopened == [got |-> None, error |-> FALSE, baseline |-> None, doc |-> None,
             saving |-> FALSE, dialog |-> None]
Free     == [pc |-> "free", visit |-> None, kind |-> "none", base |-> None, body |-> None]

(* page/new: version 1, not a favourite.                                   *)
Created(x) == [version |-> 1, body |-> [text |-> x, fav |-> FALSE]]

Init ==
    /\ \E x \in Texts : row = Created(x) /\ log = <<Created(x).body>>
    /\ hist = {}
    /\ visit = [t \in Visits |-> Unopened]
    /\ put = [p \in Puts |-> Free]

Readable    == row # None                                 \* getById, or a 404
Holds(base) == row # None /\ row.version = base.version   \* update's witness
Become(t, record) == visit' = [visit EXCEPT ![t] = record]

-----------------------------------------------------------------------------
(* The load effect reads the row when the page is opened and whenever the  *)
(* access token is renewed; an earlier run's answer is dropped then.       *)
GetById(t) ==
    /\ ~ visit[t].error /\ Readable
    /\ Become(t, [visit[t] EXCEPT !.got = row])
    /\ UNCHANGED <<row, hist, log, put>>

Loaded(t) ==
    LET q == visit[t] IN
    /\ q.got # None
    /\ Become(t, [q EXCEPT !.got = None, !.baseline = q.got,
                           !.doc = q.got.body.text])
    /\ UNCHANGED <<row, hist, log, put>>

(* A 404 or a lost request: bootError replaces the page by a message.      *)
LoadFailed(t) ==
    /\ ~ visit[t].error
    /\ Become(t, [Unopened EXCEPT !.error = TRUE])
    /\ UNCHANGED <<row, hist, log, put>>

Editing(t) == visit[t].baseline # None

Type(t, x) ==
    /\ Editing(t)
    /\ Become(t, [visit[t] EXCEPT !.doc = x])
    /\ UNCHANGED <<row, hist, log, put>>

-----------------------------------------------------------------------------
(* persist: what the three buttons send.  Only Save waits for `saving`.    *)
Persist(t, kind, text, fav) ==
    /\ Editing(t) /\ visit[t].baseline.version < MaxVersion
    /\ \E p \in Puts :
          /\ put[p].pc = "free"
          /\ put' = [put EXCEPT ![p] = [pc |-> "sent", visit |-> t, kind |-> kind,
                                        base |-> visit[t].baseline,
                                        body |-> [text |-> text, fav |-> fav]]]
    /\ Become(t, [visit[t] EXCEPT !.saving = TRUE])
    /\ UNCHANGED <<row, hist, log>>

Save(t) ==
    /\ ~ visit[t].saving
    /\ Persist(t, "save", visit[t].doc, visit[t].baseline.body.fav)

ToggleFavorite(t) ==
    Persist(t, "favourite", visit[t].doc, ~ visit[t].baseline.body.fav)

(* The list of versions is fetched once, whenever the panel is first       *)
(* opened: it may offer any version that page_versions has or had.         *)
Offered == 1..(Len(log) - 1)

RestoreVersion(t) ==
    \E v \in Offered :
        Persist(t, "restore", log[v].text, visit[t].baseline.body.fav)

(* Mutant: the trim keeps the oldest versions.                             *)
Newest_Oldest(h) == {b \in h : b.version <= HistoryMax}

(* The newest HistoryMax of a set of versions.                             *)
Newest(h) == {b \in h : Cardinality({c \in h : c.version > b.version}) < HistoryMax}

(* pages.update: compare the version, snapshot, update, trim.              *)
Patch(p) ==
    LET q == put[p] IN
    /\ q.pc = "sent"
    /\ \/ /\ Holds(q.base)
          /\ row' = [version |-> row.version + 1, body |-> q.body]
          /\ hist' = Newest(hist \cup {row})
          /\ log' = Append(log, q.body)
          /\ put' = [put EXCEPT ![p].pc = "stored"]
          /\ UNCHANGED visit
       \/ /\ Readable /\ ~ Holds(q.base)
          /\ put' = [put EXCEPT ![p].pc = "conflict"]
          /\ UNCHANGED <<row, hist, log, visit>>
       \/ /\ ~ Readable
          /\ put' = [put EXCEPT ![p] = Free]
          /\ Become(q.visit, [visit[q.visit] EXCEPT !.saving = FALSE])
          /\ UNCHANGED <<row, hist, log>>

(* A restore sets the draft once persist returns, after a conflict too.    *)
DraftAfter(q) == IF q.kind = "restore" THEN q.body.text ELSE visit[q.visit].doc

(* An answer for a page that shows bootError changes nothing to be seen.   *)
Answer(p, record) ==
    /\ IF visit[put[p].visit].error THEN UNCHANGED visit
       ELSE Become(put[p].visit, [record EXCEPT !.saving = FALSE])
    /\ put' = [put EXCEPT ![p] = Free]
    /\ UNCHANGED <<row, hist, log>>

(* Mutant: the old body stays in the baseline.                             *)
Saved_VersionOnly(p) ==
    LET q == put[p] IN
    /\ q.pc = "stored"
    /\ Answer(p, [visit[q.visit] EXCEPT
                    !.baseline = [q.base EXCEPT !.version = q.base.version + 1],
                    !.doc = DraftAfter(q)])

Saved(p) ==
    LET q == put[p] IN
    /\ q.pc = "stored"
    /\ Answer(p, [visit[q.visit] EXCEPT
                    !.baseline = [version |-> q.base.version + 1, body |-> q.body],
                    !.doc = DraftAfter(q)])

(* A 409: fetch the fresh row and ask; the baseline stays.                 *)
Conflict(p) ==
    LET q == put[p] IN
    /\ q.pc = "conflict"
    /\ Answer(p, IF ~ Readable THEN visit[q.visit]
                 ELSE [visit[q.visit] EXCEPT !.dialog = row, !.doc = DraftAfter(q)])

(* The request or its answer is lost: an error message.                    *)
PutLost(p) ==
    /\ put[p].pc # "free"
    /\ Answer(p, visit[put[p].visit])

ReloadLatest(t) ==
    LET q == visit[t] IN
    /\ q.dialog # None
    /\ Become(t, [q EXCEPT !.baseline = q.dialog, !.doc = q.dialog.body.text, !.dialog = None])
    /\ UNCHANGED <<row, hist, log, put>>

CancelDialog(t) ==
    /\ visit[t].dialog # None
    /\ Become(t, [visit[t] EXCEPT !.dialog = None])
    /\ UNCHANGED <<row, hist, log, put>>

(* pages.delete; page_versions rows go with it (ON DELETE CASCADE).        *)
Delete(t) ==
    /\ Editing(t)
    /\ row' = None /\ hist' = {}
    /\ UNCHANGED <<log, visit, put>>

Next ==
    \/ \E t \in Visits :
          \/ GetById(t) \/ Loaded(t) \/ LoadFailed(t)
          \/ \E x \in Texts : Type(t, x)
          \/ Save(t) \/ ToggleFavorite(t) \/ RestoreVersion(t)
          \/ ReloadLatest(t) \/ CancelDialog(t) \/ Delete(t)
    \/ \E p \in Puts : Patch(p) \/ Saved(p) \/ Conflict(p) \/ PutLost(p)

Spec == Init /\ [][Next]_vars

-----------------------------------------------------------------------------
TypeOK ==
    /\ row \in Blob \cup {None} /\ hist \subseteq Blob
    /\ log \in UNION {[1..n -> Body] : n \in Versions}
    /\ visit \in [Visits -> Visit]
    /\ put \in [Puts -> Put]

(* page_versions holds the versions just before the current one, each with *)
(* the body it was written with, and none of them twice or missing: the    *)
(* snapshot, the update and the trim are one transaction on a locked row.  *)
HistoryIsTheLastVersions ==
    row # None =>
        /\ row.body = log[row.version]
        /\ hist = {[version |-> v, body |-> log[v]] :
                      v \in {n \in Versions : n < row.version /\ n >= row.version - HistoryMax}}

(* A version number names one body.  Whatever a visit holds as version v   *)
(* (its baseline, an answer on its way, the dialog) is what v was written  *)
(* with; so the favourite flag and the fields a save copies from its       *)
(* baseline are never those of another version.                            *)
CopiesAreTrue ==
    \A t \in Visits : \A b \in {visit[t].got, visit[t].baseline, visit[t].dialog} \ {None} :
        b.version <= Len(log) /\ b.body = log[b.version]

=============================================================================
