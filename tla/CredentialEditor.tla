-------------------------- MODULE CredentialEditor --------------------------
(***************************************************************************)
(* One credential, the API's compare-and-swap on its version, and the tabs *)
(* in which its edit page is open.                                         *)
(*                                                                         *)
(* The server's row holds a password and, inside the encrypted blob, the   *)
(* passwords it had before.  A tab keeps a baseline (the version and body  *)
(* its next save is a change of) and, in CredentialEditor's state, a draft.*)
(* The load effect runs again whenever the access token is renewed: it     *)
(* moves the baseline, never the draft.                                    *)
(***************************************************************************)
EXTENDS Integers, Sequences

CONSTANTS
    Tabs,
    Passwords,
    MaxVersion,     \* bound on the versions of the row
    HistoryMax,     \* passwords a credential remembers: 10 in the code
    None

ASSUME CredentialAssumption ==
    /\ MaxVersion \in Nat \ {0} /\ HistoryMax \in Nat \ {0}
    /\ None \notin Passwords

VARIABLES
    row,        \* credentials: version and body, or None once it is deleted
    stored,     \* auxiliary: every password the row ever held
    tab

vars == <<row, stored, tab>>

Versions == 1..MaxVersion
Body     == [password : Passwords, history : UNION {[1..n -> Passwords] : n \in 0..HistoryMax}]

(* bound: the version in the blob's additional data, as the client chose it.*)
Blob     == [version : Versions, bound : Versions, body : Body]

(* page: what the tab shows.  got: the answer its latest load effect has   *)
(* on its way.  save: the PATCH; base and next are what its closure        *)
(* captured.                                                               *)
Saves == {"none", "sent", "missed", "stored", "conflict", "fetched"}
Tab   == [page : {"closed", "open", "error"}, got : Blob \cup {None},
          baseline : Blob \cup {None}, draft : Passwords \cup {None},
          save : Saves, base : Blob \cup {None}, next : Passwords \cup {None}]

Closed == [page |-> "closed", got |-> None, baseline |-> None, draft |-> None,
           save |-> "none", base |-> None, next |-> None]

(* credential/new: the page encrypts a first body, the API stores it.      *)
Created(p) == [version |-> 1, bound |-> 1, body |-> [password |-> p, history |-> <<>>]]

Init ==
    /\ \E p \in Passwords : row = Created(p) /\ stored = {p}
    /\ tab = [t \in Tabs |-> Closed]

(* A blob opens only under the additional data it was encrypted with, and  *)
(* every reader builds that from the version of the row.                   *)
Decrypts(blob) == blob.bound = blob.version

Put(t, record) == tab' = [tab EXCEPT ![t] = record]
Readable    == row # None                                 \* getById, or a 404
Holds(base) == row # None /\ row.version = base.version   \* update's witness
NoSave(record) == [record EXCEPT !.save = "none", !.base = None, !.next = None]

-----------------------------------------------------------------------------
(* The load effect reads the row when the page is opened and whenever the  *)
(* access token is renewed; an earlier run's answer is dropped then.       *)
GetById(t) ==
    /\ tab[t].page # "error" /\ Readable
    /\ Put(t, [tab[t] EXCEPT !.page = "open", !.got = row])
    /\ UNCHANGED <<row, stored>>

(* The editor is mounted with the first baseline; its draft stays.         *)
Loaded(t) ==
    LET q == tab[t] IN
    /\ q.got # None /\ Decrypts(q.got)
    /\ Put(t, IF q.baseline = None
              THEN [q EXCEPT !.got = None, !.baseline = q.got,
                             !.draft = q.got.body.password]
              ELSE [q EXCEPT !.got = None, !.baseline = q.got])
    /\ UNCHANGED <<row, stored>>

(* A 404, a lost request, a blob that does not open: bootError unmounts the*)
(* editor, draft and all; a save goes on.                                  *)
LoadFailed(t) ==
    /\ tab[t].page = "open"
    /\ Put(t, [tab[t] EXCEPT !.page = "error", !.got = None, !.draft = None])
    /\ UNCHANGED <<row, stored>>

Editing(t) == tab[t].page = "open" /\ tab[t].baseline # None

Type(t, p) ==
    /\ Editing(t)
    /\ Put(t, [tab[t] EXCEPT !.draft = p])
    /\ UNCHANGED <<row, stored>>

(* Cancel, or the browser's back button; the page is thrown away.          *)
Leave(t) ==
    /\ tab[t].page # "closed" /\ tab[t].save = "none"
    /\ Put(t, Closed)
    /\ UNCHANGED <<row, stored>>

-----------------------------------------------------------------------------
(* onSave: the submit button is disabled while a save is under way.        *)
Save(t) ==
    /\ Editing(t) /\ tab[t].save = "none"
    /\ Put(t, [tab[t] EXCEPT !.save = "sent", !.base = tab[t].baseline, !.next = tab[t].draft])
    /\ UNCHANGED <<row, stored>>

(* Mutant: the old password is dropped.                                    *)
Rotated_Dropped(body, password) == [body EXCEPT !.password = password]

(* Mutant: the history is never cut.                                       *)
Rotated_Untruncated(body, password) ==
    IF password = body.password THEN body
    ELSE [password |-> password, history |-> <<body.password>> \o body.history]

(* The history is rotated in the client, from the baseline's body.         *)
Rotated(body, password) ==
    IF password = body.password THEN body
    ELSE LET h == <<body.password>> \o body.history IN
         [password |-> password,
          history  |-> SubSeq(h, 1, IF Len(h) < HistoryMax THEN Len(h) ELSE HistoryMax)]

(* What the UPDATE writes: the next version, and the blob the client sent. *)
Patched(q) == [version |-> row.version + 1, bound |-> q.base.version + 1, body |-> Rotated(q.base.body, q.next)]

(* Mutant: the UPDATE does not compare versions.                           *)
Update_NoWitness(t) ==
    LET q == tab[t] IN
    /\ q.save = "sent"
    /\ IF row # None /\ row.version < MaxVersion
       THEN /\ row' = Patched(q)
            /\ stored' = stored \cup {q.next}
            /\ Put(t, [q EXCEPT !.save = "stored"])
       ELSE /\ UNCHANGED <<row, stored>>
            /\ Put(t, [q EXCEPT !.save = "missed"])

(* credentials.service update: one UPDATE whose WHERE has the version.     *)
Update(t) ==
    LET q == tab[t] IN
    /\ q.save = "sent" /\ q.base.version < MaxVersion
    /\ IF Holds(q.base)
       THEN /\ row' = Patched(q)
            /\ stored' = stored \cup {q.next}
            /\ Put(t, [q EXCEPT !.save = "stored"])
       ELSE /\ UNCHANGED <<row, stored>>
            /\ Put(t, [q EXCEPT !.save = "missed"])

(* No row was updated: a second SELECT chooses between 404 and 409.        *)
SelectAfterMiss(t) ==
    /\ tab[t].save = "missed"
    /\ Put(t, IF ~ Readable THEN NoSave(tab[t]) ELSE [tab[t] EXCEPT !.save = "conflict"])
    /\ UNCHANGED <<row, stored>>

(* setBaseline, then router.replace leaves the page.                       *)
SaveDone(t) ==
    /\ tab[t].save = "stored"
    /\ Put(t, Closed)
    /\ UNCHANGED <<row, stored>>

(* The request or its answer is lost: the editor shows an error, and its   *)
(* baseline stays where it was although the row may have moved.            *)
SaveLost(t) ==
    /\ tab[t].save \in {"sent", "missed", "stored", "conflict"}
    /\ Put(t, NoSave(tab[t]))
    /\ UNCHANGED <<row, stored>>

(* A 409: fetch the fresh row; an error here ends the save.                *)
Refetch(t) ==
    LET q == tab[t] IN
    /\ q.save = "conflict"
    /\ Put(t, IF ~ Readable \/ ~ Decrypts(row) THEN NoSave(q)
              ELSE [q EXCEPT !.save = "fetched", !.base = row])
    /\ UNCHANGED <<row, stored>>

(* window.confirm: apply the edits on top of the latest version, or not.   *)
(* Either way the fresh row is the baseline from now on.                   *)
Proceed(t) ==
    /\ tab[t].save = "fetched"
    /\ Put(t, [tab[t] EXCEPT !.save = "sent", !.baseline = tab[t].base])
    /\ UNCHANGED <<row, stored>>

CancelSave(t) ==
    /\ tab[t].save = "fetched"
    /\ Put(t, NoSave([tab[t] EXCEPT !.baseline = tab[t].base]))
    /\ UNCHANGED <<row, stored>>

(* onDelete: DELETE, then leave; the button is disabled during a save.     *)
Delete(t) ==
    /\ Editing(t) /\ tab[t].save = "none"
    /\ row' = None
    /\ Put(t, Closed)
    /\ UNCHANGED stored

Next ==
    \E t \in Tabs :
        \/ GetById(t) \/ Loaded(t) \/ LoadFailed(t)
        \/ \E p \in Passwords : Type(t, p)
        \/ Leave(t) \/ Save(t) \/ Update(t) \/ SelectAfterMiss(t) \/ SaveDone(t)
        \/ SaveLost(t) \/ Refetch(t) \/ Proceed(t) \/ CancelSave(t) \/ Delete(t)

Spec == Init /\ [][Next]_vars

-----------------------------------------------------------------------------
TypeOK ==
    /\ row \in Blob \cup {None}
    /\ stored \subseteq Passwords
    /\ tab \in [Tabs -> Tab]

(* No password is lost: whatever tabs save, retry, overwrite or cancel,    *)
(* the row can be decrypted, and each password the credential ever held is *)
(* its password, or in its history, or was pushed out of a full history.   *)
(* It rests on the CAS: the history and the additional data that a client  *)
(* writes were made for the very version it replaces.                      *)
Remembered(body) == {body.password} \cup {body.history[i] : i \in DOMAIN body.history}

PasswordsAreKept ==
    row # None =>
        /\ Decrypts(row)
        /\ \/ stored \subseteq Remembered(row.body)
           \/ Len(row.body.history) = HistoryMax

(* A save lands on the version it was computed from, whether or not the    *)
(* user knows of it: the row moves one version at a time, and only by a    *)
(* client that holds the body of the version it replaces.                  *)
SavesBuildOnTheRow ==
    [][row' # row /\ row' # None =>
          \E t \in Tabs : /\ tab[t].base = row
                          /\ row'.version = row.version + 1
                          /\ row'.body = Rotated(row.body, tab[t].next)]_vars

=============================================================================
