------------------------ MODULE CredentialOverwrite ------------------------
(***************************************************************************)
(* CredentialEditor with an auxiliary variable: which version the user of  *)
(* a tab knows the draft to be a change of.  It is the version the draft   *)
(* was taken from, until the tab stores the draft or the user agrees, on   *)
(* the merge prompt, to replace a later version.                           *)
(***************************************************************************)
EXTENDS CredentialEditor

VARIABLE agreed

AgreedAfter(t) ==
    LET q == tab[t]  r == tab'[t] IN
    IF r.page = "closed" THEN 0
    ELSE IF q.draft = None /\ r.draft # None THEN r.baseline.version
    ELSE IF q.save = "fetched" /\ r.save = "sent" THEN q.base.version
    ELSE IF q.save = "sent" /\ r.save = "stored" THEN row'.version
    ELSE agreed[t]

KnownSpec ==
    /\ Init /\ agreed = [t \in Tabs |-> 0]
    /\ [][Next /\ agreed' = [t \in Tabs |-> AgreedAfter(t)]]_<<vars, agreed>>

(* What the phase plan says: "open the same credential in two tabs; save   *)
(* in tab A -> save in tab B fails with VersionConflictError; the merge    *)
(* prompt appears".  A save replaces only a version its user knows of.     *)
NoSilentOverwrite ==
    [][row' # row /\ row' # None =>
          \E t \in Tabs : /\ tab[t].save = "sent" /\ tab'[t].save = "stored"
                          /\ row.version = agreed[t]]_<<vars, agreed>>
=============================================================================
