------------------------------- MODULE Editors -------------------------------
(***************************************************************************)
(* What the web app shows and edits, with the rows on the server: the      *)
(* editor of a credential, the editor of a page, the list of pages, the    *)
(* list of a vault's credentials and the password generator.  They share   *)
(* no variable, so each property can be looked at with the other parts at  *)
(* rest: a behaviour has one part of Scope in focus.                       *)
(***************************************************************************)
EXTENDS CredentialEditor, FiniteSets

CONSTANTS
    Visits, Texts, Puts, PageMaxVersion, PageHistoryMax,  \* of PageEditor
    Pages, Token, Sought, Requests, ListMaxVersion, MaxByte, Width,   \* of PageList
    Credentials, Matching, VaultMaxVersion,               \* of VaultList
    Charsets, Words, Bytes, Bytes16,                      \* of Generator
    MinLength, MaxLength, MinWords, MaxWords,
    Scope                                                 \* the parts to explore

VARIABLES focus,
    page, hist, log, visit, put,
    pages, list, cards, run, asked, view,
    kind, rows, listed, query, card, known, bulk, reuse, load, screen,
    dialog, gen

PE == INSTANCE PageEditor WITH MaxVersion <- PageMaxVersion, HistoryMax <- PageHistoryMax,
                               row <- page
PL == INSTANCE PageList WITH MaxVersion <- ListMaxVersion, page <- view
VL == INSTANCE VaultList WITH MaxVersion <- VaultMaxVersion
GE == INSTANCE Generator

ASSUME PageAssumption == PageMaxVersion \in Nat \ {0} /\ PageHistoryMax \in Nat \ {0}

(* A token is a number of Width bytes, and a search sends one or its head. *)
ASSUME ListAssumption ==
    /\ ListMaxVersion \in Nat \ {0} /\ MaxByte \in Nat /\ Width \in Nat
    /\ Token \in [Pages -> [1..Width -> 0..MaxByte]]
    /\ Sought \in Seq(0..MaxByte) /\ Len(Sought) <= Width

ASSUME VaultAssumption == VaultMaxVersion \in Nat \ {0} /\ IsFiniteSet(Credentials)

(* No class and no list of words is empty, and the shortest password has   *)
(* room for a letter of each class: 4 classes and 8 letters in the code.   *)
ASSUME GeneratorAssumption ==
    /\ Charsets \in Seq(Seq(GE!Tokens)) /\ \A c \in DOMAIN Charsets : Charsets[c] # <<>>
    /\ Words \in Seq(GE!Tokens) /\ Words # <<>>
    /\ Bytes \in Nat /\ Bytes16 \in Nat
    /\ MinLength \in Nat /\ MaxLength \in Nat /\ MinLength <= MaxLength
    /\ Len(Charsets) <= MinLength
    /\ MinWords \in Nat /\ MaxWords \in Nat /\ MinWords <= MaxWords

pageVars    == <<page, hist, log, visit, put>>
listVars    == <<pages, list, cards, run, asked, view>>
vaultVars   == <<kind, rows, listed, query, card, known, bulk, reuse, load, screen>>
genVars     == <<dialog, gen>>
editorsVars == <<vars, pageVars, listVars, vaultVars, genVars, focus>>

(* The vault list starts from one of several contents of the vault; while  *)
(* another part is in focus one of them is enough.                         *)
EditorsInit ==
    /\ focus \in Scope
    /\ Init /\ PE!Init /\ PL!Init /\ GE!Init
    /\ VL!Init
    /\ focus # "vault" => kind = "shared" /\ rows = VL!Unread
    /\ focus = "vault" => row = Created(CHOOSE p \in Passwords : TRUE)

EditorsNext ==
    /\ UNCHANGED focus
    /\ \/ focus = "credential" /\ Next /\ UNCHANGED <<pageVars, listVars, vaultVars, genVars>>
       \/ focus = "page" /\ PE!Next /\ UNCHANGED <<vars, listVars, vaultVars, genVars>>
       \/ focus = "list" /\ PL!Next /\ UNCHANGED <<vars, pageVars, vaultVars, genVars>>
       \/ focus = "vault" /\ VL!Next /\ UNCHANGED <<vars, pageVars, listVars, genVars>>
       \/ focus = "generator" /\ GE!Next /\ UNCHANGED <<vars, pageVars, listVars, vaultVars>>

EditorsSpec == EditorsInit /\ [][EditorsNext]_editorsVars

(* Every variable of the five parts has its type.                          *)
TypesOK == TypeOK /\ PE!TypeOK /\ PL!TypeOK /\ VL!TypeOK /\ GE!TypeOK

(* The properties of PageEditor: see there.                                *)
HistoryIsTheLastVersions == PE!HistoryIsTheLastVersions
CopiesAreTrue            == PE!CopiesAreTrue

(* What the two lists show of the rows: the decrypted cards of PageList,   *)
(* the badges of VaultList.                                                *)
ListsAreTrue == PL!CardsKeepUp /\ VL!BadgesAreRight

(* The search of PageList: see there.                                      *)
SearchFindsTheTitle == PL!SearchFindsTheTitle

(* The property of Generator: see there.                                   *)
EveryClassAppears == GE!EveryClassAppears
=============================================================================
