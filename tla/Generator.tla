----------------------------- MODULE Generator -----------------------------
(***************************************************************************)
(* The password generator and its dialog.                                  *)
(*                                                                         *)
(* Every random number is a step, so a behaviour is one outcome of the     *)
(* random source.  Nothing else of the page runs in between: the user's    *)
(* next move waits until the output is there.                              *)
(***************************************************************************)
EXTENDS Integers, Sequences, FiniteSets

CONSTANTS
    Charsets,       \* the character classes: LOWER, UPPER, DIGITS and SYMBOLS
    Words,          \* the list of words: EFF_LARGE
    Bytes, Bytes16, \* values of a random byte (256), of a 16-bit number (65536)
    MinLength, MaxLength, MinWords, MaxWords

VARIABLES
    dialog,     \* what the user chose
    gen         \* the run of generatePassword or generatePassphrase, and
                \* once it is done the dialog's output

genVars == <<dialog, gen>>

Classes == DOMAIN Charsets
Dialog  == [open : BOOLEAN, tab : {"password", "passphrase"}, length : MinLength..MaxLength,
            classes : SUBSET Classes, words : MinWords..MaxWords]

(* i: the guaranteed letters drawn so far, or the place to shuffle next.   *)
Started == [pc |-> IF dialog'.tab = "passphrase" THEN "words"
                   ELSE IF dialog'.classes = {} THEN "error" ELSE "letters",
            out |-> <<>>, i |-> 0]

Init ==
    /\ dialog = [open |-> FALSE, tab |-> "password", length |-> MinLength,
                 classes |-> Classes, words |-> MinWords]
    /\ gen = [pc |-> "done", out |-> <<>>, i |-> 0]

Waiting == gen.pc \in {"done", "error"}

-----------------------------------------------------------------------------
(* randInt and randIndex16: numbers are drawn until one is below the last  *)
(* multiple of m.                                                          *)
Random(m, range) == {v % m : v \in {n \in 0..(range - 1) : n < range - (range % m)}}

(* The list `enabled` holds the classes chosen in the order of the code:   *)
(* Rank(c) is the index of c in it.  The string `all` joins them: a place  *)
(* in it is a place in one of them, and randInt may yield any.             *)
Rank(c) == Cardinality({d \in dialog.classes : d < c})
All     == UNION {{c} \X DOMAIN Charsets[c] : c \in dialog.classes}

(* First a letter from each enabled class.                                 *)
ClassLetter ==
    /\ gen.pc = "letters"
    /\ IF gen.i < Cardinality(dialog.classes)
       THEN \E c \in dialog.classes :
               /\ Rank(c) = gen.i
               /\ \E k \in Random(Len(Charsets[c]), Bytes) :
                     gen' = [gen EXCEPT !.out = Append(@, Charsets[c][k + 1]), !.i = @ + 1]
       ELSE gen' = [gen EXCEPT !.pc = "fill"]
    /\ UNCHANGED dialog

(* Then letters from all of them, up to the length.                        *)
Fill ==
    /\ gen.pc = "fill"
    /\ IF Len(gen.out) < dialog.length
       THEN \E place \in All :
               gen' = [gen EXCEPT !.out = Append(@, Charsets[place[1]][place[2]])]
       ELSE gen' = [gen EXCEPT !.pc = "shuffle", !.i = Len(gen.out)]
    /\ UNCHANGED dialog

(* Mutant: the second assignment reads what the first one has written.     *)
Swapped_Overwrites(s, i, j) == [s EXCEPT ![i] = s[j]]

Swapped(s, i, j) == [s EXCEPT ![i] = s[j], ![j] = s[i]]

(* Fisher-Yates, from the last place down to the second.                   *)
Shuffle ==
    /\ gen.pc = "shuffle"
    /\ IF gen.i > 1
       THEN \E j \in Random(gen.i, Bytes) :
                gen' = [gen EXCEPT !.out = Swapped(@, gen.i, j + 1), !.i = @ - 1]
       ELSE gen' = [gen EXCEPT !.pc = "done"]
    /\ UNCHANGED dialog

(* generatePassphrase: words with repetition.                              *)
DrawWord ==
    /\ gen.pc = "words"
    /\ IF Len(gen.out) < dialog.words
       THEN \E k \in Random(Len(Words), Bytes16) :
                gen' = [gen EXCEPT !.out = Append(@, Words[k + 1])]
       ELSE gen' = [gen EXCEPT !.pc = "done"]
    /\ UNCHANGED dialog

-----------------------------------------------------------------------------
(* Opening the dialog and every change of an option start a new run.       *)
Choose(record) == Waiting /\ dialog' = record /\ gen' = Started

Open == ~ dialog.open /\ Choose([dialog EXCEPT !.open = TRUE])

SetOptions ==
    /\ dialog.open
    /\ \/ \E b \in {"password", "passphrase"} \ {dialog.tab} : Choose([dialog EXCEPT !.tab = b])
       \/ /\ dialog.tab = "password"
          /\ \/ \E n \in MinLength..MaxLength : Choose([dialog EXCEPT !.length = n])
             \/ \E c \in Classes :
                   Choose([dialog EXCEPT !.classes = (@ \cup {c}) \ (@ \cap {c})])
       \/ /\ dialog.tab = "passphrase"
          /\ \E n \in MinWords..MaxWords : Choose([dialog EXCEPT !.words = n])

Regenerate == dialog.open /\ Choose(dialog)

(* Escape, the close button, a click beside the dialog.                    *)
Close ==
    /\ dialog.open /\ Waiting
    /\ dialog' = [dialog EXCEPT !.open = FALSE]
    /\ UNCHANGED gen

(* The output goes to the editor as if it were typed.                      *)
UseThis == gen.out # <<>> /\ Close

Next == ClassLetter \/ Fill \/ Shuffle \/ DrawWord \/ Open \/ SetOptions \/ Regenerate
        \/ Close \/ UseThis

Spec == Init /\ [][Next]_genVars

-----------------------------------------------------------------------------
Letters(c) == {Charsets[c][n] : n \in DOMAIN Charsets[c]}
WordSet    == {Words[n] : n \in DOMAIN Words}
Tokens     == UNION {Letters(c) : c \in Classes} \cup WordSet

TypeOK ==
    /\ dialog \in Dialog
    /\ gen.pc \in {"letters", "fill", "shuffle", "words", "done", "error"}
    /\ gen.out \in Seq(Tokens) /\ gen.i \in 0..MaxLength

(* What the dialog shows is what was asked for, whatever was drawn: a      *)
(* password of the length chosen, of the enabled classes only and with a   *)
(* letter of each of them, for the shuffle loses none; or the number of    *)
(* words chosen.                                                           *)
EveryClassAppears ==
    dialog.open /\ gen.pc = "done" =>
        LET shown == {gen.out[n] : n \in DOMAIN gen.out} IN
        IF dialog.tab = "password"
        THEN /\ Len(gen.out) = dialog.length
             /\ shown \subseteq UNION {Letters(c) : c \in dialog.classes}
             /\ \A c \in dialog.classes : Letters(c) \cap shown # {}
        ELSE Len(gen.out) = dialog.words /\ shown \subseteq WordSet
=============================================================================
