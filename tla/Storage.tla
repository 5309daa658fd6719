------------------------------- MODULE Storage -------------------------------
(***************************************************************************)
(* What the files of one dictionary promise, whatever happens to the       *)
(* server: a word that is stored whole, in the dictionary, its reverse and *)
(* what the backup is made from, stays so until its name is deleted; a     *)
(* mishap breaks one word at most, and never one that is whole.            *)
(***************************************************************************)
EXTENDS Integers

CONSTANT Word

VARIABLES
    named,      \* the name has a dictionary, also after the next start
    whole,      \* the words that are stored everywhere
    broken,     \* the words that a file lacks for good
    mishaps     \* crashes, and insertions that met a closed delta file

svars == <<named, whole, broken, mishaps>>

Init == named = FALSE /\ whole = {} /\ broken = {} /\ mishaps = 0

Create ==
    /\ ~named
    /\ named' = TRUE
    /\ UNCHANGED <<whole, broken, mishaps>>

Store(w) ==
    /\ named
    /\ w \notin whole \cup broken
    /\ whole' = whole \cup {w}
    /\ UNCHANGED <<named, broken, mishaps>>

Delete ==
    /\ named
    /\ named' = FALSE
    /\ UNCHANGED <<whole, broken, mishaps>>

\* Later, and not in the same moment.
Erase ==
    /\ ~named
    /\ whole' = {} /\ broken' = {}
    /\ UNCHANGED <<named, mishaps>>

Mishap ==
    /\ mishaps' = mishaps + 1
    /\ broken' = broken \/ \E w \in Word \ whole : broken' = broken \cup {w}
    /\ UNCHANGED <<named, whole>>

Next == Create \/ Delete \/ Erase \/ Mishap \/ \E w \in Word : Store(w)

Spec == Init /\ [][Next]_svars
==============================================================================
