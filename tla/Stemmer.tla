------------------------------- MODULE Stemmer -------------------------------
(***************************************************************************)
(* stemmer.c: the suffix stripping algorithm of Porter, with the two       *)
(* departures the file marks.                                              *)
(*                                                                         *)
(* A word is the string of its letters b[0] .. b[k], so that k is its      *)
(* length less one.  What `ends' leaves in z->j is the stem before the     *)
(* suffix found, here an operand.  The switches on b[k-1] or b[k] only     *)
(* choose among suffixes that have that letter there, and of those that    *)
(* fit, the first listed is the longest.                                   *)
(***************************************************************************)
EXTENDS Integers, Sequences, FiniteSets

Letter(w, i)  == SubSeq(w, i, i)                \* b[i-1]
Last(w)       == Letter(w, Len(w))
Shorter(w, n) == SubSeq(w, 1, Len(w) - n)

\* cons: which letters are consonants.
Cons(w) ==
    LET c[i \in 1 .. Len(w)] ==
            CASE Letter(w, i) \in {"a", "e", "i", "o", "u"} -> FALSE
              [] Letter(w, i) = "y" -> i = 1 \/ ~c[i - 1]
              [] OTHER -> TRUE
    IN  c

\* m: the number of times a consonant follows a vowel.
M(w) == LET c == Cons(w)
        IN  Cardinality({i \in 2 .. Len(w) : c[i] /\ ~c[i - 1]})

VowelInStem(w) == \E i \in 1 .. Len(w) : ~Cons(w)[i]

DoubleC(w) ==
    /\ Len(w) >= 2
    /\ Last(w) = Letter(w, Len(w) - 1)
    /\ Cons(w)[Len(w)]

\* cvc: as in hop, crim, but not in snow, box, tray.
CVC(w) ==
    LET c == Cons(w)  n == Len(w)
    IN  /\ n >= 3 /\ c[n] /\ ~c[n - 1] /\ c[n - 2]
        /\ Last(w) \notin {"w", "x", "y"}

Ends(w, s) == Len(s) <= Len(w) /\ SubSeq(w, Len(w) - Len(s) + 1, Len(w)) = s

Before(w, s) == Shorter(w, Len(s))              \* b[0] .. b[j] after ends(s)

Longest(suffixes) ==
    CHOOSE s \in suffixes : \A t \in suffixes : Len(t) <= Len(s)

\* setto: another suffix in the place of s.
SetTo(w, s, new) == Before(w, s) \o new

\* The steps 2 and 3: a suffix of the table is replaced where m > 0 before it.
Replace(w, table) ==
    LET found == {s \in DOMAIN table : Ends(w, s)}
        s == Longest(found)
    IN  IF found # {} /\ M(Before(w, s)) > 0 THEN SetTo(w, s, table[s]) ELSE w

Table(pairs) ==
    [s \in {p[1] : p \in pairs} |-> (CHOOSE p \in pairs : p[1] = s)[2]]

------------------------------------------------------------------------------
Singular(w) ==
    IF Ends(w, "sses") THEN Shorter(w, 2)
    ELSE IF Ends(w, "ies") THEN SetTo(w, "ies", "i")
    ELSE IF Last(w) = "s" /\ Letter(w, Len(w) - 1) # "s" THEN Shorter(w, 1)
    ELSE w

\* What is left after -ed or -ing may need a letter more or a letter less.
Repaired(w) ==
    IF \E s \in {"at", "bl", "iz"} : Ends(w, s) THEN w \o "e"
    ELSE IF DoubleC(w)
         THEN IF Last(w) \in {"l", "s", "z"} THEN w ELSE Shorter(w, 1)
    ELSE IF M(w) = 1 /\ CVC(w) THEN w \o "e"
    ELSE w

Step1ab(word) ==
    LET w == Singular(word)
        past == {s \in {"ed", "ing"} : Ends(w, s) /\ VowelInStem(Before(w, s))}
    IN  IF Ends(w, "eed") THEN IF M(Before(w, "eed")) > 0 THEN Shorter(w, 1) ELSE w
        ELSE IF past # {} THEN Repaired(Before(w, Longest(past)))
        ELSE w

Step1c(w) ==
    IF Ends(w, "y") /\ VowelInStem(Before(w, "y")) THEN SetTo(w, "y", "i") ELSE w

DoubleSuffixes == Table(
    { <<"ational", "ate">>, <<"tional", "tion">>, <<"enci", "ence">>,
      <<"anci", "ance">>, <<"izer", "ize">>, <<"bli", "ble">>, <<"alli", "al">>,
      <<"entli", "ent">>, <<"eli", "e">>, <<"ousli", "ous">>,
      <<"ization", "ize">>, <<"ation", "ate">>, <<"ator", "ate">>,
      <<"alism", "al">>, <<"iveness", "ive">>, <<"fulness", "ful">>,
      <<"ousness", "ous">>, <<"aliti", "al">>, <<"iviti", "ive">>,
      <<"biliti", "ble">>, <<"logi", "log">> })

Step2(w) == Replace(w, DoubleSuffixes)

SingleSuffixes == Table(
    { <<"icate", "ic">>, <<"ative", "">>, <<"alize", "al">>, <<"iciti", "ic">>,
      <<"ical", "ic">>, <<"ful", "">>, <<"ness", "">> })

Step3(w) == Replace(w, SingleSuffixes)

DroppedSuffixes ==
    {"al", "ance", "ence", "er", "ic", "able", "ible", "ant", "ement", "ment",
     "ent", "ou", "ism", "ate", "iti", "ous", "ive", "ize"}

Step4(w) ==
    LET found == {s \in DroppedSuffixes : Ends(w, s)} \cup
                 {s \in {"ion"} : Ends(w, "sion") \/ Ends(w, "tion")}
        stem == Before(w, Longest(found))
    IN  IF found # {} /\ M(stem) > 1 THEN stem ELSE w

Step5(w) ==
    LET a == M(w)
        v == IF Last(w) = "e" /\ (a > 1 \/ (a = 1 /\ ~CVC(Shorter(w, 1))))
             THEN Shorter(w, 1) ELSE w
    IN  IF Last(v) = "l" /\ DoubleC(v) /\ a > 1 THEN Shorter(v, 1) ELSE v

------------------------------------------------------------------------------
NSteps == 6

Step(i, w) ==
    CASE i = 1 -> Step1ab(w) [] i = 2 -> Step1c(w) [] i = 3 -> Step2(w)
      [] i = 4 -> Step3(w)   [] i = 5 -> Step4(w)  [] i = 6 -> Step5(w)

\* A word of one or two letters is not stemmed any further (k <= 1).
TooShort(w) == Len(w) <= 2

Stem(word) ==
    LET after[i \in 0 .. NSteps] ==
            IF i = 0 THEN word
            ELSE LET w == after[i - 1] IN IF TooShort(w) THEN w ELSE Step(i, w)
    IN  after[NSteps]
==============================================================================
