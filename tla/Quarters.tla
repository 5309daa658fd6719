------------------------------- MODULE Quarters ------------------------------
(***************************************************************************)
(* A "quartfreq" request: the term counts of each quarter of a document    *)
(* (tokenize_quarter_frequency, tokenize_quartfreq_new in tokenize.c).     *)
(*                                                                         *)
(* The list holds one id per token, from 0 to size-1.  It is counted in    *)
(* one loop that, on its way, translates the provisional ids of new words  *)
(* by the table update_dict has made, and puts the counts aside where a    *)
(* quarter ends.  A count table is a function from the ids it holds.       *)
(***************************************************************************)
EXTENDS Counting

CONSTANTS
    MaxTokens,      \* bound: tokens in a document
    MaxId,          \* bound: ids are 0 .. MaxId
    Byte            \* the values a byte has (256)

ASSUME MaxTokensAssumption == MaxTokens \in Nat
ASSUME MaxIdAssumption     == MaxId \in Nat
ASSUME ByteAssumption      == Byte \in Nat \ {0}

VARIABLES
    qpc,            \* "idle", "count", "done"
    size,           \* list_Size(toupdate)
    given,          \* the list as idterms has filled it
    real,           \* history: the ids its tokens have in the dictionary; Empty
                    \* when update_dict has failed, and the answer is a fault
    toupdate,       \* the list, translated up to i
    transdict,      \* provisional id -> real id; empty when there is none
    i,              \* the token looked at
    quart,          \* the quarters put aside
    qhash,          \* the counts of the quarter under way
    parts           \* rdata->q1 .. q4; Empty: not made (a pointer that is not set)

qvars == <<qpc, size, given, real, toupdate, transdict, i, quart, qhash, parts>>

NSplits == 4                                    \* nsplits
Unknown == -1                                   \* the id of a word not in dict
Id      == 0 .. MaxId
NoParts == [q \in 1 .. NSplits |-> Empty]

\* Mutant: always rounded up.
QuartSizeUp(n) == n \div NSplits + 1

\* The tokens of each quarter but the last.
QuartSize(n) ==
    IF n % NSplits = 3 THEN n \div NSplits + 1 ELSE n \div NSplits

\* *listelem = *(int64_t *)data, with a char *listelem: the lowest byte is
\* replaced, and the others stay.
Stored(old, new) == (old \div Byte) * Byte + (new % Byte)

\* Mutant: the table is not consulted.
LookedNowhere(id) == id

Looked(id) == IF id \in DOMAIN transdict THEN Stored(id, transdict[id]) ELSE id

\* Mutant: the boundary is also seen after three quarters.
AtBoundaryAnyQuarter == i > 0 /\ i % QuartSize(size) = 0

AtBoundary == i > 0 /\ i % QuartSize(size) = 0 /\ quart < 3

------------------------------------------------------------------------------
Init ==
    /\ qpc = "idle"
    /\ size = 0
    /\ given = Empty /\ real = Empty
    /\ toupdate = Empty
    /\ transdict = Empty
    /\ i = 0
    /\ quart = 0
    /\ qhash = Empty
    /\ parts = NoParts

\* "Page too small to split": no quarter is made, and NULL is returned.
Start(n, list, table, ids) ==
    /\ qpc = "idle"
    /\ size' = n
    /\ given' = list /\ real' = ids
    /\ toupdate' = list
    /\ transdict' = table
    /\ qpc' = IF n < NSplits THEN "done" ELSE "count"
    /\ UNCHANGED <<i, quart, qhash, parts>>

\* One turn of the loop.
CountToken ==
    /\ qpc = "count"
    /\ i < size
    /\ toupdate' = [toupdate EXCEPT ![i] = Looked(@)]
    /\ IF AtBoundary
       THEN /\ parts' = [parts EXCEPT ![quart + 1] = qhash]
            /\ quart' = quart + 1
            /\ qhash' = CountIn(Empty, toupdate'[i])
       ELSE /\ qhash' = CountIn(qhash, toupdate'[i])
            /\ UNCHANGED <<parts, quart>>
    /\ i' = i + 1
    /\ UNCHANGED <<qpc, size, given, real, transdict>>

\* "Get the last quarter".
LastQuarter ==
    /\ qpc = "count"
    /\ i = size
    /\ parts' = [parts EXCEPT ![NSplits] = qhash]
    /\ qpc' = "done"
    /\ UNCHANGED <<size, given, real, toupdate, transdict, i, quart, qhash>>

\* The answer is built; the quarters (fourpartFree) and the list are freed.
Answer ==
    /\ qpc = "done"
    /\ qpc' = "idle"
    /\ size' = 0 /\ given' = Empty /\ real' = Empty
    /\ toupdate' = Empty /\ transdict' = Empty
    /\ i' = 0 /\ quart' = 0 /\ qhash' = Empty /\ parts' = NoParts

Split == CountToken \/ LastQuarter

\* The lists and tables idterms and update_dict can hand over: a token has its real
\* id already, or the table has one for it; and what the table has is for a token.
Lists(n) == [0 .. n - 1 -> Id \cup {Unknown}]
Tables   == UNION {[S -> Id] : S \in SUBSET Id}

Handed(list, table, ids) ==
    /\ \A p \in DOMAIN list : list[p] \notin DOMAIN table => ids[p] = list[p]
    /\ \A x \in DOMAIN table :
           \E p \in DOMAIN list : list[p] = x /\ ids[p] = table[x]

Next ==
    \/ \E n \in 0 .. MaxTokens :
           \E list \in Lists(n), table \in Tables, ids \in Lists(n) \cup {Empty} :
               (ids # Empty => Handed(list, table, ids)) /\ Start(n, list, table, ids)
    \/ Split
    \/ Answer

Spec == Init /\ [][Next]_qvars

------------------------------------------------------------------------------
(***************************************************************************)
(* Properties                                                              *)
(***************************************************************************)
\* The first token of the quarter q, 0 <= q <= 4.
From(q) == IF q = NSplits THEN size ELSE q * QuartSize(size)

\* No two words are given the same id: a known word's id may be provisional for a
\* new one, when idterms has read the size before others added words.
NoClash ==
    real # Empty =>
        \A p, q \in 0 .. size - 1 : given[p] = given[q] => real[p] = real[q]

\* Every provisional id is translated into an id that has the same upper bytes.
NoBorder == \A x \in DOMAIN transdict : x \div Byte = transdict[x] \div Byte

\* Every variable is of its type; what is put aside is counted.
SplitTypeOK ==
    /\ qpc \in {"idle", "count", "done"}
    /\ size \in 0 .. MaxTokens
    /\ given \in Lists(size)
    /\ real \in Lists(size) \cup {Empty}
    /\ transdict \in Tables
    /\ DOMAIN toupdate = 0 .. size - 1
    /\ i \in 0 .. size
    /\ quart \in 0 .. 3

\* All four quarters are made whatever the length: fourpartFree and the answer
\* follow the pointers q1 .. q4, which gk_malloc leaves unset (tokenize.c:371).
AllQuartersMade ==
    qpc = "done" /\ size >= NSplits => \A q \in 1 .. NSplits : parts[q] # Empty

\* Each token is counted in exactly one quarter, in the order of the text, and
\* the lengths of two quarters differ by two at most (tokenize.c:371, 388).
QuartersSplit ==
    qpc = "done" /\ size >= NSplits =>
        /\ \A q \in 1 .. NSplits : parts[q] = Counts(toupdate, From(q - 1), From(q))
        /\ \A q, r \in 1 .. NSplits :
               (From(q) - From(q - 1)) - (From(r) - From(r - 1)) <= 2

\* "ids_q1" .. "count_q4" are those of the quarters of the input string: counted
\* with the ids the words have in the dictionary, where it could take them all.
QuartersRight ==
    qpc = "done" /\ size >= NSplits /\ real # Empty =>
        \A q \in 1 .. NSplits : parts[q] = Counts(real, From(q - 1), From(q))

\* They are, unless two words were given the same id (tokenize.c:137, 380): for
\* "listelem is a direct pointer into the list, so this should work" (384).
QuartersRightUnlessClash == NoClash => QuartersRight

\* They are, unless two words were given the same id, or a provisional and a real
\* id differ above the lowest byte.
QuartersRightUnlessClashOrBorder == NoBorder => QuartersRightUnlessClash

------------------------------------------------------------------------------
(***************************************************************************)
(* The inductive invariant (QuartersProofs)                                *)
(***************************************************************************)
\* The list as the loop leaves it.
Translated == [p \in 0 .. size - 1 |-> Looked(given[p])]

ListInv ==
    toupdate = [p \in 0 .. size - 1 |-> IF p < i THEN Looked(given[p]) ELSE given[p]]

\* What was handed over is what the request still has.
HandedInv == real # Empty => Handed(given, transdict, real)

\* A quarter is put aside when the token after it is met, not before and not
\* later; so there are three of them when the list ends.
PlaceInv ==
    /\ size < NSplits => qpc # "count" /\ i = 0 /\ quart = 0
    /\ size >= NSplits =>
           /\ qpc # "idle"
           /\ quart > 0 => From(quart) < i
           /\ quart < 3 => i <= From(quart + 1)
           /\ qpc = "done" => i = size

\* The table under way and those put aside count what lies between boundaries.
TableInv ==
    IF size < NSplits THEN qhash = Empty /\ parts = NoParts
    ELSE /\ qhash = Counts(Translated, From(quart), i)
         /\ parts = [q \in 1 .. NSplits |->
                IF q <= quart THEN Counts(Translated, From(q - 1), From(q))
                ELSE IF q = NSplits /\ qpc = "done"
                     THEN Counts(Translated, From(3), size)
                ELSE Empty]

QInv == SplitTypeOK /\ ListInv /\ HandedInv /\ PlaceInv /\ TableInv
==============================================================================
