---------------------------- MODULE QuartersProofs ---------------------------
(***************************************************************************)
(* Proofs about Quarters, for documents of any length, any ids, and bytes  *)
(* of any size.                                                            *)
(***************************************************************************)
EXTENDS Quarters, FiniteSetTheorems, TLAPS

(***************************************************************************)
(* Counting                                                                *)
(***************************************************************************)
\* Nothing is counted in an empty stretch of a list.
LEMMA CountsNothing ==
    ASSUME NEW list, NEW a \in Int
    PROVE  Counts(list, a, a) = Empty
<1>1. a .. a - 1 = {}
  OBVIOUS
<1>2. {list[p] : p \in a .. a - 1} = {}
  BY <1>1
<1> QED BY <1>2 DEF Counts, Empty

\* One more token is counted by hash_Put or by the increment in the hash
\* (tokenize.c:424-430).
LEMMA CountsNext ==
    ASSUME NEW list, NEW a \in Int, NEW b \in Int, a <= b
    PROVE  CountIn(Counts(list, a, b), list[b]) = Counts(list, a, b + 1)
<1> DEFINE S == a .. b - 1
           T == a .. b + 1 - 1
           Old(x) == {p \in S : list[p] = x}
           New(x) == {p \in T : list[p] = x}
           D == {list[p] : p \in S}
           E == {list[p] : p \in T}
<1>1. T = S \cup {b} /\ b \notin S
  OBVIOUS
<1>2. IsFiniteSet(S)
  BY FS_Interval
<1> HIDE DEF S, T
<1>3. E = D \cup {list[b]}
  BY <1>1
<1>4. ASSUME NEW x PROVE IsFiniteSet(Old(x))
  BY <1>2, FS_Subset
<1>5. ASSUME NEW x, x # list[b] PROVE New(x) = Old(x)
  BY <1>1, <1>5
<1>6. New(list[b]) = Old(list[b]) \cup {b} /\ b \notin Old(list[b])
  BY <1>1
<1>7. Cardinality(New(list[b])) = Cardinality(Old(list[b])) + 1
  <2> DEFINE O == Old(list[b])
             N == New(list[b])
  <2>1. IsFiniteSet(O)
    BY <1>4
  <2>2. N = O \cup {b} /\ b \notin O
    BY <1>6
  <2> HIDE DEF O, N
  <2>3. Cardinality(N) = Cardinality(O) + 1
    BY <2>1, <2>2, FS_AddElement
  <2> QED BY <2>3 DEF O, N
<1>8. list[b] \notin D => Cardinality(Old(list[b])) = 0
  <2>1. list[b] \notin D => Old(list[b]) = {}
    OBVIOUS
  <2> QED BY <2>1, FS_EmptySet
<1> DEFINE count == [x \in D |-> Cardinality(Old(x))]
<1>9. ASSUME NEW x \in E
      PROVE  Cardinality(New(x)) =
                 (IF x # list[b] THEN count[x]
                  ELSE IF list[b] \in D THEN count[list[b]] + 1 ELSE 1)
  <2>1. CASE x # list[b]
    <3>1. x \in D
      BY <1>3, <2>1
    <3> QED BY <1>5, <2>1, <3>1
  <2>2. CASE x = list[b] /\ list[b] \in D
    <3>1. count[list[b]] = Cardinality(Old(list[b]))
      BY <2>2
    <3> QED BY <1>7, <2>2, <3>1
  <2>3. CASE x = list[b] /\ list[b] \notin D
    BY <1>7, <1>8, <2>3
  <2> QED BY <2>1, <2>2, <2>3
<1>10. Counts(list, a, b) = count
  BY DEF Counts, S
<1>11. Counts(list, a, b + 1) = [x \in E |-> Cardinality(New(x))]
  BY DEF Counts, T
<1> HIDE DEF Old, New, D, E
<1>12. CountIn(count, list[b]) =
          [x \in E |-> IF x # list[b] THEN count[x]
                       ELSE IF list[b] \in D THEN count[list[b]] + 1 ELSE 1]
  BY <1>3 DEF CountIn
<1> HIDE DEF count
<1>13. [x \in E |-> Cardinality(New(x))] =
          [x \in E |-> IF x # list[b] THEN count[x]
                       ELSE IF list[b] \in D THEN count[list[b]] + 1 ELSE 1]
  BY <1>9
<1> QED BY <1>10, <1>11, <1>12, <1>13

\* A stretch that has a token counts something.
LEMMA CountsSomething ==
    ASSUME NEW list, NEW a \in Int, NEW b \in Int, a < b
    PROVE  Counts(list, a, b) # Empty
<1>1. a \in a .. b - 1
  OBVIOUS
<1>2. list[a] \in DOMAIN Counts(list, a, b)
  BY <1>1 DEF Counts
<1>3. DOMAIN Empty = {}
  BY DEF Empty
<1> QED BY <1>2, <1>3

(***************************************************************************)
(* The lengths of the quarters, and where they end.                        *)
(***************************************************************************)
LEMMA Remainder ==
    ASSUME NEW W \in Nat \ {0}, NEW p \in Int, NEW q \in Int,
           NEW s \in 0 .. W - 1, p * W + s = q * W
    PROVE  p = q
<1>1. CASE p >= q + 1
  <2>1. p * W >= (q + 1) * W
    BY <1>1
  <2>2. (q + 1) * W = q * W + W /\ p * W \in Int /\ q * W \in Int
    OBVIOUS
  <2> QED BY <2>1, <2>2
<1>2. CASE q >= p + 1
  <2>1. q * W >= (p + 1) * W
    BY <1>2
  <2>2. (p + 1) * W = p * W + W /\ p * W \in Int /\ q * W \in Int
    OBVIOUS
  <2> QED BY <2>1, <2>2
<1> QED BY <1>1, <1>2

LEMMA Division ==
    ASSUME NEW W \in Nat \ {0}, NEW x \in Nat
    PROVE  /\ x \div W \in Int
           /\ x % W \in 0 .. W - 1
           /\ x = (x \div W) * W + (x % W)
OBVIOUS

\* Three quarters leave a token for the last, which is at most two longer and
\* one shorter than they are (tokenize.c:371-381).
LEMMA QuartSizes ==
    ASSUME NEW n \in Nat, n >= NSplits
    PROVE  /\ QuartSize(n) \in Nat \ {0}
           /\ 3 * QuartSize(n) < n
           /\ n - 4 * QuartSize(n) \in -1 .. 2
<1> DEFINE d == n \div 4
           r == n % 4
<1>1. d \in Int /\ r \in 0 .. 3 /\ n = d * 4 + r
  BY Division
<1>2. QuartSize(n) = IF r = 3 THEN d + 1 ELSE d
  BY DEF QuartSize, NSplits
<1> HIDE DEF d, r
<1>3. d >= 1
  BY <1>1 DEF NSplits
<1> QED BY <1>1, <1>2, <1>3

\* The multiple of Q after k * Q is (k + 1) * Q.
LEMMA NextMultiple ==
    ASSUME NEW Q \in Nat \ {0}, NEW k \in Nat, NEW j \in Nat,
           j <= (k + 1) * Q, k * Q < j
    PROVE  j % Q = 0 <=> j = (k + 1) * Q
<1> DEFINE p == j \div Q
           s == j % Q
<1>1. p \in Int /\ s \in 0 .. Q - 1 /\ j = p * Q + s
  BY Division
<1> HIDE DEF p, s
<1>2. /\ k * Q \in Int /\ p * Q \in Int
      /\ (k + 1) * Q = k * Q + Q /\ (k + 2) * Q = k * Q + Q + Q
  BY <1>1
<1>3. ASSUME s = 0 PROVE j = (k + 1) * Q
  <2>1. j = p * Q
    BY <1>1, <1>2, <1>3
  <2>2. CASE p <= k
    <3>1. p * Q <= k * Q
      BY <1>1, <2>2
    <3> QED BY <2>1, <3>1, <1>2
  <2>3. CASE p >= k + 2
    <3>1. p * Q >= (k + 2) * Q
      BY <1>1, <2>3
    <3> QED BY <2>1, <3>1, <1>2
  <2>4. CASE p = k + 1
    BY <2>1, <2>4
  <2> QED BY <2>2, <2>3, <2>4, <1>1
<1>4. ASSUME j = (k + 1) * Q PROVE s = 0
  <2>1. p * Q + s = (k + 1) * Q
    BY <1>1, <1>4
  <2>2. p = k + 1
    BY <1>1, <2>1, Remainder
  <2> QED BY <1>1, <1>2, <2>1, <2>2
<1> QED BY <1>3, <1>4 DEF s

\* Replacing the lowest byte gives the new id when the other bytes agree.
LEMMA StoredRight ==
    ASSUME NEW x \in Nat, NEW y \in Nat, x \div Byte = y \div Byte
    PROVE  Stored(x, y) = y
BY Division, ByteAssumption DEF Stored

\* The step's boundary is the end of the quarter under way (tokenize.c:388).
LEMMA Boundary ==
    ASSUME SplitTypeOK, PlaceInv, size >= NSplits
    PROVE  /\ \A q \in 0 .. 4 : From(q) \in 0 .. size
           /\ \A q \in 1 .. 4 : From(q - 1) < From(q)
           /\ From(0) = 0
           /\ AtBoundary <=> quart < 3 /\ i = From(quart + 1)
<1> DEFINE Q == QuartSize(size)
<1>1. size \in Nat /\ i \in 0 .. size /\ quart \in 0 .. 3
  BY MaxTokensAssumption DEF SplitTypeOK
<1>2. Q \in Nat \ {0} /\ 3 * Q < size
  BY <1>1, QuartSizes
<1>3. /\ quart > 0 => From(quart) < i
      /\ quart < 3 => i <= From(quart + 1)
  BY DEF PlaceInv
<1>4. AtBoundary <=> i > 0 /\ i % Q = 0 /\ quart < 3
  BY DEF AtBoundary
<1>5. \A q \in 0 .. 4 : From(q) = IF q = 4 THEN size ELSE q * Q
  BY DEF From, NSplits
<1> HIDE DEF Q
<1>6. /\ From(0) = 0 /\ From(1) = Q /\ From(2) = 2 * Q /\ From(3) = 3 * Q
      /\ From(4) = size
  BY <1>2, <1>5
<1>7. /\ \A q \in 0 .. 4 : From(q) \in 0 .. size
      /\ \A q \in 1 .. 4 : From(q - 1) < From(q)
  BY <1>1, <1>2, <1>6
<1>8. ASSUME quart < 3 PROVE i > 0 /\ i % Q = 0 <=> i = From(quart + 1)
  <2>1. From(quart + 1) = (quart + 1) * Q /\ (quart > 0 => From(quart) = quart * Q)
    BY <1>1, <1>5, <1>8
  <2>2. CASE i = 0
    <3>1. From(quart + 1) > 0
      BY <1>1, <1>2, <1>6, <1>8
    <3> QED BY <2>2, <3>1
  <2>3. CASE i > 0
    <3>1. quart * Q < i /\ i <= (quart + 1) * Q
      BY <1>1, <1>2, <1>3, <1>8, <2>1, <2>3
    <3> QED BY <1>1, <1>2, <2>1, <2>3, <3>1, NextMultiple
  <2> QED BY <1>1, <2>2, <2>3
<1> QED BY <1>4, <1>6, <1>7, <1>8

------------------------------------------------------------------------------
(***************************************************************************)
(* The inductive invariant                                                 *)
(***************************************************************************)
LEMMA Initially == Init => QInv
<1> SUFFICES ASSUME Init PROVE QInv
  OBVIOUS
<1>1. SplitTypeOK
  <2>1. Empty \in Lists(0)
    BY DEF Empty, Lists
  <2>2. Empty \in Tables
    BY DEF Empty, Tables
  <2>3. DOMAIN Empty = 0 .. 0 - 1
    BY DEF Empty
  <2> QED BY <2>1, <2>2, <2>3, MaxTokensAssumption DEF Init, SplitTypeOK
<1>2. ListInv
  BY DEF Init, ListInv, Empty
<1>4. HandedInv
  BY DEF Init, HandedInv
<1>3. PlaceInv /\ TableInv
  BY DEF Init, PlaceInv, TableInv, NSplits
<1> QED BY <1>1, <1>2, <1>3, <1>4 DEF QInv

\* The list is counted from its first token on.
LEMMA StartKept ==
    ASSUME QInv, NEW n \in 0 .. MaxTokens, NEW list \in Lists(n),
           NEW table \in Tables, NEW ids \in Lists(n) \cup {Empty},
           ids # Empty => Handed(list, table, ids), Start(n, list, table, ids)
    PROVE  QInv'
<1> USE DEF QInv
<1>1. n \in Nat
  BY MaxTokensAssumption
<1>2. /\ size' = n /\ given' = list /\ toupdate' = list /\ transdict' = table
      /\ real' = ids
      /\ qpc' = IF n < NSplits THEN "done" ELSE "count"
      /\ i' = i /\ quart' = quart /\ qhash' = qhash /\ parts' = parts
      /\ qpc = "idle"
  BY DEF Start
<1>3. size < NSplits
  BY <1>2, MaxTokensAssumption DEF PlaceInv, SplitTypeOK, NSplits
<1>4. i' = 0 /\ quart' = 0 /\ qhash' = Empty /\ parts' = NoParts
  BY <1>2, <1>3 DEF PlaceInv, TableInv
<1>5. SplitTypeOK'
  <2>1. DOMAIN list = 0 .. n - 1
    BY DEF Lists
  <2> QED BY <1>1, <1>2, <1>4, <2>1 DEF SplitTypeOK
<1>6. ListInv'
  <2>1. list = [p \in 0 .. n - 1 |-> list[p]]
    BY DEF Lists
  <2>2. \A p \in 0 .. n - 1 : ~(p < 0)
    BY <1>1
  <2>3. toupdate' = [p \in 0 .. size' - 1 |->
                        IF p < 0 THEN Looked(given[p])' ELSE given'[p]]
    BY <1>2, <2>1, <2>2
  <2> QED BY <1>4, <2>3 DEF ListInv
<1>7. PlaceInv'
  <2>1. n >= NSplits => From(1)' \in Nat
    <3>1. n >= NSplits => QuartSize(n) \in Nat
      BY <1>1, QuartSizes
    <3> QED BY <1>2, <3>1 DEF From, NSplits
  <2> QED BY <1>1, <1>2, <1>4, <2>1 DEF PlaceInv, NSplits
<1>8. TableInv'
  <2>1. n >= NSplits => From(0)' = 0
    <3>1. n >= NSplits => QuartSize(n) \in Nat
      BY <1>1, QuartSizes
    <3> QED BY <1>2, <3>1 DEF From, NSplits
  <2>2. Counts(Translated', 0, 0) = Empty
    BY CountsNothing
  <2>3. CASE n < NSplits
    BY <1>2, <1>4, <2>3 DEF TableInv
  <2>4. CASE ~(n < NSplits)
    <3>1. qhash' = Counts(Translated', From(quart)', i')
      BY <1>1, <1>4, <2>1, <2>2, <2>4 DEF NSplits
    <3>2. \A q \in 1 .. NSplits : ~(q <= quart') /\ qpc' # "done"
      BY <1>2, <1>4, <2>4 DEF NSplits
    <3>3. parts' = [q \in 1 .. NSplits |-> Empty]
      BY <1>4 DEF NoParts
    <3>4. ~(size' < NSplits)
      BY <1>2, <2>4
    <3> QED BY <3>1, <3>2, <3>3, <3>4 DEF TableInv
  <2> QED BY <2>3, <2>4
<1>9. HandedInv'
  BY <1>2 DEF HandedInv, Handed
<1> QED BY <1>5, <1>6, <1>7, <1>8, <1>9

\* The loop leaves alone what was handed over.
LEMMA HandedKept ==
    ASSUME HandedInv, given' = given, transdict' = transdict, real' = real
    PROVE  HandedInv'
BY DEF HandedInv, Handed

\* One turn of the loop: the token is translated and counted, in the quarter
\* under way or as the first of the next.
LEMMA CountKept ==
    ASSUME QInv, CountToken
    PROVE  QInv'
<1> USE DEF QInv
<1>1. /\ qpc = "count" /\ i < size /\ i' = i + 1
      /\ toupdate' = [toupdate EXCEPT ![i] = Looked(toupdate[i])]
      /\ qpc' = qpc /\ size' = size /\ given' = given /\ transdict' = transdict
      /\ real' = real
  BY DEF CountToken
<1>11. HandedInv'
  BY <1>1, HandedKept
<1>2. size \in Nat /\ i \in 0 .. size /\ quart \in 0 .. 3
  BY MaxTokensAssumption DEF SplitTypeOK
<1>3. size >= NSplits
  BY <1>1, <1>2 DEF PlaceInv, NSplits
<1>4. /\ \A q \in 0 .. 4 : From(q) \in 0 .. size
      /\ \A q \in 1 .. 4 : From(q - 1) < From(q)
      /\ AtBoundary <=> quart < 3 /\ i = From(quart + 1)
  BY <1>3, Boundary
<1>5. Translated' = Translated /\ \A q : From(q)' = From(q)
  BY <1>1 DEF Translated, From, Looked
<1>6. toupdate[i] = given[i] /\ DOMAIN toupdate = 0 .. size - 1 /\ i \in 0 .. size - 1
  BY <1>1, <1>2 DEF ListInv
<1>7. toupdate'[i] = Translated[i]
  BY <1>1, <1>6 DEF Translated
<1>8. ListInv'
  <2>1. toupdate' = [p \in 0 .. size - 1 |->
                        IF p = i THEN Looked(given[p]) ELSE toupdate[p]]
    BY <1>1, <1>6
  <2>2. \A p \in 0 .. size - 1 :
            (IF p = i THEN Looked(given[p]) ELSE toupdate[p])
          = (IF p < i + 1 THEN Looked(given[p]) ELSE given[p])
    BY <1>2 DEF ListInv
  <2>3. toupdate' = [p \in 0 .. size - 1 |->
                        IF p < i + 1 THEN Looked(given[p]) ELSE given[p]]
    BY <2>1, <2>2
  <2> QED BY <1>1, <2>3 DEF ListInv, Looked
<1>9. CASE AtBoundary
  <2>1. /\ quart < 3 /\ i = From(quart + 1) /\ quart' = quart + 1
        /\ parts' = [parts EXCEPT ![quart + 1] = qhash]
        /\ qhash' = CountIn(Empty, Translated[i])
    BY <1>4, <1>7, <1>9 DEF CountToken
  <2>2. SplitTypeOK'
    BY <1>1, <1>2, <1>6, <2>1 DEF SplitTypeOK
  <2>3. PlaceInv'
    <3>1. quart + 2 \in 1 .. 4 /\ (quart + 2) - 1 = quart + 1 /\ quart' + 1 = quart + 2
      BY <1>2, <2>1
    <3>2. From(quart + 1) < From(quart + 2)
      <4>1. From((quart + 2) - 1) < From(quart + 2)
        BY <1>4, <3>1
      <4> QED BY <3>1, <4>1
    <3>3. From(quart + 2) \in 0 .. size /\ From(quart + 1) \in 0 .. size
      BY <1>2, <1>4, <2>1
    <3>4. From(quart') < i' /\ i' <= From(quart' + 1)
      BY <1>1, <2>1, <3>1, <3>2, <3>3
    <3>5. From(quart)' = From(quart') /\ From(quart + 1)' = From(quart' + 1)
      BY <1>5, <2>1, <1>1 DEF From
    <3> QED BY <1>1, <1>3, <3>4, <3>5 DEF PlaceInv, NSplits
  <2>4. qhash' = Counts(Translated, i, i + 1)
    <3>1. CountIn(Counts(Translated, i, i), Translated[i]) = Counts(Translated, i, i + 1)
      BY <1>2, CountsNext
    <3>2. Counts(Translated, i, i) = Empty
      BY <1>2, CountsNothing
    <3> QED BY <2>1, <3>1, <3>2
  <2>5. TableInv'
    <3>1. qhash = Counts(Translated, From(quart), i)
      BY <1>2, <1>3 DEF TableInv, NSplits
    <3>2. parts = [q \in 1 .. NSplits |->
              IF q <= quart THEN Counts(Translated, From(q - 1), From(q)) ELSE Empty]
      BY <1>1, <1>2, <1>3 DEF TableInv, NSplits
    <3>3. qhash = Counts(Translated, From((quart + 1) - 1), From(quart + 1))
      BY <1>2, <2>1, <3>1
    <3>4. parts' = [q \in 1 .. NSplits |->
              IF q <= quart + 1 THEN Counts(Translated, From(q - 1), From(q)) ELSE Empty]
      <4> DEFINE old(q) == Counts(Translated, From(q - 1), From(q))
      <4> HIDE DEF old
      <4>1. parts = [q \in 1 .. 4 |-> IF q <= quart THEN old(q) ELSE Empty]
        BY <3>2 DEF old, NSplits
      <4>2. qhash = old(quart + 1)
        BY <3>3 DEF old
      <4>3. parts' = [q \in 1 .. 4 |-> IF q = quart + 1 THEN qhash ELSE parts[q]]
        BY <2>1, <4>1
      <4>4. \A q \in 1 .. 4 :
               (IF q = quart + 1 THEN qhash ELSE parts[q])
             = (IF q <= quart + 1 THEN old(q) ELSE Empty)
        BY <1>2, <4>1, <4>2
      <4>5. parts' = [q \in 1 .. 4 |-> IF q <= quart + 1 THEN old(q) ELSE Empty]
        BY <4>3, <4>4
      <4> QED BY <4>5 DEF old, NSplits
    <3>5. quart + 1 # NSplits /\ From(quart)' = From(quart + 1) /\ From(3)' = From(3)
      BY <1>5, <2>1, <1>2 DEF NSplits
    <3>6. \A q : From(q)' = From(q) /\ From(q - 1)' = From(q - 1)
      BY <1>5
    <3>7. ~(size' < NSplits) /\ qpc' # "done"
      BY <1>1, <1>2, <1>3 DEF NSplits
    <3>8. qhash' = Counts(Translated', From(quart)', i')
      BY <1>1, <1>5, <2>4, <2>1, <3>5
    <3>9. \A q \in 1 .. NSplits :
             (IF q <= quart + 1 THEN Counts(Translated, From(q - 1), From(q)) ELSE Empty)
           = (IF q <= quart' THEN Counts(Translated', From(q - 1)', From(q)')
              ELSE IF q = NSplits /\ qpc' = "done"
                   THEN Counts(Translated', From(3)', size')
              ELSE Empty)
      BY <1>5, <2>1, <3>6, <3>7
    <3>10. parts' = [q \in 1 .. NSplits |->
              IF q <= quart' THEN Counts(Translated', From(q - 1)', From(q)')
              ELSE IF q = NSplits /\ qpc' = "done"
                   THEN Counts(Translated', From(3)', size')
              ELSE Empty]
      BY <3>4, <3>9
    <3> QED BY <3>7, <3>8, <3>10 DEF TableInv
  <2> QED BY <1>8, <1>11, <2>2, <2>3, <2>5
<1>10. CASE ~AtBoundary
  <2>1. quart' = quart /\ parts' = parts /\ qhash' = CountIn(qhash, Translated[i])
    BY <1>7, <1>10 DEF CountToken
  <2>2. SplitTypeOK'
    BY <1>1, <1>2, <1>6, <2>1 DEF SplitTypeOK
  <2>3. PlaceInv'
    <3>1. quart < 3 => From(quart + 1) \in 0 .. size
      BY <1>2, <1>4
    <3>2. quart < 3 => i + 1 <= From(quart + 1)
      BY <1>2, <1>3, <1>4, <1>10, <3>1 DEF PlaceInv
    <3>3. quart > 0 => From(quart) < i + 1
      <4>1. From(quart) \in 0 .. size
        BY <1>2, <1>4
      <4> QED BY <1>2, <1>3, <4>1 DEF PlaceInv
    <3>4. From(quart)' = From(quart) /\ From(quart + 1)' = From(quart + 1)
      BY <1>1, <2>1 DEF From
    <3> QED BY <1>1, <1>3, <2>1, <3>2, <3>3, <3>4 DEF PlaceInv, NSplits
  <2>4. TableInv'
    <3>1. From(quart) <= i /\ From(quart) \in Int
      <4>1. From(quart) \in 0 .. size
        BY <1>2, <1>4
      <4>2. quart = 0 => From(quart) = 0
        BY <1>3, Boundary
      <4> QED BY <1>2, <1>3, <4>1, <4>2 DEF PlaceInv
    <3>2. qhash = Counts(Translated, From(quart), i)
      BY <1>2, <1>3 DEF TableInv, NSplits
    <3>3. qhash' = Counts(Translated, From(quart), i + 1)
      BY <1>2, <2>1, <3>1, <3>2, CountsNext
    <3>4. parts = [q \in 1 .. NSplits |->
              IF q <= quart THEN Counts(Translated, From(q - 1), From(q)) ELSE Empty]
      BY <1>1, <1>2, <1>3 DEF TableInv, NSplits
    <3>5. From(quart)' = From(quart)
      BY <1>1, <2>1 DEF From
    <3>6. \A q : From(q)' = From(q) /\ From(q - 1)' = From(q - 1)
      BY <1>5
    <3>7. ~(size' < NSplits) /\ qpc' # "done"
      BY <1>1, <1>2, <1>3 DEF NSplits
    <3> QED BY <1>1, <1>5, <2>1, <3>3, <3>4, <3>5, <3>6, <3>7 DEF TableInv
  <2> QED BY <1>8, <1>11, <2>2, <2>3, <2>4
<1> QED BY <1>9, <1>10

\* The last quarter is what is left when the list ends (tokenize.c:450-457).
LEMMA LastKept ==
    ASSUME QInv, LastQuarter
    PROVE  QInv'
<1> USE DEF QInv
<1>1. /\ qpc = "count" /\ i = size /\ qpc' = "done"
      /\ parts' = [parts EXCEPT ![4] = qhash]
      /\ toupdate' = toupdate /\ size' = size /\ given' = given
      /\ transdict' = transdict /\ i' = i /\ quart' = quart /\ qhash' = qhash
      /\ real' = real
  BY DEF LastQuarter, NSplits
<1>8. HandedInv'
  BY <1>1, HandedKept
<1>2. size \in Nat /\ quart \in 0 .. 3 /\ size >= NSplits
  BY <1>1, MaxTokensAssumption DEF SplitTypeOK, PlaceInv, NSplits
<1>3. quart = 3
  <2>1. ASSUME quart < 3 PROVE FALSE
    <3>1. size <= From(quart + 1)
      BY <1>1, <1>2, <2>1 DEF PlaceInv
    <3>2. \A q \in 1 .. 4 : From(q - 1) < From(q)
      BY <1>2, Boundary
    <3>3. \A q \in 0 .. 4 : From(q) \in 0 .. size
      BY <1>2, Boundary
    <3>4. From((quart + 2) - 1) < From(quart + 2) /\ (quart + 2) - 1 = quart + 1
      BY <1>2, <2>1, <3>2
    <3>5. From(quart + 1) \in 0 .. size /\ From(quart + 2) \in 0 .. size
      BY <1>2, <2>1, <3>3
    <3> QED BY <1>2, <3>1, <3>4, <3>5
  <2> QED BY <1>2, <2>1
<1>4. Translated' = Translated /\ \A q : From(q)' = From(q)
  BY <1>1 DEF Translated, From, Looked
<1>5. SplitTypeOK' /\ ListInv'
  BY <1>1 DEF SplitTypeOK, ListInv, Looked
<1>6. PlaceInv'
  <2>1. From(quart)' = From(quart)
    BY <1>1 DEF From
  <2> QED BY <1>1, <1>2, <1>3, <2>1 DEF PlaceInv, NSplits
<1>7. TableInv'
  <2> DEFINE part(q) == Counts(Translated, From(q - 1), From(q))
  <2>1. qhash = Counts(Translated, From(3), size)
    BY <1>1, <1>2, <1>3 DEF TableInv, NSplits
  <2>2. parts = [q \in 1 .. 4 |-> IF q <= 3 THEN part(q) ELSE Empty]
    BY <1>1, <1>2, <1>3 DEF TableInv, NSplits
  <2>3. parts' = [q \in 1 .. 4 |-> IF q <= 3 THEN part(q) ELSE Counts(Translated, From(3), size)]
    <3> HIDE DEF part
    <3>1. parts' = [q \in 1 .. 4 |-> IF q = 4 THEN qhash ELSE parts[q]]
      BY <1>1, <2>2
    <3>2. \A q \in 1 .. 4 :
             (IF q = 4 THEN qhash ELSE parts[q])
           = (IF q <= 3 THEN part(q) ELSE Counts(Translated, From(3), size))
      BY <2>1, <2>2
    <3> QED BY <3>1, <3>2
  <2>4. \A q : From(q)' = From(q) /\ From(q - 1)' = From(q - 1)
    BY <1>4
  <2>5. qhash' = Counts(Translated', From(quart)', i')
    <3>1. From(quart)' = From(3)
      BY <1>1, <1>3 DEF From
    <3> QED BY <1>1, <1>4, <2>1, <3>1
  <2>6. \A q \in 1 .. 4 :
           (IF q <= 3 THEN part(q) ELSE Counts(Translated, From(3), size))
         = (IF q <= quart' THEN Counts(Translated', From(q - 1)', From(q)')
            ELSE IF q = 4 /\ qpc' = "done"
                 THEN Counts(Translated', From(3)', size')
            ELSE Empty)
    BY <1>1, <1>3, <1>4, <2>4
  <2>7. parts' = [q \in 1 .. 4 |->
            IF q <= quart' THEN Counts(Translated', From(q - 1)', From(q)')
            ELSE IF q = 4 /\ qpc' = "done"
                 THEN Counts(Translated', From(3)', size')
            ELSE Empty]
    BY <2>3, <2>6
  <2>8. ~(size' < 4)
    BY <1>1, <1>2 DEF NSplits
  <2> QED BY <2>5, <2>7, <2>8 DEF TableInv, NSplits
<1> QED BY <1>5, <1>6, <1>7, <1>8

LEMMA AnswerKept ==
    ASSUME Answer
    PROVE  QInv'
<1>1. /\ qpc' = "idle" /\ size' = 0 /\ given' = Empty /\ toupdate' = Empty
      /\ transdict' = Empty /\ i' = 0 /\ quart' = 0 /\ qhash' = Empty
      /\ parts' = NoParts /\ real' = Empty
  BY DEF Answer
<1>2. SplitTypeOK'
  <2>1. Empty \in Lists(0)
    BY DEF Empty, Lists
  <2>2. Empty \in Tables
    BY DEF Empty, Tables
  <2>3. DOMAIN Empty = 0 .. 0 - 1
    BY DEF Empty
  <2> QED BY <1>1, <2>1, <2>2, <2>3, MaxTokensAssumption DEF SplitTypeOK
<1>3. ListInv'
  BY <1>1 DEF ListInv, Empty
<1>4. PlaceInv' /\ TableInv'
  BY <1>1 DEF PlaceInv, TableInv, NSplits
<1>5. HandedInv'
  BY <1>1 DEF HandedInv
<1> QED BY <1>2, <1>3, <1>4, <1>5 DEF QInv

LEMMA StutterKept ==
    ASSUME QInv, UNCHANGED qvars
    PROVE  QInv'
<1> USE DEF qvars
<1>1. SplitTypeOK' /\ ListInv'
  BY DEF QInv, SplitTypeOK, ListInv, Looked
<1>2. PlaceInv'
  BY DEF QInv, PlaceInv, From
<1>3. TableInv'
  BY DEF QInv, TableInv, From, Translated, Looked
<1>4. HandedInv'
  BY HandedKept DEF QInv
<1> QED BY <1>1, <1>2, <1>3, <1>4 DEF QInv

\* Every step of the loop and around it keeps QInv.
THEOREM Invariance == Spec => []QInv
<1>1. Init => QInv
  BY Initially
<1>2. QInv /\ [Next]_qvars => QInv'
  <2> SUFFICES ASSUME QInv, [Next]_qvars PROVE QInv'
    OBVIOUS
  <2>1. CASE \E n \in 0 .. MaxTokens :
                \E list \in Lists(n), table \in Tables, ids \in Lists(n) \cup {Empty} :
                    /\ ids # Empty => Handed(list, table, ids)
                    /\ Start(n, list, table, ids)
    BY <2>1, StartKept
  <2>2. CASE Split
    BY <2>2, CountKept, LastKept DEF Split
  <2>3. CASE Answer
    BY <2>3, AnswerKept
  <2>4. CASE UNCHANGED qvars
    BY <2>4, StutterKept
  <2> QED BY <2>1, <2>2, <2>3, <2>4 DEF Next
<1> QED BY <1>1, <1>2, PTL DEF Spec

------------------------------------------------------------------------------
(***************************************************************************)
(* The properties                                                          *)
(***************************************************************************)
\* The loop's variables are of their types, and the token looked at is in the
\* list or just behind it (tokenize.c:383).
THEOREM TypeCorrect == Spec => []SplitTypeOK
<1>1. QInv => SplitTypeOK
  BY DEF QInv
<1> QED BY <1>1, Invariance, PTL

\* At the end three quarters were put aside, and all four are as they should be.
LEMMA AtEnd ==
    ASSUME QInv, qpc = "done", size >= NSplits
    PROVE  /\ toupdate = Translated
           /\ \A q \in 1 .. NSplits :
                  /\ parts[q] = Counts(Translated, From(q - 1), From(q))
                  /\ From(q - 1) < From(q)
                  /\ From(q - 1) \in 0 .. size /\ From(q) \in 0 .. size
<1> USE DEF QInv
<1>1. size \in Nat /\ quart \in 0 .. 3 /\ i = size
  BY MaxTokensAssumption DEF SplitTypeOK, PlaceInv, NSplits
<1>2. /\ \A q \in 0 .. 4 : From(q) \in 0 .. size
      /\ \A q \in 1 .. 4 : From(q - 1) < From(q)
  BY Boundary
<1>3. quart = 3
  <2>1. ASSUME quart < 3 PROVE FALSE
    <3>1. size <= From(quart + 1)
      BY <1>1, <2>1 DEF PlaceInv
    <3>2. From((quart + 2) - 1) < From(quart + 2) /\ (quart + 2) - 1 = quart + 1
      BY <1>1, <1>2, <2>1
    <3>3. From(quart + 1) \in 0 .. size /\ From(quart + 2) \in 0 .. size
      BY <1>1, <1>2, <2>1
    <3> QED BY <1>1, <3>1, <3>2, <3>3
  <2> QED BY <1>1, <2>1
<1>4. toupdate = Translated
  <2>1. \A p \in 0 .. size - 1 : p < i
    BY <1>1
  <2>2. toupdate = [p \in 0 .. size - 1 |-> Looked(given[p])]
    BY <2>1 DEF ListInv
  <2> QED BY <2>2 DEF Translated
<1>5. \A q \in 1 .. 4 : parts[q] = Counts(Translated, From(q - 1), From(q))
  <2>1. parts = [q \in 1 .. 4 |->
                IF q <= 3 THEN Counts(Translated, From(q - 1), From(q))
                ELSE IF q = 4 THEN Counts(Translated, From(3), size)
                ELSE Empty]
    BY <1>1, <1>3 DEF TableInv, NSplits
  <2>2. From(4) = size /\ 4 - 1 = 3
    BY DEF From, NSplits
  <2>3. parts[4] = Counts(Translated, From(4 - 1), From(4))
    BY <2>1, <2>2
  <2> QED BY <2>1, <2>3
<1>6. \A q \in 1 .. 4 : From(q - 1) \in 0 .. size /\ From(q) \in 0 .. size
  BY <1>1, <1>2
<1> QED BY <1>2, <1>4, <1>5, <1>6 DEF NSplits

\* All four pointers of the answer are set, whatever the length.
THEOREM AllMade == Spec => []AllQuartersMade
<1>1. QInv => AllQuartersMade
  <2> SUFFICES ASSUME QInv, qpc = "done", size >= NSplits, NEW q \in 1 .. NSplits
               PROVE  parts[q] # Empty
    BY DEF AllQuartersMade
  <2>1. /\ parts[q] = Counts(Translated, From(q - 1), From(q))
        /\ From(q - 1) < From(q) /\ From(q - 1) \in 0 .. size /\ From(q) \in 0 .. size
    BY AtEnd
  <2>2. From(q - 1) \in Int /\ From(q) \in Int
    BY <2>1, MaxTokensAssumption DEF QInv, SplitTypeOK
  <2> QED BY <2>1, <2>2, CountsSomething
<1> QED BY <1>1, Invariance, PTL

\* Each token is counted once, in its quarter, and the quarters are even.
THEOREM SplitCorrect == Spec => []QuartersSplit
<1>1. QInv => QuartersSplit
  <2> SUFFICES ASSUME QInv, qpc = "done", size >= NSplits PROVE QuartersSplit
    BY DEF QuartersSplit
  <2>1. \A q \in 1 .. NSplits : parts[q] = Counts(toupdate, From(q - 1), From(q))
    BY AtEnd
  <2>2. ASSUME NEW q \in 1 .. NSplits, NEW r \in 1 .. NSplits
        PROVE  (From(q) - From(q - 1)) - (From(r) - From(r - 1)) <= 2
    <3> DEFINE Q == QuartSize(size)
    <3>1. size \in Nat
      BY MaxTokensAssumption DEF QInv, SplitTypeOK
    <3>2. Q \in Nat \ {0} /\ size - 4 * Q \in -1 .. 2
      BY <3>1, QuartSizes
    <3>3. \A p : From(p) = IF p = 4 THEN size ELSE p * Q
      BY DEF From, NSplits
    <3> HIDE DEF Q
    <3>4. ASSUME NEW p \in 1 .. 4
          PROVE  From(p) - From(p - 1) = IF p = 4 THEN size - 3 * Q ELSE Q
      BY <3>1, <3>2, <3>3
    <3>5. size - 3 * Q \in Q - 1 .. Q + 2
      BY <3>1, <3>2
    <3>6. q \in 1 .. 4 /\ r \in 1 .. 4
      BY DEF NSplits
    <3>7. /\ From(q) - From(q - 1) = (IF q = 4 THEN size - 3 * Q ELSE Q)
          /\ From(r) - From(r - 1) = (IF r = 4 THEN size - 3 * Q ELSE Q)
      BY <3>4, <3>6
    <3> QED BY <3>2, <3>5, <3>7
  <2> QED BY <2>1, <2>2 DEF QuartersSplit
<1> QED BY <1>1, Invariance, PTL

\* Unless two words were given the same id, or a translation crosses a byte's border,
\* the answer is right: the table translates a token's id into the token's real id,
\* for the word that the table has it from is the token's.
THEOREM RightUnlessClashOrBorder == Spec => []QuartersRightUnlessClashOrBorder
<1>1. QInv => QuartersRightUnlessClashOrBorder
  <2> SUFFICES ASSUME QInv, NoBorder, NoClash, qpc = "done", size >= NSplits,
                      real # Empty, NEW q \in 1 .. NSplits
               PROVE  parts[q] = Counts(real, From(q - 1), From(q))
    BY DEF QuartersRightUnlessClashOrBorder, QuartersRightUnlessClash, QuartersRight
  <2>1. parts[q] = Counts(Translated, From(q - 1), From(q))
    BY AtEnd
  <2>2. ASSUME NEW x \in DOMAIN transdict
        PROVE  Looked(x) = transdict[x]
    <3>1. PICK S \in SUBSET Id : transdict \in [S -> Id]
      BY DEF QInv, SplitTypeOK, Tables
    <3>2. x \in Nat /\ transdict[x] \in Nat
      BY <3>1, MaxIdAssumption DEF Id
    <3> QED BY <3>2, StoredRight DEF NoBorder, Looked
  <2>3. Handed(given, transdict, real) /\ DOMAIN given = 0 .. size - 1
    BY DEF QInv, HandedInv, SplitTypeOK, Lists
  <2>4. ASSUME NEW p \in 0 .. size - 1
        PROVE  Looked(given[p]) = real[p]
    <3>1. CASE given[p] \notin DOMAIN transdict
      BY <2>3, <3>1 DEF Handed, Looked
    <3>2. CASE given[p] \in DOMAIN transdict
      <4>1. PICK o \in 0 .. size - 1 : given[o] = given[p] /\ real[o] = transdict[given[p]]
        BY <2>3, <3>2 DEF Handed
      <4>2. real[o] = real[p]
        BY <4>1 DEF NoClash
      <4> QED BY <2>2, <3>2, <4>1, <4>2
    <3> QED BY <3>1, <3>2
  <2>5. Translated = real
    <3>1. real = [p \in 0 .. size - 1 |-> real[p]]
      BY DEF QInv, SplitTypeOK, Lists
    <3> QED BY <2>4, <3>1 DEF Translated
  <2> QED BY <2>1, <2>5
<1> QED BY <1>1, Invariance, PTL
==============================================================================
