-------------------------- MODULE VocabularyProofs ---------------------------
(***************************************************************************)
(* The safety properties of Vocabulary, for any finite set of words, any   *)
(* set of threads and any of the faults.                                   *)
(***************************************************************************)
EXTENDS Vocabulary, FiniteSetTheorems, TLAPS

\* The number of words is a number (hhash_Size).
LEMMA SizeType == Size \in Nat /\ IsFiniteSet(Known)
<1>1. Known \in SUBSET Word
  BY DEF Known
<1>2. IsFiniteSet(Known)
  BY <1>1, WordAssumption, FS_Subset
<1>. QED
  BY <1>2, FS_CardinalityType DEF Size

\* The provisional ids are numbers from the size on.
LEMMA IdRange ==
    ASSUME NEW S \in SUBSET Word, NEW n \in Nat, NEW f \in Numberings(S, n), NEW w \in S
    PROVE  f[w] \in Nat /\ f[w] >= n
<1>1. Cardinality(S) \in Nat
  BY WordAssumption, FS_Subset, FS_CardinalityType
<1>. QED
  BY <1>1 DEF Numberings

Inv1 == Typed /\ LockInv /\ WordInv /\ LookupInv

\* The server opens a dictionary unlocked and empty of requests.
LEMMA Inv1Init == Init => Inv1
BY ThreadAssumption, NoWordAssumption
DEF Init, Inv1, Typed, LockInv, WordInv, LookupInv, IdOrNone, NoId, Label,
    WriteSection, Empty

\* Types, the lock, and where the new words and their provisional ids are.
LEMMA Inv1Step == Inv1 /\ [Next]_vars => Inv1'
<1>. SUFFICES ASSUME Inv1, [Next]_vars
              PROVE  Inv1'
  OBVIOUS
<1>. USE DEF Inv1, Typed, Goto, tables, lock, request, lookup, batch
<1>1. ASSUME NEW t \in Thread, NEW S \in (SUBSET Word) \ {{}}, NEW u \in BOOLEAN,
             Request(t, S, u)
      PROVE  Inv1'
  <2>. USE <1>1 DEF Request
  <2>1. Typed'
    BY DEF Label
  <2>2. LockInv'
    BY DEF LockInv, WriteSection
  <2>3. WordInv'
    BY DEF WordInv
  <2>4. LookupInv'
    BY DEF LookupInv, WriteSection
  <2>. QED BY <2>1, <2>2, <2>3, <2>4
<1>2. ASSUME NEW t \in Thread, ReadSize(t)
      PROVE  Inv1'
  <2>. USE <1>2 DEF ReadSize
  <2>1. Typed'
    BY SizeType DEF Label
  <2>2. LockInv'
    BY DEF LockInv, WriteSection
  <2>3. WordInv'
    BY DEF WordInv
  <2>4. LookupInv'
    BY DEF LookupInv, WriteSection
  <2>. QED BY <2>1, <2>2, <2>3, <2>4
<1>3. ASSUME NEW t \in Thread, RdLock(t)
      PROVE  Inv1'
  <2>. USE <1>3 DEF RdLock
  <2>1. Typed'
    BY DEF Label
  <2>2. LockInv'
    BY DEF LockInv, WriteSection
  <2>3. WordInv'
    BY DEF WordInv
  <2>4. LookupInv'
    BY DEF LookupInv, WriteSection
  <2>. QED BY <2>1, <2>2, <2>3, <2>4
<1>4. ASSUME NEW t \in Thread, IdTerms(t)
      PROVE  Inv1'
  <2>. USE <1>4 DEF IdTerms
  <2>1. Typed'
    <3>1. pc' \in [Thread -> Label]
      BY DEF Label
    <3>2. newwords' \in [Thread -> SUBSET Word]
      OBVIOUS
    <3>3. ids' \in [Thread -> [Word -> IdOrNone]]
      <4>1. CASE update[t]
        <5>1. PICK number \in Numberings(terms[t] \ Known, nodictn[t]) :
                ids' = [ids EXCEPT ![t] =
                          [w \in Word |-> IF w \in terms[t] \ Known THEN number[w]
                                          ELSE IF w \in terms[t] THEN dict[w]
                                          ELSE NoId]]
          BY <4>1
        <5>2. \A w \in terms[t] \ Known : number[w] \in Nat
          BY IdRange
        <5>. QED BY <5>1, <5>2 DEF IdOrNone
      <4>2. CASE ~update[t]
        <5>1. ids' = [ids EXCEPT ![t] =
                        [w \in Word |-> IF w \in terms[t] THEN dict[w] ELSE NoId]]
          BY <4>2
        <5>. QED BY <5>1 DEF IdOrNone
      <4>. QED BY <4>1, <4>2
    <3>. QED BY <3>1, <3>2, <3>3
  <2>2. LockInv'
    BY DEF LockInv, WriteSection
  <2>3. WordInv'
    BY DEF WordInv
  <2>4. LookupInv'
    <3>. SUFFICES ASSUME NEW x \in Thread
                  PROVE  LookupInv!(x)'
      BY DEF LookupInv
    <3>1. CASE x # t
      BY <3>1 DEF LookupInv, WriteSection
    <3>2. CASE x = t /\ pc'[t] = "done"
      BY <3>2 DEF LookupInv, WriteSection
    <3>3. CASE x = t /\ pc'[t] = "wrlock"
      <4>1. update[t] /\ newwords'[t] = terms[t] \ Known
        BY <3>3 
      <4>2. PICK number \in Numberings(terms[t] \ Known, nodictn[t]) :
              ids' = [ids EXCEPT ![t] =
                        [w \in Word |-> IF w \in terms[t] \ Known THEN number[w]
                                        ELSE IF w \in terms[t] THEN dict[w]
                                        ELSE NoId]]
        BY <4>1
      <4>3. \A w \in newwords'[t] : ids'[t][w] = number[w] /\ number[w] >= nodictn[t]
        BY <4>1, <4>2, IdRange
      <4>4. \A v, w \in newwords'[t] : number[v] = number[w] => v = w
        BY <4>1 DEF Numberings
      <4>5. \A v, w \in newwords'[t] : ids'[t][v] = ids'[t][w] => v = w
        BY <4>3, <4>4
      <4>6. update'[t] /\ terms' = terms /\ nodictn' = nodictn
        BY <4>1
      <4>7. newwords'[t] \subseteq terms'[t]
        BY <4>1, <4>6
      <4>. QED BY <3>3, <4>3, <4>5, <4>6, <4>7 DEF LookupInv, WriteSection
    <3>. QED BY <3>1, <3>2, <3>3
  <2>. QED BY <2>1, <2>2, <2>3, <2>4
<1>5. ASSUME NEW t \in Thread, WrLock(t)
      PROVE  Inv1'
  <2>. USE <1>5 DEF WrLock, StartUpdate
  <2>1. Typed'
    <3>1. pc' \in [Thread -> Label] /\ transdict'[t] = Empty
      BY DEF Label
    <3>. QED BY <3>1, SizeType DEF Empty
  <2>2. LockInv'
    BY ThreadAssumption DEF LockInv, WriteSection
  <2>3. WordInv'
    BY DEF WordInv
  <2>4. LookupInv'
    BY DEF LookupInv, WriteSection
  <2>. QED BY <2>1, <2>2, <2>3, <2>4
<1>6. ASSUME NEW t \in Thread, WriteJournal(t)
      PROVE  Inv1'
  <2>. USE <1>6 DEF WriteJournal
  <2>1. Typed'
    BY DEF Label
  <2>2. LockInv'
    BY DEF LockInv, WriteSection
  <2>3. WordInv'
    BY DEF WordInv
  <2>4. LookupInv'
    BY DEF LookupInv, WriteSection
  <2>. QED BY <2>1, <2>2, <2>3, <2>4
<1>7. ASSUME NEW t \in Thread, InsertDict(t)
      PROVE  Inv1'
  <2>. USE <1>7 DEF InsertDict, PutDict
  <2>1. Typed'
    BY DEF Label, IdOrNone
  <2>2. LockInv'
    BY DEF LockInv, WriteSection
  <2>3. WordInv'
    BY DEF WordInv
  <2>4. LookupInv'
    BY DEF LookupInv, WriteSection
  <2>. QED BY <2>1, <2>2, <2>3, <2>4
<1>8. ASSUME NEW t \in Thread, InsertDelta(t)
      PROVE  Inv1'
  <2>. USE <1>8 DEF InsertDelta
  <2>1. Typed'
    BY DEF Label, IdOrNone
  <2>2. LockInv'
    BY DEF LockInv, WriteSection
  <2>3. WordInv'
    BY DEF WordInv
  <2>4. LookupInv'
    BY DEF LookupInv, WriteSection
  <2>. QED BY <2>1, <2>2, <2>3, <2>4
<1>9. ASSUME NEW t \in Thread, InsertRdict(t)
      PROVE  Inv1'
  <2>. USE <1>9 DEF InsertRdict, FinishInsertion
  <2>1. Typed'
    <3>1. word[t] \in keyslist[t] /\ keyslist[t] \subseteq newwords[t]
      BY DEF WordInv, LookupInv, WriteSection
    <3>2. ids[t][word[t]] \in Nat
      BY <3>1 DEF LookupInv, WriteSection, IdOrNone, NoId
    <3>3. pc' \in [Thread -> Label]
      BY DEF Label
    <3>4. rdict' \subseteq Nat \X Word
      BY <3>1
    <3>5. /\ DOMAIN transdict'[t] \subseteq Nat
          /\ transdict'[t] \in [DOMAIN transdict'[t] -> Nat]
      BY <3>2 DEF Record
    <3>6. nwords' \in [Thread -> Nat]
      OBVIOUS
    <3>. QED BY <3>3, <3>4, <3>5, <3>6
  <2>2. LockInv'
    BY DEF LockInv, WriteSection
  <2>3. WordInv'
    BY DEF WordInv
  <2>4. LookupInv'
    BY DEF LookupInv, WriteSection
  <2>. QED BY <2>1, <2>2, <2>3, <2>4
<1>10. ASSUME NEW t \in Thread, SkipExisting(t)
      PROVE  Inv1'
  <2>. USE <1>10 DEF SkipExisting
  <2>1. Typed'
    <3>1. PICK w \in keyslist[t] :
            /\ dict[w] # NoId
            /\ transdict' = [transdict EXCEPT ![t] = Record(@, ids[t][w], dict[w])]
            /\ keyslist' = [keyslist EXCEPT ![t] = @ \ {w}]
      OBVIOUS
    <3>2. ids[t][w] \in Nat /\ dict[w] \in Nat
      BY <3>1 DEF LookupInv, WriteSection, IdOrNone, NoId
    <3>3. /\ DOMAIN transdict'[t] \subseteq Nat
          /\ transdict'[t] \in [DOMAIN transdict'[t] -> Nat]
      BY <3>1, <3>2 DEF Record
    <3>. QED BY <3>1, <3>3
  <2>2. LockInv'
    BY DEF LockInv, WriteSection
  <2>3. WordInv'
    BY DEF WordInv
  <2>4. LookupInv'
    BY DEF LookupInv, WriteSection
  <2>. QED BY <2>1, <2>2, <2>3, <2>4
<1>11. ASSUME NEW t \in Thread, Unlock(t)
      PROVE  Inv1'
  <2>. USE <1>11 DEF Unlock, FinishUpdate
  <2>1. Typed'
    BY DEF Label, IdOrNone, NoId, Translated
  <2>2. LockInv'
    BY ThreadAssumption DEF LockInv, WriteSection
  <2>3. WordInv'
    BY DEF WordInv
  <2>4. LookupInv'
    BY DEF LookupInv, WriteSection
  <2>. QED BY <2>1, <2>2, <2>3, <2>4
<1>12. ASSUME NEW t \in Thread, AnswerUntranslated(t)
      PROVE  Inv1'
  <2>. USE <1>12 DEF AnswerUntranslated
  <2>1. Typed'
    BY DEF Label
  <2>2. LockInv'
    BY DEF LockInv, WriteSection
  <2>3. WordInv'
    BY DEF WordInv
  <2>4. LookupInv'
    BY DEF LookupInv, WriteSection
  <2>. QED BY <2>1, <2>2, <2>3, <2>4
<1>13. ASSUME NEW t \in Thread, Reply(t)
      PROVE  Inv1'
  <2>. USE <1>13 DEF Reply
  <2>1. Typed'
    <3>1. pc' \in [Thread -> Label] /\ transdict'[t] = Empty
      BY DEF Label
    <3>. QED BY <3>1 DEF Empty, IdOrNone
  <2>2. LockInv'
    BY DEF LockInv, WriteSection
  <2>3. WordInv'
    BY DEF WordInv
  <2>4. LookupInv'
    BY DEF LookupInv, WriteSection
  <2>. QED BY <2>1, <2>2, <2>3, <2>4
<1>14. ASSUME NEW t \in Thread, JournalFails(t)
      PROVE  Inv1'
  <2>. USE <1>14 DEF JournalFails
  <2>1. Typed'
    BY DEF Label
  <2>2. LockInv'
    BY DEF LockInv, WriteSection
  <2>3. WordInv'
    BY DEF WordInv
  <2>4. LookupInv'
    BY DEF LookupInv, WriteSection
  <2>. QED BY <2>1, <2>2, <2>3, <2>4
<1>15. ASSUME NEW t \in Thread, InsertFails(t)
      PROVE  Inv1'
  <2>. USE <1>15 DEF InsertFails
  <2>1. Typed'
    BY DEF Label
  <2>2. LockInv'
    BY DEF LockInv, WriteSection
  <2>3. WordInv'
    BY DEF WordInv
  <2>4. LookupInv'
    BY DEF LookupInv, WriteSection
  <2>. QED BY <2>1, <2>2, <2>3, <2>4
<1>16. CASE UNCHANGED vars
  BY <1>16 DEF vars, LockInv, WordInv, LookupInv
<1>. HIDE DEF Inv1, Typed, Goto, tables, lock, request, lookup, batch
<1>. QED
  BY <1>1, <1>2, <1>3, <1>4, <1>5, <1>6, <1>7, <1>8, <1>9, <1>10, <1>11, <1>12, <1>13, <1>14, <1>15, <1>16 DEF Next, Step


\* Types, lock ownership, the word being inserted and the provisional ids of
\* idterms are right in every reachable state.
THEOREM Inv1Always == Spec => []Inv1
BY Inv1Init, Inv1Step, PTL DEF Spec

\* Every value in every table and thread record has its type.
THEOREM TypeCorrect == Spec => []TypeOK
<1>1. Init => TypeOK
  BY Inv1Init DEF Init, Inv1, TypeOK
<1>2. Inv1 /\ Inv1' /\ TypeOK /\ [Next]_vars => TypeOK'
  <2>. SUFFICES ASSUME Inv1', TypeOK, [Next]_vars PROVE TypeOK'
    OBVIOUS
  <2>1. Typed'
    BY DEF Inv1
  <2>2. ASSUME NEW t \in Thread, Step(t) PROVE readers' \subseteq readers \cup {t}
    BY <2>2 DEF Step, ReadSize, RdLock, IdTerms, WrLock, StartUpdate, WriteJournal,
       InsertDict, PutDict, InsertDelta, InsertRdict, FinishInsertion, SkipExisting,
       Unlock, FinishUpdate, AnswerUntranslated, Reply, lock
  <2>3. readers' \subseteq Thread
    BY <2>2 DEF TypeOK, Next, Request, JournalFails, InsertFails, vars, lock
  <2>. QED BY <2>1, <2>3 DEF TypeOK
<1>. QED
  BY <1>1, <1>2, Inv1Always, PTL DEF Spec

------------------------------------------------------------------------------
\* Only the insertion of a missing word changes the dictionary.
LEMMA DictSteps ==
    ASSUME [Next]_vars
    PROVE  dict' = dict \/ \E t \in Thread : InsertDict(t)
<1>1. ASSUME NEW t \in Thread, Step(t), ~InsertDict(t)
      PROVE  dict' = dict
  BY <1>1 DEF Step, ReadSize, RdLock, IdTerms, WrLock, StartUpdate, WriteJournal,
     InsertDelta, InsertRdict, FinishInsertion, SkipExisting, Unlock, FinishUpdate,
     AnswerUntranslated, Reply, tables
<1>. QED
  BY <1>1 DEF Next, Request, JournalFails, InsertFails, vars, tables

\* One more word, with the old size as its id.
LEMMA InsertDictEffect ==
    ASSUME Inv1, CounterInv, NEW t \in Thread, InsertDict(t)
    PROVE  \E w \in keyslist[t] :
             /\ w \in Word \ Known
             /\ dict' = [dict EXCEPT ![w] = Size]
             /\ word' = [word EXCEPT ![t] = w]
             /\ Known' = Known \cup {w}
             /\ Size' = Size + 1
<1>1. PICK w \in keyslist[t] : dict[w] = NoId /\ PutDict(t, w)
  BY DEF InsertDict
<1>2. w \in Word \ Known /\ nwords[t] = Size
  BY <1>1 DEF PutDict, Inv1, Typed, Known, CounterInv
<1>3. dict' = [dict EXCEPT ![w] = Size] /\ word' = [word EXCEPT ![t] = w]
  BY <1>1, <1>2 DEF PutDict
<1>4. Known' = Known \cup {w}
  BY <1>2, <1>3, SizeType DEF Known, Inv1, Typed, NoId
<1>5. Size' = Size + 1
  BY <1>2, <1>4, SizeType, FS_AddElement DEF Size
<1>. QED
  BY <1>2, <1>3, <1>4, <1>5

Inv2 == DenseIds /\ CounterInv

\* An empty dictionary has dense ids.
LEMMA Inv2Init == Init => Inv2
<1>. SUFFICES ASSUME Init PROVE Inv2
  OBVIOUS
<1>1. Known = {}
  BY DEF Init, Known
<1>2. Size = 0
  BY <1>1, FS_EmptySet DEF Size
<1>. QED
  BY <1>1, <1>2 DEF Inv2, DenseIds, CounterInv, Init

\* No step of a request makes a hole in the ids or gives one twice: only hhash_Put
\* (tokenize.c:583) adds an id, and it adds the number of words.
LEMMA DenseStep ==
    ASSUME Inv1, Inv2, [Next]_vars
    PROVE  DenseIds'
<1>1. CASE dict' = dict
  BY <1>1 DEF Inv2, DenseIds, Known, Size
<1>2. ASSUME NEW t \in Thread, InsertDict(t)
      PROVE  DenseIds'
  <2>1. PICK w \in keyslist[t] :
             /\ w \in Word \ Known
             /\ dict' = [dict EXCEPT ![w] = Size]
             /\ Known' = Known \cup {w}
             /\ Size' = Size + 1
    BY <1>2, InsertDictEffect DEF Inv2
  <2>2. dict'[w] = Size /\ \A v \in Known : dict'[v] = dict[v] /\ dict[v] \in 0 .. Size - 1
    BY <2>1 DEF Inv1, Typed, Inv2, DenseIds, Known
  <2>3. \A u, v \in Known' : dict'[u] = dict'[v] => u = v
    BY <2>1, <2>2, SizeType DEF Inv2, DenseIds
  <2>4. {dict'[v] : v \in Known'} = {dict[v] : v \in Known} \cup {Size}
    BY <2>1, <2>2
  <2>5. {dict'[v] : v \in Known'} = 0 .. Size' - 1
    BY <2>1, <2>4, SizeType DEF Inv2, DenseIds
  <2>. QED BY <2>3, <2>5 DEF DenseIds
<1>. QED
  BY <1>1, <1>2, DictSteps

\* The thread inside update_dict is the only one there.
LEMMA OneWriter ==
    ASSUME LockInv, NEW t \in Thread, NEW x \in Thread,
           pc[t] \in WriteSection, pc[x] \in WriteSection
    PROVE  x = t
BY DEF LockInv

\* update_dict's counter stays the number of words: the lock keeps other writers
\* out, and hhash_Put and the increment (tokenize.c:583, 592) keep in step.
LEMMA CounterStep ==
    ASSUME Inv1, Inv2, [Next]_vars
    PROVE  CounterInv'
<1>. USE DEF CounterInv, Goto
<1>. Typed /\ LockInv /\ WordInv /\ LookupInv /\ CounterInv
  BY DEF Inv1, Inv2
<1>1. ASSUME NEW t \in Thread, InsertDict(t)
      PROVE  CounterInv'
  <2>1. PICK w \in keyslist[t] :
             /\ w \in Word \ Known
             /\ dict' = [dict EXCEPT ![w] = Size]
             /\ word' = [word EXCEPT ![t] = w]
             /\ Size' = Size + 1
    BY <1>1, InsertDictEffect DEF Inv2
  <2>2. /\ pc[t] = "insert" /\ pc' = [pc EXCEPT ![t] = "delta"]
        /\ nwords' = nwords
    BY <1>1 DEF InsertDict, PutDict
  <2>3. dict'[word'[t]] = nwords'[t] /\ Size' = nwords'[t] + 1
    BY <2>1, <2>2 DEF Typed
  <2>4. \A x \in Thread \ {t} : pc'[x] \notin WriteSection
    BY <2>2 DEF LockInv, WriteSection, Typed
  <2>. QED BY <2>2, <2>3, <2>4 DEF WriteSection, Typed
<1>2. ASSUME NEW t \in Thread, WrLock(t)
      PROVE  CounterInv'
  <2>1. nwords' = [nwords EXCEPT ![t] = Size] /\ pc' = [pc EXCEPT ![t] = "journal"]
    BY <1>2 DEF WrLock, StartUpdate
  <2>2. Size' = Size
    BY <1>2 DEF WrLock, StartUpdate, tables, Size, Known
  <2>3. \A x \in Thread \ {t} : pc'[x] \notin WriteSection
    BY <1>2, <2>1, ThreadAssumption DEF WrLock, LockInv, Typed
  <2>. QED BY <2>1, <2>2, <2>3 DEF Typed, WriteSection
<1>3. ASSUME NEW t \in Thread, InsertRdict(t)
      PROVE  CounterInv'
  <2>1. /\ pc[t] = "rdict" /\ pc' = [pc EXCEPT ![t] = "insert"]
        /\ nwords' = [nwords EXCEPT ![t] = @ + 1]
    BY <1>3 DEF InsertRdict, FinishInsertion
  <2>2. Size' = Size
    BY <1>3 DEF InsertRdict, FinishInsertion, Size, Known
  <2>3. \A x \in Thread \ {t} : pc'[x] \notin WriteSection
    BY <2>1 DEF LockInv, WriteSection, Typed
  <2>. QED BY <2>1, <2>2, <2>3 DEF Typed, WriteSection
<1>4. ASSUME NEW t \in Thread, NEW label,
             pc' = [pc EXCEPT ![t] = label], label # "delta", label # "rdict",
             label \in {"journal", "insert"} => pc[t] \in {"journal", "insert"},
             dict' = dict, nwords' = nwords, word' = word
      PROVE  CounterInv'
  BY <1>4 DEF Typed, Size, Known
<1>5. ASSUME NEW t \in Thread, InsertDelta(t)
      PROVE  CounterInv'
  BY <1>5 DEF InsertDelta, Typed, Size, Known, batch
<1>6. ASSUME NEW t \in Thread, Reply(t)
      PROVE  CounterInv'
  BY <1>6 DEF Reply, Typed, Size, Known, tables
<1>7. ASSUME NEW t \in Thread, SkipExisting(t)
      PROVE  CounterInv'
  BY <1>7 DEF SkipExisting, Typed, Size, Known, tables
<1>8. ASSUME NEW t \in Thread, ReadSize(t) \/ RdLock(t) \/ IdTerms(t) \/ Unlock(t)
      PROVE  CounterInv'
  <2>1. /\ \E label \in {"rdlock", "lookup", "wrlock", "done"} : pc' = [pc EXCEPT ![t] = label]
        /\ dict' = dict /\ nwords' = nwords /\ word' = word
    BY <1>8 DEF ReadSize, RdLock, IdTerms, Unlock, FinishUpdate, tables, batch
  <2>. QED BY <2>1, <1>4
<1>9. ASSUME NEW t \in Thread, WriteJournal(t) \/ AnswerUntranslated(t)
                               \/ JournalFails(t) \/ InsertFails(t)
      PROVE  CounterInv'
  <2>1. /\ \E label \in {"insert", "failed", "gone"} :
              /\ pc' = [pc EXCEPT ![t] = label]
              /\ label = "insert" => pc[t] = "journal"
        /\ dict' = dict /\ nwords' = nwords /\ word' = word
    BY <1>9 DEF WriteJournal, AnswerUntranslated, JournalFails, InsertFails, tables, batch
  <2>. QED BY <2>1, <1>4
<1>10. ASSUME NEW t \in Thread, NEW S, NEW u, Request(t, S, u)
       PROVE  CounterInv'
  <2>1. /\ pc' = [pc EXCEPT ![t] = "size"]
        /\ dict' = dict /\ nwords' = nwords /\ word' = word
    BY <1>10 DEF Request, tables, batch
  <2>. QED BY <2>1, <1>4
<1>11. CASE UNCHANGED vars
  BY <1>11 DEF vars, tables, batch, Size, Known
<1>. HIDE DEF CounterInv, Goto
<1>. QED
  BY <1>1, <1>2, <1>3, <1>5, <1>6, <1>7, <1>8, <1>9, <1>10, <1>11 DEF Next, Step

\* Dense ids and the writer's counter, together, always hold.
THEOREM Inv2Always == Spec => []Inv2
<1>1. Inv1 /\ Inv1' /\ Inv2 /\ [Next]_vars => Inv2'
  BY DenseStep, CounterStep DEF Inv2
<1>. QED
  BY <1>1, Inv1Always, Inv2Init, PTL DEF Spec

\* The ids in use are 0 .. Size-1, each given to one word, whatever fails.
THEOREM IdsDense == Spec => []DenseIds
<1>1. Inv2 => DenseIds
  BY DEF Inv2
<1>. QED
  BY <1>1, Inv2Always, PTL

\* No step takes an id away from a word or gives it another one.
THEOREM IdsStable == Spec => StableIds
<1>1. Inv1 /\ Inv2 /\ [Next]_vars => [\A w \in Known : dict'[w] = dict[w]]_vars
  <2>. SUFFICES ASSUME Inv1, Inv2, [Next]_vars, NEW w \in Known
                PROVE  dict'[w] = dict[w]
    OBVIOUS
  <2>1. ASSUME NEW t \in Thread, InsertDict(t)
        PROVE  dict'[w] = dict[w]
    BY <2>1, InsertDictEffect DEF Inv2, Inv1, Typed, Known
  <2>. QED BY <2>1, DictSteps
<1>. QED
  BY <1>1, Inv1Always, Inv2Always, PTL DEF Spec, StableIds

------------------------------------------------------------------------------
(***************************************************************************)
(* The reverse dictionary.                                                 *)
(***************************************************************************)
LEMMA ReverseInit == Init => ReverseInv
BY DEF Init, ReverseInv, Known

\* No step of a request makes rdict disagree with dict, but for the word whose
\* insertion is under way (tokenize.c:583-588).
LEMMA ReverseStep ==
    ASSUME Inv1, Inv2, ReverseInv, [Next]_vars
    PROVE  ReverseInv'
<1>. Typed /\ LockInv /\ WordInv /\ CounterInv
  BY DEF Inv1, Inv2
<1>1. ASSUME dict' = dict, rdict' = rdict, word' = word
      PROVE  ReverseInv'
  BY <1>1 DEF ReverseInv, Known, Inserting
<1>2. ASSUME NEW t \in Thread, InsertDict(t)
      PROVE  ReverseInv'
  <2>1. PICK w \in keyslist[t] :
             /\ w \in Word \ Known
             /\ dict' = [dict EXCEPT ![w] = Size]
             /\ word' = [word EXCEPT ![t] = w]
             /\ Known' = Known \cup {w}
    BY <1>2, InsertDictEffect DEF Inv2
  <2>2. rdict' = rdict /\ word[t] = NoWord
    BY <1>2 DEF InsertDict, PutDict, WordInv
  <2>3. \A p \in rdict : p[2] # w
    BY <2>1 DEF ReverseInv, Known, Typed, NoId
  <2>4. \A p \in rdict' : dict'[p[2]] = p[1]
    BY <2>1, <2>2, <2>3 DEF ReverseInv, Typed
  <2>5. Inserting \cup {w} \subseteq Inserting'
    BY <2>1, <2>2, NoWordAssumption DEF Inserting, Typed
  <2>6. ASSUME NEW v \in Known' \ Inserting'
        PROVE  <<dict'[v], v>> \in rdict'
    BY <2>1, <2>2, <2>5 DEF ReverseInv, Typed, Known
  <2>. QED BY <2>4, <2>6 DEF ReverseInv
<1>3. ASSUME NEW t \in Thread, InsertRdict(t)
      PROVE  ReverseInv'
  <2>1. /\ rdict' = rdict \cup {<<nwords[t], word[t]>>}
        /\ dict' = dict
        /\ word' = [word EXCEPT ![t] = NoWord]
        /\ dict[word[t]] = nwords[t]
    BY <1>3 DEF InsertRdict, FinishInsertion, CounterInv
  <2>2. Inserting \subseteq Inserting' \cup {word[t]}
    BY <2>1 DEF Inserting, Typed
  <2>. QED BY <2>1, <2>2 DEF ReverseInv, Known
<1>4. ASSUME NEW t \in Thread, Step(t), ~InsertDict(t), ~InsertRdict(t)
      PROVE  dict' = dict /\ rdict' = rdict /\ word' = word
  BY <1>4 DEF Step, ReadSize, RdLock, IdTerms, WrLock, StartUpdate, WriteJournal,
     InsertDelta, SkipExisting, Unlock, FinishUpdate, AnswerUntranslated, Reply,
     tables, batch
<1>. QED
  BY <1>1, <1>2, <1>3, <1>4
     DEF Next, Request, JournalFails, InsertFails, vars, tables, batch

\* rdict is the inverse of dict in every reachable state, up to that word.
THEOREM ReverseAlways == Spec => []ReverseInv
<1>1. Inv1 /\ Inv2 /\ ReverseInv /\ [Next]_vars => ReverseInv'
  BY ReverseStep
<1>. QED
  BY <1>1, ReverseInit, Inv1Always, Inv2Always, PTL DEF Spec

\* The word whose insertion is under way is the writer's.
LEMMA OneInserting ==
    ASSUME Typed, LockInv, WordInv
    PROVE  \E w : Inserting \subseteq {w}
<1>1. ASSUME NEW t \in Thread, word[t] # NoWord
      PROVE  writer = t
  BY <1>1 DEF WordInv, LockInv, WriteSection
<1>2. Inserting \subseteq {word[writer]}
  BY <1>1 DEF Inserting
<1>. QED
  BY <1>2

\* rdict is the inverse of dict but for at most one word.
THEOREM ReverseCorrect == Spec => []ReverseAgrees
<1>1. Inv1 /\ ReverseInv => ReverseAgrees
  <2>. SUFFICES ASSUME Inv1, ReverseInv
                PROVE  Cardinality(Inserting) <= 1
    BY DEF ReverseInv, ReverseAgrees
  <2>1. PICK w : Inserting = {} \/ Inserting = {w}
    BY OneInserting DEF Inv1
  <2>2. Cardinality(Inserting) \in {0, 1}
    BY <2>1, FS_EmptySet, FS_Singleton
  <2>. QED BY <2>2
<1>. QED
  BY <1>1, Inv1Always, ReverseAlways, PTL

------------------------------------------------------------------------------
(***************************************************************************)
(* The answers.                                                            *)
(***************************************************************************)
Grows == (\A w \in Known : dict'[w] = dict[w]) /\ rdict \subseteq rdict'

\* Nothing that a dictionary's tables hold is ever lost or changed by a request.
LEMMA TablesGrow ==
    ASSUME Inv1, Inv2, [Next]_vars
    PROVE  Grows
<1>1. ASSUME NEW t \in Thread, InsertDict(t)
      PROVE  Grows
  BY <1>1, InsertDictEffect DEF Inv2, Inv1, Typed, Known, Grows, InsertDict, PutDict
<1>2. ASSUME NEW t \in Thread, Step(t), ~InsertDict(t)
      PROVE  Grows
  BY <1>2 DEF Grows, Step, ReadSize, RdLock, IdTerms, WrLock, StartUpdate, WriteJournal,
     InsertDelta, InsertRdict, FinishInsertion, SkipExisting, Unlock, FinishUpdate,
     AnswerUntranslated, Reply, tables
<1>. QED
  BY <1>1, <1>2 DEF Next, Request, JournalFails, InsertFails, vars, tables, Grows

Good(t) == Found(t) /\ Trans(t) /\ Answer(t)

\* A thread whose request stands still keeps what is true of it.
LEMMA Frame ==
    ASSUME Typed, Grows, NEW x \in Thread, Good(x),
           terms'[x] = terms[x], update'[x] = update[x], nodictn'[x] = nodictn[x],
           ids'[x] = ids[x], newwords'[x] = newwords[x],
           keyslist'[x] = keyslist[x], transdict'[x] = transdict[x],
           pc'[x] \in WriteSection => pc[x] \in WriteSection,
           pc'[x] = "wrlock" => pc[x] = "wrlock",
           pc'[x] = "done" => pc[x] = "done"
    PROVE  Good(x)'
<1>1. \A w \in Word : <<dict[w], w>> \in rdict =>
          dict'[w] = dict[w] /\ <<dict'[w], w>> \in rdict'
  <2>. SUFFICES ASSUME NEW w \in Word, <<dict[w], w>> \in rdict
                PROVE  dict'[w] = dict[w] /\ <<dict'[w], w>> \in rdict'
    OBVIOUS
  <2>1. dict[w] \in Nat
    BY DEF Typed
  <2>. QED BY <2>1 DEF Grows, Known, NoId
<1>2. terms[x] \subseteq Word /\ newwords[x] \subseteq Word
  BY DEF Typed
<1>3. Found(x)'
  BY <1>1, <1>2 DEF Good, Found
<1>4. Trans(x)'
  BY <1>1, <1>2 DEF Good, Trans, Handled
<1>5. Answer(x)'
  BY <1>1, <1>2 DEF Good, Answer, Grows
<1>. QED
  BY <1>3, <1>4, <1>5 DEF Good

\* Nothing is claimed of a thread before it has looked its terms up.
LEMMA Early ==
    ASSUME NEW x \in Thread, pc'[x] \notin WriteSection \cup {"wrlock", "done"}
    PROVE  Good(x)'
BY DEF Good, Found, Trans, Answer

\* idterms (tokenize.c:142-167) leaves an answer whose known words are right and
\* whose unknown words have distinct provisional ids.
LEMMA IdTermsGood ==
    ASSUME Inv1, Inv2, ReverseInv, NEW t \in Thread, IdTerms(t)
    PROVE  Good(t)'
<1>. Typed /\ LockInv /\ WordInv
  BY DEF Inv1
<1>1. /\ pc[t] = "lookup" /\ dict' = dict /\ rdict' = rdict /\ terms' = terms
      /\ newwords'[t] = terms[t] \ Known
      /\ update' = update
      /\ pc' = [pc EXCEPT ![t] = IF update[t] /\ terms[t] \ Known # {}
                                 THEN "wrlock" ELSE "done"]
  BY DEF IdTerms, Goto, tables, request, Typed
<1>2. Inserting = {}
  <2>1. writer = NoThread
    BY <1>1 DEF LockInv
  <2>2. \A x \in Thread : pc[x] \notin WriteSection
    BY <2>1, ThreadAssumption DEF LockInv
  <2>. QED BY <2>2 DEF Inserting, WordInv, WriteSection
<1>3. \A w \in terms[t] \cap Known : <<dict[w], w>> \in rdict
  BY <1>2 DEF ReverseInv
<1>4. ASSUME update[t]
      PROVE  \A w \in terms[t] \cap Known : ids'[t][w] = dict[w]
  <2>1. PICK number \in Numberings(terms[t] \ Known, nodictn[t]) :
          ids' = [ids EXCEPT ![t] =
                    [w \in Word |-> IF w \in terms[t] \ Known THEN number[w]
                                    ELSE IF w \in terms[t] THEN dict[w]
                                    ELSE NoId]]
    BY <1>4 DEF IdTerms
  <2>. QED BY <2>1 DEF Typed
<1>5. Found(t)'
  BY <1>1, <1>3, <1>4 DEF Found, WriteSection, Typed
<1>6. Trans(t)'
  BY <1>1 DEF Trans, WriteSection, Typed
<1>7. Answer(t)'
  BY <1>1, <1>3, <1>4 DEF Answer, Typed
<1>. QED
  BY <1>5, <1>6, <1>7 DEF Good

\* Entering update_dict (tokenize.c:494-503) nothing is translated yet.
LEMMA WrLockGood ==
    ASSUME Inv1, NEW t \in Thread, Good(t), WrLock(t)
    PROVE  Good(t)'
<1>1. /\ pc[t] = "wrlock" /\ pc' = [pc EXCEPT ![t] = "journal"]
      /\ dict' = dict /\ rdict' = rdict /\ terms' = terms
      /\ newwords' = newwords /\ ids' = ids
      /\ keyslist'[t] = newwords[t] /\ transdict'[t] = Empty
  BY DEF WrLock, StartUpdate, Goto, tables, request, lookup, Inv1, Typed
<1>2. Handled(t)' = {}
  BY <1>1 DEF Handled
<1>3. Trans(t)'
  BY <1>1, <1>2 DEF Trans, Empty
<1>4. Found(t)'
  BY <1>1 DEF Good, Found
<1>5. Answer(t)'
  BY <1>1 DEF Answer, Inv1, Typed
<1>. QED
  BY <1>3, <1>4, <1>5 DEF Good

\* The end of an insertion (tokenize.c:587-593) records the translation of its
\* word's provisional id, and of no other's.
LEMMA InsertRdictGood ==
    ASSUME Inv1, Inv2, NEW t \in Thread, Good(t), InsertRdict(t)
    PROVE  Good(t)'
<1>. Typed /\ LookupInv /\ WordInv /\ CounterInv
  BY DEF Inv1, Inv2
<1>. DEFINE w == word[t]
<1>1. /\ pc[t] = "rdict" /\ pc' = [pc EXCEPT ![t] = "insert"]
      /\ dict' = dict /\ terms' = terms /\ newwords' = newwords /\ ids' = ids
      /\ rdict' = rdict \cup {<<nwords[t], w>>}
      /\ transdict'[t] = Record(transdict[t], ids[t][w], nwords[t])
      /\ keyslist'[t] = keyslist[t] \ {w}
  BY DEF InsertRdict, FinishInsertion, Goto, request, lookup, Typed
<1>2. w \in keyslist[t] /\ w \in newwords[t] /\ dict[w] = nwords[t]
  BY <1>1 DEF WordInv, LookupInv, CounterInv, WriteSection
<1>3. Handled(t)' = Handled(t) \cup {w}
  BY <1>1, <1>2 DEF Handled
<1>4. \A v \in Handled(t) : ids[t][v] # ids[t][w]
  BY <1>1, <1>2 DEF Handled, LookupInv, WriteSection
<1>5. Trans(t)
  BY DEF Good
<1>6. DOMAIN transdict'[t] = {ids'[t][v] : v \in Handled(t)'}
  BY <1>1, <1>3, <1>5 DEF Trans, Record, WriteSection
<1>7. \A v \in Handled(t)' :
        transdict'[t][ids'[t][v]] = dict'[v] /\ <<dict'[v], v>> \in rdict'
  <2>1. transdict'[t][ids[t][w]] = dict[w] /\ <<dict[w], w>> \in rdict'
    BY <1>1, <1>2 DEF Record
  <2>2. ASSUME NEW v \in Handled(t)
        PROVE  transdict'[t][ids[t][v]] = dict[v] /\ <<dict[v], v>> \in rdict'
    BY <1>1, <1>4, <1>5 DEF Trans, Record, WriteSection
  <2>. QED BY <1>1, <1>3, <2>1, <2>2
<1>8. Trans(t)'
  BY <1>6, <1>7 DEF Trans
<1>9. Found(t)'
  BY <1>1 DEF Good, Found, WriteSection
<1>10. Answer(t)'
  BY <1>1 DEF Answer, Typed
<1>. QED
  BY <1>8, <1>9, <1>10 DEF Good

\* A word that another request has added (tokenize.c:608-613) is translated to
\* the id the dictionary has for it.
LEMMA SkipExistingGood ==
    ASSUME Inv1, ReverseInv, NEW t \in Thread, Good(t), SkipExisting(t)
    PROVE  Good(t)'
<1>. Typed /\ LookupInv /\ WordInv /\ LockInv
  BY DEF Inv1
<1>1. PICK w \in keyslist[t] :
      /\ dict[w] # NoId
      /\ transdict' = [transdict EXCEPT ![t] = Record(@, ids[t][w], dict[w])]
      /\ keyslist' = [keyslist EXCEPT ![t] = @ \ {w}]
  BY DEF SkipExisting
<1>2. /\ pc[t] = "insert" /\ pc' = pc
      /\ dict' = dict /\ terms' = terms /\ newwords' = newwords /\ ids' = ids
      /\ rdict' = rdict
      /\ transdict'[t] = Record(transdict[t], ids[t][w], dict[w])
      /\ keyslist'[t] = keyslist[t] \ {w}
  BY <1>1 DEF SkipExisting, request, lookup, tables, Typed
<1>3. w \in newwords[t]
  BY <1>2 DEF LookupInv, WriteSection
<1>4. <<dict[w], w>> \in rdict
  <2>1. \A x \in Thread \ {t} : pc[x] \notin WriteSection
    BY <1>2 DEF LockInv, WriteSection
  <2>2. Inserting = {}
    BY <1>2, <2>1 DEF Inserting, WordInv, WriteSection
  <2>. QED BY <1>1, <1>3, <2>2 DEF ReverseInv, Known, Typed
<1>5. Handled(t)' = Handled(t) \cup {w}
  BY <1>2, <1>3 DEF Handled
<1>6. \A v \in Handled(t) : ids[t][v] # ids[t][w]
  BY <1>1, <1>2, <1>3 DEF Handled, LookupInv, WriteSection
<1>7. Trans(t)
  BY DEF Good
<1>8. DOMAIN transdict'[t] = {ids'[t][v] : v \in Handled(t)'}
  BY <1>2, <1>5, <1>7 DEF Trans, Record, WriteSection
<1>9. \A v \in Handled(t)' :
        transdict'[t][ids'[t][v]] = dict'[v] /\ <<dict'[v], v>> \in rdict'
  <2>1. transdict'[t][ids[t][w]] = dict[w]
    BY <1>2 DEF Record
  <2>2. ASSUME NEW v \in Handled(t)
        PROVE  transdict'[t][ids[t][v]] = dict[v] /\ <<dict[v], v>> \in rdict
    BY <1>2, <1>6, <1>7 DEF Trans, Record, WriteSection
  <2>. QED BY <1>2, <1>4, <1>5, <2>1, <2>2
<1>10. Trans(t)'
  BY <1>8, <1>9 DEF Trans
<1>11. Found(t)' /\ Answer(t)'
  BY <1>2 DEF Good, Found, Answer
<1>. QED
  BY <1>10, <1>11 DEF Good

\* The translation in place (tokenize.c:306-342) gives every new word its id, and
\* every id in the answer is one of the request's words.
LEMMA UnlockGood ==
    ASSUME Inv1, NEW t \in Thread, Good(t), Unlock(t)
    PROVE  Good(t)'
<1>. Typed /\ LookupInv
  BY DEF Inv1
<1>1. /\ pc[t] = "insert" /\ pc' = [pc EXCEPT ![t] = "done"]
      /\ keyslist[t] = {}
      /\ dict' = dict /\ terms' = terms /\ newwords' = newwords
      /\ nodictn' = nodictn /\ rdict' = rdict
  BY DEF Unlock, FinishUpdate, Goto, request, lookup, tables
<1>2. \A w \in terms[t] : ids'[t][w] = Translated(transdict[t], ids[t][w])
  BY DEF Unlock, FinishUpdate, Typed
<1>3. Handled(t) = newwords[t] /\ newwords[t] \subseteq terms[t]
  BY <1>1 DEF Handled, LookupInv, WriteSection
<1>4. /\ DOMAIN transdict[t] = {ids[t][w] : w \in newwords[t]}
      /\ \A w \in newwords[t] :
             transdict[t][ids[t][w]] = dict[w] /\ <<dict[w], w>> \in rdict
  BY <1>1, <1>3 DEF Good, Trans, WriteSection
<1>5. \A w \in terms[t] \ newwords[t] : ids[t][w] = dict[w] /\ <<dict[w], w>> \in rdict
  BY <1>1 DEF Good, Found, WriteSection
<1>6. \A w \in newwords[t] : ids'[t][w] = dict[w]
  BY <1>2, <1>3, <1>4 DEF Translated
<1>7. ASSUME NEW w \in terms[t]
      PROVE  \E v \in terms[t] : <<ids'[t][w], v>> \in rdict
  <2>1. CASE ids[t][w] \in DOMAIN transdict[t]
    <3>1. PICK v \in newwords[t] : ids[t][w] = ids[t][v]
      BY <2>1, <1>4
    <3>2. ids'[t][w] = transdict[t][ids[t][v]]
      BY <3>1, <1>2, <2>1 DEF Translated
    <3>3. v \in terms[t] /\ <<ids'[t][w], v>> \in rdict
      BY <3>1, <3>2, <1>3, <1>4
    <3>. QED BY <3>3
  <2>2. CASE ids[t][w] \notin DOMAIN transdict[t]
    BY <2>2, <1>2, <1>4, <1>5 DEF Translated
  <2>. QED BY <2>1, <2>2
<1>8. ASSUME NEW w \in terms[t] \ newwords[t], dict[w] < nodictn[t]
      PROVE  ids'[t][w] = dict[w]
  <2>1. \A v \in newwords[t] : ids[t][v] >= nodictn[t]
    BY <1>1 DEF LookupInv, WriteSection
  <2>2. dict[w] \in Nat /\ nodictn[t] \in Nat
    BY <1>5 DEF Typed
  <2>3. dict[w] \notin DOMAIN transdict[t]
    BY <1>4, <1>8, <2>1, <2>2
  <2>. QED BY <1>2, <1>5, <2>3 DEF Translated
<1>9. Answer(t)'
  BY <1>1, <1>4, <1>5, <1>6, <1>7, <1>8 DEF Answer
<1>10. Found(t)' /\ Trans(t)'
  BY <1>1 DEF Found, Trans, WriteSection, Typed
<1>. QED
  BY <1>9, <1>10 DEF Good

AllGood == \A t \in Thread : Good(t)

\* No step of any request spoils what a request has looked up, translated or
\* answered so far.
LEMMA AllGoodStep ==
    ASSUME Inv1, Inv2, ReverseInv, AllGood, [Next]_vars
    PROVE  AllGood'
<1>. SUFFICES ASSUME NEW x \in Thread
              PROVE  Good(x)'
  BY DEF AllGood
<1>. Good(x) /\ Typed /\ Grows
  BY TablesGrow DEF AllGood, Inv1
<1>. USE DEF Goto, request, lookup, batch, Typed
<1>1. ASSUME NEW t \in Thread, NEW S, NEW u, Request(t, S, u)
      PROVE  Good(x)'
  <2>1. CASE x = t
    BY <1>1, <2>1, Early DEF Request, WriteSection
  <2>2. CASE x # t
    BY <1>1, <2>2, Frame DEF Request
  <2>. QED BY <2>1, <2>2
<1>2. ASSUME NEW t \in Thread, ReadSize(t)
      PROVE  Good(x)'
  <2>1. CASE x = t
    BY <1>2, <2>1, Early DEF ReadSize, WriteSection
  <2>2. CASE x # t
    BY <1>2, <2>2, Frame DEF ReadSize
  <2>. QED BY <2>1, <2>2
<1>3. ASSUME NEW t \in Thread, RdLock(t)
      PROVE  Good(x)'
  BY <1>3, Frame DEF RdLock, WriteSection
<1>4. ASSUME NEW t \in Thread, IdTerms(t)
      PROVE  Good(x)'
  <2>1. CASE x # t
    <3>1. /\ ids'[x] = ids[x]
      BY <1>4, <2>1 DEF IdTerms
    <3>. QED BY <1>4, <2>1, <3>1, Frame DEF IdTerms
  <2>. QED BY <1>4, <2>1, IdTermsGood
<1>5. ASSUME NEW t \in Thread, WrLock(t)
      PROVE  Good(x)'
  <2>1. CASE x # t
    BY <1>5, <2>1, Frame DEF WrLock, StartUpdate
  <2>. QED BY <1>5, <2>1, WrLockGood
<1>6. ASSUME NEW t \in Thread, WriteJournal(t) \/ InsertDelta(t) \/ AnswerUntranslated(t)
                               \/ JournalFails(t) \/ InsertFails(t)
      PROVE  Good(x)'
  BY <1>6, Frame DEF WriteJournal, InsertDelta, AnswerUntranslated, JournalFails,
     InsertFails, WriteSection
<1>7. ASSUME NEW t \in Thread, InsertDict(t)
      PROVE  Good(x)'
  BY <1>7, Frame DEF InsertDict, PutDict, WriteSection
<1>8. ASSUME NEW t \in Thread, InsertRdict(t)
      PROVE  Good(x)'
  <2>1. CASE x # t
    BY <1>8, <2>1, Frame DEF InsertRdict, FinishInsertion
  <2>. QED BY <1>8, <2>1, InsertRdictGood
<1>9. ASSUME NEW t \in Thread, SkipExisting(t)
      PROVE  Good(x)'
  <2>1. CASE x # t
    BY <1>9, <2>1, Frame DEF SkipExisting
  <2>. QED BY <1>9, <2>1, SkipExistingGood
<1>10. ASSUME NEW t \in Thread, Unlock(t)
       PROVE  Good(x)'
  <2>1. CASE x # t
    BY <1>10, <2>1, Frame DEF Unlock, FinishUpdate
  <2>. QED BY <1>10, <2>1, UnlockGood
<1>11. ASSUME NEW t \in Thread, Reply(t)
       PROVE  Good(x)'
  <2>1. CASE x = t
    BY <1>11, <2>1, Early DEF Reply, WriteSection
  <2>2. CASE x # t
    BY <1>11, <2>2, Frame DEF Reply
  <2>. QED BY <2>1, <2>2
<1>12. CASE UNCHANGED vars
  BY <1>12, Frame DEF vars
<1>. HIDE DEF Goto, request, lookup, batch, Typed
<1>. QED
  BY <1>1, <1>2, <1>3, <1>4, <1>5, <1>6, <1>7, <1>8, <1>9, <1>10, <1>11, <1>12
     DEF Next, Step

\* What each request has looked up, translated and answered is right throughout.
THEOREM GoodAlways == Spec => []AllGood
<1>1. Init => AllGood
  BY DEF Init, AllGood, Good, Found, Trans, Answer, WriteSection
<1>2. Inv1 /\ Inv2 /\ ReverseInv /\ AllGood /\ [Next]_vars => AllGood'
  BY AllGoodStep
<1>. QED
  BY <1>1, <1>2, Inv1Always, Inv2Always, ReverseAlways, PTL DEF Spec

\* A finished update request has the right id for each of its terms, except for
\* a term that came into the dictionary between ReadSize and RdLock.
THEOREM AnswersCorrect == Spec => []AnswersRightUnlessRaced
<1>1. AllGood => AnswersRightUnlessRaced
  BY DEF AllGood, Good, Answer, AnswersRightUnlessRaced
<1>. QED
  BY <1>1, GoodAlways, PTL

\* An id that rdict holds under one word it holds under no other, as dict has one
\* word for each id.
LEMMA AnswersReversed ==
    ASSUME Inv1, Inv2, ReverseInv, AllGood
    PROVE  RoundTrip
<1>. SUFFICES ASSUME NEW t \in Thread, pc[t] = "done" /\ update[t], NEW w \in terms[t]
              PROVE  \E v \in terms[t] : ReverseTokenize(ids[t][w]) = {v}
  BY DEF RoundTrip
<1>1. PICK v \in terms[t] : <<ids[t][w], v>> \in rdict
  BY DEF AllGood, Good, Answer
<1>2. ASSUME NEW p \in rdict, p[1] = ids[t][w]
      PROVE  p[2] = v
  <2>1. dict[p[2]] = p[1] /\ dict[v] = p[1]
    BY <1>1, <1>2 DEF ReverseInv
  <2>2. p[1] \in Nat /\ p[2] \in Word /\ v \in Word
    BY <1>1 DEF Inv1, Typed
  <2>. QED BY <2>1, <2>2 DEF Inv2, DenseIds, Known, NoId
<1>. QED BY <1>1, <1>2 DEF ReverseTokenize

\* Every id of a finished update request reverses to one of the request's terms.
THEOREM AnswersReverse == Spec => []RoundTrip
BY AnswersReversed, Inv1Always, Inv2Always, ReverseAlways, GoodAlways, PTL

------------------------------------------------------------------------------
(***************************************************************************)
(* Vocabulary implements TermIds.                                          *)
(***************************************************************************)
FirstInv == \A t \in Thread : pc[t] \in WriteSection => firstid[t] <= Size

\* The size a writer found under the lock (tokenize.c:502) is never above the
\* dictionary's size: nothing is removed.
LEMMA FirstStep ==
    ASSUME Inv1, Inv2, FirstInv, [Next]_vars
    PROVE  FirstInv'
<1>. USE DEF FirstInv, Goto, batch
<1>. Typed /\ Size \in Nat /\ Size' \in Nat
  <2>1. (Size \in Nat)'
    BY SizeType, PTL
  <2>. QED BY <2>1, SizeType DEF Inv1
<1>1. ASSUME NEW t \in Thread, InsertDict(t)
      PROVE  FirstInv'
  <2>1. Size' = Size + 1
    BY <1>1, InsertDictEffect DEF Inv2
  <2>. QED BY <1>1, <2>1 DEF InsertDict, PutDict, WriteSection, Typed
<1>2. ASSUME dict' = dict
      PROVE  Size' = Size
  BY <1>2 DEF Size, Known
<1>3. ASSUME NEW t \in Thread, WrLock(t)
      PROVE  FirstInv'
  <2>1. Size' = Size
    BY <1>2, <1>3 DEF WrLock, StartUpdate, tables
  <2>. QED BY <1>3, <2>1 DEF WrLock, StartUpdate, WriteSection, Typed
<1>4. ASSUME NEW t \in Thread, Reply(t)
      PROVE  FirstInv'
  <2>1. Size' = Size
    BY <1>2, <1>4 DEF Reply, tables
  <2>. QED BY <1>4, <2>1 DEF Reply, WriteSection, Typed
<1>5. ASSUME firstid' = firstid, dict' = dict,
             \A x \in Thread : pc'[x] \in WriteSection => pc[x] \in WriteSection
      PROVE  FirstInv'
  BY <1>2, <1>5
<1>6. ASSUME NEW t \in Thread, Step(t), ~InsertDict(t), ~WrLock(t), ~Reply(t)
      PROVE  FirstInv'
  <2>1. firstid' = firstid /\ dict' = dict
    BY <1>6 DEF Step, ReadSize, RdLock, IdTerms, WriteJournal, InsertDelta, InsertRdict,
       FinishInsertion, SkipExisting, Unlock, FinishUpdate, AnswerUntranslated, tables
  <2>2. ASSUME NEW x \in Thread, pc'[x] \in WriteSection
        PROVE  pc[x] \in WriteSection
    BY <1>6, <2>2 DEF Step, ReadSize, RdLock, IdTerms, WriteJournal, InsertDelta,
       InsertRdict, FinishInsertion, SkipExisting, Unlock, FinishUpdate,
       AnswerUntranslated, WriteSection, Typed
  <2>. QED BY <2>1, <2>2, <1>5
<1>7. ASSUME NEW t \in Thread, NEW S, NEW u,
             Request(t, S, u) \/ JournalFails(t) \/ InsertFails(t)
      PROVE  FirstInv'
  BY <1>5, <1>7 DEF Request, JournalFails, InsertFails, tables, WriteSection, Typed
<1>8. CASE UNCHANGED vars
  BY <1>5, <1>8 DEF vars, tables
<1>. HIDE DEF FirstInv
<1>. QED
  BY <1>1, <1>3, <1>4, <1>6, <1>7, <1>8 DEF Next

\* The words with an id below f are f in number, and those above are the rest.
LEMMA BelowAndAbove ==
    ASSUME Inv1, DenseIds, NEW f \in Nat, f <= Size
    PROVE  /\ Cardinality({w \in Known : dict[w] < f}) = f
           /\ Cardinality({w \in Known : dict[w] >= f}) = Size - f
<1>. DEFINE Below == {w \in Known : dict[w] < f}
            Above == {w \in Known : dict[w] >= f}
<1>1. IsFiniteSet(Below) /\ IsFiniteSet(Above)
  <2>1. Below \in SUBSET Known /\ Above \in SUBSET Known
    OBVIOUS
  <2>. QED BY <2>1, SizeType, FS_Subset
<1>2. \A w \in Known : dict[w] \in 0 .. Size - 1
  BY DEF DenseIds
<1>3. \A i \in 0 .. Size - 1 : \E w \in Known : dict[w] = i
  BY DEF DenseIds
<1>4. Cardinality(Below) = f
  <2>. DEFINE g == [w \in Below |-> dict[w]]
  <2>1. g \in Bijection(Below, 0 .. f - 1)
    <3>1. g \in [Below -> 0 .. f - 1]
      BY <1>2
    <3>2. \A v, w \in Below : g[v] = g[w] => v = w
      BY DEF DenseIds
    <3>3. \A i \in 0 .. f - 1 : \E w \in Below : g[w] = i
      BY <1>3, SizeType
    <3>. QED BY <3>1, <3>2, <3>3 DEF Bijection, Injection, Surjection, IsInjective
  <2>2. Cardinality(0 .. f - 1) = Cardinality(Below)
    BY <1>1, <2>1, FS_Bijection DEF ExistsBijection
  <2>3. Cardinality(0 .. f - 1) = f
    BY FS_Interval
  <2>. QED BY <2>2, <2>3
<1>5. Cardinality(Above) = Size - f
  <2>. DEFINE g == [w \in Above |-> dict[w]]
  <2>1. g \in Bijection(Above, f .. Size - 1)
    <3>1. g \in [Above -> f .. Size - 1]
      BY <1>2, SizeType
    <3>2. \A v, w \in Above : g[v] = g[w] => v = w
      BY DEF DenseIds
    <3>3. \A i \in f .. Size - 1 : \E w \in Above : g[w] = i
      BY <1>3, SizeType
    <3>. QED BY <3>1, <3>2, <3>3 DEF Bijection, Injection, Surjection, IsInjective
  <2>2. Cardinality(f .. Size - 1) = Cardinality(Above)
    BY <1>1, <2>1, FS_Bijection DEF ExistsBijection
  <2>3. Cardinality(f .. Size - 1) = Size - f
    <3>1. f \in Int /\ Size - 1 \in Int /\ Size \in Nat
      BY SizeType
    <3>2. Cardinality(f .. Size - 1) = IF f > Size - 1 THEN 0 ELSE (Size - 1) - f + 1
      BY <3>1, FS_Interval
    <3>. QED BY <3>1, <3>2
  <2>. QED BY <2>2, <2>3
<1>. QED
  BY <1>4, <1>5

\* What is visible without a writer is the dictionary; with one, it is the
\* words with ids below the writer's first id.
LEMMA VisibleWords ==
    ASSUME Typed, NEW w \in Word
    PROVE  /\ visible[w] \in IdOrNone
           /\ writer = NoThread => visible[w] = dict[w]
           /\ writer \in Thread =>
                visible[w] = IF w \in Known /\ dict[w] < firstid[writer]
                             THEN dict[w] ELSE NoId
BY ThreadAssumption DEF visible, Typed, Known, IdOrNone, NoId

\* Both modules mean the same Cardinality.
LEMMA SameCardinality ==
    ASSUME NEW S
    PROVE  Abstract!Cardinality(S) = Cardinality(S)
BY DEF Abstract!Cardinality, Cardinality

\* An order of new words after the ones in use is a batch of TermIds.
LEMMA BatchIntro ==
    ASSUME NEW S,
           NEW order \in [S -> Cardinality(Abstract!Known) ..
                               Cardinality(Abstract!Known) + Cardinality(S) - 1],
           \A v, w \in S : order[v] = order[w] => v = w,
           visible' = [w \in Word |-> IF w \in S THEN order[w] ELSE visible[w]]
    PROVE  Abstract!AddBatch(S)
BY SameCardinality DEF Abstract!AddBatch

\* Releasing the write lock makes the writer's words appear at once.
LEMMA UnlockAddsBatch ==
    ASSUME Inv1, Inv2, FirstInv, NEW t \in Thread, Unlock(t)
    PROVE  [Abstract!Next]_visible
<1>. Typed /\ Typed' /\ DenseIds
  <2>1. [Next]_vars
    BY DEF Next, Step
  <2>. QED BY <2>1, Inv1Step DEF Inv1, Inv2
<1>. DEFINE f == firstid[t]
            S == {w \in Known : dict[w] >= f}
<1>1. /\ writer = t /\ writer' = NoThread /\ dict' = dict /\ f \in Nat /\ f <= Size
  BY DEF Unlock, FinishUpdate, Inv1, LockInv, FirstInv, WriteSection, Typed, tables
<1>2. ASSUME NEW w \in Word
      PROVE  /\ visible[w] = IF w \in Known /\ dict[w] < f THEN dict[w] ELSE NoId
             /\ visible'[w] = dict[w]
  <2>1. (writer = NoThread => visible[w] = dict[w])'
    BY VisibleWords, PTL
  <2>. QED BY <1>1, <2>1, VisibleWords
<1>3. Abstract!Known = {w \in Known : dict[w] < f}
  BY <1>2, <1>1 DEF Abstract!Known, Abstract!NoId, Known, Typed, IdOrNone, NoId
<1>4. Cardinality(Abstract!Known) = f /\ Cardinality(S) = Size - f
  BY <1>1, <1>3, BelowAndAbove
<1>5. visible' = [w \in Word |-> IF w \in S THEN dict[w] ELSE visible[w]]
  <2>1. DOMAIN visible' = Word /\ visible' = [w \in Word |-> visible'[w]]
    BY DEF visible
  <2>2. \A w \in Word : visible'[w] = IF w \in S THEN dict[w] ELSE visible[w]
    BY <1>1, <1>2 DEF Known, Typed, IdOrNone, NoId
  <2>. QED BY <2>1, <2>2
<1>6. CASE S = {}
  <2>1. visible' = [w \in Word |-> visible[w]]
    BY <1>5, <1>6
  <2>. QED BY <2>1 DEF visible
<1>7. CASE S # {}
  <2>. DEFINE order == [w \in S |-> dict[w]]
  <2>1. order \in [S -> f .. f + Cardinality(S) - 1]
    <3>1. \A w \in S : dict[w] \in 0 .. Size - 1 /\ dict[w] >= f
      BY DEF DenseIds
    <3>2. f + Cardinality(S) - 1 = Size - 1
      BY <1>1, <1>4, SizeType
    <3>. QED BY <1>1, <3>1, <3>2, SizeType
  <2>2. \A v, w \in S : order[v] = order[w] => v = w
    BY DEF DenseIds
  <2>3. visible' = [w \in Word |-> IF w \in S THEN order[w] ELSE visible[w]]
    BY <1>5
  <2>4. Abstract!AddBatch(S)
    <3>1. order \in [S -> Cardinality(Abstract!Known) ..
                             Cardinality(Abstract!Known) + Cardinality(S) - 1]
      BY <1>4, <2>1
    <3>. HIDE DEF order, S
    <3>. QED BY <2>2, <2>3, <3>1, BatchIntro
  <2>5. S \in (SUBSET (Word \ Abstract!Known)) \ {{}}
    BY <1>1, <1>3, <1>7 DEF Known, Typed, IdOrNone, NoId
  <2>. QED BY <2>4, <2>5 DEF Abstract!Next
<1>. QED
  BY <1>6, <1>7

\* Every other step leaves what is visible alone.
LEMMA VisibleUnchanged ==
    ASSUME Inv1, Inv2, FirstInv, [Next]_vars, \A t \in Thread : ~Unlock(t)
    PROVE  visible' = visible
<1>. Typed /\ LockInv /\ DenseIds
  BY DEF Inv1, Inv2
<1>. USE DEF Goto, tables, lock, batch
<1>1. ASSUME dict' = dict, writer' = writer,
             \A t \in Thread : writer = t => firstid'[t] = firstid[t]
      PROVE  visible' = visible
  BY <1>1 DEF visible, Typed
<1>2. ASSUME NEW t \in Thread, InsertDict(t)
      PROVE  visible' = visible
  <2>1. PICK w \in keyslist[t] :
             /\ w \in Word \ Known
             /\ dict' = [dict EXCEPT ![w] = Size]
    BY <1>2, InsertDictEffect DEF Inv2
  <2>2. writer = t /\ writer' = t /\ firstid' = firstid /\ firstid[t] <= Size
    BY <1>2 DEF InsertDict, PutDict, LockInv, FirstInv, WriteSection
  <2>3. ~(Size < firstid[t]) /\ writer # NoThread /\ firstid[t] \in Nat
    BY <2>2, SizeType, ThreadAssumption DEF Typed
  <2>4. dict'[w] = Size /\ Size \in Nat /\ dict[w] = NoId
    BY <2>1, SizeType DEF Known, Typed
  <2>5. \A v \in Word \ {w} : dict'[v] = dict[v]
    BY <2>1 DEF Typed
  <2>. QED BY <2>1, <2>2, <2>3, <2>4, <2>5 DEF visible
<1>3. ASSUME NEW t \in Thread, WrLock(t)
      PROVE  visible' = visible
  <2>1. writer = NoThread /\ writer' = t /\ dict' = dict /\ firstid'[t] = Size
    BY <1>3 DEF WrLock, StartUpdate, Typed
  <2>2. \A w \in Known : dict[w] < Size
    BY SizeType DEF DenseIds
  <2>. QED BY <2>1, <2>2 DEF visible, Known
<1>4. ASSUME NEW t \in Thread, Reply(t)
      PROVE  visible' = visible
  <2>1. writer # t
    BY <1>4 DEF Reply, LockInv, WriteSection
  <2>. QED BY <1>1, <1>4, <2>1 DEF Reply, Typed
<1>5. ASSUME NEW t \in Thread, Step(t), ~InsertDict(t), ~WrLock(t), ~Reply(t)
      PROVE  visible' = visible
  BY <1>1, <1>5 DEF Step, ReadSize, RdLock, IdTerms, WriteJournal, InsertDelta,
     InsertRdict, FinishInsertion, SkipExisting, AnswerUntranslated
<1>. QED
  BY <1>1, <1>2, <1>3, <1>4, <1>5 DEF Next, Request, JournalFails, InsertFails, vars

\* Seen under its lock, the dictionary is the one TermIds describes.
THEOREM Refinement == Spec => ImplementsTermIds
<1>1. Init => Abstract!Init
  BY DEF Init, Abstract!Init, Abstract!NoId, visible, NoId
<1>2. Init => FirstInv
  BY DEF Init, FirstInv, WriteSection
<1>3. Inv1 /\ Inv2 /\ FirstInv /\ [Next]_vars => FirstInv'
  BY FirstStep
<1>4. Inv1 /\ Inv2 /\ FirstInv /\ [Next]_vars => [Abstract!Next]_visible
  BY UnlockAddsBatch, VisibleUnchanged
<1>. QED
  BY <1>1, <1>2, <1>3, <1>4, Inv1Always, Inv2Always, PTL
     DEF Spec, ImplementsTermIds, Abstract!Spec

------------------------------------------------------------------------------
(***************************************************************************)
(* What a module that lets others look at the dictionary too needs of it.  *)
(***************************************************************************)
\* The words that are in the dictionary since the writer found its size.
Brought(t) == {w \in Known : dict[w] >= firstid[t]}

BatchInv == \A t \in Thread : pc[t] \in WriteSection => Brought(t) \subseteq newwords[t]

\* A writer adds no words but its own (tokenize.c:543-592).
LEMMA BatchStep ==
    ASSUME Inv1, Inv2, BatchInv, [Next]_vars
    PROVE  BatchInv'
<1>. USE DEF BatchInv, Goto, batch, request, lookup
<1>. Typed /\ LockInv /\ LookupInv /\ Size \in Nat
  BY SizeType DEF Inv1
<1>1. ASSUME NEW t \in Thread, InsertDict(t)
      PROVE  BatchInv'
  <2>1. PICK w \in keyslist[t] :
             /\ w \in Word \ Known
             /\ dict' = [dict EXCEPT ![w] = Size]
             /\ Known' = Known \cup {w}
    BY <1>1, InsertDictEffect DEF Inv2
  <2>2. /\ firstid' = firstid /\ newwords' = newwords
        /\ pc[t] = "insert" /\ pc' = [pc EXCEPT ![t] = "delta"]
    BY <1>1 DEF InsertDict, PutDict
  <2>3. w \in newwords[t]
    BY <2>1, <2>2 DEF LookupInv, WriteSection
  <2>4. \A v \in Known : dict'[v] = dict[v]
    BY <2>1 DEF Typed, Known
  <2>5. ASSUME NEW x \in Thread, pc'[x] \in WriteSection
        PROVE  (Brought(x) \subseteq newwords[x])'
    <3>1. x = t
      BY <2>2, <2>5 DEF LockInv, WriteSection, Typed
    <3>2. Brought(t) \subseteq newwords[t]
      BY <2>2 DEF WriteSection
    <3>3. Brought(t)' \subseteq Brought(t) \cup {w}
      BY <2>1, <2>2, <2>4 DEF Brought
    <3>. QED BY <2>2, <2>3, <3>1, <3>2, <3>3
  <2>. QED BY <2>5
<1>2. ASSUME NEW t \in Thread, WrLock(t)
      PROVE  BatchInv'
  <2>1. /\ writer = NoThread /\ firstid'[t] = Size /\ dict' = dict
        /\ pc' = [pc EXCEPT ![t] = "journal"]
    BY <1>2 DEF WrLock, StartUpdate, tables, Typed
  <2>2. \A w \in Known : ~(dict[w] >= Size)
    <3>1. \A w \in Known : dict[w] \in 0 .. Size - 1
      BY DEF Inv2, DenseIds
    <3>. QED BY <3>1
  <2>3. Brought(t)' = {}
    BY <2>1, <2>2 DEF Brought, Known
  <2>4. ASSUME NEW x \in Thread, pc'[x] \in WriteSection
        PROVE  x = t
    BY <2>1, <2>4, ThreadAssumption DEF LockInv, Typed
  <2>. QED BY <2>3, <2>4
<1>3. ASSUME dict' = dict,
             \A x \in Thread : pc'[x] \in WriteSection =>
                 /\ pc[x] \in WriteSection
                 /\ firstid'[x] = firstid[x] /\ newwords'[x] = newwords[x]
      PROVE  BatchInv'
  BY <1>3 DEF Brought, Known
<1>4. ASSUME NEW t \in Thread, Step(t), ~InsertDict(t), ~WrLock(t)
      PROVE  BatchInv'
  <2>1. dict' = dict
    BY <1>4 DEF Step, ReadSize, RdLock, IdTerms, WriteJournal, InsertDelta, InsertRdict,
       FinishInsertion, SkipExisting, Unlock, FinishUpdate, AnswerUntranslated, Reply, tables
  <2>2. ASSUME NEW x \in Thread, pc'[x] \in WriteSection
        PROVE  /\ pc[x] \in WriteSection
               /\ firstid'[x] = firstid[x] /\ newwords'[x] = newwords[x]
    BY <1>4, <2>2 DEF Step, ReadSize, RdLock, IdTerms, WriteJournal, InsertDelta,
       InsertRdict, FinishInsertion, SkipExisting, Unlock, FinishUpdate,
       AnswerUntranslated, Reply, WriteSection, Typed
  <2>. QED BY <2>1, <2>2, <1>3
<1>5. ASSUME NEW t \in Thread, NEW S, NEW u,
             Request(t, S, u) \/ JournalFails(t) \/ InsertFails(t)
      PROVE  BatchInv'
  BY <1>3, <1>5 DEF Request, JournalFails, InsertFails, tables, WriteSection, Typed
<1>6. CASE UNCHANGED vars
  BY <1>3, <1>6 DEF vars, tables
<1>. HIDE DEF BatchInv
<1>. QED
  BY <1>1, <1>2, <1>4, <1>5, <1>6 DEF Next

\* All that is invariant in a dictionary.
Kernel == Inv1 /\ Inv2 /\ ReverseInv /\ AllGood /\ FirstInv /\ BatchInv

LEMMA KernelInit == Init => Kernel
<1>1. Init => AllGood /\ FirstInv /\ BatchInv
  BY DEF Init, AllGood, Good, Found, Trans, Answer, FirstInv, BatchInv, WriteSection
<1>. QED
  BY <1>1, Inv1Init, Inv2Init, ReverseInit DEF Kernel

LEMMA KernelStep == Kernel /\ [Next]_vars => Kernel'
<1>. SUFFICES ASSUME Kernel, [Next]_vars PROVE Kernel'
  OBVIOUS
<1>. USE DEF Kernel
<1>1. Inv1' /\ Inv2'
  BY Inv1Step, DenseStep, CounterStep DEF Inv2
<1>. QED
  BY <1>1, ReverseStep, AllGoodStep, FirstStep, BatchStep
==============================================================================
