----------------------------- MODULE Vocabulary ------------------------------
(***************************************************************************)
(* One dictionary under concurrent tokenization requests (tokenize.c).     *)
(*                                                                         *)
(* A request turns its text into a set of terms, looks every term up under *)
(* the dictionary's read lock (idterms), numbers the unknown ones          *)
(* provisionally, adds them to the dictionary under the write lock         *)
(* (update_dict) and replaces the provisional numbers by the real ids      *)
(* (tokenize_freq_new, tokenize_idlist_new).                               *)
(*                                                                         *)
(* dictstate_rwlock is the pair (readers, writer).  A step that runs       *)
(* entirely under the write lock and touches nothing that is read without  *)
(* it is merged with its neighbour; the three tables of one insertion are  *)
(* written in three steps, because each write may fail on its own and      *)
(* because idterms reads the size, and ReverseTokenize reads rdict,        *)
(* without the lock.                                                       *)
(***************************************************************************)
EXTENDS Integers, FiniteSets

CONSTANTS
    Thread,     \* the connections served at the same time
    Word,       \* the terms that termify can return
    NoThread,   \* "no writer"
    NoWord,     \* "no insertion under way"
    Faults      \* the writes that may fail: "journal", "dict", "delta", "rdict"

ASSUME WordAssumption   == IsFiniteSet(Word)
ASSUME ThreadAssumption == NoThread \notin Thread
ASSUME NoWordAssumption == NoWord \notin Word

NoId == -1                                      \* tokenize.c:138 (unk_id)

VARIABLES
    dict,       \* dict->dict: word -> id (NoId: absent)
    delta,      \* dict->deltadict: the same, for the words since the last backup
    rdict,      \* dict->rdict: the set of <<id, word>> it holds
    dictvalid,  \* dict->dictvalid, as a Boolean
    readers,    \* threads holding dictstate_rwlock for reading
    writer,     \* the thread holding it for writing, or NoThread
    pc,         \* where each thread is
    terms,      \* the distinct terms of the request (termify)
    update,     \* the request's "update" parameter, as a Boolean
    nodictn,    \* idterms: the size read before the lock is taken
    ids,        \* the vector that becomes the answer: term -> id
    newwords,   \* idterms: the terms the dictionary does not hold
    keyslist,   \* update_dict: the new words not handled yet
    word,       \* update_dict: the word being inserted
    firstid,    \* update_dict: the size under the lock, as the journal header has it
    nwords,     \* update_dict: the next id to give
    transdict   \* update_dict: provisional id -> real id

tables  == <<dict, delta, rdict, dictvalid>>
lock    == <<readers, writer>>
request == <<terms, update>>
lookup  == <<nodictn, ids, newwords>>
batch   == <<keyslist, word, firstid, nwords, transdict>>
vars    == <<tables, lock, pc, request, lookup, batch>>

Known == {w \in Word : dict[w] # NoId}
Size  == Cardinality(Known)                     \* hhash_Size(dict->dict)

\* Mutant: the counter starts one too low.
NumberingsFromBelow(S, n) ==
    {f \in [S -> n - 1 .. n + Cardinality(S) - 2] :
        \A v, w \in S : f[v] = f[w] => v = w}

\* idterms numbers the unknown terms n, n+1, ... in the order of its hash.
Numberings(S, n) ==
    {f \in [S -> n .. n + Cardinality(S) - 1] :
        \A v, w \in S : f[v] = f[w] => v = w}

\* hash_Put into the translation table.
Record(table, provisional, id) ==
    [i \in DOMAIN table \cup {provisional} |->
        IF i = provisional THEN id ELSE table[i]]

\* Mutant: the translation is left out.
Untranslated(table, id) == id

\* What tokenize_freq_new and tokenize_idlist_new make of one entry.
Translated(table, id) == IF id \in DOMAIN table THEN table[id] ELSE id

Empty == [i \in {} |-> 0]

Goto(t, label) == pc' = [pc EXCEPT ![t] = label]

------------------------------------------------------------------------------
Init ==
    /\ dict = [w \in Word |-> NoId]
    /\ delta = [w \in Word |-> NoId]
    /\ rdict = {}
    /\ dictvalid = TRUE
    /\ readers = {}
    /\ writer = NoThread
    /\ pc = [t \in Thread |-> "idle"]
    /\ terms = [t \in Thread |-> {}]
    /\ update = [t \in Thread |-> FALSE]
    /\ nodictn = [t \in Thread |-> 0]
    /\ ids = [t \in Thread |-> [w \in Word |-> NoId]]
    /\ newwords = [t \in Thread |-> {}]
    /\ keyslist = [t \in Thread |-> {}]
    /\ word = [t \in Thread |-> NoWord]
    /\ firstid = [t \in Thread |-> 0]
    /\ nwords = [t \in Thread |-> 0]
    /\ transdict = [t \in Thread |-> Empty]

------------------------------------------------------------------------------
(***************************************************************************)
(* A request: Tokenize or TokenizeSegments of type "freq" or "idlist".     *)
(***************************************************************************)
Request(t, S, u) ==
    /\ pc[t] = "idle"
    /\ terms' = [terms EXCEPT ![t] = S]
    /\ update' = [update EXCEPT ![t] = u]
    /\ Goto(t, "size")
    /\ UNCHANGED <<tables, lock, lookup, batch>>

(***************************************************************************)
(* idterms.  The size is read first, and the lock is taken after it.       *)
(***************************************************************************)
ReadSize(t) ==
    /\ pc[t] = "size"
    /\ nodictn' = [nodictn EXCEPT ![t] = Size]
    /\ Goto(t, "rdlock")
    /\ UNCHANGED <<tables, lock, request, ids, newwords, batch>>

RdLock(t) ==
    /\ pc[t] = "rdlock"
    /\ writer = NoThread
    /\ readers' = readers \cup {t}
    /\ Goto(t, "lookup")
    /\ UNCHANGED <<tables, writer, request, lookup, batch>>

\* Nothing changes the dictionary while the read lock is held, so the loop over
\* the terms and the release are one step.
IdTerms(t) ==
    LET unknown == terms[t] \ Known
    IN  /\ pc[t] = "lookup"
        /\ newwords' = [newwords EXCEPT ![t] = unknown]
        /\ readers' = readers \ {t}
        /\ IF update[t]
           THEN \E number \in Numberings(unknown, nodictn[t]) :
                   ids' = [ids EXCEPT ![t] =
                             [w \in Word |-> IF w \in unknown THEN number[w]
                                             ELSE IF w \in terms[t] THEN dict[w]
                                             ELSE NoId]]
           ELSE ids' = [ids EXCEPT ![t] =
                          [w \in Word |-> IF w \in terms[t] THEN dict[w] ELSE NoId]]
        /\ Goto(t, IF update[t] /\ unknown # {} THEN "wrlock" ELSE "done")
        /\ UNCHANGED <<tables, writer, request, nodictn, batch>>

------------------------------------------------------------------------------
(***************************************************************************)
(* update_dict.  The size is read again, now under the lock.               *)
(***************************************************************************)
StartUpdate(t, size) ==
    /\ pc[t] = "wrlock"
    /\ readers = {}
    /\ writer' = t
    /\ nwords' = [nwords EXCEPT ![t] = size]
    /\ firstid' = [firstid EXCEPT ![t] = size]
    /\ keyslist' = [keyslist EXCEPT ![t] = newwords[t]]
    /\ transdict' = [transdict EXCEPT ![t] = Empty]
    /\ Goto(t, "journal")
    /\ UNCHANGED <<tables, readers, request, lookup, word>>

\* Mutants: the size idterms read is used again; the lock is not exclusive.
WrLockStaleSize(t) == writer = NoThread /\ StartUpdate(t, nodictn[t])
WrLockShared(t) == StartUpdate(t, Size)

WrLock(t) == writer = NoThread /\ StartUpdate(t, Size)

\* The words the dictionary still lacks are on disk before any of them is added.
WriteJournal(t) ==
    /\ pc[t] = "journal"
    /\ Goto(t, "insert")
    /\ UNCHANGED <<tables, lock, request, lookup, batch>>

\* hhash_Put.
PutDict(t, w) ==
    /\ pc[t] = "insert"
    /\ dict' = [dict EXCEPT ![w] = nwords[t]]
    /\ word' = [word EXCEPT ![t] = w]
    /\ Goto(t, "delta")
    /\ UNCHANGED <<delta, rdict, dictvalid, lock, request, lookup,
                   keyslist, firstid, nwords, transdict>>

\* Mutant: the word is not looked up again.
InsertDictUnchecked(t) == \E w \in keyslist[t] : PutDict(t, w)

\* A word that is still missing gets the next id.
InsertDict(t) == \E w \in keyslist[t] : dict[w] = NoId /\ PutDict(t, w)

InsertDelta(t) ==
    /\ pc[t] = "delta"
    /\ delta' = [delta EXCEPT ![word[t]] = nwords[t]]
    /\ Goto(t, "rdict")
    /\ UNCHANGED <<dict, rdict, dictvalid, lock, request, lookup, batch>>

FinishInsertion(t, id) ==
    /\ pc[t] = "rdict"
    /\ rdict' = rdict \cup {<<id, word[t]>>}
    /\ transdict' = [transdict EXCEPT ![t] =
                       Record(@, ids[t][word[t]], nwords[t])]
    /\ nwords' = [nwords EXCEPT ![t] = @ + 1]
    /\ keyslist' = [keyslist EXCEPT ![t] = @ \ {word[t]}]
    /\ word' = [word EXCEPT ![t] = NoWord]
    /\ Goto(t, "insert")
    /\ UNCHANGED <<dict, delta, dictvalid, lock, request, lookup, firstid>>

\* Mutant: the counter is advanced before the reverse dictionary is written.
InsertRdictLate(t) == FinishInsertion(t, nwords[t] + 1)

InsertRdict(t) == FinishInsertion(t, nwords[t])

\* Mutant: the word is passed over, and its provisional id is not translated.
SkipExistingSilently(t) ==
    \E w \in keyslist[t] :
        /\ pc[t] = "insert"
        /\ dict[w] # NoId
        /\ keyslist' = [keyslist EXCEPT ![t] = @ \ {w}]
        /\ UNCHANGED <<tables, lock, pc, request, lookup,
                       word, firstid, nwords, transdict>>

\* Somebody else added the word between idterms and the write lock.
SkipExisting(t) ==
    \E w \in keyslist[t] :
        /\ pc[t] = "insert"
        /\ dict[w] # NoId
        /\ transdict' = [transdict EXCEPT ![t] = Record(@, ids[t][w], dict[w])]
        /\ keyslist' = [keyslist EXCEPT ![t] = @ \ {w}]
        /\ UNCHANGED <<tables, lock, pc, request, lookup, word, firstid, nwords>>

\* The vector is translated in place.
FinishUpdate(t) ==
    /\ pc[t] = "insert"
    /\ keyslist[t] = {}
    /\ ids' = [ids EXCEPT ![t] =
                 [w \in Word |-> IF w \in terms[t]
                                 THEN Translated(transdict[t], ids[t][w])
                                 ELSE NoId]]
    /\ Goto(t, "done")
    /\ UNCHANGED <<tables, readers, request, nodictn, newwords, batch>>

\* Mutant: the write lock is kept.
UnlockForgotten(t) == FinishUpdate(t) /\ UNCHANGED writer

\* The lock is released first.
Unlock(t) == FinishUpdate(t) /\ writer' = NoThread

------------------------------------------------------------------------------
(***************************************************************************)
(* The error exits of update_dict return without releasing the write lock  *)
(* and without a translation table.                                        *)
(***************************************************************************)
JournalFails(t) ==
    /\ pc[t] = "journal"
    /\ "journal" \in Faults
    /\ Goto(t, "failed")
    /\ UNCHANGED <<tables, lock, request, lookup, batch>>

InsertFails(t) ==
    /\ \/ /\ pc[t] = "insert"
          /\ "dict" \in Faults
          /\ \E w \in keyslist[t] : dict[w] = NoId
       \/ pc[t] = "delta" /\ "delta" \in Faults
       \/ pc[t] = "rdict" /\ "rdict" \in Faults
    /\ dictvalid' = FALSE
    /\ Goto(t, "failed")
    /\ UNCHANGED <<dict, delta, rdict, lock, request, lookup, batch>>

\* tokenize_freq_new looks the ids up in a NULL table.  Either that crashes the
\* process, and nothing follows (the behaviour ends here), or it finds nothing, and
\* the answer with the provisional ids is built in vain: the failed write has set
\* env's fault (macros.h:35-71), which is what the client gets.
AnswerUntranslated(t) ==
    /\ pc[t] = "failed"
    /\ Goto(t, "gone")
    /\ UNCHANGED <<tables, lock, request, lookup, batch>>

------------------------------------------------------------------------------
\* The response is sent, and the request's data are freed.
Reply(t) ==
    /\ pc[t] = "done"
    /\ terms' = [terms EXCEPT ![t] = {}]
    /\ update' = [update EXCEPT ![t] = FALSE]
    /\ nodictn' = [nodictn EXCEPT ![t] = 0]
    /\ ids' = [ids EXCEPT ![t] = [w \in Word |-> NoId]]
    /\ newwords' = [newwords EXCEPT ![t] = {}]
    /\ firstid' = [firstid EXCEPT ![t] = 0]
    /\ nwords' = [nwords EXCEPT ![t] = 0]
    /\ transdict' = [transdict EXCEPT ![t] = Empty]
    /\ Goto(t, "idle")
    /\ UNCHANGED <<tables, lock, keyslist, word>>

Step(t) ==
    \/ ReadSize(t)    \/ RdLock(t)       \/ IdTerms(t)
    \/ WrLock(t)      \/ WriteJournal(t) \/ InsertDict(t)
    \/ InsertDelta(t) \/ InsertRdict(t)  \/ SkipExisting(t)
    \/ Unlock(t)      \/ AnswerUntranslated(t) \/ Reply(t)

Next == \E t \in Thread :
    \/ \E S \in (SUBSET Word) \ {{}}, u \in BOOLEAN : Request(t, S, u)
    \/ Step(t)
    \/ JournalFails(t)
    \/ InsertFails(t)

Spec == Init /\ [][Next]_vars

(***************************************************************************)
(* A thread that can run does run.  The two locks get strong fairness:     *)
(* whoever waits for a lock that is free again and again gets it.          *)
(***************************************************************************)
Fairness == \A t \in Thread :
    /\ WF_vars(Step(t))
    /\ SF_vars(RdLock(t))
    /\ SF_vars(WrLock(t))

FairSpec == Spec /\ Fairness

------------------------------------------------------------------------------
(***************************************************************************)
(* Properties                                                              *)
(***************************************************************************)
Label == {"idle", "size", "rdlock", "lookup", "wrlock", "journal", "insert",
          "delta", "rdict", "done", "failed", "gone"}

IdOrNone == Nat \cup {NoId}

\* Every variable but readers, where Inquiries has other connections too.
Typed ==
    /\ dict \in [Word -> IdOrNone]
    /\ delta \in [Word -> IdOrNone]
    /\ rdict \subseteq Nat \X Word
    /\ dictvalid \in BOOLEAN
    /\ writer \in Thread \cup {NoThread}
    /\ pc \in [Thread -> Label]
    /\ terms \in [Thread -> SUBSET Word]
    /\ update \in [Thread -> BOOLEAN]
    /\ nodictn \in [Thread -> Nat]
    /\ ids \in [Thread -> [Word -> IdOrNone]]
    /\ newwords \in [Thread -> SUBSET Word]
    /\ keyslist \in [Thread -> SUBSET Word]
    /\ word \in [Thread -> Word \cup {NoWord}]
    /\ firstid \in [Thread -> Nat]
    /\ nwords \in [Thread -> Nat]
    /\ DOMAIN transdict = Thread
    /\ \A t \in Thread : /\ DOMAIN transdict[t] \subseteq Nat
                         /\ transdict[t] \in [DOMAIN transdict[t] -> Nat]

\* Every variable holds a value of the type its C declaration stands for.
TypeOK == Typed /\ readers \subseteq Thread

\* The dictionary is a bijection between its words and 0 .. Size-1, after every
\* single write and whatever fails: two requests that bring the same new word
\* at once give it one id, and the next free id is always the number of words.
DenseIds ==
    /\ \A v, w \in Known : dict[v] = dict[w] => v = w
    /\ {dict[w] : w \in Known} = 0 .. Size - 1

\* The word some thread has put into dict and not yet into rdict.
Inserting == {word[t] : t \in Thread} \ {NoWord}

\* rdict is the inverse of dict, but for at most the one word whose insertion
\* is under way or broke off (hhash_Put, then two db_Insert calls).
ReverseAgrees ==
    /\ \A p \in rdict : dict[p[2]] = p[1]
    /\ \A w \in Known \ Inserting : <<dict[w], w>> \in rdict
    /\ Cardinality(Inserting) <= 1

\* ReverseTokenize: the words found under an id, read without dictstate_rwlock.
ReverseTokenize(id) == {p[2] : p \in {q \in rdict : q[1] = id}}

\* Every id in the answer to an update request reverses to a term of the
\* request, even while other requests add words, and even when the size idterms
\* read was out of date.
RoundTrip ==
    \A t \in Thread : pc[t] = "done" /\ update[t] =>
        \A w \in terms[t] :
            \E v \in terms[t] : ReverseTokenize(ids[t][w]) = {v}

\* The answer gives each term its own id, unless the term came into the
\* dictionary between idterms' reading of the size and its taking of the lock.
AnswersRightUnlessRaced ==
    \A t \in Thread : pc[t] = "done" /\ update[t] =>
        \A w \in terms[t] :
            w \in newwords[t] \/ dict[w] < nodictn[t] => ids[t][w] = dict[w]

\* The documented contract: one id per term, and it is the term's id.
AnswersRight ==
    \A t \in Thread : pc[t] = "done" /\ update[t] =>
        \A w \in terms[t] : ids[t][w] = dict[w]

\* A term that has an id keeps it.
StableIds == [][\A w \in Known : dict'[w] = dict[w]]_vars

\* Seen under the lock, the dictionary behaves like TermIds: the words a request
\* adds appear all together when the write lock is released.
visible == [w \in Word |->
    IF writer # NoThread /\ dict[w] # NoId
    THEN IF dict[w] < firstid[writer] THEN dict[w] ELSE NoId
    ELSE dict[w]]

Abstract == INSTANCE TermIds WITH vocab <- visible

ImplementsTermIds == Abstract!Spec

\* A request whose new words wait for the write lock is answered, provided the
\* readers of the dictionary leave it free again and again (glibc's rwlock lets
\* new readers overtake a waiting writer).
WriterServed ==
    []<>(readers = {}) =>
        \A t \in Thread : (pc[t] = "wrlock" ~> pc[t] = "done")

\* A request is answered, or waits for the write lock.
RequestServed ==
    \A t \in Thread : (pc[t] = "size" ~> pc[t] \in {"done", "wrlock"})

\* After a failed insertion the other clients get an error response: none of
\* them waits for ever.
FailureReachesClients ==
    \A t \in Thread :
        (~dictvalid /\ pc[t] = "rdlock") ~> (pc[t] \in {"done", "gone"})

------------------------------------------------------------------------------
(***************************************************************************)
(* The inductive invariant the proofs rest on (VocabularyProofs).          *)
(***************************************************************************)
WriteSection == {"journal", "insert", "delta", "rdict", "failed", "gone"}

\* dictstate_rwlock excludes: a writer is alone, and who holds the lock is told
\* by the program counters (after a failure the lock is never given back).
LockInv ==
    /\ writer # NoThread => readers = {}
    /\ \A t \in Thread : pc[t] \in WriteSection <=> writer = t
    /\ \A t \in Thread : t \in readers <=> pc[t] = "lookup"

WordInv == \A t \in Thread :
    /\ word[t] # NoWord => pc[t] \in {"delta", "rdict", "failed", "gone"}
    /\ pc[t] \in {"delta", "rdict"} => word[t] \in keyslist[t]

\* The provisional ids are distinct and start at the size idterms read.
LookupInv == \A t \in Thread :
    /\ pc[t] \in WriteSection \cup {"wrlock"} =>
        /\ update[t]
        /\ newwords[t] \subseteq terms[t]
        /\ \A w \in newwords[t] : ids[t][w] >= nodictn[t]
        /\ \A v, w \in newwords[t] : ids[t][v] = ids[t][w] => v = w
    /\ pc[t] \in WriteSection => keyslist[t] \subseteq newwords[t]

\* The writer's counter is the number of words, also while it inserts.
CounterInv == \A t \in Thread :
    /\ pc[t] \in {"journal", "insert"} => nwords[t] = Size
    /\ pc[t] \in {"delta", "rdict"} =>
           dict[word[t]] = nwords[t] /\ Size = nwords[t] + 1

ReverseInv ==
    /\ \A p \in rdict : dict[p[2]] = p[1]
    /\ \A w \in Known \ Inserting : <<dict[w], w>> \in rdict

\* What idterms found is still true, and what update_dict translated is right.
Found(t) == pc[t] \in WriteSection \cup {"wrlock"} =>
    \A w \in terms[t] \ newwords[t] :
        ids[t][w] = dict[w] /\ <<dict[w], w>> \in rdict

Handled(t) == newwords[t] \ keyslist[t]

Trans(t) == pc[t] \in WriteSection =>
    /\ DOMAIN transdict[t] = {ids[t][w] : w \in Handled(t)}
    /\ \A w \in Handled(t) :
           transdict[t][ids[t][w]] = dict[w] /\ <<dict[w], w>> \in rdict

Answer(t) == pc[t] = "done" /\ update[t] =>
    \A w \in terms[t] :
        /\ \E v \in terms[t] : <<ids[t][w], v>> \in rdict
        /\ <<dict[w], w>> \in rdict
        /\ w \in newwords[t] \/ dict[w] < nodictn[t] => ids[t][w] = dict[w]

AnswerInv == \A t \in Thread : Found(t) /\ Trans(t) /\ Answer(t)

IInv == TypeOK /\ LockInv /\ WordInv /\ LookupInv /\ DenseIds /\ CounterInv
            /\ ReverseInv /\ AnswerInv
==============================================================================
