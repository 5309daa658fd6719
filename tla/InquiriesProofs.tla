--------------------------- MODULE InquiriesProofs ---------------------------
(***************************************************************************)
(* Beside heartbeats and the calls that look at a dictionary, for any      *)
(* number of connections and words: a stop list is read whole, what is     *)
(* true of Vocabulary stays true until a test word is counted, and the     *)
(* sizes reported are sizes the dictionary has.                            *)
(***************************************************************************)
EXTENDS Inquiries, VocabularyProofs

Place == {"idle", "meta", "size", "stats", "told", "stoplist", "walk"}

InquiryTypes ==
    /\ ipc \in [Client -> Place]
    /\ reply \in [Client -> Seq(Nat)]
    /\ iter \in 0 .. NStop

\* A client that walks and met nobody walks alone, and the iterator and its reply
\* are at the same word.
WalkInv ==
    /\ InquiryTypes
    /\ \A c \in Walking : c \notin overlapped =>
           /\ Walking = {c}
           /\ reply[c] = [k \in 1 .. iter |-> k]

\* One word more of the list.
LEMMA Longer ==
    ASSUME NEW n \in Nat
    PROVE  Append([k \in 1 .. n |-> k], n + 1) = [k \in 1 .. n + 1 |-> k]
<1> DEFINE s == [k \in 1 .. n |-> k]
<1>1. s \in Seq(Nat) /\ Len(s) = n
  OBVIOUS
<1>2. Append(s, n + 1) = [k \in 1 .. Len(s) + 1 |-> IF k <= Len(s) THEN s[k] ELSE n + 1]
  BY <1>1
<1> QED  BY <1>1, <1>2

LEMMA Counted == ASSUME NEW n \in Nat PROVE Len([k \in 1 .. n |-> k]) = n
OBVIOUS

LEMMA SizeCounts == Size \in Nat
<1>1. IsFiniteSet(Known)
  BY WordAssumption, FS_Subset DEF Known
<1> QED  BY <1>1, FS_CardinalityType DEF Size

\* A step of one client that does not walk before or after.
LEMMA Elsewhere ==
    ASSUME WalkInv, NEW c \in Client, NEW from, NEW to \in Place, NEW answer \in Seq(Nat),
           Pass(c, from, to, answer), from # "walk", to # "walk",
           iter' = iter, overlapped' = overlapped
    PROVE  WalkInv'
<1> USE DEF InquiryTypes, Place
<1>1. InquiryTypes'
  BY DEF WalkInv, Pass
<1>2. Walking' = Walking /\ c \notin Walking
  BY DEF WalkInv, Pass, Walking
<1>3. \A d \in Walking : reply'[d] = reply[d]
  BY <1>2 DEF WalkInv, Pass, Walking
<1> QED  BY <1>1, <1>2, <1>3 DEF WalkInv

LEMMA Starts ==
    ASSUME WalkInv, NEW c \in Client, IterInit(c)
    PROVE  WalkInv'
<1> USE NStopAssumption DEF IterInit, StartWalk, Pass
<1> USE DEF InquiryTypes, Place
<1>1. InquiryTypes'
  <2>1. InquiryTypes
    BY DEF WalkInv
  <2> QED  BY <2>1
<1>2. Walking' = Walking \cup {c} /\ reply'[c] = << >>
  BY DEF WalkInv, Walking
<1>3. ASSUME NEW d \in Walking', d \notin overlapped'
      PROVE  Walking' = {d} /\ reply'[d] = [k \in 1 .. iter' |-> k]
  <2>1. Walking = {} /\ d = c
    BY <1>2, <1>3
  <2> QED  BY <1>2, <2>1
<1> QED  BY <1>1, <1>3 DEF WalkInv

LEMMA Goes ==
    ASSUME WalkInv, NEW c \in Client, IterGet(c)
    PROVE  WalkInv'
<1> USE NStopAssumption DEF IterGet, Pass
<1> USE DEF InquiryTypes, Place
<1>1. InquiryTypes' /\ iter' = iter + 1 /\ iter \in Nat
  <2>1. InquiryTypes
    BY DEF WalkInv
  <2> QED  BY <2>1
<1>2. Walking' = Walking /\ c \in Walking
  BY DEF WalkInv, Walking
<1>3. ASSUME NEW d \in Walking', d \notin overlapped'
      PROVE  Walking' = {d} /\ reply'[d] = [k \in 1 .. iter' |-> k]
  <2>1. Walking = {d} /\ d = c /\ reply[c] = [k \in 1 .. iter |-> k]
    BY <1>2, <1>3 DEF WalkInv
  <2>2. reply'[c] = Append(reply[c], iter + 1)
    BY DEF WalkInv
  <2> QED  BY <1>1, <1>2, <2>1, <2>2, Longer
<1> QED  BY <1>1, <1>3 DEF WalkInv

LEMMA EndsIt ==
    ASSUME WalkInv, NEW c \in Client, EndWalk(c)
    PROVE  WalkInv'
<1> USE DEF EndWalk, Pass
<1> USE DEF InquiryTypes, Place
<1>1. InquiryTypes'
  <2>1. InquiryTypes
    BY DEF WalkInv
  <2> QED  BY <2>1
<1>2. Walking' = Walking \ {c} /\ c \in Walking
  BY DEF WalkInv, Walking
<1>3. ASSUME NEW d \in Walking', d \notin overlapped' PROVE FALSE
  BY <1>2, <1>3 DEF WalkInv
<1> QED  BY <1>1, <1>3 DEF WalkInv

LEMMA Initially == InquiriesInit => WalkInv
<1> SUFFICES ASSUME InquiriesInit PROVE WalkInv
  OBVIOUS
<1>1. InquiryTypes
  BY NStopAssumption DEF InquiriesInit, InquiryTypes, Place
<1>2. Walking = {}
  BY DEF InquiriesInit, Walking
<1> QED  BY <1>1, <1>2 DEF WalkInv

\* The steps of requests and heartbeats leave the walks alone.
LEMMA Kept == ASSUME WalkInv, UNCHANGED inquiry PROVE WalkInv'
BY DEF WalkInv, InquiryTypes, Place, Walking, inquiry

LEMMA Inductive == WalkInv /\ [InquiriesNext]_ivars => WalkInv'
<1> SUFFICES ASSUME WalkInv, [InquiriesNext]_ivars PROVE WalkInv'
  OBVIOUS
<1>1. ASSUME NEW c \in Client, NEW what \in {"meta", "stats", "stoplist"}, Ask(c, what)
      PROVE  WalkInv'
  <2>1. Pass(c, "idle", what, << >>) /\ UNCHANGED <<iter, overlapped>>
    BY <1>1 DEF Ask
  <2>2. << >> \in Seq(Nat) /\ what \in Place /\ what # "walk"
    BY DEF Place
  <2> QED  BY <2>1, <2>2, Elsewhere
<1>2. ASSUME NEW c \in Client, Inquire(c) PROVE WalkInv'
  <2>1. CASE LockMeta(c)
    <3>1. Pass(c, "meta", "size", << >>) /\ UNCHANGED <<iter, overlapped>>
      BY <2>1 DEF LockMeta
    <3>2. << >> \in Seq(Nat)
      OBVIOUS
    <3> QED  BY <3>1, <3>2, Elsewhere DEF Place
  <2>2. ASSUME NEW n \in Records, NEW from \in {"size", "stats"},
               Pass(c, from, "told", <<n>>), UNCHANGED <<iter, overlapped>>
        PROVE  WalkInv'
    <3>1. n \in Nat
      BY SizeCounts DEF Records
    <3>2. <<n>> \in Seq(Nat)
      BY <3>1
    <3> QED  BY <2>2, <3>2, Elsewhere DEF Place
  <2>3. CASE ReadMeta(c)
    BY <2>2, <2>3 DEF ReadMeta
  <2>4. CASE ReadStats(c)
    BY <2>2, <2>4 DEF ReadStats
  <2>5. CASE Told(c)
    <3>1. Pass(c, "told", "idle", << >>) /\ UNCHANGED <<iter, overlapped>>
      BY <2>5 DEF Told
    <3>2. << >> \in Seq(Nat)
      OBVIOUS
    <3> QED  BY <3>1, <3>2, Elsewhere DEF Place
  <2>6. CASE IterInit(c) \/ IterGet(c) \/ EndWalk(c)
    BY <2>6, Starts, Goes, EndsIt
  <2> QED  BY <1>2, <2>1, <2>3, <2>4, <2>5, <2>6 DEF Inquire
<1>3. CASE UNCHANGED inquiry
  BY <1>3, Kept
<1> QED
  BY <1>1, <1>2, <1>3
     DEF InquiriesNext, Serve, ReadSizeTested, WrLockTested, Tested, ivars

\* A stop list is read whole, each word once, unless two calls read it at once
\* (utils.c:304-315): for every number of clients and of words, and whatever
\* requests and heartbeats do beside it.
THEOREM StopListsWhole == InquiriesSpec => StopListWhole
<1>1. ASSUME WalkInv, [InquiriesNext]_ivars, NEW c \in Client,
             ipc[c] = "walk", ipc'[c] = "idle", c \notin overlapped
      PROVE  reply[c] = [k \in 1 .. NStop |-> k]
  <2>1. reply[c] = [k \in 1 .. iter |-> k] /\ iter \in Nat
    BY <1>1, NStopAssumption DEF WalkInv, InquiryTypes, Place, Walking
  <2>2. PICK d \in Client : \/ \E what \in {"meta", "stats", "stoplist"} : Ask(d, what)
                            \/ Inquire(d)
    BY <1>1 DEF InquiriesNext, Serve, ReadSizeTested, WrLockTested, Tested, ivars, inquiry
  <2>3. EndWalk(c)
    BY <1>1, <2>2 DEF WalkInv, InquiryTypes, Place, Ask, Inquire, LockMeta, ReadMeta, ReadStats, Told, IterInit,
                      StartWalk, IterGet, EndWalk, Pass
  <2>4. iter = NStop
    BY <2>1, <2>3, Counted DEF EndWalk
  <2> QED  BY <2>1, <2>4
<1>2. WalkInv /\ [InquiriesNext]_ivars =>
        [\A c \in Client : ipc[c] = "walk" /\ ipc'[c] = "idle" /\ c \notin overlapped =>
             reply[c] = [k \in 1 .. NStop |-> k]]_ivars
  BY <1>1
<1> QED
  BY <1>2, Initially, Inductive, PTL DEF InquiriesSpec, StopListWhole

------------------------------------------------------------------------------
(***************************************************************************)
(* Requests beside heartbeats and inquiries.                               *)
(***************************************************************************)
\* While deletions do not fail, the test word is in the file only between its
\* insertion and its deletion (dict.c:697-764).
TestInv == testword <=> hpc = "there"

\* The clients that hold the dictionary's lock are those that read under it.
HolderInv == \A c \in Client : c \in readers <=> ipc[c] \in {"size", "walk"}

\* Until an update has counted the test word, all of Vocabulary's invariant holds.
Beside ==
    /\ InquiryTypes
    /\ TestInv
    /\ HolderInv
    /\ ~counted => Kernel

LEMMA BesideInit == InquiriesInit => Beside
<1> SUFFICES ASSUME InquiriesInit PROVE Beside
  OBVIOUS
<1>1. InquiryTypes /\ TestInv
  BY Initially DEF InquiriesInit, WalkInv, HeartbeatInit, TestInv
<1>2. HolderInv
  BY DEF InquiriesInit, Init, HolderInv
<1>3. Kernel
  BY KernelInit DEF InquiriesInit
<1> QED BY <1>1, <1>2, <1>3 DEF Beside

\* Who looks at the dictionary under the read lock changes nothing for the others.
LEMMA LookedAt ==
    ASSUME Kernel, UNCHANGED <<tables, writer, pc, request, lookup, batch>>,
           \A t \in Thread : t \in readers' <=> t \in readers,
           writer # NoThread => readers' = {}
    PROVE  Kernel'
<1> USE DEF tables, request, lookup, batch
<1>1. Inv1'
  BY DEF Kernel, Inv1, Typed, LockInv, WordInv, LookupInv
<1>2. Inv2' /\ ReverseInv'
  BY DEF Kernel, Inv2, DenseIds, CounterInv, ReverseInv, Inserting, Known, Size
<1>3. AllGood'
  BY DEF Kernel, AllGood, Good, Found, Trans, Answer, Handled
<1>4. FirstInv' /\ BatchInv'
  BY DEF Kernel, FirstInv, BatchInv, Brought, Known, Size
<1> QED BY <1>1, <1>2, <1>3, <1>4 DEF Kernel

\* A size that is one too large does no harm to idterms: its provisional ids start
\* one higher (tokenize.c:137).
LEMMA SizeTested ==
    ASSUME Kernel, NEW t \in Thread, ReadSizeTested(t)
    PROVE  Kernel'
<1> USE DEF tables, lock, request, batch
<1>1. /\ pc[t] = "size" /\ pc' = [pc EXCEPT ![t] = "rdlock"]
      /\ nodictn' = [nodictn EXCEPT ![t] = Size + 1]
      /\ dict' = dict /\ delta' = delta /\ rdict' = rdict /\ dictvalid' = dictvalid
      /\ readers' = readers /\ writer' = writer
      /\ terms' = terms /\ update' = update /\ ids' = ids /\ newwords' = newwords
      /\ keyslist' = keyslist /\ word' = word /\ firstid' = firstid
      /\ nwords' = nwords /\ transdict' = transdict
  BY DEF ReadSizeTested, Goto
<1>2. Typed /\ Size \in Nat
  BY SizeType DEF Kernel, Inv1
<1>3. Inv1'
  <2>1. Typed'
    BY <1>1, <1>2 DEF Typed, Label
  <2>2. LockInv' /\ WordInv'
    BY <1>1, <1>2 DEF Kernel, Inv1, LockInv, WordInv, WriteSection, Typed
  <2>3. LookupInv'
    BY <1>1, <1>2 DEF Kernel, Inv1, LookupInv, WriteSection, Typed
  <2> QED BY <2>1, <2>2, <2>3 DEF Inv1
<1>4. Inv2' /\ ReverseInv'
  <2>1. Known' = Known /\ Size' = Size /\ Inserting' = Inserting
    BY <1>1 DEF Known, Size, Inserting
  <2>2. DenseIds' /\ ReverseInv'
    BY <1>1, <2>1 DEF Kernel, Inv2, DenseIds, ReverseInv
  <2>3. CounterInv'
    BY <1>1, <1>2, <2>1 DEF Kernel, Inv2, CounterInv, Typed
  <2> QED BY <2>2, <2>3 DEF Inv2
<1>5. AllGood'
  <2> SUFFICES ASSUME NEW x \in Thread PROVE Good(x)'
    BY DEF AllGood
  <2>1. CASE x = t
    BY <1>1, <1>2, <2>1, Early DEF WriteSection, Typed
  <2>2. CASE x # t
    <3>1. Grows
      BY <1>1 DEF Grows
    <3>2. Good(x) /\ pc'[x] = pc[x] /\ nodictn'[x] = nodictn[x]
      BY <1>1, <1>2, <2>2 DEF Kernel, AllGood, Typed
    <3> QED BY <1>1, <1>2, <3>1, <3>2, Frame
  <2> QED BY <2>1, <2>2
<1>6. FirstInv' /\ BatchInv'
  BY <1>1, <1>2 DEF Kernel, FirstInv, BatchInv, Brought, Known, Size, WriteSection, Typed
<1> QED BY <1>3, <1>4, <1>5, <1>6 DEF Kernel

\* A request takes and gives back the lock for itself, and for nobody else.
LEMMA OwnLock ==
    ASSUME NEW t \in Thread, Step(t), NEW c \in Client
    PROVE  c \in readers' <=> c \in readers
<1>1. c # t
  BY ClientAssumption
<1>2. CASE WrLock(t)
  BY <1>2 DEF WrLock, StartUpdate
<1>3. CASE ~WrLock(t)
  BY <1>1, <1>3 DEF Step, ReadSize, RdLock, IdTerms, WriteJournal,
     InsertDict, PutDict, InsertDelta, InsertRdict, FinishInsertion, SkipExisting,
     Unlock, FinishUpdate, AnswerUntranslated, Reply, lock
<1> QED BY <1>2, <1>3

\* An inquiry leaves all but the read lock and its own place alone.
LEMMA InquiryStep ==
    ASSUME Beside, NEW c \in Client,
           Inquire(c) \/ \E what \in {"meta", "stats", "stoplist"} : Ask(c, what)
    PROVE  Beside'
<1>1. PICK from \in Place, to \in Place, answer \in Seq(Nat) : Pass(c, from, to, answer)
  <2>1. << >> \in Seq(Nat)
    OBVIOUS
  <2>2. \A n \in Records : <<n>> \in Seq(Nat)
    <3>1. \A n \in Records : n \in Nat
      BY SizeCounts DEF Records
    <3> QED BY <3>1
  <2>3. \A what \in {"meta", "stats", "stoplist"} : Ask(c, what) => Pass(c, "idle", what, << >>)
    BY DEF Ask
  <2>4. CASE IterGet(c)
    <3>1. reply[c] \in Seq(Nat) /\ iter + 1 \in Nat
      BY NStopAssumption DEF Beside, InquiryTypes
    <3>2. Append(reply[c], iter + 1) \in Seq(Nat)
      BY <3>1
    <3> QED BY <2>4, <3>2 DEF IterGet, Place
  <2>5. CASE ~IterGet(c)
    BY <2>1, <2>2, <2>3, <2>5
       DEF Inquire, LockMeta, ReadMeta, ReadStats, Told, IterInit, StartWalk, EndWalk, Place
  <2> QED BY <2>4, <2>5
<1>2. /\ UNCHANGED <<tables, writer, pc, request, lookup, batch, hvars, counted>>
      /\ iter' \in 0 .. NStop
  BY NStopAssumption
     DEF Beside, InquiryTypes, Ask, Inquire, LockMeta, ReadMeta, ReadStats, Told, IterInit,
         StartWalk, IterGet, EndWalk, Alone
<1>3. InquiryTypes'
  BY <1>1, <1>2 DEF Beside, InquiryTypes, Pass
<1>4. TestInv'
  BY <1>2 DEF Beside, TestInv, hvars
<1>5. /\ HolderInv'
      /\ \A t \in Thread : t \in readers' <=> t \in readers
      /\ readers' \subseteq readers \/ writer = NoThread
  <2>1. \A d \in Client : d # c => ipc'[d] = ipc[d]
    BY <1>1 DEF Pass, Beside, InquiryTypes
  <2>2. \A t \in Thread : t # c
    BY ClientAssumption
  <2>3. /\ readers' = readers \cup {c} \/ readers' = readers \ {c} \/ readers' = readers
        /\ readers' \subseteq readers \/ writer = NoThread
        /\ c \in readers' <=> ipc'[c] \in {"size", "walk"}
    BY <1>1
       DEF Beside, HolderInv, InquiryTypes, Place, Ask, Inquire, LockMeta, ReadMeta, ReadStats,
           Told, IterInit, StartWalk, IterGet, EndWalk, Alone, Pass
  <2> QED BY <2>1, <2>2, <2>3 DEF Beside, HolderInv
<1>6. ~counted' => Kernel'
  <2> SUFFICES ASSUME ~counted PROVE Kernel'
    BY <1>2
  <2>1. Kernel
    BY DEF Beside
  <2>2. writer # NoThread => readers' = {}
    BY <1>5, <2>1 DEF Kernel, Inv1, LockInv
  <2> QED BY <1>2, <1>5, <2>1, <2>2, LookedAt
<1> QED BY <1>3, <1>4, <1>5, <1>6 DEF Beside

\* A request's step is one of Vocabulary's.
LEMMA RequestStep ==
    ASSUME Beside, NEW t \in Thread,
           \/ Serve(t)
           \/ \E S \in (SUBSET Word) \ {{}}, u \in BOOLEAN :
                  Request(t, S, u) /\ UNCHANGED <<hvars, inquiry, counted>>
    PROVE  Beside'
<1>1. UNCHANGED <<hvars, inquiry, counted>> /\ [Next]_vars
  BY DEF Serve, Next
<1>2. InquiryTypes' /\ TestInv'
  BY <1>1 DEF Beside, InquiryTypes, TestInv, hvars, inquiry
<1>3. \A c \in Client : c \in readers' <=> c \in readers
  BY OwnLock DEF Serve, Request, lock
<1>4. HolderInv'
  BY <1>1, <1>3 DEF Beside, HolderInv, inquiry
<1>5. ~counted' => Kernel'
  BY <1>1, KernelStep DEF Beside
<1> QED BY <1>2, <1>4, <1>5 DEF Beside

\* A heartbeat that inserts its word also deletes it, when deletions do not fail.
LEMMA TestStep ==
    ASSUME "delete" \notin TestFaults, Beside, Tested
    PROVE  Beside'
<1>1. UNCHANGED <<vars, inquiry, counted>>
  BY DEF Tested
<1>2. TestInv'
  BY DEF Tested, Beside, TestInv, CallHeartbeat, LockDisk, Test, SearchAgain, InsertTest,
         InsertTestFails, DeleteTest, DeleteTestFails, UnlockDisk, hvars
<1>3. InquiryTypes' /\ HolderInv'
  BY <1>1 DEF Beside, InquiryTypes, HolderInv, inquiry, vars, lock
<1>4. ~counted' => Kernel'
  BY <1>1, KernelStep DEF Beside
<1> QED BY <1>2, <1>3, <1>4 DEF Beside

LEMMA BesideStep ==
    ASSUME "delete" \notin TestFaults, Beside, [InquiriesNext]_ivars
    PROVE  Beside'
<1>1. ASSUME NEW t \in Thread, ReadSizeTested(t) PROVE Beside'
  <2>1. UNCHANGED <<lock, hvars, inquiry, counted>>
    BY <1>1 DEF ReadSizeTested
  <2>2. InquiryTypes' /\ TestInv' /\ HolderInv'
    BY <2>1 DEF Beside, InquiryTypes, TestInv, HolderInv, lock, hvars, inquiry
  <2>3. ~counted' => Kernel'
    BY <1>1, <2>1, SizeTested DEF Beside
  <2> QED BY <2>2, <2>3 DEF Beside
<1>2. ASSUME NEW t \in Thread, WrLockTested(t) PROVE Beside'
  <2>1. /\ counted' /\ UNCHANGED <<hvars, inquiry>> /\ readers' = readers
    BY <1>2 DEF WrLockTested, StartUpdate, Beside, TestInv
  <2>2. InquiryTypes' /\ TestInv' /\ HolderInv'
    BY <2>1 DEF Beside, InquiryTypes, TestInv, HolderInv, hvars, inquiry
  <2> QED BY <2>1, <2>2 DEF Beside
<1>3. ASSUME UNCHANGED ivars PROVE Beside'
  <2>1. UNCHANGED <<vars, hvars, inquiry, counted>>
    BY <1>3 DEF ivars
  <2>2. InquiryTypes' /\ TestInv' /\ HolderInv'
    BY <2>1 DEF Beside, InquiryTypes, TestInv, HolderInv, vars, lock, hvars, inquiry
  <2>3. ~counted' => Kernel'
    BY <2>1, KernelStep DEF Beside
  <2> QED BY <2>2, <2>3 DEF Beside
<1> QED
  BY <1>1, <1>2, <1>3, RequestStep, InquiryStep, TestStep DEF InquiriesNext

THEOREM BesideAlways ==
    ASSUME "delete" \notin TestFaults
    PROVE  InquiriesSpec => []Beside
<1>1. Beside /\ [InquiriesNext]_ivars => Beside'
  BY BesideStep
<1> QED BY <1>1, BesideInit, PTL DEF InquiriesSpec

\* The ids stay dense beside heartbeats and inquiries, until an update counts the
\* test word that is in the file for a moment (dict.c:697); where deletions can
\* fail, the word stays there and any update counts it.
THEOREM DenseUnlessCounted ==
    ASSUME "delete" \notin TestFaults
    PROVE  InquiriesSpec => []DenseIdsUnlessCounted
<1>1. Beside => DenseIdsUnlessCounted
  BY DEF Beside, Kernel, Inv2, DenseIdsUnlessCounted
<1> QED BY <1>1, BesideAlways, PTL

\* Until then answers reverse to the terms of their requests, and are right but
\* for the terms that came in while a request was between its size and its lock:
\* a size that is one too large spoils none of them.
THEOREM AnswersUnlessCounted ==
    ASSUME "delete" \notin TestFaults
    PROVE  InquiriesSpec => [](~counted => RoundTrip /\ AnswersRightUnlessRaced)
<1>1. Beside => (~counted => RoundTrip /\ AnswersRightUnlessRaced)
  BY AnswersReversed
     DEF Beside, Kernel, AllGood, Good, Answer, AnswersRightUnlessRaced
<1> QED BY <1>1, BesideAlways, PTL

\* Who reads the size, or is a heartbeat, or asks, changes nothing visible.
LEMMA SeenAsBefore ==
    ASSUME dict' = dict, writer' = writer, firstid' = firstid
    PROVE  visible' = visible
BY DEF visible

\* A size read with the test word shows nothing, and a lock taken with it counts it.
LEMMA TestedSteps ==
    ASSUME Beside, ~counted', NEW t \in Thread
    PROVE  /\ ReadSizeTested(t) => visible' = visible
           /\ ~WrLockTested(t)
<1>1. ReadSizeTested(t) => visible' = visible
  BY SeenAsBefore DEF ReadSizeTested, tables, lock, batch
<1>2. ~WrLockTested(t)
  BY DEF WrLockTested, Beside, TestInv
<1> QED BY <1>1, <1>2

\* Until an update counts the test word, what is seen under the lock is a
\* dictionary of TermIds, beside any number of heartbeats and inquiries: each
\* step adds the words of one request with the ids that follow, or none.
THEOREM TermIdsUnlessCounted ==
    ASSUME "delete" \notin TestFaults
    PROVE  InquiriesSpec => [][~counted' => [Abstract!Next]_visible]_ivars
<1>1. ASSUME Beside, [InquiriesNext]_ivars, ~counted'
      PROVE  [Abstract!Next]_visible
  <2>1. Kernel
    <3>1. counted' = counted \/ \E t \in Thread : WrLockTested(t)
      BY <1>1 DEF InquiriesNext, Serve, ReadSizeTested, Ask, Inquire, LockMeta, ReadMeta,
                  ReadStats, Told, IterInit, StartWalk, IterGet, EndWalk, Alone, Tested, ivars
    <3> QED BY <1>1, <3>1, TestedSteps DEF Beside
  <2>2. ASSUME [Next]_vars
        PROVE  [Abstract!Next]_visible
    BY <2>1, <2>2, UnlockAddsBatch, VisibleUnchanged DEF Kernel
  <2>3. ASSUME NEW c \in Client,
               Inquire(c) \/ \E what \in {"meta", "stats", "stoplist"} : Ask(c, what)
        PROVE  visible' = visible
    <3>1. UNCHANGED <<tables, writer, batch>>
      BY <2>3 DEF Ask, Inquire, LockMeta, ReadMeta, ReadStats, Told, IterInit, StartWalk,
                  IterGet, EndWalk, Alone
    <3> QED BY <3>1, SeenAsBefore DEF tables, batch
  <2>4. ASSUME NEW t \in Thread,
               \/ Serve(t)
               \/ \E S \in (SUBSET Word) \ {{}}, u \in BOOLEAN :
                      Request(t, S, u) /\ UNCHANGED <<hvars, inquiry, counted>>
        PROVE  [Abstract!Next]_visible
    <3>1. [Next]_vars
      BY <2>4 DEF Serve, Next
    <3> QED BY <2>2, <3>1
  <2>5. CASE Tested \/ UNCHANGED ivars
    BY <2>2, <2>5 DEF Tested, ivars
  <2> QED
    BY <1>1, <2>3, <2>4, <2>5, TestedSteps DEF InquiriesNext
<1>2. Beside /\ [InquiriesNext]_ivars => [~counted' => [Abstract!Next]_visible]_ivars
  BY <1>1
<1> QED BY <1>2, BesideAlways, PTL DEF InquiriesSpec

------------------------------------------------------------------------------
(***************************************************************************)
(* The sizes.                                                              *)
(***************************************************************************)
\* Without a writer the whole words are all the words; with one they are those
\* below the size it found, and what it has added is of its new words.
LEMMA WholeSize ==
    ASSUME Kernel
    PROVE  /\ Size \in Nat
           /\ writer = NoThread => Whole = Size
           /\ writer # NoThread =>
                  /\ Cardinality(newwords[writer]) \in Nat
                  /\ Size \in Whole .. Whole + Cardinality(newwords[writer])
<1>1. Size \in Nat /\ Typed /\ LockInv /\ DenseIds
  BY SizeType DEF Kernel, Inv1, Inv2
<1> DEFINE Seen == {w \in Word : visible[w] # NoId}
<1>2. CASE writer = NoThread
  <2>1. Seen = Known
    BY <1>1, <1>2, VisibleWords DEF Known
  <2> QED BY <1>1, <1>2, <2>1 DEF Whole, Size
<1>3. CASE writer # NoThread
  <2>1. writer \in Thread /\ pc[writer] \in WriteSection
    BY <1>1, <1>3 DEF Typed, LockInv
  <2> DEFINE f == firstid[writer]
             N == newwords[writer]
  <2>2. f \in Nat /\ f <= Size /\ Brought(writer) \subseteq N /\ N \subseteq Word
    BY <1>1, <2>1 DEF Typed, Kernel, FirstInv, BatchInv
  <2>3. Seen = {w \in Known : dict[w] < f}
    BY <1>1, <2>1, <2>2, VisibleWords DEF Known, Typed, IdOrNone, NoId
  <2>4. Whole = f /\ Cardinality(Brought(writer)) = Size - f
    <3>1. /\ Cardinality({w \in Known : dict[w] < f}) = f
          /\ Cardinality({w \in Known : dict[w] >= f}) = Size - f
      BY <1>1, <2>2, BelowAndAbove DEF Kernel
    <3> QED BY <2>3, <3>1 DEF Whole, Brought
  <2>5. IsFiniteSet(N)
    BY <2>2, WordAssumption, FS_Subset
  <2>6. Cardinality(N) \in Nat /\ Cardinality(Brought(writer)) <= Cardinality(N)
    BY <2>2, <2>5, FS_Subset, FS_CardinalityType
  <2>7. Size - f <= Cardinality(N)
    BY <2>4, <2>6
  <2> HIDE DEF f, N
  <2>8. Size \in f .. f + Cardinality(N)
    BY <1>1, <2>2, <2>6, <2>7
  <2> QED BY <1>1, <1>3, <2>4, <2>6, <2>8 DEF N
<1> QED BY <1>2, <1>3

\* dict_Get_Meta tells the size between two updates, and dict_GetStats may be told
\* a part of the update under way; each may count the test word (dict.c:498-500,
\* 790-792).  With any number of connections that add words and that ask.
THEOREM SizesAreSizes ==
    ASSUME "delete" \notin TestFaults
    PROVE  InquiriesSpec => SizesReported
<1> DEFINE new(c) == IF ipc[c] = "stats" /\ writer # NoThread
                     THEN Cardinality(newwords[writer]) ELSE 0
           tested == IF testword THEN 1 ELSE 0
<1>1. ASSUME Beside, [InquiriesNext]_ivars, NEW c \in Client,
             ipc[c] # "told" /\ ipc'[c] = "told" /\ ~counted
      PROVE  Head(reply'[c]) \in Whole .. Whole + new(c) + tested
  <2>1. PICK d \in Client : \/ \E what \in {"meta", "stats", "stoplist"} : Ask(d, what)
                            \/ Inquire(d)
    BY <1>1 DEF InquiriesNext, Serve, ReadSizeTested, WrLockTested, Tested, ivars, inquiry
  <2>2. d = c /\ (ReadMeta(c) \/ ReadStats(c))
    BY <1>1, <2>1 DEF Beside, InquiryTypes, Place, Ask, Inquire, LockMeta, ReadMeta,
                      ReadStats, Told, IterInit, StartWalk, IterGet, EndWalk, Pass
  <2>3. PICK n \in Records, from \in {"size", "stats"} : Pass(c, from, "told", <<n>>)
    BY <2>2 DEF ReadMeta, ReadStats
  <2>4. ipc[c] = from /\ Head(reply'[c]) = n
    <3>1. ipc[c] = from /\ reply'[c] = <<n>>
      BY <1>1, <2>3 DEF Pass, Beside, InquiryTypes
    <3> QED BY <3>1
  <2>5. Kernel
    BY <1>1 DEF Beside
  <2>6. from = "size" => writer = NoThread
    BY <1>1, <2>4, <2>5 DEF Beside, HolderInv, Kernel, Inv1, LockInv
  <2>7. /\ Size \in Nat /\ Whole \in Nat
        /\ Size \in Whole .. Whole + new(c)
        /\ new(c) \in Nat
    <3>1. CASE writer = NoThread
      BY <2>5, <3>1, WholeSize
    <3>2. CASE writer # NoThread
      <4>1. from = "stats"
        BY <2>6, <3>2
      <4>2. new(c) = Cardinality(newwords[writer])
        BY <2>4, <3>2, <4>1
      <4>3. Whole \in Nat
        <5>1. IsFiniteSet({w \in Word : visible[w] # NoId})
          BY WordAssumption, FS_Subset
        <5> QED BY <5>1, FS_CardinalityType DEF Whole
      <4> QED BY <2>5, <3>2, <4>2, <4>3, WholeSize
    <3> QED BY <3>1, <3>2
  <2>8. n = Size \/ (testword /\ n = Size + 1)
    BY <2>3 DEF Records
  <2> HIDE DEF new
  <2> QED BY <2>4, <2>7, <2>8
<1>2. Beside /\ [InquiriesNext]_ivars =>
        [\A c \in Client : ipc[c] # "told" /\ ipc'[c] = "told" /\ ~counted =>
             Head(reply'[c]) \in Whole .. Whole + new(c) + tested]_ivars
  BY <1>1
<1> QED BY <1>2, BesideAlways, PTL DEF InquiriesSpec, SizesReported
==============================================================================
