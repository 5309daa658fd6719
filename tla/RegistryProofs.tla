--------------------------- MODULE RegistryProofs ----------------------------
(***************************************************************************)
(* Proofs about Registry, for every number of connections, names and       *)
(* places in memory.  The argument: a call that looks a name up has the    *)
(* table's read lock until it is among the users of the dictionary, a      *)
(* delete has the table's write lock from its look-up to the removal, so   *)
(* that nobody can join the users it has waited for (IInv of Registry).    *)
(***************************************************************************)
EXTENDS Registry, TLAPS

USE BackupAssumption, NoThreadAssumption, NoNameAssumption, NoDictAssumption

\* What one actor may do in a step.
Move(t) ==
    \/ \E c \in Call, n \in Name \cup {NoName} : Begin(t, c, n)
    \/ Step(t)
    \/ GetStuck(t)

\* The server starts with an empty table and nobody at work.
LEMMA InitInv == Init => IInv
BY DEF Init, IInv, TypeOK, CallInv, TableLockInv, InuseInv, PointerInv,
       TableOwnsHeap, FreeInv, Using, Reading, Label, Call, Actor, Exists

\* The variables keep their types, and each call stays where its kind of call can
\* be (all the steps of the calls).
LEMMA TypesKept ==
    ASSUME IInv, NEW t \in Actor, Move(t)
    PROVE  TypeOK' /\ CallInv'
<1> USE DEF IInv, TypeOK, CallInv, Label, Call, Exists, Using, Reading, Actor, Goto,
            table, inuse, local
<1>1. CASE \E c \in Call, n \in Name \cup {NoName} : Begin(t, c, n)
  BY <1>1 DEF Begin
<1>2. CASE RdLock(t)
  BY <1>2 DEF RdLock
<1>3. CASE NotFound(t)
  BY <1>3 DEF NotFound, Return
<1>4. CASE FindToUse(t)
  BY <1>4 DEF FindToUse
<1>5. CASE Use(t)
  BY <1>5 DEF Use
<1>6. CASE LeaveTable(t)
  BY <1>6 DEF LeaveTable
<1>7. CASE StopUsing(t)
  BY <1>7 DEF StopUsing, Return
<1>8. CASE GetStuck(t)
  BY <1>8 DEF GetStuck
<1>9. CASE FindToRead(t)
  BY <1>9 DEF FindToRead
<1>10. CASE ReadInfo(t)
  BY <1>10 DEF ReadInfo, Return
<1>11. CASE WorkOnTable(t)
  BY <1>11 DEF WorkOnTable, Return
<1>12. CASE WrLock(t)
  BY <1>12 DEF WrLock
<1>13. CASE Refuse(t)
  BY <1>13 DEF Refuse, Return
<1>14. CASE Create(t)
  BY <1>14 DEF Create, Return, PutDict
<1>15. CASE FindToDelete(t)
  BY <1>15 DEF FindToDelete
<1>16. CASE Drain(t)
  BY <1>16 DEF Drain, TakeInuse
<1>17. CASE Remove(t)
  BY <1>17 DEF Remove
<1>18. CASE Free(t)
  BY <1>18 DEF Free, Return
<1> QED BY <1>1, <1>2, <1>3, <1>4, <1>5, <1>6, <1>7, <1>8, <1>9, <1>10, <1>11,
           <1>12, <1>13, <1>14, <1>15, <1>16, <1>17, <1>18 DEF Move, Step

\* dtionaries_rwlock stays exclusive (RDLOCK_OR_FAIL, RWLOCK_OR_FAIL and
\* RWUNLOCK_OR_FAIL of the table in every call).
LEMMA TableLockKept ==
    ASSUME IInv, NEW t \in Actor, Move(t)
    PROVE  TableLockInv'
<1> USE DEF IInv, TypeOK, CallInv, TableLockInv, Using, Reading, Actor, Goto, table,
            inuse, local
<1>1. CASE \E c \in Call, n \in Name \cup {NoName} : Begin(t, c, n)
  BY <1>1 DEF Begin
<1>2. CASE RdLock(t)
  BY <1>2 DEF RdLock
<1>3. CASE NotFound(t)
  BY <1>3 DEF NotFound, Return
<1>4. CASE FindToUse(t)
  BY <1>4 DEF FindToUse
<1>5. CASE Use(t)
  BY <1>5 DEF Use
<1>6. CASE LeaveTable(t)
  BY <1>6 DEF LeaveTable
<1>7. CASE StopUsing(t)
  BY <1>7 DEF StopUsing, Return
<1>8. CASE GetStuck(t)
  BY <1>8 DEF GetStuck
<1>9. CASE FindToRead(t)
  BY <1>9 DEF FindToRead
<1>10. CASE ReadInfo(t)
  BY <1>10 DEF ReadInfo, Return
<1>11. CASE WorkOnTable(t)
  BY <1>11 DEF WorkOnTable, Return
<1>12. CASE WrLock(t)
  BY <1>12 DEF WrLock
<1>13. CASE Refuse(t)
  BY <1>13 DEF Refuse, Return
<1>14. CASE Create(t)
  BY <1>14 DEF Create, Return, PutDict
<1>15. CASE FindToDelete(t)
  BY <1>15 DEF FindToDelete
<1>16. CASE Drain(t)
  BY <1>16 DEF Drain, TakeInuse
<1>17. CASE Remove(t)
  BY <1>17 DEF Remove
<1>18. CASE Free(t)
  BY <1>18 DEF Free, Return
<1> QED BY <1>1, <1>2, <1>3, <1>4, <1>5, <1>6, <1>7, <1>8, <1>9, <1>10, <1>11,
           <1>12, <1>13, <1>14, <1>15, <1>16, <1>17, <1>18 DEF Move, Step

\* The readers of inuse_rwlock stay the tokenizations at work; a new dictionary
\* takes a place nobody works on.
LEMMA InuseKept ==
    ASSUME IInv, NEW t \in Actor, Move(t)
    PROVE  InuseInv'
<1> USE DEF IInv, TypeOK, CallInv, TableLockInv, InuseInv, PointerInv,
            TableOwnsHeap, Exists, Using, Reading, Actor, Goto, table, inuse,
            local
<1>1. CASE \E c \in Call, n \in Name \cup {NoName} : Begin(t, c, n)
  BY <1>1 DEF Begin
<1>2. CASE RdLock(t)
  BY <1>2 DEF RdLock
<1>3. CASE NotFound(t)
  BY <1>3 DEF NotFound, Return
<1>4. CASE FindToUse(t)
  BY <1>4 DEF FindToUse
<1>5. CASE Use(t)
  BY <1>5 DEF Use
<1>6. CASE LeaveTable(t)
  BY <1>6 DEF LeaveTable
<1>7. CASE StopUsing(t)
  BY <1>7 DEF StopUsing, Return
<1>8. CASE GetStuck(t)
  BY <1>8 DEF GetStuck
<1>9. CASE FindToRead(t)
  BY <1>9 DEF FindToRead
<1>10. CASE ReadInfo(t)
  BY <1>10 DEF ReadInfo, Return
<1>11. CASE WorkOnTable(t)
  BY <1>11 DEF WorkOnTable, Return
<1>12. CASE WrLock(t)
  BY <1>12 DEF WrLock
<1>13. CASE Refuse(t)
  BY <1>13 DEF Refuse, Return
<1>14. CASE Create(t)
  BY <1>14 DEF Create, Return, PutDict
<1>15. CASE FindToDelete(t)
  BY <1>15 DEF FindToDelete
<1>16. CASE Drain(t)
  BY <1>16 DEF Drain, TakeInuse
<1>17. CASE Remove(t)
  BY <1>17 DEF Remove
<1>18. CASE Free(t)
  BY <1>18 DEF Free, Return
<1> QED BY <1>1, <1>2, <1>3, <1>4, <1>5, <1>6, <1>7, <1>8, <1>9, <1>10, <1>11,
           <1>12, <1>13, <1>14, <1>15, <1>16, <1>17, <1>18 DEF Move, Step

\* A name in use keeps its dictionary: only the holder of the table's write lock
\* changes the table, and only after it has waited for the users.
LEMMA PointersKept ==
    ASSUME IInv, NEW t \in Actor, Move(t)
    PROVE  PointerInv'
<1> USE DEF IInv, TypeOK, CallInv, TableLockInv, InuseInv, PointerInv,
            TableOwnsHeap, FreeInv, Exists, Using, Reading, Actor, Goto, table,
            inuse, local
<1>1. CASE \E c \in Call, n \in Name \cup {NoName} : Begin(t, c, n)
  BY <1>1 DEF Begin
<1>2. CASE RdLock(t)
  BY <1>2 DEF RdLock
<1>3. CASE NotFound(t)
  BY <1>3 DEF NotFound, Return
<1>4. CASE FindToUse(t)
  BY <1>4 DEF FindToUse
<1>5. CASE Use(t)
  BY <1>5 DEF Use
<1>6. CASE LeaveTable(t)
  BY <1>6 DEF LeaveTable
<1>7. CASE StopUsing(t)
  BY <1>7 DEF StopUsing, Return
<1>8. CASE GetStuck(t)
  BY <1>8 DEF GetStuck
<1>9. CASE FindToRead(t)
  BY <1>9 DEF FindToRead
<1>10. CASE ReadInfo(t)
  BY <1>10 DEF ReadInfo, Return
<1>11. CASE WorkOnTable(t)
  BY <1>11 DEF WorkOnTable, Return
<1>12. CASE WrLock(t)
  BY <1>12 DEF WrLock
<1>13. CASE Refuse(t)
  BY <1>13 DEF Refuse, Return
<1>14. CASE Create(t)
  BY <1>14 DEF Create, Return, PutDict
<1>15. CASE FindToDelete(t)
  BY <1>15 DEF FindToDelete
<1>16. CASE Drain(t)
  BY <1>16 DEF Drain, TakeInuse
<1>17. CASE Remove(t)
  BY <1>17 DEF Remove
<1>18. CASE Free(t)
  BY <1>18 DEF Free, Return
<1> QED BY <1>1, <1>2, <1>3, <1>4, <1>5, <1>6, <1>7, <1>8, <1>9, <1>10, <1>11,
           <1>12, <1>13, <1>14, <1>15, <1>16, <1>17, <1>18 DEF Move, Step

\* The table keeps leading to live dictionaries, each its own (dict_Create and
\* dict_Delete).
LEMMA HeapKept ==
    ASSUME IInv, NEW t \in Actor, Move(t)
    PROVE  TableOwnsHeap'
<1> USE DEF IInv, TypeOK, CallInv, PointerInv, TableOwnsHeap, FreeInv, Exists,
            Using, Reading, Actor, Goto, table, inuse, local
<1>1. CASE \E c \in Call, n \in Name \cup {NoName} : Begin(t, c, n)
  BY <1>1 DEF Begin
<1>2. CASE RdLock(t)
  BY <1>2 DEF RdLock
<1>3. CASE NotFound(t)
  BY <1>3 DEF NotFound, Return
<1>4. CASE FindToUse(t)
  BY <1>4 DEF FindToUse
<1>5. CASE Use(t)
  BY <1>5 DEF Use
<1>6. CASE LeaveTable(t)
  BY <1>6 DEF LeaveTable
<1>7. CASE StopUsing(t)
  BY <1>7 DEF StopUsing, Return
<1>8. CASE GetStuck(t)
  BY <1>8 DEF GetStuck
<1>9. CASE FindToRead(t)
  BY <1>9 DEF FindToRead
<1>10. CASE ReadInfo(t)
  BY <1>10 DEF ReadInfo, Return
<1>11. CASE WorkOnTable(t)
  BY <1>11 DEF WorkOnTable, Return
<1>12. CASE WrLock(t)
  BY <1>12 DEF WrLock
<1>13. CASE Refuse(t)
  BY <1>13 DEF Refuse, Return
<1>14. CASE Create(t)
  BY <1>14 DEF Create, Return, PutDict
<1>15. CASE FindToDelete(t)
  BY <1>15 DEF FindToDelete
<1>16. CASE Drain(t)
  BY <1>16 DEF Drain, TakeInuse
<1>17. CASE Remove(t)
  BY <1>17 DEF Remove
<1>18. CASE Free(t)
  BY <1>18 DEF Free, Return
<1> QED BY <1>1, <1>2, <1>3, <1>4, <1>5, <1>6, <1>7, <1>8, <1>9, <1>10, <1>11,
           <1>12, <1>13, <1>14, <1>15, <1>16, <1>17, <1>18 DEF Move, Step

\* A dictionary about to be freed (the end of dict_Delete) stays out of the table
\* and out of use.
LEMMA FreeKept ==
    ASSUME IInv, NEW t \in Actor, Move(t)
    PROVE  FreeInv'
<1> USE DEF IInv, TypeOK, CallInv, TableLockInv, InuseInv, PointerInv,
            TableOwnsHeap, FreeInv, Exists, Using, Reading, Actor, Goto, table,
            inuse, local
<1>1. CASE \E c \in Call, n \in Name \cup {NoName} : Begin(t, c, n)
  BY <1>1 DEF Begin
<1>2. CASE RdLock(t)
  BY <1>2 DEF RdLock
<1>3. CASE NotFound(t)
  BY <1>3 DEF NotFound, Return
<1>4. CASE FindToUse(t)
  BY <1>4 DEF FindToUse
<1>5. CASE Use(t)
  BY <1>5 DEF Use
<1>6. CASE LeaveTable(t)
  BY <1>6 DEF LeaveTable
<1>7. CASE StopUsing(t)
  BY <1>7 DEF StopUsing, Return
<1>8. CASE GetStuck(t)
  BY <1>8 DEF GetStuck
<1>9. CASE FindToRead(t)
  BY <1>9 DEF FindToRead
<1>10. CASE ReadInfo(t)
  BY <1>10 DEF ReadInfo, Return
<1>11. CASE WorkOnTable(t)
  BY <1>11 DEF WorkOnTable, Return
<1>12. CASE WrLock(t)
  BY <1>12 DEF WrLock
<1>13. CASE Refuse(t)
  BY <1>13 DEF Refuse, Return
<1>14. CASE Create(t)
  BY <1>14 DEF Create, Return, PutDict
<1>15. CASE FindToDelete(t)
  BY <1>15 DEF FindToDelete
<1>16. CASE Drain(t)
  BY <1>16 DEF Drain, TakeInuse
<1>17. CASE Remove(t)
  BY <1>17 DEF Remove
<1>18. CASE Free(t)
  BY <1>18 DEF Free, Return
<1> QED BY <1>1, <1>2, <1>3, <1>4, <1>5, <1>6, <1>7, <1>8, <1>9, <1>10, <1>11,
           <1>12, <1>13, <1>14, <1>15, <1>16, <1>17, <1>18 DEF Move, Step

\* No step of any call breaks the invariant.
LEMMA StepInv == IInv /\ [Next]_vars => IInv'
<1> SUFFICES ASSUME IInv, [Next]_vars
             PROVE  IInv'
  OBVIOUS
<1>1. CASE UNCHANGED vars
  BY <1>1 DEF vars, table, inuse, local, IInv, TypeOK, CallInv, TableLockInv,
              InuseInv, PointerInv, TableOwnsHeap, FreeInv, Exists
<1>2. ASSUME NEW t \in Actor, Move(t)
      PROVE  IInv'
  BY <1>2, TypesKept, TableLockKept, InuseKept, PointersKept, HeapKept, FreeKept
     DEF IInv
<1>3. CASE Next
  BY <1>2, <1>3 DEF Next, Move
<1> QED
  BY <1>1, <1>3

\* The invariant of the table, the locks and the local pointers always holds.
THEOREM InvAlways == Spec => []IInv
BY InitInv, StepInv, PTL DEF Spec

\* Type correctness of the registry's state and of every call's local variables.
THEOREM TypeCorrect == Spec => []TypeOK
<1>1. IInv => TypeOK
  BY DEF IInv
<1> QED
  BY <1>1, InvAlways, PTL

\* A tokenization (tokenize.c:987-1014) never works on a dictionary that
\* dict_Delete has taken out of the table or freed.
THEOREM UsersProtected == Spec => []UsedStaysRegistered
<1>1. IInv => UsedStaysRegistered
  BY DEF IInv, TypeOK, PointerInv, TableOwnsHeap, UsedStaysRegistered, Using,
         CallInv, Exists
<1> QED
  BY <1>1, InvAlways, PTL

\* The table and the heap agree: no dangling, shared or lost dictionary.
THEOREM HeapCorrect == Spec => []TableOwnsHeap
<1>1. IInv => TableOwnsHeap
  BY DEF IInv
<1> QED
  BY <1>1, InvAlways, PTL

\* dict_Delete frees a dictionary once, and alone but for information calls.
THEOREM FreesAlone == Spec => []FreedAlone
<1>1. IInv => FreedAlone
  <2> SUFFICES ASSUME IInv, NEW t \in Actor, pc[t] = "free",
                      NEW u \in Actor \ {t}, ptr[u] = ptr[t]
               PROVE  pc[u] \in Reading
    BY DEF IInv, FreeInv, FreedAlone
  <2>1. ptr[t] \in Dict
    BY DEF IInv, TypeOK
  <2>2. pc[u] \in Using \cup Reading \cup {"drain", "remove", "free"}
    BY <2>1 DEF IInv, PointerInv
  <2>3. pc[u] \notin Using \cup {"drain", "remove"}
    BY DEF IInv, PointerInv, FreeInv, CallInv, Using
  <2>4. pc[u] # "free"
    BY DEF IInv, FreeInv
  <2> QED
    BY <2>2, <2>3, <2>4
<1> QED
  BY <1>1, InvAlways, PTL

(***************************************************************************)
(* The refinement                                                          *)
(***************************************************************************)
\* A step that neither changes the table nor begins or ends a piece of work.
LEMMA WorkUnchanged ==
    ASSUME TypeOK, NEW t \in Actor, NEW l, NEW d,
           pc' = [pc EXCEPT ![t] = l], ptr' = [ptr EXCEPT ![t] = d],
           \/ pc[t] \notin {"handover", "work", "stuck"} /\ l \notin {"handover", "work", "stuck"}
           \/ pc[t] \in {"handover", "work"} /\ l \in {"work", "stuck"} /\ d = ptr[t]
    PROVE  working' = working
BY DEF working, TypeOK

\* The inuse lock is got: the tokenization begins to work on what has its name.
LEMMA UseBegins == ASSUME IInv, NEW t \in Actor, Use(t) PROVE Directory!Next
<1>1. /\ pc[t] = "inuse" /\ pc' = [pc EXCEPT ![t] = "handover"]
      /\ dtionaries' = dtionaries /\ ptr' = ptr
  BY DEF Use, Goto, local
<1>2. /\ name[t] \in Name /\ dtionaries[name[t]] = ptr[t] /\ ptr[t] \in Dict
  BY <1>1 DEF IInv, TypeOK, CallInv, PointerInv, Using
<1>3. working[t] = NoDict /\ working' = [working EXCEPT ![t] = ptr[t]]
  BY <1>1 DEF working, IInv, TypeOK
<1>4. Directory!Begin(t, name[t])
  BY <1>1, <1>2, <1>3 DEF Directory!Begin
<1> QED BY <1>2, <1>4 DEF Directory!Next

LEMMA StopUsingEnds == ASSUME IInv, NEW t \in Actor, StopUsing(t) PROVE Directory!Next
<1>1. /\ pc[t] = "work" /\ pc' = [pc EXCEPT ![t] = "idle"]
      /\ dtionaries' = dtionaries /\ ptr' = [ptr EXCEPT ![t] = NoDict]
  BY DEF StopUsing, Return, Goto
<1>2. ptr[t] \in Dict
  BY <1>1 DEF IInv, TypeOK, Using
<1>3. working[t] # NoDict /\ working' = [working EXCEPT ![t] = NoDict]
  BY <1>1, <1>2 DEF working, IInv, TypeOK
<1>4. Directory!End(t)
  BY <1>1, <1>3 DEF Directory!End
<1> QED BY <1>4 DEF Directory!Next

\* A place that is free is in nobody's hands.
LEMMA CreateCreates == ASSUME IInv, NEW t \in Actor, Create(t) PROVE Directory!Next
<1>1. PICK d \in Dict : PutDict(t, d)
  BY DEF Create
<1>2. /\ pc[t] = "create" /\ pc' = [pc EXCEPT ![t] = "idle"]
      /\ ptr' = [ptr EXCEPT ![t] = NoDict] /\ heap[d] = "free"
      /\ dtionaries' = [dtionaries EXCEPT ![name[t]] = d]
  BY <1>1 DEF PutDict, Return, Goto
<1>3. name[t] \in Name /\ name[t] \notin Reserved /\ dtionaries[name[t]] = NoDict
  BY <1>2 DEF Create, Exists, IInv, CallInv
<1>4. \A n \in Name : dtionaries[n] # d
  BY <1>2 DEF IInv, TableOwnsHeap, Exists
<1>5. \A u \in Actor : working[u] # d
  <2> SUFFICES ASSUME NEW u \in Actor, pc[u] \in {"handover", "work", "stuck"}
               PROVE  ptr[u] # d
    BY DEF working
  <2>1. name[u] \in Name /\ dtionaries[name[u]] = ptr[u]
    BY DEF IInv, CallInv, PointerInv, Using
  <2> QED BY <1>4, <2>1
<1>6. working' = working
  BY <1>2, WorkUnchanged DEF IInv
<1>7. Directory!Create(name[t], d)
  BY <1>2, <1>3, <1>4, <1>5, <1>6 DEF Directory!Create, Directory!Taken
<1> QED BY <1>3, <1>7 DEF Directory!Next

\* When the inuse lock was got for writing nobody works on the dictionary.
LEMMA RemoveDeletes == ASSUME IInv, NEW t \in Actor, Remove(t) PROVE Directory!Next
<1>1. /\ pc[t] = "remove" /\ pc' = [pc EXCEPT ![t] = "free"] /\ ptr' = ptr
      /\ dtionaries' = [dtionaries EXCEPT ![name[t]] = NoDict]
  BY DEF Remove, Goto, local
<1>2. /\ name[t] \in Name /\ ptr[t] \in Dict /\ dtionaries[name[t]] = ptr[t]
      /\ users[ptr[t]] = {}
  BY <1>1 DEF IInv, TypeOK, CallInv, PointerInv
<1>3. \A u \in Actor : working[u] # ptr[t]
  <2> SUFFICES ASSUME NEW u \in Actor, pc[u] \in {"handover", "work", "stuck"}
               PROVE  ptr[u] # ptr[t]
    BY <1>2 DEF working
  <2> QED BY <1>2 DEF IInv, InuseInv
<1>4. working' = working
  <2>1. ptr' = [ptr EXCEPT ![t] = ptr[t]]
    BY <1>1 DEF IInv, TypeOK
  <2> QED BY <1>1, <2>1, WorkUnchanged DEF IInv
<1>5. Directory!Delete(name[t])
  BY <1>1, <1>2, <1>3, <1>4 DEF Directory!Delete
<1> QED BY <1>2, <1>5 DEF Directory!Next

LEMMA StepOfDirectory == IInv /\ [Next]_vars => [Directory!Next]_(Directory!dvars)
<1> SUFFICES ASSUME IInv, [Next]_vars PROVE [Directory!Next]_(Directory!dvars)
  OBVIOUS
<1>1. CASE UNCHANGED vars
  BY <1>1 DEF vars, local, working, Directory!dvars
<1>2. ASSUME NEW t \in Actor, Move(t)
      PROVE  [Directory!Next]_(Directory!dvars)
  <2>1. CASE Use(t) \/ StopUsing(t) \/ Create(t) \/ Remove(t)
    BY <2>1, UseBegins, StopUsingEnds, CreateCreates, RemoveDeletes
  <2>2. CASE LeaveTable(t) \/ GetStuck(t)
    <3>1. /\ dtionaries' = dtionaries /\ ptr' = [ptr EXCEPT ![t] = ptr[t]]
          /\ \/ pc[t] = "handover" /\ pc' = [pc EXCEPT ![t] = "work"]
             \/ pc[t] = "work" /\ pc' = [pc EXCEPT ![t] = "stuck"]
             \/ pc[t] = "read" /\ pc' = [pc EXCEPT ![t] = "hung"]
             \/ pc[t] = "find" /\ pc' = [pc EXCEPT ![t] = "stalled"]
      BY <2>2 DEF LeaveTable, GetStuck, Goto, local, IInv, TypeOK
    <3>2. working' = working
      BY <3>1, WorkUnchanged DEF IInv
    <3> QED BY <3>1, <3>2 DEF Directory!dvars
  <2>3. CASE ~(Use(t) \/ StopUsing(t) \/ Create(t) \/ Remove(t) \/ LeaveTable(t)
                   \/ GetStuck(t))
    <3>1. /\ dtionaries' = dtionaries
          /\ \E l \in Label : \E d \in Dict \cup {NoDict} :
                 /\ pc' = [pc EXCEPT ![t] = l] /\ ptr' = [ptr EXCEPT ![t] = d]
                 /\ pc[t] \notin {"handover", "work", "stuck"}
                 /\ l \notin {"handover", "work", "stuck"}
      <4> USE DEF IInv, TypeOK, Goto, local, Label
      <4>1. CASE \E c \in Call, n \in Name \cup {NoName} : Begin(t, c, n)
        <5>1. /\ pc[t] = "idle" /\ ptr' = ptr /\ dtionaries' = dtionaries
              /\ \E l \in {"wrlock", "rdlock"} : pc' = [pc EXCEPT ![t] = l]
          BY <4>1 DEF Begin
        <5>2. ptr' = [ptr EXCEPT ![t] = ptr[t]] /\ ptr[t] \in Dict \cup {NoDict}
          BY <5>1
        <5> QED BY <5>1, <5>2
      <4>2. CASE RdLock(t)
        BY <4>2 DEF RdLock
      <4>3. CASE NotFound(t) \/ ReadInfo(t) \/ WorkOnTable(t) \/ Refuse(t) \/ Free(t)
        <5>1. pc' = [pc EXCEPT ![t] = "idle"] /\ ptr' = [ptr EXCEPT ![t] = NoDict]
          BY <4>3 DEF NotFound, ReadInfo, WorkOnTable, Refuse, Free, Return
        <5>2. pc[t] \notin {"handover", "work", "stuck"} /\ dtionaries' = dtionaries
          BY <4>3 DEF NotFound, ReadInfo, WorkOnTable, Refuse, Free
        <5> QED BY <5>1, <5>2
      <4>4. CASE FindToUse(t) \/ FindToRead(t) \/ FindToDelete(t)
        BY <4>4 DEF FindToUse, FindToRead, FindToDelete, Exists, CallInv
      <4>5. CASE WrLock(t)
        <5>1. /\ pc[t] = "wrlock" /\ ptr' = ptr /\ dtionaries' = dtionaries
              /\ \E l \in {"create", "delete"} : pc' = [pc EXCEPT ![t] = l]
          BY <4>5 DEF WrLock, CallInv
        <5>2. ptr' = [ptr EXCEPT ![t] = ptr[t]] /\ ptr[t] \in Dict \cup {NoDict}
          BY <5>1
        <5> QED BY <5>1, <5>2
      <4>6. CASE Drain(t)
        BY <4>6 DEF Drain, TakeInuse
      <4> QED BY <1>2, <2>3, <4>1, <4>2, <4>3, <4>4, <4>5, <4>6 DEF Move, Step
    <3>2. working' = working
      BY <3>1, WorkUnchanged DEF IInv
    <3> QED BY <3>1, <3>2 DEF Directory!dvars
  <2> QED BY <2>1, <2>2, <2>3
<1>3. CASE Next
  BY <1>2, <1>3 DEF Next, Move
<1> QED BY <1>1, <1>3

\* Seen by the tokenizations, the server's table is the one that Directory
\* describes: the calls' many steps under three kinds of locks look like single
\* ones (tokenize.c:987-1014, dict.c:181-286, 337-397).
THEOREM Refinement == Spec => ImplementsDirectory
<1>1. Init => Directory!Init
  BY DEF Init, Directory!Init, working
<1> QED
  BY <1>1, StepOfDirectory, InvAlways, PTL
     DEF Spec, ImplementsDirectory, Directory!Spec
==============================================================================
