------------------------------ MODULE Registry -------------------------------
(***************************************************************************)
(* The server's table of dictionaries and the life of a dict_t.            *)
(*                                                                         *)
(* dtionaries maps a name to a dict_t in the heap, under dtionaries_rwlock *)
(* (tableReaders, tableWriter).  A tokenization takes the dictionary's own *)
(* inuse_rwlock (users, inuseWriter) before it lets the table go;          *)
(* dict_Delete takes the same lock for writing, so that it waits for the   *)
(* tokenizations to end.  The information calls let the table go and take  *)
(* no such lock.  The backup thread works under the table's read lock.     *)
(* A call may never end because of its dictionary: a failed update kept    *)
(* dictstate_rwlock (see Vocabulary), termify does not advance, or a test  *)
(* word was left in the file (see Heartbeat).                              *)
(***************************************************************************)
EXTENDS Integers, FiniteSets

CONSTANTS
    Thread,     \* the connections served at the same time
    Backup,     \* the backup thread
    Name,       \* dictionary names
    Dict,       \* the places in memory a dict_t can have
    Reserved,   \* the names dict_Create refuses (".toksrv.dict" occurs in them)
    NoThread,
    NoName,
    NoDict

ASSUME BackupAssumption == Backup \notin Thread
ASSUME NoThreadAssumption == NoThread \notin Thread \cup {Backup}
ASSUME NoNameAssumption == NoName \notin Name
ASSUME NoDictAssumption == NoDict \notin Dict

Actor == Thread \cup {Backup}

\* The calls, by what they do to the locks: Tokenize, TokenizeSegments and
\* ReverseTokenize; the four information calls; dict_List; dict_Create;
\* dict_Delete; one round of dict_backup.
Call == {"tokenize", "info", "list", "create", "delete", "backup"}

VARIABLES
    dtionaries,     \* Name -> Dict, or NoDict
    heap,           \* Dict -> "free" or "live"
    tableReaders,
    tableWriter,
    users,          \* Dict -> the threads that hold inuse_rwlock for reading
    inuseWriter,    \* Dict -> the thread that holds it for writing
    pc,
    call,           \* what each actor is doing
    name,           \* its local variable "dict_name"
    ptr             \* its local variable "dict"

table == <<tableReaders, tableWriter>>
inuse == <<users, inuseWriter>>
local == <<call, name, ptr>>
vars  == <<dtionaries, heap, table, inuse, pc, local>>

Exists(n) == dtionaries[n] # NoDict

Goto(t, label) == pc' = [pc EXCEPT ![t] = label]

\* The call returns; its local variables are gone.
Return(t) ==
    /\ Goto(t, "idle")
    /\ call' = [call EXCEPT ![t] = "none"]
    /\ name' = [name EXCEPT ![t] = NoName]
    /\ ptr' = [ptr EXCEPT ![t] = NoDict]

Init ==
    /\ dtionaries = [n \in Name |-> NoDict]
    /\ heap = [d \in Dict |-> "free"]
    /\ tableReaders = {}
    /\ tableWriter = NoThread
    /\ users = [d \in Dict |-> {}]
    /\ inuseWriter = [d \in Dict |-> NoThread]
    /\ pc = [t \in Actor |-> "idle"]
    /\ call = [t \in Actor |-> "none"]
    /\ name = [t \in Actor |-> NoName]
    /\ ptr = [t \in Actor |-> NoDict]

Begin(t, c, n) ==
    /\ pc[t] = "idle"
    /\ t = Backup <=> c = "backup"
    /\ n = NoName <=> c \in {"list", "backup"}
    /\ call' = [call EXCEPT ![t] = c]
    /\ name' = [name EXCEPT ![t] = n]
    /\ Goto(t, IF c \in {"create", "delete"} THEN "wrlock" ELSE "rdlock")
    /\ UNCHANGED <<dtionaries, heap, table, inuse, ptr>>

------------------------------------------------------------------------------
\* RDLOCK_OR_FAIL(&ServerState.dtionaries_rwlock)
RdLock(t) ==
    /\ pc[t] = "rdlock"
    /\ tableWriter = NoThread
    /\ tableReaders' = tableReaders \cup {t}
    /\ Goto(t, "find")
    /\ UNCHANGED <<dtionaries, heap, tableWriter, inuse, local>>

\* The name is unknown: the lock is released and the call ends in a fault.
NotFound(t) ==
    /\ pc[t] = "find"
    /\ call[t] \in {"tokenize", "info"}
    /\ ~Exists(name[t])
    /\ tableReaders' = tableReaders \ {t}
    /\ Return(t)
    /\ UNCHANGED <<dtionaries, heap, tableWriter, inuse>>

\* Mutants: the name is not looked up; the table is released before the
\* dictionary's inuse lock is taken.
FindToUseUnchecked(t) ==
    /\ pc[t] = "find"
    /\ call[t] = "tokenize"
    /\ ptr' = [ptr EXCEPT ![t] = dtionaries[name[t]]]
    /\ Goto(t, "inuse")
    /\ UNCHANGED <<dtionaries, heap, table, inuse, call, name>>

FindToUseEarly(t) ==
    /\ pc[t] = "find"
    /\ call[t] = "tokenize"
    /\ Exists(name[t])
    /\ ptr' = [ptr EXCEPT ![t] = dtionaries[name[t]]]
    /\ tableReaders' = tableReaders \ {t}
    /\ Goto(t, "inuse")
    /\ UNCHANGED <<dtionaries, heap, tableWriter, inuse, call, name>>

\* A tokenization keeps the table until it has the dictionary's inuse lock.
FindToUse(t) ==
    /\ pc[t] = "find"
    /\ call[t] = "tokenize"
    /\ Exists(name[t])
    /\ ptr' = [ptr EXCEPT ![t] = dtionaries[name[t]]]
    /\ Goto(t, "inuse")
    /\ UNCHANGED <<dtionaries, heap, table, inuse, call, name>>

Use(t) ==
    /\ pc[t] = "inuse"
    /\ inuseWriter[ptr[t]] = NoThread
    /\ users' = [users EXCEPT ![ptr[t]] = @ \cup {t}]
    /\ Goto(t, "handover")
    /\ UNCHANGED <<dtionaries, heap, table, inuseWriter, local>>

LeaveTable(t) ==
    /\ pc[t] = "handover"
    /\ tableReaders' = tableReaders \ {t}
    /\ Goto(t, "work")
    /\ UNCHANGED <<dtionaries, heap, tableWriter, inuse, local>>

\* It never ends.  A tokenization waits for dictstate_rwlock, which a failed
\* update_dict did not release (tokenize.c:626), or termify finds an empty token
\* again and again (80).  dict_Get_Meta and dict_Get_Stoplist wait for the same lock
\* (dict.c:496, 571); dict_heartbeat finds a test word that was left, for ever and
\* with the disk lock held (698).  The backup thread waits for that disk lock, or
\* was refused it and is gone, with the table's read lock in either case (1212).
GetStuck(t) ==
    /\ \/ pc[t] = "work" /\ Goto(t, "stuck")
       \/ pc[t] = "read" /\ Goto(t, "hung")
       \/ pc[t] = "find" /\ call[t] = "backup" /\ Goto(t, "stalled")
    /\ UNCHANGED <<dtionaries, heap, table, inuse, local>>

\* Mutant: the inuse lock is kept.
StopUsingLocked(t) ==
    /\ pc[t] = "work"
    /\ Return(t)
    /\ UNCHANGED <<dtionaries, heap, table, inuse>>

\* The tokenization is over (what it does is in Vocabulary).
StopUsing(t) ==
    /\ pc[t] = "work"
    /\ users' = [users EXCEPT ![ptr[t]] = @ \ {t}]
    /\ Return(t)
    /\ UNCHANGED <<dtionaries, heap, table, inuseWriter>>

\* dict_Get_Meta, dict_Get_Stoplist, dict_GetStats and dict_heartbeat let the
\* table go as soon as they have the pointer.
FindToRead(t) ==
    /\ pc[t] = "find"
    /\ call[t] = "info"
    /\ Exists(name[t])
    /\ ptr' = [ptr EXCEPT ![t] = dtionaries[name[t]]]
    /\ tableReaders' = tableReaders \ {t}
    /\ Goto(t, "read")
    /\ UNCHANGED <<dtionaries, heap, tableWriter, inuse, call, name>>

\* They read the structure, the locks in it and its tables, whatever is there, and
\* return, if they ever get the lock they wait for (GetStuck).
ReadInfo(t) ==
    /\ pc[t] = "read"
    /\ Return(t)
    /\ UNCHANGED <<dtionaries, heap, table, inuse>>

\* dict_List copies the names; the backup thread goes through the dictionaries.
WorkOnTable(t) ==
    /\ pc[t] = "find"
    /\ call[t] \in {"list", "backup"}
    /\ tableReaders' = tableReaders \ {t}
    /\ Return(t)
    /\ UNCHANGED <<dtionaries, heap, tableWriter, inuse>>

------------------------------------------------------------------------------
\* RWLOCK_OR_FAIL(&ServerState.dtionaries_rwlock)
WrLock(t) ==
    /\ pc[t] = "wrlock"
    /\ tableWriter = NoThread
    /\ tableReaders = {}
    /\ tableWriter' = t
    /\ Goto(t, call[t])
    /\ UNCHANGED <<dtionaries, heap, tableReaders, inuse, local>>

\* Mutant: a name that exists is refused without the table being released.
RefuseLocked(t) ==
    /\ \/ pc[t] = "create" /\ (Exists(name[t]) \/ name[t] \in Reserved)
       \/ pc[t] = "delete" /\ ~Exists(name[t])
    /\ Return(t)
    /\ UNCHANGED <<dtionaries, heap, table, inuse>>

\* dict_Create of a name that exists or is reserved, dict_Delete of one that
\* does not exist.
Refuse(t) ==
    /\ \/ pc[t] = "create" /\ (Exists(name[t]) \/ name[t] \in Reserved)
       \/ pc[t] = "delete" /\ ~Exists(name[t])
    /\ tableWriter' = NoThread
    /\ Return(t)
    /\ UNCHANGED <<dtionaries, heap, tableReaders, inuse>>

\* dict_Create under the write lock; malloc may give a place that was freed.
PutDict(t, d) ==
    /\ pc[t] = "create"
    /\ heap[d] = "free"
    /\ heap' = [heap EXCEPT ![d] = "live"]
    /\ users' = [users EXCEPT ![d] = {}]
    /\ inuseWriter' = [inuseWriter EXCEPT ![d] = NoThread]
    /\ dtionaries' = [dtionaries EXCEPT ![name[t]] = d]
    /\ tableWriter' = NoThread
    /\ Return(t)
    /\ UNCHANGED tableReaders

\* Mutant: a name that exists is created again.
CreateAnyway(t) == \E d \in Dict : PutDict(t, d)

Create(t) ==
    /\ pc[t] = "create"
    /\ ~Exists(name[t])
    /\ name[t] \notin Reserved
    /\ \E d \in Dict : PutDict(t, d)

FindToDelete(t) ==
    /\ pc[t] = "delete"
    /\ Exists(name[t])
    /\ ptr' = [ptr EXCEPT ![t] = dtionaries[name[t]]]
    /\ Goto(t, "drain")
    /\ UNCHANGED <<dtionaries, heap, table, inuse, call, name>>

TakeInuse(t) ==
    /\ pc[t] = "drain"
    /\ inuseWriter[ptr[t]] = NoThread
    /\ inuseWriter' = [inuseWriter EXCEPT ![ptr[t]] = t]
    /\ Goto(t, "remove")
    /\ UNCHANGED <<dtionaries, heap, table, users, local>>

\* Mutant: the inuse lock is not waited for.
DrainAtOnce(t) == TakeInuse(t)

\* RWLOCK_OR_FAIL(&dict->inuse_rwlock), with the table's write lock held.
Drain(t) ==
    /\ pc[t] = "drain"
    /\ users[ptr[t]] = {}
    /\ TakeInuse(t)

\* hash_Del, the files, and the release of the table.
Remove(t) ==
    /\ pc[t] = "remove"
    /\ dtionaries' = [dtionaries EXCEPT ![name[t]] = NoDict]
    /\ tableWriter' = NoThread
    /\ Goto(t, "free")
    /\ UNCHANGED <<heap, tableReaders, inuse, local>>

\* The structure is freed, with the inuse lock in it still held.
Free(t) ==
    /\ pc[t] = "free"
    /\ heap' = [heap EXCEPT ![ptr[t]] = "free"]
    /\ Return(t)
    /\ UNCHANGED <<dtionaries, table, inuse>>

------------------------------------------------------------------------------
Step(t) ==
    \/ RdLock(t)   \/ NotFound(t)     \/ FindToUse(t) \/ Use(t)
    \/ LeaveTable(t) \/ StopUsing(t)  \/ FindToRead(t) \/ ReadInfo(t)
    \/ WorkOnTable(t) \/ WrLock(t)    \/ Refuse(t)    \/ Create(t)
    \/ FindToDelete(t) \/ Drain(t)    \/ Remove(t)    \/ Free(t)

Next == \E t \in Actor :
    \/ \E c \in Call, n \in Name \cup {NoName} : Begin(t, c, n)
    \/ Step(t)
    \/ GetStuck(t)

Spec == Init /\ [][Next]_vars

\* A thread that can run runs, and a lock that is free again and again is got by
\* who waits for it.
Fairness == \A t \in Actor : SF_vars(Step(t))

FairSpec == Spec /\ Fairness

------------------------------------------------------------------------------
(***************************************************************************)
(* Properties                                                              *)
(***************************************************************************)
Label == {"idle", "rdlock", "find", "inuse", "handover", "work", "stuck",
          "read", "hung", "stalled", "wrlock", "create", "delete", "drain", "remove", "free"}

\* Where a tokenization depends on its dictionary, and an information call reads it.
Using   == {"inuse", "handover", "work", "stuck"}
Reading == {"read", "hung"}

\* Every variable holds a value of its type; who works on a dictionary has one.
TypeOK ==
    /\ dtionaries \in [Name -> Dict \cup {NoDict}]
    /\ heap \in [Dict -> {"free", "live"}]
    /\ tableReaders \subseteq Actor
    /\ tableWriter \in Actor \cup {NoThread}
    /\ users \in [Dict -> SUBSET Actor]
    /\ inuseWriter \in [Dict -> Actor \cup {NoThread}]
    /\ pc \in [Actor -> Label]
    /\ call \in [Actor -> Call \cup {"none"}]
    /\ name \in [Actor -> Name \cup {NoName}]
    /\ ptr \in [Actor -> Dict \cup {NoDict}]
    /\ \A t \in Actor : pc[t] \in Using \cup Reading \cup {"drain", "remove", "free"}
                            => ptr[t] \in Dict

\* While a tokenization works on a dictionary, the dictionary is not freed, and
\* it is still the one registered under the name of the call: a delete, and a
\* delete followed by a new create, wait for it.
UsedStaysRegistered ==
    \A t \in Actor : pc[t] \in Using =>
        heap[ptr[t]] = "live" /\ dtionaries[name[t]] = ptr[t]

\* Every pointer in the table leads to a live dictionary of its own, and every
\* live dictionary is in the table or about to be freed by the call that took
\* it out: nothing dangles, nothing is shared, nothing leaks.
TableOwnsHeap ==
    /\ \A n \in Name : Exists(n) => heap[dtionaries[n]] = "live"
    /\ \A m, n \in Name : Exists(n) /\ dtionaries[m] = dtionaries[n] => m = n
    /\ \A d \in Dict : heap[d] = "live" =>
          \/ \E n \in Name : dtionaries[n] = d
          \/ \E t \in Actor : pc[t] = "free" /\ ptr[t] = d

\* A dictionary is freed by one call only, and no other call, but an information
\* call, still has it.
FreedAlone ==
    \A t \in Actor : pc[t] = "free" =>
        /\ heap[ptr[t]] = "live"
        /\ users[ptr[t]] = {}
        /\ \A u \in Actor \ {t} : ptr[u] = ptr[t] => pc[u] \in Reading

\* struct.h says of inuse_rwlock that it "ensures the dictionary doesn't get
\* deleted at a bad time": the information calls read a live dictionary too.
InfoReadsLive ==
    \A t \in Actor : pc[t] \in Reading => heap[ptr[t]] = "live"

\* Seen by the tokenizations, the calls are single steps of a table that no step
\* takes a dictionary out of while one of them has its inuse lock, and that a
\* place in memory enters only when neither the table nor one of them has it
\* (tokenize.c:987-1000, dict.c:226-281, 352-396).
working == [t \in Actor |->
    IF pc[t] \in {"handover", "work", "stuck"} THEN ptr[t] ELSE NoDict]

Directory == INSTANCE Directory WITH Worker <- Actor

ImplementsDirectory == Directory!Spec

\* Somebody deletes a dictionary on which a tokenization is stuck.
Wedged == \E t, u \in Actor :
    pc[t] = "drain" /\ pc[u] = "stuck" /\ ptr[u] = ptr[t]

\* A call that needs the table for reading gets it, and then returns or hangs on
\* something of its own dictionary (tokenize.c:626, dict.c:496, 571, 698, 1212):
\* what others hang on keeps it from the table only if somebody deletes a
\* dictionary on which a tokenization is stuck.
ReadersReturn ==
    []~Wedged => \A t \in Actor :
        (pc[t] = "rdlock" ~> pc[t] \in {"idle", "stuck", "hung", "stalled"})

\* A create or a delete returns if, moreover, the readers leave the table now
\* and then, which they do not with a stalled backup: a delete waits only for the
\* tokenizations that had begun.
WritersReturn ==
    []~Wedged /\ []<>(tableReaders = {}) =>
        \A t \in Thread : (pc[t] = "wrlock" ~> pc[t] = "idle")

------------------------------------------------------------------------------
(***************************************************************************)
(* The inductive invariant the proofs rest on (RegistryProofs).            *)
(***************************************************************************)
\* Which call is at which place, and that it has the name it needs.
CallInv == \A t \in Actor :
    /\ pc[t] = "wrlock" => call[t] \in {"create", "delete"}
    /\ pc[t] \in Using => call[t] = "tokenize"
    /\ pc[t] \in {"create", "delete", "drain", "remove"} =>
          call[t] \in {"create", "delete"}
    /\ call[t] \in {"tokenize", "info", "create", "delete"} => name[t] \in Name

\* dtionaries_rwlock excludes, and who holds it is told by the counters.
TableLockInv ==
    /\ tableWriter # NoThread => tableReaders = {}
    /\ \A t \in Actor : pc[t] \in {"find", "inuse", "handover", "stalled"}
                            => t \in tableReaders
    /\ \A t \in Actor : pc[t] \in {"create", "delete", "drain", "remove"}
                            => tableWriter = t

\* inuse_rwlock: its readers are the tokenizations at work on the dictionary.
InuseInv ==
    /\ \A t \in Actor : pc[t] \in {"handover", "work", "stuck"} => t \in users[ptr[t]]
    /\ \A d \in Dict : \A t \in users[d] :
          pc[t] \in {"handover", "work", "stuck"} /\ ptr[t] = d

\* A name in use, or being deleted, is in the table with the pointer the call
\* has; a dictionary about to be freed is not.
PointerInv ==
    /\ \A t \in Actor : pc[t] \in Using \cup {"drain", "remove"} =>
          dtionaries[name[t]] = ptr[t]
    /\ \A t \in Actor : pc[t] = "remove" => users[ptr[t]] = {}
    /\ \A t \in Actor : ptr[t] # NoDict =>
          pc[t] \in Using \cup Reading \cup {"drain", "remove", "free"}

FreeInv == \A t \in Actor : pc[t] = "free" =>
    /\ heap[ptr[t]] = "live"
    /\ users[ptr[t]] = {}
    /\ \A n \in Name : dtionaries[n] # ptr[t]
    /\ \A u \in Actor : pc[u] = "free" /\ ptr[u] = ptr[t] => u = t

IInv == TypeOK /\ CallInv /\ TableLockInv /\ InuseInv /\ PointerInv
            /\ TableOwnsHeap /\ FreeInv
==============================================================================
