------------------------------ MODULE Inquiries ------------------------------
(***************************************************************************)
(* The calls that read a dictionary while requests add words to it:        *)
(* dict_Get_Meta and dict_Get_Stoplist under dictstate_rwlock,             *)
(* dict_GetStats under a lock of its own, and heartbeats.                  *)
(*                                                                         *)
(* The stop list is one hash table with its own iterator (there are three, *)
(* walked one after the other); its words are 1 .. NStop in its order.     *)
(***************************************************************************)
EXTENDS Vocabulary, Heartbeat, Sequences

CONSTANTS
    Client,         \* the connections that ask
    NStop           \* hash_Size of the stop list

ASSUME ClientAssumption == Client \cap (Thread \cup {NoThread}) = {}
ASSUME NStopAssumption == NStop \in Nat

VARIABLES
    ipc,            \* where each client is
    reply,          \* the sizes or the words it has got
    iter,           \* the hash's iterator: the words it has passed
    \* History.
    overlapped,     \* clients whose walk another walk began in, or that began in one
    counted         \* an update has counted a heartbeat's word

inquiry == <<ipc, reply, iter, overlapped>>
ivars   == <<vars, hvars, inquiry, counted>>

InquiriesInit ==
    /\ Init
    /\ HeartbeatInit
    /\ ipc = [c \in Client |-> "idle"]
    /\ reply = [c \in Client |-> << >>]
    /\ iter = 0
    /\ overlapped = {}
    /\ counted = FALSE

\* The client leaves one place with a reply for another.
Pass(c, from, to, answer) ==
    /\ ipc[c] = from
    /\ ipc' = [ipc EXCEPT ![c] = to]
    /\ reply' = [reply EXCEPT ![c] = answer]

Alone(holders) == /\ readers' = holders
                  /\ UNCHANGED <<tables, writer, pc, request, lookup, batch, hvars, counted>>

------------------------------------------------------------------------------
(***************************************************************************)
(* dict_Get_Meta, dict_GetStats and dict_Get_Stoplist, once the dictionary *)
(* is looked up in the table.  Bounds: no other call is made while stop    *)
(* lists are read, and none is going on when or after an update counts a   *)
(* test word.                                                              *)
(***************************************************************************)
Ask(c, what) ==
    /\ ~counted
    /\ \A d \in Client \ {c} :
           ipc[d] # "idle" => what = "stoplist" /\ ipc[d] \in {"stoplist", "walk"}
    /\ what = "stoplist" => hpc = "idle"
    /\ Pass(c, "idle", what, << >>)
    /\ Alone(readers)
    /\ UNCHANGED <<iter, overlapped>>

\* Mutant: the lock is not waited for.
LockMetaAtOnce(c) ==
    /\ Pass(c, "meta", "size", << >>)
    /\ Alone(readers \cup {c})
    /\ UNCHANGED <<iter, overlapped>>

LockMeta(c) ==
    /\ writer = NoThread
    /\ Pass(c, "meta", "size", << >>)
    /\ Alone(readers \cup {c})
    /\ UNCHANGED <<iter, overlapped>>

\* hhash_Size: the records of the file, with the test word if the library does not
\* wait for the disk lock.
Records == IF testword THEN {Size, Size + 1} ELSE {Size}

ReadMeta(c) ==
    /\ \E n \in Records : Pass(c, "size", "told", <<n>>)
    /\ Alone(readers \ {c})
    /\ UNCHANGED <<iter, overlapped>>

\* dict_statslock keeps nobody from the dictionary.
ReadStats(c) ==
    /\ \E n \in Records : Pass(c, "stats", "told", <<n>>)
    /\ Alone(readers)
    /\ UNCHANGED <<iter, overlapped>>

Walking == {d \in Client : ipc[d] = "walk"}

StartWalk(c, first) ==
    /\ writer = NoThread
    /\ Pass(c, "stoplist", "walk", << >>)
    /\ iter' = first
    /\ overlapped' = overlapped \cup
           (IF Walking = {} THEN {} ELSE Walking \cup {c})
    /\ Alone(readers \cup {c})

\* Mutant: the iterator stays where the last walk has left it.
IterInitForgotten(c) == StartWalk(c, iter)

\* The lock is taken, and hash_IterInit resets the iterator.
IterInit(c) == StartWalk(c, 0)

\* create_xmlrpc_array_hash_t counts up to hash_Size and takes what the iterator
\* comes to.
IterGet(c) ==
    /\ Len(reply[c]) < NStop
    /\ iter < NStop
    /\ Pass(c, "walk", "walk", Append(reply[c], iter + 1))
    /\ iter' = iter + 1
    /\ Alone(readers)
    /\ UNCHANGED overlapped

\* The array is whole; or the iterator has no word left, and the call ends with a
\* fault (or the process dies, and nothing follows).
EndWalk(c) ==
    /\ Len(reply[c]) = NStop \/ iter = NStop
    /\ Pass(c, "walk", "idle", << >>)
    /\ overlapped' = overlapped \ {c}
    /\ Alone(readers \ {c})
    /\ UNCHANGED iter

Told(c) ==
    /\ Pass(c, "told", "idle", << >>)
    /\ Alone(readers)
    /\ UNCHANGED <<iter, overlapped>>

Inquire(c) ==
    \/ LockMeta(c) \/ ReadMeta(c) \/ ReadStats(c) \/ Told(c)
    \/ IterInit(c) \/ IterGet(c) \/ EndWalk(c)

------------------------------------------------------------------------------
(***************************************************************************)
(* The requests of Vocabulary beside a heartbeat: hhash_Put waits for the  *)
(* disk lock, and the size is read with or without the test word.          *)
(***************************************************************************)
Serve(t) ==
    /\ Step(t)
    /\ dict' # dict => ~DiskTested
    /\ UNCHANGED <<hvars, inquiry, counted>>

ReadSizeTested(t) ==
    /\ testword
    /\ pc[t] = "size"
    /\ nodictn' = [nodictn EXCEPT ![t] = Size + 1]
    /\ Goto(t, "rdlock")
    /\ UNCHANGED <<tables, lock, request, ids, newwords, batch, hvars, inquiry, counted>>

WrLockTested(t) ==
    /\ testword
    /\ writer = NoThread
    /\ \A c \in Client : ipc[c] = "idle"
    /\ StartUpdate(t, Size + 1)
    /\ counted' = (counted \/ hpc = "there")
    /\ UNCHANGED <<hvars, inquiry>>

Tested ==
    /\ \/ CallHeartbeat /\ \A c \in Client : ipc[c] \notin {"stoplist", "walk"}
       \/ LockDisk
       \/ Test
    /\ UNCHANGED <<vars, inquiry, counted>>

InquiriesNext ==
    \/ \E t \in Thread :
           \/ \E S \in (SUBSET Word) \ {{}}, u \in BOOLEAN :
                  Request(t, S, u) /\ UNCHANGED <<hvars, inquiry, counted>>
           \/ Serve(t)
           \/ ReadSizeTested(t)
           \/ WrLockTested(t)
    \/ \E c \in Client :
           \/ \E what \in {"meta", "stats", "stoplist"} : Ask(c, what)
           \/ Inquire(c)
    \/ Tested

InquiriesSpec == InquiriesInit /\ [][InquiriesNext]_ivars

\* Each thread runs, and gets the lock it waits for when that is free again and
\* again.
InquiriesFairSpec ==
    /\ InquiriesSpec
    /\ \A t \in Thread : SF_ivars(Serve(t))
    /\ \A c \in Client : SF_ivars(Inquire(c))
    /\ WF_ivars((LockDisk \/ Test) /\ UNCHANGED <<vars, inquiry, counted>>)

------------------------------------------------------------------------------
(***************************************************************************)
(* Properties                                                              *)
(***************************************************************************)
\* The ids stay dense beside heartbeats, unless an update counts the test word
\* that is in the file for a moment (dict.c:697).
DenseIdsUnlessCounted == ~counted => DenseIds

\* The words of completed updates, as Abstract has them.
Whole == Cardinality({w \in Word : visible[w] # NoId})

\* dict_Get_Meta tells the size between two updates; dict_GetStats may be told a
\* part of the update under way; a test word may be counted by either
\* (dict.c:498-500, 790-792).
SizesReported ==
    [][\A c \in Client : ipc[c] # "told" /\ ipc'[c] = "told" /\ ~counted =>
         LET new == IF ipc[c] = "stats" /\ writer # NoThread
                    THEN Cardinality(newwords[writer]) ELSE 0
             tested == IF testword THEN 1 ELSE 0
         IN  Head(reply'[c]) \in Whole .. Whole + new + tested]_ivars

\* A stop list is read whole, each word once, unless two calls read it at once:
\* a read lock does not keep them from the one iterator (utils.c:304-315).
StopListWhole ==
    [][\A c \in Client :
         ipc[c] = "walk" /\ ipc'[c] = "idle" /\ c \notin overlapped =>
             reply[c] = [k \in 1 .. NStop |-> k]]_ivars

\* While no write fails (Faults is empty), every inquiry is answered, whatever
\* requests and heartbeats go on: a failed update_dict would keep dictstate_rwlock,
\* which two of them wait for (dict.c:496, 571), for ever.
InquiryAnswered == \A c \in Client : ipc[c] # "idle" ~> ipc[c] = "idle"
==============================================================================
