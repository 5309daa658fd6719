------------------------------ MODULE Heartbeat ------------------------------
(***************************************************************************)
(* dict_heartbeat (dict.c): under the disk lock of the dictionary's hash   *)
(* it adds a test word to the dictionary file, reads it back and deletes   *)
(* it.  rand_str always starts from the same seed (utils.c:19), so that    *)
(* there is one test word.                                                 *)
(*                                                                         *)
(* The disk lock is the hash library's; Heartbeats and Inquiries say who   *)
(* else waits for it.                                                      *)
(***************************************************************************)
CONSTANT TestFaults     \* the steps of a test that may fail: "insert", "delete"

VARIABLES
    hpc,                \* "idle", "lock", "search", "there", "out", and "lost":
                        \* its dictionary is freed (Heartbeats)
    testword            \* the test word is in the dictionary file

hvars == <<hpc, testword>>

HeartbeatInit == hpc = "idle" /\ testword = FALSE

\* The heartbeat has the disk lock.
DiskTested == hpc \in {"search", "there", "out"}

\* A test word that no heartbeat will delete.
LeftOver == testword /\ hpc # "there"

CallHeartbeat ==
    /\ hpc = "idle"
    /\ hpc' = "lock"
    /\ UNCHANGED testword

LockDisk ==
    /\ hpc = "lock"
    /\ hpc' = "search"
    /\ UNCHANGED testword

\* "If it is, goto #2": while the word is found another one is made, the same.
SearchAgain ==
    /\ hpc = "search"
    /\ testword
    /\ UNCHANGED hvars

InsertTest ==
    /\ hpc = "search"
    /\ ~testword
    /\ testword' = TRUE
    /\ hpc' = "there"

\* "write ok" and "read ok" are "no".  What was not read is freed all the same: the
\* process may die of it, which it may at any step.
InsertTestFails ==
    /\ hpc = "search"
    /\ ~testword
    /\ "insert" \in TestFaults
    /\ hpc' = "out"
    /\ UNCHANGED testword

\* Mutant: the word is deleted only when it cannot be read back.
DeleteTestForgotten ==
    /\ hpc = "there"
    /\ hpc' = "out"
    /\ UNCHANGED testword

DeleteTest ==
    /\ hpc = "there"
    /\ testword' = FALSE
    /\ hpc' = "out"

\* "delete ok" is "no", "status" is "ok".
DeleteTestFails ==
    /\ hpc = "there"
    /\ "delete" \in TestFaults
    /\ hpc' = "out"
    /\ UNCHANGED testword

\* Mutant: the lock is released by the error exit only.
UnlockDiskForgotten == hpc = "out" /\ UNCHANGED hvars

UnlockDisk ==
    /\ hpc = "out"
    /\ hpc' = "idle"
    /\ UNCHANGED testword

Test ==
    \/ SearchAgain
    \/ InsertTest \/ InsertTestFails
    \/ DeleteTest \/ DeleteTestFails
    \/ UnlockDisk
==============================================================================
