----------------------------- MODULE Heartbeats ------------------------------
(***************************************************************************)
(* Durability with heartbeats and with the disk lock of the dictionary's   *)
(* hash, which an insertion, a backup and a heartbeat hold in turn.        *)
(*                                                                         *)
(* A heartbeat does not hold the dictionary's inuse lock, so that a        *)
(* deletion does not wait for it, and closes and frees the hash under it   *)
(* (Registry).  What the heartbeat does then is undefined ("lost").        *)
(***************************************************************************)
EXTENDS Durability, Heartbeat

VARIABLE refused        \* the backup thread was refused the disk lock and is gone

hbvars == <<vars, hvars, refused>>

HbInit == Init /\ HeartbeatInit /\ refused = FALSE

\* hhash_Put, the backup and the removal of the file.
TakesDisk == dict' # dict \/ (bpc = "check" /\ bpc' = "close")

\* Where a step of the server leaves the heartbeat: a crash ends it, and a deletion
\* takes its dictionary away.
Left == CASE ~up'                            -> "idle"
          [] open /\ ~open' /\ hpc # "idle" -> "lost"
          [] OTHER                           -> hpc

\* What the rest of a step of the server is, and when it may be taken: the test
\* word stays in the file until that is removed.
Along ==
    /\ TakesDisk => ~DiskTested
    /\ refused /\ up' => bpc' = bpc
    /\ hpc' = Left
    /\ testword' = (testword /\ apc' # "unlink rdict")
    /\ refused' = (refused /\ up')

\* dict_heartbeat: the table's read lock is held for a moment, then the disk lock
\* is waited for.
StartHeartbeat ==
    /\ open
    /\ apc = "idle"
    /\ CallHeartbeat
    /\ UNCHANGED <<vars, refused>>

EnterHeartbeat ==
    /\ ~DiskLocked
    /\ LockDisk
    /\ UNCHANGED <<vars, refused>>

TestDisk == Test /\ UNCHANGED <<vars, refused>>

\* In freed memory: it may return, or work on the dictionary that is in the same
\* place by now; or it stays there for ever, or the process dies (Crash).
StrayHeartbeat ==
    /\ hpc = "lost"
    /\ hpc' = "idle" \/ (open /\ hpc' = "lock")
    /\ UNCHANGED <<vars, testword, refused>>

\* "Failed to get disk rw lock": the backup thread returns with srvstate_mutex and
\* the table's read lock held, and stays where it was.
LockRefused ==
    /\ bpc = "check"
    /\ open
    /\ ninserts # atBackup
    /\ ~refused
    /\ refused' = TRUE
    /\ UNCHANGED <<vars, hvars>>

HbNext ==
    \/ Next /\ Along
    \/ StartHeartbeat
    \/ EnterHeartbeat
    \/ TestDisk
    \/ StrayHeartbeat
    \/ LockRefused

HbSpec == HbInit /\ [][HbNext]_hbvars

\* Each thread runs, and gets the lock it waits for when that is free again and
\* again: srvstate_mutex, the table's or the disk lock.
HbFairSpec ==
    /\ HbSpec
    /\ SF_hbvars(Insertion /\ Along)
    /\ SF_hbvars((Round \/ LockTable) /\ Along)
    /\ SF_hbvars(AnswerBackup /\ Along)
    /\ SF_hbvars((Administration \/ ClearJournals) /\ Along)
    /\ SF_hbvars(EnterHeartbeat \/ TestDisk)

------------------------------------------------------------------------------
(***************************************************************************)
(* Properties                                                              *)
(***************************************************************************)
\* A test word that stays is in a file that is in use.
TestWordLeft == open /\ LeftOver

\* What stops the backup thread for good, with srvstate_mutex: it was refused the
\* disk lock (dict.c:1212); a heartbeat keeps the disk lock, for a test word was
\* left in the file, by a crash or because its deletion failed (dict.c:697); or
\* somebody deletes a dictionary on which a request hangs, and keeps the table
\* (tokenize.c:626, dict.c:347).
Stuck == refused \/ TestWordLeft \/ apc = "wedged"

\* A pause or a resume is answered, or the server goes down, unless one of these
\* three comes to pass.
PauseAnsweredUnlessStuck == []~Stuck => PauseAnswered

\* A heartbeat is answered, whatever updates, backups and crashes go on, and also
\* with a deletion that waits for ever, unless a test word was left or its
\* dictionary is deleted under it (dict.c:676, 396).
HeartbeatAnswered == []~TestWordLeft => (hpc = "lock" ~> hpc \in {"idle", "lost"})
==============================================================================
