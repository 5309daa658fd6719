-------------------------- MODULE DurabilityProofs ---------------------------
(***************************************************************************)
(* Proofs about Durability, for every finite set of words, every number at *)
(* which ninserts restarts and every number of mishaps.  The argument is   *)
(* the invariant IInv of Durability, one lemma for each of its parts.      *)
(***************************************************************************)
EXTENDS Durability, TLAPS, FiniteSetTheorems

\* A crash and an insertion that meets a closed delta file are counted as mishaps.
LEMMA MishapCounted ==
    ASSUME NumbersOK, FailDelta \/ MissDelta \/ Crash
    PROVE  mishaps' > 0 /\ mishaps' # 0
<1>1. mishaps' = mishaps + 1
  BY DEF FailDelta, MissDelta, Crash
<1>2. mishaps \in Nat
  BY MaxMishapsAssumption DEF NumbersOK
<1> QED BY <1>1, <1>2

\* A step of no thread, or a client's call for a pause, leaves every thread where
\* it can be.
LEMMA PlacesUndisturbed ==
    PlacesOK /\ (UNCHANGED vars \/ \E what \in {"pause", "resume"} : AskBackup(what))
        => PlacesOK'
<1>1. PlacesOK /\ UNCHANGED vars => PlacesOK'
  BY DEF PlacesOK, vars, files, server, count, history, backup, update
<1>2. PlacesOK /\ (\E what \in {"pause", "resume"} : AskBackup(what)) => PlacesOK'
  BY DEF PlacesOK, AskBackup, files, server, count, history, backup, update
<1> QED BY <1>1, <1>2

\* A start leaves every thread where it can be: none runs (dict_loadall).
LEMMA PlacesKeptByLoad == PlacesOK /\ Load => PlacesOK'
<1> SUFFICES ASSUME PlacesOK, Load PROVE PlacesOK'
  OBVIOUS
<1>1. handle' \in {"open", "closed"}
  BY DEF Load
<1>2. /\ mutex' = mutex /\ upc' = upc /\ bpc' = bpc /\ cpc' = cpc /\ apc' = apc
      /\ jfile' = jfile
  BY DEF Load, update
<1>3. (apc \in {"idle", "create", "created", "drain", "wedged", "unlink cfg",
                "unlink dict", "unlink rdict"})'
  BY <1>2 DEF PlacesOK
<1>4. (upc \in {"idle", "journal", "dict", "delta", "rdict", "failed"})'
  BY <1>2 DEF PlacesOK
<1>5. (bpc \in {"sleep", "enabled", "check", "close", "reopen", "clean", "note"})'
  BY <1>2 DEF PlacesOK
<1>6. /\ (mutex \in {"free", "backup"})' /\ (cpc \in {"idle", "pause", "resume"})'
      /\ (jfile \in {"none", "empty", "kept", "unlinked"})'
  BY <1>2 DEF PlacesOK
<1> QED BY <1>1, <1>3, <1>4, <1>5, <1>6 DEF PlacesOK

\* The flags stay Booleans (dict_Create, dict_load, dict_pause_backup).
LEMMA FlagsKept ==
    ASSUME FlagsOK, [Next]_vars
    PROVE  FlagsOK'
<1> USE DEF FlagsOK, files, server, count, history, backup, update
<1>1. CASE \E S \in (SUBSET (Word \ dict)) \ {{}} : StartUpdate(S)
  <2>1. PICK S \in (SUBSET (Word \ dict)) \ {{}} : StartUpdate(S)
    BY <1>1
  <2> QED BY <2>1 DEF StartUpdate
<1>2. CASE WriteJournal
  BY <1>2 DEF WriteJournal
<1>3. CASE \E w \in batch : InsertDict(w)
  <2>1. PICK w \in batch : InsertDict(w)
    BY <1>3
  <2> QED BY <2>1 DEF InsertDict
<1>4. CASE InsertDelta
  BY <1>4 DEF InsertDelta
<1>5. CASE FailDelta
  BY <1>5 DEF FailDelta
<1>6. CASE MissDelta
  BY <1>6 DEF MissDelta
<1>7. CASE InsertRdict
  BY <1>7 DEF InsertRdict, FinishWord
<1>8. CASE LockMutex
  BY <1>8 DEF LockMutex
<1>9. CASE StayAsleep
  BY <1>9 DEF StayAsleep, Sleep
<1>10. CASE LockTable
  BY <1>10 DEF LockTable
<1>11. CASE CleanOther
  BY <1>11 DEF CleanOther, RemoveJournals
<1>12. CASE NothingToBackUp
  BY <1>12 DEF NothingToBackUp, Sleep
<1>13. CASE StartBackup
  BY <1>13 DEF StartBackup
<1>14. CASE CloseDelta
  BY <1>14 DEF CloseDelta
<1>15. CASE ReopenDelta
  BY <1>15 DEF ReopenDelta
<1>16. CASE CleanJournals
  BY <1>16 DEF CleanJournals, RemoveJournals
<1>17. CASE NoteBackup
  BY <1>17 DEF NoteBackup, Sleep
<1>18. CASE \E what \in {"pause", "resume"} : AskBackup(what)
  <2>1. PICK what \in {"pause", "resume"} : AskBackup(what)
    BY <1>18
  <2> QED BY <2>1 DEF AskBackup
<1>19. CASE AnswerBackup
  BY <1>19 DEF AnswerBackup, SetEnabled
<1>20. CASE WriteConfig
  BY <1>20 DEF WriteConfig
<1>21. CASE Create
  BY <1>21 DEF Create, ZeroCount
<1>22. CASE Created
  BY <1>22 DEF Created
<1>23. CASE StartDelete
  BY <1>23 DEF StartDelete
<1>24. CASE ClearJournals
  BY <1>24 DEF ClearJournals, ZeroCount
<1>25. CASE UnlinkConfig
  BY <1>25 DEF UnlinkConfig
<1>26. CASE UnlinkDict
  BY <1>26 DEF UnlinkDict
<1>27. CASE UnlinkRdict
  BY <1>27 DEF UnlinkRdict
<1>28. CASE Crash
  BY <1>28 DEF Crash, ZeroCount
<1>29. CASE Load
  BY <1>29 DEF Load, ZeroCount
<1>30. CASE UNCHANGED vars
  BY <1>30 DEF vars
<1>31. CASE HangDelete
  BY <1>31 DEF HangDelete
<1> QED BY <1>1, <1>2, <1>3, <1>4, <1>5, <1>6, <1>7, <1>8, <1>9, <1>10, <1>11,
           <1>12, <1>13, <1>14, <1>15, <1>16, <1>17, <1>18, <1>19, <1>20,
           <1>21, <1>22, <1>23, <1>24, <1>25, <1>26, <1>27, <1>28, <1>29,
           <1>30, <1>31
           DEF Next, Insertion, Round, Administration

\* The files hold words of the dictionary's vocabulary (update_dict, dict_Delete,
\* dict_load).
LEMMA FilesKept ==
    ASSUME FilesOK, [Next]_vars
    PROVE  FilesOK'
<1> USE DEF FilesOK, Current, files, server, count, history, backup, update
<1>1. CASE \E S \in (SUBSET (Word \ dict)) \ {{}} : StartUpdate(S)
  <2>1. PICK S \in (SUBSET (Word \ dict)) \ {{}} : StartUpdate(S)
    BY <1>1
  <2> QED BY <2>1 DEF StartUpdate
<1>2. CASE WriteJournal
  BY <1>2 DEF WriteJournal
<1>3. CASE \E w \in batch : InsertDict(w)
  <2>1. PICK w \in batch : InsertDict(w)
    BY <1>3
  <2> QED BY <2>1 DEF InsertDict
<1>4. CASE InsertDelta
  BY <1>4 DEF InsertDelta
<1>5. CASE FailDelta
  BY <1>5 DEF FailDelta
<1>6. CASE MissDelta
  BY <1>6 DEF MissDelta
<1>7. CASE InsertRdict
  BY <1>7 DEF InsertRdict, FinishWord
<1>8. CASE LockMutex
  BY <1>8 DEF LockMutex
<1>9. CASE StayAsleep
  BY <1>9 DEF StayAsleep, Sleep
<1>10. CASE LockTable
  BY <1>10 DEF LockTable
<1>11. CASE CleanOther
  BY <1>11 DEF CleanOther, RemoveJournals
<1>12. CASE NothingToBackUp
  BY <1>12 DEF NothingToBackUp, Sleep
<1>13. CASE StartBackup
  BY <1>13 DEF StartBackup
<1>14. CASE CloseDelta
  BY <1>14 DEF CloseDelta
<1>15. CASE ReopenDelta
  BY <1>15 DEF ReopenDelta
<1>16. CASE CleanJournals
  BY <1>16 DEF CleanJournals, RemoveJournals
<1>17. CASE NoteBackup
  BY <1>17 DEF NoteBackup, Sleep
<1>18. CASE \E what \in {"pause", "resume"} : AskBackup(what)
  <2>1. PICK what \in {"pause", "resume"} : AskBackup(what)
    BY <1>18
  <2> QED BY <2>1 DEF AskBackup
<1>19. CASE AnswerBackup
  BY <1>19 DEF AnswerBackup, SetEnabled
<1>20. CASE WriteConfig
  BY <1>20 DEF WriteConfig
<1>21. CASE Create
  BY <1>21 DEF Create, ZeroCount
<1>22. CASE Created
  BY <1>22 DEF Created
<1>23. CASE StartDelete
  BY <1>23 DEF StartDelete
<1>24. CASE ClearJournals
  BY <1>24 DEF ClearJournals, ZeroCount
<1>25. CASE UnlinkConfig
  BY <1>25 DEF UnlinkConfig
<1>26. CASE UnlinkDict
  BY <1>26 DEF UnlinkDict
<1>27. CASE UnlinkRdict
  BY <1>27 DEF UnlinkRdict
<1>28. CASE Crash
  BY <1>28 DEF Crash, ZeroCount
<1>29. CASE Load
  BY <1>29 DEF Load, ZeroCount
<1>30. CASE UNCHANGED vars
  BY <1>30 DEF vars
<1>31. CASE HangDelete
  BY <1>31 DEF HangDelete
<1> QED BY <1>1, <1>2, <1>3, <1>4, <1>5, <1>6, <1>7, <1>8, <1>9, <1>10, <1>11,
           <1>12, <1>13, <1>14, <1>15, <1>16, <1>17, <1>18, <1>19, <1>20,
           <1>21, <1>22, <1>23, <1>24, <1>25, <1>26, <1>27, <1>28, <1>29,
           <1>30, <1>31
           DEF Next, Insertion, Round, Administration

\* ninserts restarts before it reaches Wrap (tokenize.c:594), and is what the
\* backup notes (dict.c:1288).
LEMMA NumbersKept ==
    ASSUME NumbersOK, [Next]_vars
    PROVE  NumbersOK'
<1> USE WrapAssumption, MaxMishapsAssumption DEF NumbersOK, files, server,
                                                 count, history, backup, update
<1>1. CASE \E S \in (SUBSET (Word \ dict)) \ {{}} : StartUpdate(S)
  <2>1. PICK S \in (SUBSET (Word \ dict)) \ {{}} : StartUpdate(S)
    BY <1>1
  <2> QED BY <2>1 DEF StartUpdate
<1>2. CASE WriteJournal
  BY <1>2 DEF WriteJournal
<1>3. CASE \E w \in batch : InsertDict(w)
  <2>1. PICK w \in batch : InsertDict(w)
    BY <1>3
  <2> QED BY <2>1 DEF InsertDict
<1>4. CASE InsertDelta
  BY <1>4 DEF InsertDelta
<1>5. CASE FailDelta
  BY <1>5 DEF FailDelta
<1>6. CASE MissDelta
  BY <1>6 DEF MissDelta
<1>7. CASE InsertRdict
  BY <1>7 DEF InsertRdict, FinishWord
<1>8. CASE LockMutex
  BY <1>8 DEF LockMutex
<1>9. CASE StayAsleep
  BY <1>9 DEF StayAsleep, Sleep
<1>10. CASE LockTable
  BY <1>10 DEF LockTable
<1>11. CASE CleanOther
  BY <1>11 DEF CleanOther, RemoveJournals
<1>12. CASE NothingToBackUp
  BY <1>12 DEF NothingToBackUp, Sleep
<1>13. CASE StartBackup
  BY <1>13 DEF StartBackup
<1>14. CASE CloseDelta
  BY <1>14 DEF CloseDelta
<1>15. CASE ReopenDelta
  BY <1>15 DEF ReopenDelta
<1>16. CASE CleanJournals
  BY <1>16 DEF CleanJournals, RemoveJournals
<1>17. CASE NoteBackup
  BY <1>17 DEF NoteBackup, Sleep
<1>18. CASE \E what \in {"pause", "resume"} : AskBackup(what)
  <2>1. PICK what \in {"pause", "resume"} : AskBackup(what)
    BY <1>18
  <2> QED BY <2>1 DEF AskBackup
<1>19. CASE AnswerBackup
  BY <1>19 DEF AnswerBackup, SetEnabled
<1>20. CASE WriteConfig
  BY <1>20 DEF WriteConfig
<1>21. CASE Create
  BY <1>21 DEF Create, ZeroCount
<1>22. CASE Created
  BY <1>22 DEF Created
<1>23. CASE StartDelete
  BY <1>23 DEF StartDelete
<1>24. CASE ClearJournals
  <2>1. ninserts' = 0 /\ atBackup' = 0 /\ mishaps' = mishaps
    BY <1>24 DEF ClearJournals, ZeroCount
  <2> QED BY <2>1
<1>25. CASE UnlinkConfig
  BY <1>25 DEF UnlinkConfig
<1>26. CASE UnlinkDict
  BY <1>26 DEF UnlinkDict
<1>27. CASE UnlinkRdict
  BY <1>27 DEF UnlinkRdict
<1>28. CASE Crash
  BY <1>28 DEF Crash, ZeroCount
<1>29. CASE Load
  <2>1. ninserts' = 0 /\ atBackup' = 0 /\ mishaps' = mishaps
    BY <1>29 DEF Load, ZeroCount
  <2> QED BY <2>1
<1>30. CASE UNCHANGED vars
  BY <1>30 DEF vars
<1>31. CASE HangDelete
  BY <1>31 DEF HangDelete
<1> QED BY <1>1, <1>2, <1>3, <1>4, <1>5, <1>6, <1>7, <1>8, <1>9, <1>10, <1>11,
           <1>12, <1>13, <1>14, <1>15, <1>16, <1>17, <1>18, <1>19, <1>20,
           <1>21, <1>22, <1>23, <1>24, <1>25, <1>26, <1>27, <1>28, <1>29,
           <1>30, <1>31
           DEF Next, Insertion, Round, Administration

\* Each thread stays where its function can be.
LEMMA PlacesKept ==
    ASSUME PlacesOK, [Next]_vars
    PROVE  PlacesOK'
<1> USE DEF PlacesOK, files, server, count, history, backup, update
<1>1. CASE \E S \in (SUBSET (Word \ dict)) \ {{}} : StartUpdate(S)
  <2>1. PICK S \in (SUBSET (Word \ dict)) \ {{}} : StartUpdate(S)
    BY <1>1
  <2> QED BY <2>1 DEF StartUpdate
<1>2. CASE WriteJournal
  BY <1>2 DEF WriteJournal
<1>3. CASE \E w \in batch : InsertDict(w)
  <2>1. PICK w \in batch : InsertDict(w)
    BY <1>3
  <2> QED BY <2>1 DEF InsertDict
<1>4. CASE InsertDelta
  BY <1>4 DEF InsertDelta
<1>5. CASE FailDelta
  BY <1>5 DEF FailDelta
<1>6. CASE MissDelta
  BY <1>6 DEF MissDelta
<1>7. CASE InsertRdict
  BY <1>7 DEF InsertRdict, FinishWord
<1>8. CASE LockMutex
  BY <1>8 DEF LockMutex
<1>9. CASE StayAsleep
  BY <1>9 DEF StayAsleep, Sleep
<1>10. CASE LockTable
  BY <1>10 DEF LockTable
<1>11. CASE CleanOther
  BY <1>11 DEF CleanOther, RemoveJournals
<1>12. CASE NothingToBackUp
  BY <1>12 DEF NothingToBackUp, Sleep
<1>13. CASE StartBackup
  BY <1>13 DEF StartBackup
<1>14. CASE CloseDelta
  BY <1>14 DEF CloseDelta
<1>15. CASE ReopenDelta
  BY <1>15 DEF ReopenDelta
<1>16. CASE CleanJournals
  BY <1>16 DEF CleanJournals, RemoveJournals
<1>17. CASE NoteBackup
  BY <1>17 DEF NoteBackup, Sleep
<1>18. CASE \E what \in {"pause", "resume"} : AskBackup(what)
  BY <1>18, PlacesUndisturbed
<1>19. CASE AnswerBackup
  BY <1>19 DEF AnswerBackup, SetEnabled
<1>20. CASE WriteConfig
  BY <1>20 DEF WriteConfig
<1>21. CASE Create
  BY <1>21 DEF Create
<1>22. CASE Created
  BY <1>22 DEF Created
<1>23. CASE StartDelete
  BY <1>23 DEF StartDelete
<1>24. CASE ClearJournals
  BY <1>24 DEF ClearJournals
<1>25. CASE UnlinkConfig
  BY <1>25 DEF UnlinkConfig
<1>26. CASE UnlinkDict
  BY <1>26 DEF UnlinkDict
<1>27. CASE UnlinkRdict
  BY <1>27 DEF UnlinkRdict
<1>28. CASE Crash
  BY <1>28 DEF Crash
<1>29. CASE Load
  BY <1>29, PlacesKeptByLoad
<1>30. CASE UNCHANGED vars
  BY <1>30, PlacesUndisturbed
<1>31. CASE HangDelete
  BY <1>31 DEF HangDelete
<1> QED BY <1>1, <1>2, <1>3, <1>4, <1>5, <1>6, <1>7, <1>8, <1>9, <1>10, <1>11,
           <1>12, <1>13, <1>14, <1>15, <1>16, <1>17, <1>18, <1>19, <1>20,
           <1>21, <1>22, <1>23, <1>24, <1>25, <1>26, <1>27, <1>28, <1>29,
           <1>30, <1>31
           DEF Next, Insertion, Round, Administration

\* No update is under way while the dictionary is created or deleted, and what an
\* update has of its journal follows from where it is (update_dict, dict_Create,
\* dict_Delete).
LEMMA ControlKept ==
    ASSUME FilesOK, NumbersOK, PlacesOK, ControlInv, [Next]_vars
    PROVE  ControlInv'
<1> USE DEF FilesOK, NumbersOK, PlacesOK, ControlInv, Current, files, server,
            count, history, backup, update
<1>1. CASE \E S \in (SUBSET (Word \ dict)) \ {{}} : StartUpdate(S)
  <2>1. PICK S \in (SUBSET (Word \ dict)) \ {{}} : StartUpdate(S)
    BY <1>1
  <2> QED BY <2>1 DEF StartUpdate
<1>2. CASE WriteJournal
  <2>1. CASE jfile = "empty"
    BY <1>2, <2>1 DEF WriteJournal
  <2>2. CASE jfile # "empty"
    BY <1>2, <2>2 DEF WriteJournal
  <2> QED BY <2>1, <2>2
<1>3. CASE \E w \in batch : InsertDict(w)
  <2>1. PICK w \in batch : InsertDict(w)
    BY <1>3
  <2> QED BY <2>1 DEF InsertDict
<1>4. CASE InsertDelta
  BY <1>4 DEF InsertDelta
<1>5. CASE FailDelta
  BY <1>5 DEF FailDelta
<1>6. CASE MissDelta
  BY <1>6 DEF MissDelta
<1>7. CASE InsertRdict
  BY <1>7 DEF InsertRdict, FinishWord
<1>8. CASE LockMutex
  BY <1>8 DEF LockMutex
<1>9. CASE StayAsleep
  BY <1>9 DEF StayAsleep, Sleep
<1>10. CASE LockTable
  BY <1>10 DEF LockTable
<1>11. CASE CleanOther
  BY <1>11 DEF CleanOther, RemoveJournals
<1>12. CASE NothingToBackUp
  BY <1>12 DEF NothingToBackUp, Sleep
<1>13. CASE StartBackup
  BY <1>13 DEF StartBackup
<1>14. CASE CloseDelta
  BY <1>14 DEF CloseDelta
<1>15. CASE ReopenDelta
  BY <1>15 DEF ReopenDelta
<1>16. CASE CleanJournals
  BY <1>16 DEF CleanJournals, RemoveJournals
<1>17. CASE NoteBackup
  BY <1>17 DEF NoteBackup, Sleep
<1>18. CASE \E what \in {"pause", "resume"} : AskBackup(what)
  <2>1. PICK what \in {"pause", "resume"} : AskBackup(what)
    BY <1>18
  <2> QED BY <2>1 DEF AskBackup
<1>19. CASE AnswerBackup
  BY <1>19 DEF AnswerBackup, SetEnabled
<1>20. CASE WriteConfig
  BY <1>20 DEF WriteConfig
<1>21. CASE Create
  BY <1>21 DEF Create
<1>22. CASE Created
  BY <1>22 DEF Created
<1>23. CASE StartDelete
  BY <1>23 DEF StartDelete
<1>24. CASE ClearJournals
  BY <1>24 DEF ClearJournals
<1>25. CASE UnlinkConfig
  BY <1>25 DEF UnlinkConfig
<1>26. CASE UnlinkDict
  BY <1>26 DEF UnlinkDict
<1>27. CASE UnlinkRdict
  BY <1>27 DEF UnlinkRdict
<1>28. CASE Crash
  BY <1>28, MishapCounted DEF Crash
<1>29. CASE Load
  BY <1>29 DEF Load
<1>30. CASE UNCHANGED vars
  BY <1>30 DEF vars
<1>31. CASE HangDelete
  BY <1>31 DEF HangDelete
<1> QED BY <1>1, <1>2, <1>3, <1>4, <1>5, <1>6, <1>7, <1>8, <1>9, <1>10, <1>11,
           <1>12, <1>13, <1>14, <1>15, <1>16, <1>17, <1>18, <1>19, <1>20,
           <1>21, <1>22, <1>23, <1>24, <1>25, <1>26, <1>27, <1>28, <1>29,
           <1>30, <1>31
           DEF Next, Insertion, Round, Administration

\* A round runs with the mutex held and the flag set (dict.c:1196-1197).
LEMMA RoundKept ==
    ASSUME FlagsOK, PlacesOK, ControlInv, RoundInv, [Next]_vars
    PROVE  RoundInv'
<1> USE DEF FlagsOK, PlacesOK, ControlInv, RoundInv, InRound, files, server,
            count, history, backup, update
<1>1. CASE \E S \in (SUBSET (Word \ dict)) \ {{}} : StartUpdate(S)
  <2>1. PICK S \in (SUBSET (Word \ dict)) \ {{}} : StartUpdate(S)
    BY <1>1
  <2> QED BY <2>1 DEF StartUpdate
<1>2. CASE WriteJournal
  BY <1>2 DEF WriteJournal
<1>3. CASE \E w \in batch : InsertDict(w)
  <2>1. PICK w \in batch : InsertDict(w)
    BY <1>3
  <2> QED BY <2>1 DEF InsertDict
<1>4. CASE InsertDelta
  BY <1>4 DEF InsertDelta
<1>5. CASE FailDelta
  BY <1>5 DEF FailDelta
<1>6. CASE MissDelta
  BY <1>6 DEF MissDelta
<1>7. CASE InsertRdict
  BY <1>7 DEF InsertRdict, FinishWord
<1>8. CASE LockMutex
  BY <1>8 DEF LockMutex
<1>9. CASE StayAsleep
  BY <1>9 DEF StayAsleep, Sleep
<1>10. CASE LockTable
  BY <1>10 DEF LockTable
<1>11. CASE CleanOther
  BY <1>11 DEF CleanOther, RemoveJournals
<1>12. CASE NothingToBackUp
  BY <1>12 DEF NothingToBackUp, Sleep
<1>13. CASE StartBackup
  BY <1>13 DEF StartBackup
<1>14. CASE CloseDelta
  BY <1>14 DEF CloseDelta
<1>15. CASE ReopenDelta
  BY <1>15 DEF ReopenDelta
<1>16. CASE CleanJournals
  BY <1>16 DEF CleanJournals, RemoveJournals
<1>17. CASE NoteBackup
  BY <1>17 DEF NoteBackup, Sleep
<1>18. CASE \E what \in {"pause", "resume"} : AskBackup(what)
  <2>1. PICK what \in {"pause", "resume"} : AskBackup(what)
    BY <1>18
  <2> QED BY <2>1 DEF AskBackup
<1>19. CASE AnswerBackup
  BY <1>19 DEF AnswerBackup, SetEnabled
<1>20. CASE WriteConfig
  BY <1>20 DEF WriteConfig
<1>21. CASE Create
  BY <1>21 DEF Create
<1>22. CASE Created
  BY <1>22 DEF Created
<1>23. CASE StartDelete
  BY <1>23 DEF StartDelete
<1>24. CASE ClearJournals
  BY <1>24 DEF ClearJournals
<1>25. CASE UnlinkConfig
  BY <1>25 DEF UnlinkConfig
<1>26. CASE UnlinkDict
  BY <1>26 DEF UnlinkDict
<1>27. CASE UnlinkRdict
  BY <1>27 DEF UnlinkRdict
<1>28. CASE Crash
  BY <1>28 DEF Crash
<1>29. CASE Load
  BY <1>29 DEF Load
<1>30. CASE UNCHANGED vars
  BY <1>30 DEF vars
<1>31. CASE HangDelete
  BY <1>31 DEF HangDelete
<1> QED BY <1>1, <1>2, <1>3, <1>4, <1>5, <1>6, <1>7, <1>8, <1>9, <1>10, <1>11,
           <1>12, <1>13, <1>14, <1>15, <1>16, <1>17, <1>18, <1>19, <1>20,
           <1>21, <1>22, <1>23, <1>24, <1>25, <1>26, <1>27, <1>28, <1>29,
           <1>30, <1>31
           DEF Next, Insertion, Round, Administration

\* update_dict has one word under way, and has not yet put the others into dict.
LEMMA WordsKept ==
    ASSUME FilesOK, PlacesOK, ControlInv, WordInv, [Next]_vars
    PROVE  WordInv'
<1> USE DEF FilesOK, PlacesOK, ControlInv, WordInv, Current, files, server,
            count, history, backup, update
<1>1. CASE \E S \in (SUBSET (Word \ dict)) \ {{}} : StartUpdate(S)
  <2>1. PICK S \in (SUBSET (Word \ dict)) \ {{}} : StartUpdate(S)
    BY <1>1
  <2> QED BY <2>1 DEF StartUpdate
<1>2. CASE WriteJournal
  BY <1>2 DEF WriteJournal
<1>3. CASE \E w \in batch : InsertDict(w)
  <2>1. PICK w \in batch : InsertDict(w)
    BY <1>3
  <2>2. batch' \cap dict' = {w}
    BY <2>1 DEF InsertDict
  <2> QED BY <2>1, <2>2 DEF InsertDict
<1>4. CASE InsertDelta
  BY <1>4 DEF InsertDelta
<1>5. CASE FailDelta
  BY <1>5 DEF FailDelta
<1>6. CASE MissDelta
  BY <1>6 DEF MissDelta
<1>7. CASE InsertRdict
  BY <1>7 DEF InsertRdict, FinishWord
<1>8. CASE LockMutex
  BY <1>8 DEF LockMutex
<1>9. CASE StayAsleep
  BY <1>9 DEF StayAsleep, Sleep
<1>10. CASE LockTable
  BY <1>10 DEF LockTable
<1>11. CASE CleanOther
  BY <1>11 DEF CleanOther, RemoveJournals
<1>12. CASE NothingToBackUp
  BY <1>12 DEF NothingToBackUp, Sleep
<1>13. CASE StartBackup
  BY <1>13 DEF StartBackup
<1>14. CASE CloseDelta
  BY <1>14 DEF CloseDelta
<1>15. CASE ReopenDelta
  BY <1>15 DEF ReopenDelta
<1>16. CASE CleanJournals
  BY <1>16 DEF CleanJournals, RemoveJournals
<1>17. CASE NoteBackup
  BY <1>17 DEF NoteBackup, Sleep
<1>18. CASE \E what \in {"pause", "resume"} : AskBackup(what)
  <2>1. PICK what \in {"pause", "resume"} : AskBackup(what)
    BY <1>18
  <2> QED BY <2>1 DEF AskBackup
<1>19. CASE AnswerBackup
  BY <1>19 DEF AnswerBackup, SetEnabled
<1>20. CASE WriteConfig
  BY <1>20 DEF WriteConfig
<1>21. CASE Create
  BY <1>21 DEF Create
<1>22. CASE Created
  BY <1>22 DEF Created
<1>23. CASE StartDelete
  BY <1>23 DEF StartDelete
<1>24. CASE ClearJournals
  BY <1>24 DEF ClearJournals
<1>25. CASE UnlinkConfig
  BY <1>25 DEF UnlinkConfig
<1>26. CASE UnlinkDict
  BY <1>26 DEF UnlinkDict
<1>27. CASE UnlinkRdict
  BY <1>27 DEF UnlinkRdict
<1>28. CASE Crash
  BY <1>28 DEF Crash
<1>29. CASE Load
  BY <1>29 DEF Load
<1>30. CASE UNCHANGED vars
  BY <1>30 DEF vars
<1>31. CASE HangDelete
  BY <1>31 DEF HangDelete
<1> QED BY <1>1, <1>2, <1>3, <1>4, <1>5, <1>6, <1>7, <1>8, <1>9, <1>10, <1>11,
           <1>12, <1>13, <1>14, <1>15, <1>16, <1>17, <1>18, <1>19, <1>20,
           <1>21, <1>22, <1>23, <1>24, <1>25, <1>26, <1>27, <1>28, <1>29,
           <1>30, <1>31
           DEF Next, Insertion, Round, Administration

\* The journal of an update has the words still to come, and what is in dict
\* reaches a delta file (tokenize.c:557, 583-586).
LEMMA JournalKept ==
    ASSUME FilesOK, NumbersOK, PlacesOK, ControlInv, WordInv, JournalInv, [Next]_vars
    PROVE  JournalInv'
<1> USE DEF FilesOK, NumbersOK, PlacesOK, ControlInv, WordInv, JournalInv,
            Current, files, server, count, history, backup, update
<1>1. CASE \E S \in (SUBSET (Word \ dict)) \ {{}} : StartUpdate(S)
  <2>1. PICK S \in (SUBSET (Word \ dict)) \ {{}} : StartUpdate(S)
    BY <1>1
  <2> QED BY <2>1 DEF StartUpdate
<1>2. CASE WriteJournal
  BY <1>2 DEF WriteJournal
<1>3. CASE \E w \in batch : InsertDict(w)
  <2>1. PICK w \in batch : InsertDict(w)
    BY <1>3
  <2> QED BY <2>1 DEF InsertDict
<1>4. CASE InsertDelta
  BY <1>4 DEF InsertDelta
<1>5. CASE FailDelta
  BY <1>5, MishapCounted DEF FailDelta
<1>6. CASE MissDelta
  BY <1>6, MishapCounted DEF MissDelta
<1>7. CASE InsertRdict
  BY <1>7 DEF InsertRdict, FinishWord
<1>8. CASE LockMutex
  BY <1>8 DEF LockMutex
<1>9. CASE StayAsleep
  BY <1>9 DEF StayAsleep, Sleep
<1>10. CASE LockTable
  BY <1>10 DEF LockTable
<1>11. CASE CleanOther
  BY <1>11 DEF CleanOther, RemoveJournals
<1>12. CASE NothingToBackUp
  BY <1>12 DEF NothingToBackUp, Sleep
<1>13. CASE StartBackup
  BY <1>13 DEF StartBackup
<1>14. CASE CloseDelta
  BY <1>14 DEF CloseDelta
<1>15. CASE ReopenDelta
  BY <1>15 DEF ReopenDelta
<1>16. CASE CleanJournals
  BY <1>16 DEF CleanJournals, RemoveJournals
<1>17. CASE NoteBackup
  BY <1>17 DEF NoteBackup, Sleep
<1>18. CASE \E what \in {"pause", "resume"} : AskBackup(what)
  <2>1. PICK what \in {"pause", "resume"} : AskBackup(what)
    BY <1>18
  <2> QED BY <2>1 DEF AskBackup
<1>19. CASE AnswerBackup
  BY <1>19 DEF AnswerBackup, SetEnabled
<1>20. CASE WriteConfig
  BY <1>20 DEF WriteConfig
<1>21. CASE Create
  BY <1>21 DEF Create
<1>22. CASE Created
  BY <1>22 DEF Created
<1>23. CASE StartDelete
  BY <1>23 DEF StartDelete
<1>24. CASE ClearJournals
  BY <1>24 DEF ClearJournals
<1>25. CASE UnlinkConfig
  BY <1>25 DEF UnlinkConfig
<1>26. CASE UnlinkDict
  BY <1>26 DEF UnlinkDict
<1>27. CASE UnlinkRdict
  BY <1>27 DEF UnlinkRdict
<1>28. CASE Crash
  BY <1>28, MishapCounted DEF Crash
<1>29. CASE Load
  BY <1>29 DEF Load
<1>30. CASE UNCHANGED vars
  BY <1>30 DEF vars
<1>31. CASE HangDelete
  BY <1>31 DEF HangDelete
<1> QED BY <1>1, <1>2, <1>3, <1>4, <1>5, <1>6, <1>7, <1>8, <1>9, <1>10, <1>11,
           <1>12, <1>13, <1>14, <1>15, <1>16, <1>17, <1>18, <1>19, <1>20,
           <1>21, <1>22, <1>23, <1>24, <1>25, <1>26, <1>27, <1>28, <1>29,
           <1>30, <1>31
           DEF Next, Insertion, Round, Administration

\* The configuration file is written before a dictionary is opened, and unlinked
\* before its other files (dict.c:232, 363-386).
LEMMA NameKept == ASSUME PlacesOK, ControlInv, NameInv, [Next]_vars PROVE NameInv'
<1> USE DEF ControlInv, NameInv, files, server
<1>1. CASE cfg' = cfg /\ open' = open /\ apc' = apc
  BY <1>1
<1>2. CASE \E S \in (SUBSET (Word \ dict)) \ {{}} : StartUpdate(S)
  BY <1>1, <1>2 DEF StartUpdate
<1>3. CASE Insertion
  BY <1>1, <1>3 DEF Insertion, WriteJournal, InsertDict, InsertDelta, FailDelta,
     MissDelta, InsertRdict, FinishWord
<1>4. CASE Round \/ LockTable \/ CleanOther
  BY <1>1, <1>4 DEF Round, LockMutex, StayAsleep, Sleep, LockTable, CleanOther,
     NothingToBackUp, StartBackup, CloseDelta, ReopenDelta, CleanJournals, NoteBackup
<1>5. CASE (\E what \in {"pause", "resume"} : AskBackup(what)) \/ AnswerBackup
  BY <1>1, <1>5 DEF AskBackup, AnswerBackup, SetEnabled
<1>6. CASE Administration
  <2>1. CASE Create \/ Created
    BY <2>1 DEF Create, Created
  <2>2. CASE UnlinkConfig
    BY <2>2 DEF UnlinkConfig
  <2>3. CASE UnlinkDict \/ UnlinkRdict
    <3>1. /\ cfg' = cfg /\ open' = open
          /\ apc \in {"unlink dict", "unlink rdict"}
          /\ apc' \in {"unlink rdict", "idle"}
      BY <2>3 DEF UnlinkDict, UnlinkRdict
    <3>2. ~cfg /\ ~open
      BY <3>1
    <3> QED BY <3>1, <3>2
  <2> QED BY <1>6, <2>1, <2>2, <2>3 DEF Administration
<1>7. CASE WriteConfig \/ StartDelete \/ HangDelete \/ ClearJournals
  BY <1>7 DEF WriteConfig, StartDelete, HangDelete, ClearJournals
<1>8. CASE Crash \/ Load
  <2>1. cfg' = cfg /\ apc' = "idle"
    BY <1>8 DEF Crash, Load
  <2>2. CASE Crash
    BY <2>1, <2>2 DEF Crash
  <2>3. CASE Load
    <3>1. open' = cfg
      BY <2>3 DEF Load
    <3> QED BY <2>1, <3>1
  <2> QED BY <1>8, <2>2, <2>3
<1>9. CASE UNCHANGED vars
  BY <1>1, <1>9 DEF vars
<1> QED BY <1>2, <1>3, <1>4, <1>5, <1>6, <1>7, <1>8, <1>9 DEF Next

\* A deletion that is not cut off leaves no file to a later dictionary of the
\* name (dict.c:349-388).
LEMMA FreshKept ==
    ASSUME NumbersOK, PlacesOK, ControlInv, FreshInv, [Next]_vars
    PROVE  FreshInv'
<1> USE DEF NumbersOK, PlacesOK, ControlInv, FreshInv, Current, files, server,
            count, history, backup, update
<1>1. CASE \E S \in (SUBSET (Word \ dict)) \ {{}} : StartUpdate(S)
  <2>1. PICK S \in (SUBSET (Word \ dict)) \ {{}} : StartUpdate(S)
    BY <1>1
  <2> QED BY <2>1 DEF StartUpdate
<1>2. CASE WriteJournal
  BY <1>2 DEF WriteJournal
<1>3. CASE \E w \in batch : InsertDict(w)
  <2>1. PICK w \in batch : InsertDict(w)
    BY <1>3
  <2> QED BY <2>1 DEF InsertDict
<1>4. CASE InsertDelta
  BY <1>4 DEF InsertDelta
<1>5. CASE FailDelta
  BY <1>5, MishapCounted DEF FailDelta
<1>6. CASE MissDelta
  BY <1>6, MishapCounted DEF MissDelta
<1>7. CASE InsertRdict
  BY <1>7 DEF InsertRdict, FinishWord
<1>8. CASE LockMutex
  BY <1>8 DEF LockMutex
<1>9. CASE StayAsleep
  BY <1>9 DEF StayAsleep, Sleep
<1>10. CASE LockTable
  BY <1>10 DEF LockTable
<1>11. CASE CleanOther
  BY <1>11 DEF CleanOther, RemoveJournals
<1>12. CASE NothingToBackUp
  BY <1>12 DEF NothingToBackUp, Sleep
<1>13. CASE StartBackup
  BY <1>13 DEF StartBackup
<1>14. CASE CloseDelta
  BY <1>14 DEF CloseDelta
<1>15. CASE ReopenDelta
  BY <1>15 DEF ReopenDelta
<1>16. CASE CleanJournals
  BY <1>16 DEF CleanJournals, RemoveJournals
<1>17. CASE NoteBackup
  BY <1>17 DEF NoteBackup, Sleep
<1>18. CASE \E what \in {"pause", "resume"} : AskBackup(what)
  <2>1. PICK what \in {"pause", "resume"} : AskBackup(what)
    BY <1>18
  <2> QED BY <2>1 DEF AskBackup
<1>19. CASE AnswerBackup
  BY <1>19 DEF AnswerBackup, SetEnabled
<1>20. CASE WriteConfig
  BY <1>20 DEF WriteConfig
<1>21. CASE Create
  BY <1>21 DEF Create
<1>22. CASE Created
  BY <1>22 DEF Created
<1>23. CASE StartDelete
  BY <1>23 DEF StartDelete
<1>24. CASE ClearJournals
  BY <1>24 DEF ClearJournals
<1>25. CASE UnlinkConfig
  BY <1>25 DEF UnlinkConfig
<1>26. CASE UnlinkDict
  BY <1>26 DEF UnlinkDict
<1>27. CASE UnlinkRdict
  BY <1>27 DEF UnlinkRdict
<1>28. CASE Crash
  BY <1>28, MishapCounted DEF Crash
<1>29. CASE Load
  BY <1>29 DEF Load
<1>30. CASE UNCHANGED vars
  BY <1>30 DEF vars
<1>31. CASE HangDelete
  BY <1>31 DEF HangDelete
<1> QED BY <1>1, <1>2, <1>3, <1>4, <1>5, <1>6, <1>7, <1>8, <1>9, <1>10, <1>11,
           <1>12, <1>13, <1>14, <1>15, <1>16, <1>17, <1>18, <1>19, <1>20,
           <1>21, <1>22, <1>23, <1>24, <1>25, <1>26, <1>27, <1>28, <1>29,
           <1>30, <1>31
           DEF Next, Insertion, Round, Administration

\* A step that loses nothing more keeps the bound.
LEMMA LossShrinks ==
    ASSUME FilesOK, NumbersOK, LossInv, Lost' \subseteq Lost,
           mishaps' \in {mishaps, mishaps + 1}
    PROVE  LossInv'
<1>1. Lost \in SUBSET Word
  BY DEF FilesOK, Lost
<1>2. mishaps \in Nat
  BY MaxMishapsAssumption DEF NumbersOK
<1>3. IsFiniteSet(Lost)
  BY <1>1, FS_Subset, WordAssumption
<1>4. Cardinality(Lost') <= Cardinality(Lost) /\ IsFiniteSet(Lost')
  BY <1>3, FS_Subset
<1>5. Cardinality(Lost) \in Nat /\ Cardinality(Lost') \in Nat
  BY <1>3, <1>4, FS_CardinalityType
<1> QED BY <1>2, <1>4, <1>5 DEF LossInv

\* A mishap may cost one word.
LEMMA LossGrows ==
    ASSUME FilesOK, NumbersOK, LossInv, NEW w \in Word, Lost' \subseteq Lost \cup {w},
           mishaps' = mishaps + 1
    PROVE  LossInv'
<1>1. Lost \in SUBSET Word
  BY DEF FilesOK, Lost
<1>2. mishaps \in Nat
  BY MaxMishapsAssumption DEF NumbersOK
<1>3. IsFiniteSet(Lost)
  BY <1>1, FS_Subset, WordAssumption
<1>4. /\ IsFiniteSet(Lost \cup {w})
      /\ Cardinality(Lost \cup {w}) <= Cardinality(Lost) + 1
  BY <1>3, FS_AddElement, FS_CardinalityType
<1>5. Cardinality(Lost') <= Cardinality(Lost \cup {w}) /\ IsFiniteSet(Lost')
  BY <1>4, FS_Subset
<1>6. /\ Cardinality(Lost) \in Nat /\ Cardinality(Lost') \in Nat
      /\ Cardinality(Lost \cup {w}) \in Nat
  BY <1>3, <1>4, <1>5, FS_CardinalityType
<1> QED BY <1>2, <1>4, <1>5, <1>6 DEF LossInv

\* Only an insertion, a deletion and a mishap touch what Lost is made of.
LEMMA LossKept ==
    ASSUME FilesOK, NumbersOK, PlacesOK, ControlInv, WordInv, LossInv, [Next]_vars
    PROVE  LossInv'
<1>1. CASE \E S \in (SUBSET (Word \ dict)) \ {{}} : StartUpdate(S)
  <2>1. PICK S \in (SUBSET (Word \ dict)) \ {{}} : StartUpdate(S)
    BY <1>1
  <2>2. Lost' \subseteq Lost /\ mishaps' = mishaps
    BY <2>1 DEF StartUpdate, Lost, UnderWay, files
  <2> QED BY <2>2, LossShrinks
<1>2. CASE WriteJournal
  <2>1. Lost' \subseteq Lost /\ mishaps' = mishaps
    BY <1>2 DEF WriteJournal, Lost, UnderWay
  <2> QED BY <2>1, LossShrinks
<1>3. CASE \E w \in batch : InsertDict(w)
  <2>1. PICK w \in batch : InsertDict(w)
    BY <1>3
  <2>2. Lost' \subseteq Lost /\ mishaps' = mishaps
    BY <2>1 DEF InsertDict, Lost, UnderWay, Current
  <2> QED BY <2>2, LossShrinks
<1>4. CASE InsertDelta
  <2>1. Lost' \subseteq Lost /\ mishaps' = mishaps
    BY <1>4 DEF InsertDelta, Lost, UnderWay, Current
  <2> QED BY <2>1, LossShrinks
<1>5. CASE FailDelta \/ MissDelta
  <2>1. PICK w \in Word : Current = {w}
    BY <1>5 DEF FailDelta, MissDelta, WordInv
  <2>2. Lost' \subseteq Lost \cup {w} /\ mishaps' = mishaps + 1
    BY <1>5, <2>1 DEF FailDelta, MissDelta, Lost, UnderWay, Current, files
  <2> QED BY <2>2, LossGrows
<1>6. CASE InsertRdict
  <2>1. Lost' \subseteq Lost /\ mishaps' = mishaps
    BY <1>6 DEF InsertRdict, FinishWord, Lost, UnderWay, Current
  <2> QED BY <2>1, LossShrinks
<1>7. CASE ClearJournals
  <2>1. Lost' \subseteq Lost /\ mishaps' = mishaps
    BY <1>7 DEF ClearJournals, Lost, UnderWay
  <2> QED BY <2>1, LossShrinks
<1>8. CASE UnlinkDict
  <2>1. Lost' \subseteq Lost /\ mishaps' = mishaps
    BY <1>8 DEF UnlinkDict, Lost
  <2> QED BY <2>1, LossShrinks
<1>9. CASE UnlinkRdict
  <2>1. dict' = {} /\ mishaps' = mishaps
    BY <1>9 DEF UnlinkRdict, ControlInv
  <2>2. Lost' \subseteq Lost
    BY <2>1 DEF Lost
  <2> QED BY <2>1, <2>2, LossShrinks
<1>10. CASE Crash
  <2>1. UNCHANGED <<dict, rdict, deltas>> /\ UnderWay' = {} /\ mishaps' = mishaps + 1
    BY <1>10 DEF Crash, files, UnderWay
  <2>2. CASE upc \in {"delta", "rdict"}
    <3>1. PICK w \in Word : Current = {w}
      BY <2>2 DEF WordInv
    <3>2. UnderWay \subseteq {w}
      BY <3>1 DEF UnderWay
    <3>3. Lost' \subseteq Lost \cup {w}
      BY <2>1, <3>2 DEF Lost
    <3> QED BY <2>1, <3>3, LossGrows
  <2>3. CASE upc \notin {"delta", "rdict"}
    <3>1. UnderWay = {}
      BY <2>3 DEF UnderWay
    <3>2. Lost' \subseteq Lost
      BY <2>1, <3>1 DEF Lost
    <3> QED BY <2>1, <3>2, LossShrinks
  <2> QED BY <2>2, <2>3
<1>11. CASE \/ LockMutex \/ StayAsleep \/ LockTable \/ CleanOther
            \/ NothingToBackUp \/ StartBackup \/ CloseDelta \/ ReopenDelta
            \/ CleanJournals \/ NoteBackup
            \/ \E what \in {"pause", "resume"} : AskBackup(what)
            \/ AnswerBackup \/ WriteConfig \/ Create \/ Created \/ StartDelete
            \/ HangDelete \/ UnlinkConfig \/ Load \/ UNCHANGED vars
  <2>1. UNCHANGED <<dict, rdict, deltas, batch, upc, mishaps>>
    <3> USE DEF files, update
    <3>1. CASE \/ LockMutex \/ StayAsleep \/ LockTable \/ CleanOther
               \/ NothingToBackUp \/ StartBackup \/ CloseDelta \/ ReopenDelta
               \/ CleanJournals \/ NoteBackup
      BY <3>1 DEF LockMutex, StayAsleep, LockTable, CleanOther, NothingToBackUp,
                  StartBackup, CloseDelta, ReopenDelta, CleanJournals, NoteBackup
    <3>2. CASE \/ \E what \in {"pause", "resume"} : AskBackup(what)
               \/ AnswerBackup \/ WriteConfig \/ Create \/ Created
      BY <3>2 DEF AskBackup, AnswerBackup, SetEnabled, WriteConfig, Create, Created
    <3>3. CASE StartDelete \/ HangDelete \/ UnlinkConfig \/ Load \/ UNCHANGED vars
      BY <3>3 DEF StartDelete, HangDelete, UnlinkConfig, Load, vars
    <3> QED BY <1>11, <3>1, <3>2, <3>3
  <2>2. Lost' = Lost
    BY <2>1 DEF Lost, UnderWay, Current
  <2> QED BY <2>1, <2>2, LossShrinks
<1> QED BY <1>1, <1>2, <1>3, <1>4, <1>5, <1>6, <1>7, <1>8, <1>9, <1>10, <1>11
        DEF Next, Insertion, Round, Administration

------------------------------------------------------------------------------
\* A remainder is determined by the number it is left of.
LEMMA Remainder ==
    ASSUME NEW W \in Nat \ {0}, NEW p \in Int, NEW q \in Int,
           NEW r \in 0 .. W - 1, NEW s \in 0 .. W - 1, p * W + r = q * W + s
    PROVE  r = s
<1>1. CASE p = q
  BY <1>1
<1>2. CASE p >= q + 1
  <2>1. p * W >= (q + 1) * W
    BY <1>2
  <2>2. (q + 1) * W = q * W + W /\ p * W \in Int /\ q * W \in Int
    OBVIOUS
  <2> QED BY <2>1, <2>2
<1>3. CASE q >= p + 1
  <2>1. q * W >= (p + 1) * W
    BY <1>3
  <2>2. (p + 1) * W = p * W + W /\ p * W \in Int /\ q * W \in Int
    OBVIOUS
  <2> QED BY <2>1, <2>2
<1> QED BY <1>1, <1>2, <1>3

\* Division with remainder.
LEMMA Division ==
    ASSUME NEW W \in Nat \ {0}, NEW x \in Nat
    PROVE  /\ x \div W \in Int
           /\ x % W \in 0 .. W - 1
           /\ x = (x \div W) * W + (x % W)
OBVIOUS

\* What is below W is its own remainder.
LEMMA RemainderOfSmall ==
    ASSUME NEW W \in Nat \ {0}, NEW r \in 0 .. W - 1
    PROVE  r % W = r
<1> DEFINE q == r \div W
           s == r % W
<1>1. q \in Int /\ s \in 0 .. W - 1 /\ r = q * W + s
  BY Division
<1> HIDE DEF q, s
<1>2. q * W + s = 0 * W + r
  BY <1>1
<1> QED BY <1>1, <1>2, Remainder DEF s

\* The remainder of the next number: the step of ninserts (tokenize.c:592-595).
LEMMA NextRemainder ==
    ASSUME NEW W \in Nat \ {0}, NEW x \in Nat
    PROVE  (x + 1) % W = IF ((x % W) + 1) % W = 0 THEN 0 ELSE (x % W) + 1
<1> DEFINE p == x \div W
           r == x % W
           q == (x + 1) \div W
           s == (x + 1) % W
<1>1. /\ p \in Int /\ q \in Int /\ r \in 0 .. W - 1 /\ s \in 0 .. W - 1
      /\ x = p * W + r /\ x + 1 = q * W + s
  BY Division
<1> HIDE DEF p, q, r, s
<1>2. CASE r + 1 = W
  <2>1. (p + 1) * W + 0 = q * W + s
    BY <1>1, <1>2
  <2>2. s = 0
    BY <1>1, <2>1, Remainder
  <2>3. W % W = 0
    <3>1. (W \div W) * W + (W % W) = 1 * W + 0
      BY Division
    <3> QED BY <3>1, Division, Remainder
  <2> QED BY <1>2, <2>2, <2>3 DEF r, s
<1>3. CASE r + 1 # W
  <2>1. r + 1 \in 0 .. W - 1
    BY <1>1, <1>3
  <2>2. p * W + (r + 1) = q * W + s
    BY <1>1
  <2>3. s = r + 1
    BY <1>1, <2>1, <2>2, Remainder
  <2>4. (r + 1) % W = r + 1 /\ r + 1 # 0
    BY <1>1, <2>1, RemainderOfSmall
  <2> QED BY <2>3, <2>4 DEF r, s
<1> QED BY <1>2, <1>3

\* A counter that comes back to where it was counted a multiple of W.
LEMMA BackAgain ==
    ASSUME NEW W \in Nat \ {0}, NEW a \in 0 .. W - 1, NEW c \in Nat, (a + c) % W = a
    PROVE  c % W = 0
<1> DEFINE p == (a + c) \div W
           q == c \div W
           s == c % W
<1>1. p \in Int /\ q \in Int /\ s \in 0 .. W - 1 /\ a + c = p * W + a /\ c = q * W + s
  BY Division
<1> HIDE DEF p, q, s
<1>2. p * W + 0 = q * W + s
  BY <1>1
<1>3. s = 0
  BY <1>1, <1>2, Remainder
<1> QED BY <1>3 DEF s

\* The counter and the words it counts move together, or are reset together.
LEMMA CountKept ==
    ASSUME FilesOK, NumbersOK, PlacesOK, ControlInv, WordInv, CountInv, [Next]_vars
    PROVE  CountInv'
<1> USE DEF CountInv
<1>1. CASE InsertRdict
  <2>1. PICK w \in Word : Current = {w}
    BY <1>1 DEF InsertRdict, FinishWord, WordInv
  <2>2. IsFiniteSet(since) /\ Cardinality(since) \in Nat
    BY FS_Subset, FS_CardinalityType, WordAssumption DEF FilesOK
  <2>3. since' = since \cup {w} /\ w \notin since
    BY <1>1, <2>1 DEF InsertRdict, FinishWord, Current
  <2>4. Cardinality(since') = Cardinality(since) + 1
    BY <2>2, <2>3, FS_AddElement
  <2>5. atBackup \in Nat /\ atBackup + Cardinality(since) \in Nat
    BY <2>2, WrapAssumption DEF NumbersOK
  <2>6. ((atBackup + Cardinality(since)) + 1) % Wrap
            = IF (ninserts + 1) % Wrap = 0 THEN 0 ELSE ninserts + 1
    BY <2>5, NextRemainder, WrapAssumption
  <2>7. ninserts' = (atBackup' + Cardinality(since')) % Wrap
    <3>1. atBackup' + Cardinality(since') = (atBackup + Cardinality(since)) + 1
      BY <1>1, <2>2, <2>4, <2>5 DEF InsertRdict, FinishWord
    <3> QED BY <1>1, <2>6, <3>1 DEF InsertRdict, FinishWord
  <2>8. (open => since \subseteq dict)' /\ (since \cap batch = {})'
    BY <1>1, <2>1, <2>3 DEF InsertRdict, FinishWord, Current, server
  <2> QED BY <2>7, <2>8
<1>2. CASE NoteBackup \/ Create \/ ClearJournals \/ Crash \/ Load
  <2>1. since' = {} /\ ninserts' = atBackup' /\ ninserts' \in 0 .. Wrap - 1
    <3>1. CASE NoteBackup
      BY <3>1 DEF NoteBackup, NumbersOK
    <3>2. CASE Create \/ ClearJournals \/ Crash \/ Load
      <4>1. ZeroCount
        BY <3>2 DEF Create, ClearJournals, Crash, Load
      <4> QED BY <4>1, WrapAssumption DEF ZeroCount
    <3> QED BY <1>2, <3>1, <3>2
  <2>2. Cardinality(since') = 0
    BY <2>1, FS_EmptySet
  <2>3. ninserts' = (atBackup' + Cardinality(since')) % Wrap
    <3>1. atBackup' + Cardinality(since') = ninserts'
      BY <2>1, <2>2, WrapAssumption
    <3> QED BY <2>1, <3>1, RemainderOfSmall, WrapAssumption
  <2> QED BY <2>1, <2>3
<1>3. ASSUME UNCHANGED <<ninserts, atBackup, since>>,
             since' \subseteq dict' \/ ~open', since' \cap batch' = {}
      PROVE  CountInv'
  BY <1>3
<1>4. CASE \E S \in (SUBSET (Word \ dict)) \ {{}} : StartUpdate(S)
  <2>1. PICK S \in (SUBSET (Word \ dict)) \ {{}} : StartUpdate(S)
    BY <1>4
  <2> QED BY <2>1, <1>3 DEF StartUpdate, files, count, history, server
<1>5. CASE \E w \in batch : InsertDict(w)
  <2>1. PICK w \in batch : InsertDict(w)
    BY <1>5
  <2> QED BY <2>1, <1>3 DEF InsertDict, count, history, server
<1>6. CASE WriteJournal \/ InsertDelta \/ FailDelta \/ MissDelta
  BY <1>6, <1>3 DEF WriteJournal, InsertDelta, FailDelta, MissDelta, files,
                    count, history, server
<1>7. CASE UnlinkDict
  <2>1. ~open' /\ UNCHANGED <<ninserts, atBackup, since, batch>>
    BY <1>7 DEF UnlinkDict, ControlInv, count, history, update
  <2> QED BY <2>1, <1>3
<1>8. CASE \/ LockMutex \/ StayAsleep \/ LockTable \/ CleanOther
           \/ NothingToBackUp \/ StartBackup \/ CloseDelta \/ ReopenDelta
           \/ CleanJournals
           \/ \E what \in {"pause", "resume"} : AskBackup(what)
           \/ AnswerBackup \/ WriteConfig \/ Created \/ StartDelete \/ HangDelete
           \/ UnlinkConfig \/ UnlinkRdict \/ UNCHANGED vars
  <2>1. UNCHANGED <<ninserts, atBackup, since, dict, batch, open>>
    <3> USE DEF files, server, count, history, update
    <3>1. CASE \/ LockMutex \/ StayAsleep \/ LockTable \/ CleanOther
               \/ NothingToBackUp \/ StartBackup \/ CloseDelta \/ ReopenDelta
               \/ CleanJournals
      BY <3>1 DEF LockMutex, StayAsleep, LockTable, CleanOther, NothingToBackUp,
                  StartBackup, CloseDelta, ReopenDelta, CleanJournals
    <3>2. CASE \/ \E what \in {"pause", "resume"} : AskBackup(what)
               \/ AnswerBackup \/ WriteConfig \/ Created
      BY <3>2 DEF AskBackup, AnswerBackup, SetEnabled, WriteConfig, Created
    <3>3. CASE StartDelete \/ HangDelete \/ UnlinkConfig \/ UnlinkRdict \/ UNCHANGED vars
      BY <3>3 DEF StartDelete, HangDelete, UnlinkConfig, UnlinkRdict, vars
    <3> QED BY <1>8, <3>1, <3>2, <3>3
  <2> QED BY <2>1, <1>3
<1> QED BY <1>1, <1>2, <1>4, <1>5, <1>6, <1>7, <1>8
        DEF Next, Insertion, Round, Administration

\* What went into the new delta file is under way, counted after the note, or late
\* (tokenize.c:584-594, dict.c:1215-1288).
LEMMA FreshWordsKept ==
    ASSUME FilesOK, PlacesOK, ControlInv, WordInv, FreshWordsInv, [Next]_vars
    PROVE  FreshWordsInv'
<1> USE DEF FreshWordsInv, Reopened
<1>1. CASE InsertRdict
  <2>1. /\ fresh' = fresh /\ bpc' = bpc /\ open' = open /\ since' = since \cup Current
        /\ late' = (late \/ (Reopened /\ Current \cap fresh # {}))
    BY <1>1 DEF InsertRdict, FinishWord, server, backup
  <2>2. SUFFICES ASSUME ~late'
                 PROVE  /\ open => fresh \subseteq since'
                        /\ Reopened => fresh = {}
    BY <2>1
  <2>3. ~late /\ ~(Reopened /\ Current \cap fresh # {})
    BY <2>1, <2>2
  <2> QED BY <2>1, <2>3
<1>2. CASE InsertDelta
  <2>1. /\ fresh' = fresh \cup Current /\ Current' = Current
        /\ UNCHANGED <<since, late, open, bpc>>
    BY <1>2 DEF InsertDelta, Current, server, backup
  <2> QED BY <2>1
<1>3. CASE NoteBackup
  <2>1. /\ Reopened /\ bpc' = "sleep" /\ Current' = Current
        /\ UNCHANGED <<fresh, late, open>>
    BY <1>3 DEF NoteBackup, Sleep, Current, files, server, update
  <2> QED BY <2>1
<1>4. CASE CloseDelta \/ Create \/ ClearJournals \/ Crash \/ Load
  <2>1. fresh' = {}
    BY <1>4 DEF CloseDelta, Create, ClearJournals, Crash, Load, ZeroCount
  <2> QED BY <2>1
<1>5. ASSUME UNCHANGED <<fresh, since, late, open>>, Reopened' = Reopened,
             open => Current \subseteq Current', Reopened => Current \subseteq Current'
      PROVE  FreshWordsInv'
  BY <1>5
<1>6. CASE \E S \in (SUBSET (Word \ dict)) \ {{}} : StartUpdate(S)
  <2>1. PICK S \in (SUBSET (Word \ dict)) \ {{}} : StartUpdate(S)
    BY <1>6
  <2>2. Current = {}
    BY <2>1 DEF StartUpdate, ControlInv, Current
  <2> QED BY <2>1, <2>2, <1>5 DEF StartUpdate, server, count, history, backup
<1>7. CASE \E w \in batch : InsertDict(w)
  <2>1. PICK w \in batch : InsertDict(w)
    BY <1>7
  <2> QED BY <2>1, <1>5 DEF InsertDict, Current, server, count, history, backup
<1>8. CASE UnlinkDict
  <2>1. Current = {}
    BY <1>8 DEF UnlinkDict, ControlInv, Current
  <2> QED BY <1>8, <2>1, <1>5 DEF UnlinkDict, count, history, backup
<1>9. CASE \/ WriteJournal \/ FailDelta \/ MissDelta
           \/ LockMutex \/ StayAsleep \/ LockTable \/ CleanOther
           \/ NothingToBackUp \/ StartBackup \/ ReopenDelta \/ CleanJournals
           \/ \E what \in {"pause", "resume"} : AskBackup(what)
           \/ AnswerBackup \/ WriteConfig \/ Created \/ StartDelete \/ HangDelete
           \/ UnlinkConfig \/ UnlinkRdict \/ UNCHANGED vars
  <2>1. UNCHANGED <<fresh, since, late, open, dict, batch>> /\ Reopened' = Reopened
    <3> USE DEF files, server, count, history, backup, update
    <3>1. CASE WriteJournal \/ FailDelta \/ MissDelta
      BY <3>1 DEF WriteJournal, FailDelta, MissDelta
    <3>2. CASE LockMutex \/ StayAsleep \/ LockTable \/ CleanOther \/ NothingToBackUp
      BY <3>2 DEF LockMutex, StayAsleep, LockTable, CleanOther, NothingToBackUp, Sleep
    <3>3. CASE StartBackup \/ ReopenDelta \/ CleanJournals
      BY <3>3 DEF StartBackup, ReopenDelta, CleanJournals
    <3>4. CASE \/ \E what \in {"pause", "resume"} : AskBackup(what)
               \/ AnswerBackup \/ WriteConfig \/ Created
      BY <3>4 DEF AskBackup, AnswerBackup, SetEnabled, WriteConfig, Created
    <3>5. CASE StartDelete \/ HangDelete \/ UnlinkConfig \/ UnlinkRdict \/ UNCHANGED vars
      BY <3>5 DEF StartDelete, HangDelete, UnlinkConfig, UnlinkRdict, vars
    <3> QED BY <1>9, <3>1, <3>2, <3>3, <3>4, <3>5
  <2> QED BY <2>1, <1>5 DEF Current
<1> QED BY <1>1, <1>2, <1>3, <1>4, <1>6, <1>7, <1>8, <1>9
        DEF Next, Insertion, Round, Administration

------------------------------------------------------------------------------
\* The server starts with nothing on disk (the directory is empty).
LEMMA InitInv == Init => IInv
<1> SUFFICES ASSUME Init PROVE IInv
  OBVIOUS
<1>1. TypeOK
  <2>1. FlagsOK /\ FilesOK
    BY DEF Init, FlagsOK, FilesOK
  <2>2. NumbersOK
    BY WrapAssumption, MaxMishapsAssumption DEF Init, NumbersOK
  <2>3. PlacesOK
    BY DEF Init, PlacesOK
  <2> QED BY <2>1, <2>2, <2>3 DEF TypeOK
<1>2. ControlInv /\ RoundInv /\ WordInv /\ JournalInv /\ FreshInv /\ NameInv
  BY DEF Init, ControlInv, RoundInv, InRound, WordInv, JournalInv, FreshInv, NameInv
<1>5. FreshWordsInv
  BY DEF Init, FreshWordsInv
<1>3. LossInv
  <2>1. Lost = {} /\ mishaps = 0
    BY DEF Init, Lost
  <2> QED BY <2>1, FS_EmptySet DEF LossInv
<1>4. CountInv
  <2>1. atBackup + Cardinality(since) = 0 /\ since = {} /\ ninserts = 0
    BY FS_EmptySet DEF Init
  <2>2. 0 % Wrap = 0
    BY RemainderOfSmall, WrapAssumption
  <2> QED BY <2>1, <2>2 DEF CountInv
<1> QED BY <1>1, <1>2, <1>3, <1>4, <1>5 DEF IInv

\* Every step of the server keeps the invariant.
LEMMA StepInv == IInv /\ [Next]_vars => IInv'
BY FlagsKept, FilesKept, NumbersKept, PlacesKept, ControlKept, RoundKept,
   WordsKept, JournalKept, FreshKept, NameKept, LossKept, CountKept,
   FreshWordsKept DEF IInv, TypeOK

\* The inductive invariant holds always.
THEOREM InvAlways == Spec => []IInv
BY InitInv, StepInv, PTL DEF Spec

\* Every variable keeps its type, and ninserts stays below Wrap.
THEOREM TypeCorrect == Spec => []TypeOK
<1>1. IInv => TypeOK
  BY DEF IInv
<1> QED BY InvAlways, <1>1, PTL

\* Each crash, and each insertion that meets a closed delta file, costs one word.
THEOREM LossBounded == Spec => []OneWordPerMishap
<1>1. IInv => OneWordPerMishap
  <2> SUFFICES ASSUME IInv PROVE OneWordPerMishap
    OBVIOUS
  <2> DEFINE Missing == dict \ (rdict \cap deltas)
  <2>1. /\ IsFiniteSet(Lost) /\ Cardinality(Lost) \in Nat
        /\ IsFiniteSet(Missing) /\ Cardinality(Missing) \in Nat
    BY FS_Subset, FS_CardinalityType, WordAssumption
       DEF IInv, TypeOK, FilesOK, Lost
  <2>2. mishaps \in Nat
    BY MaxMishapsAssumption DEF IInv, TypeOK, NumbersOK
  <2>3. Cardinality(Lost) <= mishaps
    BY DEF IInv, LossInv
  <2>4. CASE upc \in {"delta", "rdict"}
    <3>1. PICK w \in Word : Current = {w}
      BY <2>4 DEF IInv, WordInv
    <3>2. Missing \subseteq Lost \cup {w}
      BY <3>1 DEF Lost, UnderWay
    <3>3. /\ IsFiniteSet(Lost \cup {w})
          /\ Cardinality(Lost \cup {w}) <= Cardinality(Lost) + 1
      <4>1. IsFiniteSet(Lost) /\ Cardinality(Lost) \in Nat
        BY <2>1
      <4> HIDE DEF Missing
      <4> QED BY ONLY <4>1, FS_AddElement
    <3>4. Cardinality(Lost \cup {w}) \in Nat
      BY <3>3, FS_CardinalityType
    <3>5. Cardinality(Missing) <= Cardinality(Lost \cup {w})
      BY <3>2, <3>3, FS_Subset
    <3> QED BY <2>1, <2>2, <2>3, <2>4, <3>3, <3>4, <3>5 DEF OneWordPerMishap
  <2>5. CASE upc \notin {"delta", "rdict"}
    <3>1. Missing = Lost
      BY <2>5 DEF Lost, UnderWay
    <3> QED BY <2>2, <2>3, <2>5, <3>1 DEF OneWordPerMishap
  <2> QED BY <2>4, <2>5
<1> QED BY InvAlways, <1>1, PTL

\* The journals cover what is not in a delta file, unless a round of the backup
\* took the journal of the update in progress.
THEOREM JournalsCover == Spec => []JournalCoversUnlessCleaned
<1>1. IInv => JournalCoversUnlessCleaned
  BY DEF IInv, ControlInv, JournalInv, JournalCoversUnlessCleaned, JournalCovers,
         Current
<1> QED BY InvAlways, <1>1, PTL

\* A pause that was answered means that the backup thread leaves the files alone.
THEOREM PauseQuiet == Spec => []PausedIsQuiet
<1>1. IInv => PausedIsQuiet
  BY DEF IInv, RoundInv, PausedIsQuiet
<1> QED BY InvAlways, <1>1, PTL

\* A round that says "No inserts since last backup" leaves out no word that a round
\* could have had: what is in the delta file that is open is under way, unless the
\* counter went round or the last round noted words it had not taken.
THEOREM SkipsJustified == Spec => []SkipsRight
<1>1. IInv => SkipsRight
  <2> SUFFICES ASSUME IInv, open, ninserts = atBackup, ~late, ~(Cardinality(since) >= Wrap)
               PROVE  fresh \subseteq Current
    BY DEF SkipsRight
  <2>1. IsFiniteSet(since) /\ Cardinality(since) \in Nat
    BY FS_Subset, FS_CardinalityType, WordAssumption DEF IInv, TypeOK, FilesOK
  <2>2. atBackup \in 0 .. Wrap - 1
    BY DEF IInv, TypeOK, NumbersOK
  <2>3. (atBackup + Cardinality(since)) % Wrap = atBackup
    BY DEF IInv, CountInv
  <2>4. Cardinality(since) % Wrap = 0
    BY <2>1, <2>2, <2>3, BackAgain, WrapAssumption
  <2>5. Cardinality(since) \in 0 .. Wrap - 1
    BY <2>1, WrapAssumption
  <2>6. Cardinality(since) = 0
    BY <2>4, <2>5, RemainderOfSmall, WrapAssumption
  <2>7. since = {}
    BY <2>1, <2>6, FS_EmptySet
  <2> QED BY <2>7 DEF IInv, FreshWordsInv
<1> QED BY InvAlways, <1>1, PTL

\* A dictionary starts empty, also under a name that was used before.
THEOREM CreatesEmpty == Spec => []CreatedEmpty
<1>1. IInv => CreatedEmpty
  BY DEF IInv, FreshInv, CreatedEmpty
<1> QED BY InvAlways, <1>1, PTL

------------------------------------------------------------------------------
(***************************************************************************)
(* The files do what Storage promises.                                     *)
(***************************************************************************)
LEMMA SameFiles ==
    ASSUME cfg' = cfg, mishaps' = mishaps, dict' = dict, rdict' = rdict,
           deltas' = deltas, UnderWay' = UnderWay
    PROVE  UNCHANGED Stored!svars
<1>1. whole' = whole /\ Lost' = Lost
  BY DEF whole, Lost
<1> QED BY <1>1 DEF Stored!svars

\* A word that gets into the last of the files is stored; until then nothing is.
LEMMA InsertStores ==
    ASSUME IInv, (\E w \in batch : InsertDict(w)) \/ InsertDelta \/ InsertRdict
    PROVE  [Stored!Next]_(Stored!svars)
<1> USE DEF IInv, TypeOK, FilesOK
<1>1. cfg /\ cfg' = cfg /\ mishaps' = mishaps
  BY DEF ControlInv, NameInv, InsertDict, InsertDelta, InsertRdict, FinishWord
<1>2. \E w \in Word :
          /\ Lost' = Lost
          /\ whole' = whole \/ (whole' = whole \cup {w} /\ w \notin whole \cup Lost)
  <2>1. ASSUME NEW w \in batch, InsertDict(w)
        PROVE  /\ w \in Word /\ Lost' = Lost
               /\ whole' = whole \/ (whole' = whole \cup {w} /\ w \notin whole \cup Lost)
    <3>1. /\ upc = "dict" /\ upc' = "delta" /\ dict' = dict \cup {w}
          /\ rdict' = rdict /\ deltas' = deltas /\ batch' = batch
      BY <2>1 DEF InsertDict
    <3>2. w \in Word /\ w \notin dict /\ Current' = {w}
      BY <3>1 DEF WordInv, Current
    <3>3. UnderWay = {} /\ UnderWay' = {w}
      BY <3>1, <3>2 DEF UnderWay
    <3>4. Lost' = Lost
      BY <3>1, <3>2, <3>3 DEF Lost
    <3>5. whole' = whole \/ (whole' = whole \cup {w} /\ w \notin whole \cup Lost)
      BY <3>1, <3>2 DEF whole, Lost
    <3> QED BY <3>2, <3>4, <3>5
  <2>2. CASE InsertDelta
    <3>1. PICK w \in Word : Current = {w}
      BY <2>2 DEF InsertDelta, WordInv
    <3>2. /\ upc = "delta" /\ upc' = "rdict" /\ deltas' = deltas \cup {w}
          /\ dict' = dict /\ rdict' = rdict /\ Current' = Current
      BY <2>2, <3>1 DEF InsertDelta, Current
    <3>3. UnderWay = {w} /\ UnderWay' = {w} /\ w \in dict
      BY <3>1, <3>2 DEF UnderWay, Current
    <3>4. Lost' = Lost
      BY <3>2, <3>3 DEF Lost
    <3>5. whole' = whole \/ (whole' = whole \cup {w} /\ w \notin whole \cup Lost)
      BY <3>2, <3>3 DEF whole, Lost
    <3> QED BY <3>4, <3>5
  <2>3. CASE InsertRdict
    <3>1. PICK w \in Word : Current = {w}
      BY <2>3 DEF InsertRdict, FinishWord, WordInv
    <3>2. /\ upc = "rdict" /\ upc' \in {"idle", "dict"} /\ rdict' = rdict \cup {w}
          /\ dict' = dict /\ deltas' = deltas
      BY <2>3, <3>1 DEF InsertRdict, FinishWord
    <3>3. UnderWay = {w} \cap deltas /\ UnderWay' = {} /\ w \in dict
      BY <3>1, <3>2 DEF UnderWay, Current
    <3>4. Lost' = Lost
      BY <3>2, <3>3 DEF Lost
    <3>5. whole' = whole \/ (whole' = whole \cup {w} /\ w \notin whole \cup Lost)
      BY <3>2, <3>3 DEF whole, Lost
    <3> QED BY <3>4, <3>5
  <2> QED BY <2>1, <2>2, <2>3
<1>3. PICK w \in Word :
          /\ Lost' = Lost
          /\ whole' = whole \/ (whole' = whole \cup {w} /\ w \notin whole \cup Lost)
  BY <1>2
<1> QED BY <1>1, <1>3 DEF Stored!Next, Stored!Store, Stored!svars

\* A mishap breaks the word under way, if it breaks one.
LEMMA MishapBreaks ==
    ASSUME IInv, FailDelta \/ MissDelta \/ Crash
    PROVE  Stored!Next
<1> USE DEF IInv, TypeOK, FilesOK
<1>1. /\ cfg' = cfg /\ dict' = dict /\ rdict' = rdict /\ deltas' = deltas
      /\ mishaps' = mishaps + 1
  BY DEF FailDelta, MissDelta, Crash, files
<1>2. UnderWay' \in {{}, UnderWay \cap deltas}
  BY DEF FailDelta, MissDelta, Crash, UnderWay, Current, files
<1>3. whole' = whole
  BY <1>1 DEF whole
<1>4. Lost' = Lost \/ \E w \in Word \ whole : Lost' = Lost \cup {w}
  <2>1. CASE UnderWay = {}
    BY <1>1, <1>2, <2>1 DEF Lost
  <2>2. CASE UnderWay # {}
    <3>1. PICK w \in Word : Current = {w}
      BY <2>2 DEF UnderWay, WordInv
    <3>2. UnderWay = {w} /\ w \in dict
      BY <2>2, <3>1 DEF UnderWay, Current
    <3>3. CASE w \in whole
      <4>1. Lost' = Lost
        BY <1>1, <1>2, <3>2, <3>3 DEF Lost, whole
      <4> QED BY <4>1
    <3>4. CASE w \notin whole
      <4>1. UnderWay' = {} \/ UnderWay' = {w}
        BY <1>2, <3>2
      <4>2. UnderWay' = {} => Lost' = Lost \cup {w}
        BY <1>1, <3>2, <3>4 DEF Lost, whole
      <4>3. UnderWay' = {w} => Lost' = Lost
        BY <1>1, <3>2 DEF Lost
      <4> QED BY <3>4, <4>1, <4>2, <4>3
    <3> QED BY <3>3, <3>4
  <2> QED BY <2>1, <2>2
<1> QED BY <1>1, <1>3, <1>4 DEF Stored!Next, Stored!Mishap

\* The files of a name go when the name is gone.
LEMMA FilesAdministered ==
    ASSUME IInv, WriteConfig \/ UnlinkConfig \/ UnlinkDict \/ UnlinkRdict
    PROVE  [Stored!Next]_(Stored!svars)
<1> USE DEF IInv, ControlInv, NameInv
<1>1. upc = "idle" /\ upc' = "idle" /\ batch' = batch /\ mishaps' = mishaps
  BY DEF WriteConfig, UnlinkConfig, UnlinkDict, UnlinkRdict, update
<1>2. UnderWay = {} /\ UnderWay' = {}
  BY <1>1 DEF UnderWay
<1>3. CASE WriteConfig
  <2>1. cfg' = TRUE /\ whole' = whole /\ Lost' = Lost
    BY <1>2, <1>3 DEF WriteConfig, whole, Lost
  <2> QED BY <1>1, <2>1 DEF Stored!Next, Stored!Create, Stored!svars, TypeOK, FlagsOK
<1>4. CASE UnlinkConfig
  <2>1. cfg' = FALSE /\ whole' = whole /\ Lost' = Lost
    BY <1>2, <1>4 DEF UnlinkConfig, whole, Lost
  <2> QED BY <1>1, <2>1 DEF Stored!Next, Stored!Delete, Stored!svars, TypeOK, FlagsOK
<1>5. CASE UnlinkDict \/ UnlinkRdict
  <2>1. ~cfg /\ cfg' = cfg /\ dict' = {}
    BY <1>5 DEF UnlinkDict, UnlinkRdict
  <2>2. whole' = {} /\ Lost' = {}
    BY <2>1 DEF whole, Lost
  <2> QED BY <1>1, <2>1, <2>2 DEF Stored!Next, Stored!Erase
<1> QED BY <1>3, <1>4, <1>5

LEMMA StepOfStorage == IInv /\ [Next]_vars => [Stored!Next]_(Stored!svars)
<1> SUFFICES ASSUME IInv, [Next]_vars PROVE [Stored!Next]_(Stored!svars)
  OBVIOUS
<1> USE DEF files, server, update
<1>1. ASSUME upc' = upc, batch' = batch, dict' = dict, rdict' = rdict,
             deltas' = deltas, cfg' = cfg, mishaps' = mishaps
      PROVE  UNCHANGED Stored!svars
  BY <1>1, SameFiles DEF UnderWay, Current
<1>2. ASSUME upc \in {"idle", "journal", "dict", "failed"},
             upc' \in {"idle", "journal", "dict", "failed"}, dict' = dict,
             rdict' = rdict, deltas' = deltas, cfg' = cfg, mishaps' = mishaps
      PROVE  UNCHANGED Stored!svars
  BY <1>2, SameFiles DEF UnderWay
<1>3. CASE (\E S \in (SUBSET (Word \ dict)) \ {{}} : StartUpdate(S)) \/ WriteJournal
  BY <1>2, <1>3 DEF StartUpdate, WriteJournal
<1>4. CASE (\E w \in batch : InsertDict(w)) \/ InsertDelta \/ InsertRdict
  BY <1>4, InsertStores
<1>5. CASE FailDelta \/ MissDelta \/ Crash
  BY <1>5, MishapBreaks
<1>6. CASE Round \/ LockTable \/ CleanOther
  BY <1>1, <1>6 DEF Round, LockMutex, StayAsleep, Sleep, LockTable, CleanOther,
     RemoveJournals, NothingToBackUp, StartBackup, CloseDelta, ReopenDelta,
     CleanJournals, NoteBackup
<1>7. CASE (\E what \in {"pause", "resume"} : AskBackup(what)) \/ AnswerBackup
  BY <1>1, <1>7 DEF AskBackup, AnswerBackup, SetEnabled
<1>8. CASE WriteConfig \/ UnlinkConfig \/ UnlinkDict \/ UnlinkRdict
  BY <1>8, FilesAdministered
<1>9. CASE Create \/ Created \/ StartDelete \/ HangDelete \/ Load
  BY <1>1, <1>9 DEF Create, Created, StartDelete, HangDelete, Load
<1>10. CASE ClearJournals
  BY <1>2, <1>10 DEF ClearJournals
<1>11. CASE UNCHANGED vars
  BY <1>1, <1>11 DEF vars
<1> QED BY <1>3, <1>4, <1>5, <1>6, <1>7, <1>8, <1>9, <1>10, <1>11
        DEF Next, Insertion, Administration

\* The files implement Storage: what is stored whole stays so until its name is
\* deleted, whatever breaks, and each mishap costs one word at most.
THEOREM Refinement == Spec => ImplementsStorage
<1>1. Init => Stored!Init
  BY DEF Init, Stored!Init, whole, Lost
<1> QED
  BY <1>1, StepOfStorage, InvAlways, PTL DEF Spec, ImplementsStorage, Stored!Spec
==============================================================================
