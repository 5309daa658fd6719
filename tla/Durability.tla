----------------------------- MODULE Durability ------------------------------
(***************************************************************************)
(* One dictionary on disk: what update_dict, the backup thread, creation   *)
(* and deletion write and remove there, and what a crash leaves.           *)
(*                                                                         *)
(* The dictionary file, the reverse dictionary, the delta files and the    *)
(* journals are sets of words.  They are opened so that every write is     *)
(* flushed (DBI_FLUSHALL): what a completed call wrote survives a crash.   *)
(* The backup copy is made empty, when a name is first used, and stays; a  *)
(* script outside the repository moves words from the delta files to it,   *)
(* and `deltas' holds what is in either.                                   *)
(* One update at a time, as Vocabulary shows of dictstate_rwlock; creation *)
(* and deletion hold the table's write lock, a backup round its read lock, *)
(* and a deletion waits for the updates, as Registry shows.                *)
(***************************************************************************)
EXTENDS Integers, FiniteSets

CONSTANTS
    Word,
    Wrap,           \* ninserts restarts at this number (1000, tokenize.c:594)
    Suffixed,       \* another dictionary has a name that ends this one's
    MaxMishaps      \* bound: crashes and insertions that meet a closed delta file

ASSUME WordAssumption == IsFiniteSet(Word)
ASSUME WrapAssumption == Wrap \in Nat \ {0}
ASSUME SuffixedAssumption == Suffixed \in BOOLEAN
ASSUME MaxMishapsAssumption == MaxMishaps \in Nat

VARIABLES
    \* On disk.
    cfg,            \* the configuration file exists
    dict,           \* words in the dictionary file
    rdict,          \* words in the reverse dictionary
    deltas,         \* words in the delta files and the backup copy
    journals,       \* words in the journals of the dictionary's name
    \* In the server.
    up,             \* the process runs
    open,           \* the dictionary is in the table
    handle,         \* dict->deltadict: "open", or "closed" by the backup thread
    ninserts,
    atBackup,       \* dict->ninserts_at_backup
    enabled,        \* ServerState.backup_enabled
    mutex,          \* srvstate_mutex: "free", "backup" or "client"
    \* The threads: an update, the backup thread, a client that pauses and
    \* resumes it, a client that creates and deletes the dictionary.
    upc, bpc, cpc, apc,
    batch,          \* update_dict: the words still to be inserted
    jfile,          \* update_dict's journal: "none", "empty", "kept", "unlinked"
    \* History.
    fresh,          \* the words in the delta file that was opened last
    since,          \* words counted since ninserts was noted or set to 0
    late,           \* the last round noted words of the delta file it opened
    mishaps         \* crashes, and insertions that met a closed delta file

files   == <<cfg, dict, rdict, deltas, journals>>
history == <<fresh, since, late>>
count   == <<ninserts, atBackup, history>>
backup  == <<enabled, mutex, bpc, cpc>>
update  == <<upc, batch, jfile>>
server  == <<up, open, apc>>
vars    == <<files, server, handle, count, backup, update, mishaps>>

Init ==
    /\ cfg = FALSE
    /\ dict = {} /\ rdict = {} /\ deltas = {} /\ journals = {}
    /\ up = TRUE /\ open = FALSE /\ apc = "idle"
    /\ handle = "closed"
    /\ ninserts = 0 /\ atBackup = 0
    /\ fresh = {} /\ since = {} /\ late = FALSE
    /\ enabled = TRUE /\ mutex = "free" /\ bpc = "sleep" /\ cpc = "idle"
    /\ upc = "idle" /\ batch = {} /\ jfile = "none"
    /\ mishaps = 0

\* A round of the backup thread holds the table for reading, and the disk lock
\* of the dictionary's hash while it backs it up.
InRound == bpc \in {"check", "close", "reopen", "clean", "note"}
DiskLocked == bpc \in {"close", "reopen", "clean"}

\* It has closed the delta file, and not yet noted the counter.
Reopened == bpc \in {"reopen", "clean", "note"}

\* The counters of a new dict_t, and of one that is gone.
ZeroCount ==
    /\ ninserts' = 0 /\ atBackup' = 0
    /\ fresh' = {} /\ since' = {} /\ late' = FALSE

\* The files of journals go; one that is being written loses its name.
RemoveJournals ==
    /\ journals' = {}
    /\ jfile' = IF jfile = "none" THEN "none" ELSE "unlinked"

------------------------------------------------------------------------------
(***************************************************************************)
(* update_dict, under dictstate_rwlock.  The words are those that the      *)
(* dictionary lacks.  A request that has the dictionary's inuse lock may   *)
(* begin an update while a deletion waits for it; after an update that     *)
(* gave up none begins any more (HangDelete).                              *)
(***************************************************************************)
StartUpdate(S) ==
    /\ open
    /\ apc \in {"idle", "drain", "wedged"}
    /\ upc = "idle"
    /\ upc' = "journal"
    /\ batch' = S
    /\ jfile' = "empty"
    /\ UNCHANGED <<files, server, handle, count, backup, mishaps>>

\* Mutant: the journal gets its header and its footer only.
WriteJournalEmpty ==
    /\ upc = "journal"
    /\ jfile' = IF jfile = "empty" THEN "kept" ELSE jfile
    /\ upc' = "dict"
    /\ UNCHANGED <<files, server, handle, count, backup, batch, mishaps>>

\* What is written to a file without a name is lost when it is closed.
WriteJournal ==
    /\ upc = "journal"
    /\ IF jfile = "empty"
       THEN journals' = journals \cup batch /\ jfile' = "kept"
       ELSE UNCHANGED <<journals, jfile>>
    /\ upc' = "dict"
    /\ UNCHANGED <<cfg, dict, rdict, deltas, server, handle, count, backup,
                   batch, mishaps>>

\* hhash_Put writes through to the disk.
InsertDict(w) ==
    /\ upc = "dict"
    /\ ~DiskLocked
    /\ dict' = dict \cup {w}
    /\ upc' = "delta"
    /\ UNCHANGED <<cfg, rdict, deltas, journals, server, handle, count, backup,
                   batch, jfile, mishaps>>

\* The word that is in dict already.
Current == batch \cap dict

InsertDelta ==
    /\ upc = "delta"
    /\ handle = "open"
    /\ deltas' = deltas \cup Current
    /\ fresh' = fresh \cup Current
    /\ upc' = "rdict"
    /\ UNCHANGED <<cfg, dict, rdict, journals, server, handle, ninserts, atBackup,
                   since, late, backup, batch, jfile, mishaps>>

\* The backup thread has closed the delta file and freed its structure, which
\* nothing protects from update_dict.  The insertion may fail, and update_dict
\* gives up with the lock held; it may seem to succeed; or the process dies.
FailDelta ==
    /\ upc = "delta"
    /\ handle = "closed"
    /\ mishaps < MaxMishaps
    /\ mishaps' = mishaps + 1
    /\ upc' = "failed"
    /\ UNCHANGED <<files, server, handle, count, backup, batch, jfile>>

MissDelta ==
    /\ upc = "delta"
    /\ handle = "closed"
    /\ mishaps < MaxMishaps
    /\ mishaps' = mishaps + 1
    /\ upc' = "rdict"
    /\ UNCHANGED <<files, server, handle, count, backup, batch, jfile>>

\* A word is late when a round counts it as backed up (NoteBackup) that it has put
\* into the new delta file.
FinishWord(n) ==
    /\ upc = "rdict"
    /\ rdict' = rdict \cup Current
    /\ ninserts' = n
    /\ since' = since \cup Current
    /\ late' = (late \/ (Reopened /\ Current \cap fresh # {}))
    /\ batch' = batch \ Current
    /\ IF batch \subseteq Current
       THEN upc' = "idle" /\ jfile' = "none"
       ELSE upc' = "dict" /\ UNCHANGED jfile
    /\ UNCHANGED <<cfg, dict, deltas, journals, server, handle, atBackup,
                   fresh, backup, mishaps>>

\* Mutant: the counter does not restart.
InsertRdictUnbounded == FinishWord(ninserts + 1)

InsertRdict == FinishWord(IF (ninserts + 1) % Wrap = 0 THEN 0 ELSE ninserts + 1)

------------------------------------------------------------------------------
(***************************************************************************)
(* dict_backup: one round after another, srvstate_mutex held throughout a  *)
(* round.                                                                  *)
(***************************************************************************)
LockMutex ==
    /\ up
    /\ bpc = "sleep"
    /\ mutex = "free"
    /\ mutex' = "backup"
    /\ bpc' = "enabled"
    /\ UNCHANGED <<files, server, handle, count, enabled, cpc, update, mishaps>>

Sleep == mutex' = "free" /\ bpc' = "sleep"

\* Mutant: a paused round keeps the mutex.
StayAsleepLocked ==
    /\ bpc = "enabled"
    /\ ~enabled
    /\ bpc' = "sleep"
    /\ UNCHANGED <<files, server, handle, count, enabled, mutex, cpc, update, mishaps>>

StayAsleep ==
    /\ bpc = "enabled"
    /\ ~enabled
    /\ Sleep
    /\ UNCHANGED <<files, server, handle, count, enabled, cpc, update, mishaps>>

LockTable ==
    /\ bpc = "enabled"
    /\ enabled
    /\ apc = "idle"
    /\ bpc' = "check"
    /\ UNCHANGED <<files, server, handle, count, enabled, mutex, cpc, update, mishaps>>

\* The other dictionary's turn, before this one's or in the next round: its
\* journals go, and those whose name ends alike.
CleanOther ==
    /\ bpc = "check"
    /\ Suffixed
    /\ RemoveJournals
    /\ UNCHANGED <<cfg, dict, rdict, deltas, server, handle, count, backup,
                   upc, batch, mishaps>>

\* "No inserts since last backup", or no such dictionary.
NothingToBackUp ==
    /\ bpc = "check"
    /\ open => ninserts = atBackup
    /\ Sleep
    /\ UNCHANGED <<files, server, handle, count, enabled, cpc, update, mishaps>>

StartBackup ==
    /\ bpc = "check"
    /\ open
    /\ ninserts # atBackup
    /\ bpc' = "close"
    /\ UNCHANGED <<files, server, handle, count, enabled, mutex, cpc, update, mishaps>>

\* Mutant: the round notes the counter and leaves the delta file open.
CloseDeltaForgotten ==
    /\ bpc = "close"
    /\ bpc' = "reopen"
    /\ UNCHANGED <<files, server, handle, count, enabled, mutex, cpc, update, mishaps>>

\* What is in the file can be moved to the backup from now on.
CloseDelta ==
    /\ bpc = "close"
    /\ handle' = "closed"
    /\ fresh' = {} /\ late' = FALSE
    /\ bpc' = "reopen"
    /\ UNCHANGED <<files, server, ninserts, atBackup, since, enabled, mutex, cpc,
                   update, mishaps>>

ReopenDelta ==
    /\ bpc = "reopen"
    /\ handle' = "open"
    /\ bpc' = "clean"
    /\ UNCHANGED <<files, server, count, enabled, mutex, cpc, update, mishaps>>

CleanJournals ==
    /\ bpc = "clean"
    /\ RemoveJournals
    /\ bpc' = "note"
    /\ UNCHANGED <<cfg, dict, rdict, deltas, server, handle, count, enabled,
                   mutex, cpc, upc, batch, mishaps>>

\* The disk lock is released, and then the counter is read once more: it may count
\* words by now that went into the new delta file.
NoteBackup ==
    /\ bpc = "note"
    /\ atBackup' = ninserts
    /\ since' = {}
    /\ Sleep
    /\ UNCHANGED <<files, server, handle, ninserts, fresh, late, enabled, cpc, update,
                   mishaps>>

------------------------------------------------------------------------------
(***************************************************************************)
(* dict_pause_backup and dict_resume_backup.                               *)
(***************************************************************************)
AskBackup(what) ==
    /\ up
    /\ cpc = "idle"
    /\ cpc' = what
    /\ UNCHANGED <<files, server, handle, count, enabled, mutex, bpc, update, mishaps>>

SetEnabled ==
    /\ cpc \in {"pause", "resume"}
    /\ enabled' = (cpc = "resume")
    /\ cpc' = "idle"
    /\ UNCHANGED <<files, server, handle, count, mutex, bpc, update, mishaps>>

\* Mutant: the flag is written without the mutex.
AnswerBackupAtOnce == SetEnabled

AnswerBackup == mutex = "free" /\ SetEnabled

------------------------------------------------------------------------------
(***************************************************************************)
(* dict_Create and dict_Delete, under the table's write lock.              *)
(***************************************************************************)
WriteConfig ==
    /\ up
    /\ apc = "idle"
    /\ ~InRound
    /\ ~open
    /\ cfg' = TRUE
    /\ apc' = "create"
    /\ UNCHANGED <<dict, rdict, deltas, journals, up, open, handle, count,
                   backup, update, mishaps>>

\* hhash_Open and db_Open take the files they find, or make empty ones.
Create ==
    /\ apc = "create"
    /\ ZeroCount
    /\ handle' = "open"
    /\ open' = TRUE
    /\ apc' = "created"
    /\ UNCHANGED <<files, up, backup, update, mishaps>>

Created ==
    /\ apc = "created"
    /\ apc' = "idle"
    /\ UNCHANGED <<files, up, open, handle, count, backup, update, mishaps>>

StartDelete ==
    /\ up
    /\ apc = "idle"
    /\ ~InRound
    /\ open
    /\ apc' = "drain"
    /\ UNCHANGED <<files, up, open, handle, count, backup, update, mishaps>>

\* A request that has the inuse lock never gives it back: it waits for
\* dictstate_rwlock, which an update that gave up has kept, or termify does not
\* advance.  The deletion waits for it for ever, with the table.
HangDelete ==
    /\ apc = "drain"
    /\ apc' = "wedged"
    /\ UNCHANGED <<files, up, open, handle, count, backup, update, mishaps>>

\* The inuse lock is got when no update is under way and no other request has it;
\* an update that gave up has released it.
ClearJournals ==
    /\ apc = "drain"
    /\ upc \in {"idle", "failed"}
    /\ journals' = {}
    /\ open' = FALSE
    /\ handle' = "closed"
    /\ upc' = "idle"
    /\ batch' = {}
    /\ jfile' = "none"
    /\ ZeroCount
    /\ apc' = "unlink cfg"
    /\ UNCHANGED <<cfg, dict, rdict, deltas, up, backup, mishaps>>

\* Mutant: the configuration file stays, and the next start finds it.
UnlinkConfigForgotten ==
    /\ apc = "unlink cfg"
    /\ apc' = "unlink dict"
    /\ UNCHANGED <<files, up, open, handle, count, backup, update, mishaps>>

UnlinkConfig ==
    /\ apc = "unlink cfg"
    /\ cfg' = FALSE
    /\ apc' = "unlink dict"
    /\ UNCHANGED <<dict, rdict, deltas, journals, up, open, handle, count,
                   backup, update, mishaps>>

\* Mutant: the reverse dictionary goes first.
UnlinkRdictFirst ==
    /\ apc = "unlink dict"
    /\ rdict' = {}
    /\ apc' = "unlink rdict"
    /\ UNCHANGED <<cfg, dict, deltas, journals, up, open, handle, count,
                   backup, update, mishaps>>

UnlinkDict ==
    /\ apc = "unlink dict"
    /\ dict' = {}
    /\ apc' = "unlink rdict"
    /\ UNCHANGED <<cfg, rdict, deltas, journals, up, open, handle, count,
                   backup, update, mishaps>>

\* Mutant: the reverse dictionary stays.
UnlinkRdictForgotten ==
    /\ apc = "unlink rdict"
    /\ apc' = "idle"
    /\ UNCHANGED <<files, up, open, handle, count, backup, update, mishaps>>

\* The copies and the delta files stay.
UnlinkRdict ==
    /\ apc = "unlink rdict"
    /\ rdict' = {}
    /\ apc' = "idle"
    /\ UNCHANGED <<cfg, dict, deltas, journals, up, open, handle, count,
                   backup, update, mishaps>>

------------------------------------------------------------------------------
\* The process is killed, or exits in requestShutdown, whatever it is doing.
Crash ==
    /\ up
    /\ mishaps < MaxMishaps
    /\ mishaps' = mishaps + 1
    /\ up' = FALSE /\ open' = FALSE /\ apc' = "idle"
    /\ handle' = "closed"
    /\ mutex' = "free" /\ bpc' = "sleep" /\ cpc' = "idle"
    /\ upc' = "idle" /\ batch' = {} /\ jfile' = "none"
    /\ ZeroCount
    /\ UNCHANGED <<files, enabled>>

\* dict_loadall.  nocheck is 1 (main.c:19) and nothing sets it to 0, so that the
\* dictionary is opened unchecked, and its journals go unread.
Load ==
    /\ ~up
    /\ up' = TRUE
    /\ enabled' = TRUE
    /\ open' = cfg
    /\ journals' = IF cfg THEN {} ELSE journals
    /\ handle' = IF cfg THEN "open" ELSE "closed"
    /\ ZeroCount
    /\ UNCHANGED <<cfg, dict, rdict, deltas, apc, mutex, bpc, cpc, update, mishaps>>

------------------------------------------------------------------------------
Insertion ==
    \/ WriteJournal
    \/ \E w \in batch : InsertDict(w)
    \/ InsertDelta \/ FailDelta \/ MissDelta \/ InsertRdict

Round ==
    \/ LockMutex \/ StayAsleep \/ NothingToBackUp
    \/ StartBackup \/ CloseDelta \/ ReopenDelta \/ CleanJournals \/ NoteBackup

Administration ==
    \/ Create \/ Created \/ UnlinkConfig \/ UnlinkDict \/ UnlinkRdict

Next ==
    \/ \E S \in (SUBSET (Word \ dict)) \ {{}} : StartUpdate(S)
    \/ \E what \in {"pause", "resume"} : AskBackup(what)
    \/ Insertion
    \/ LockTable
    \/ Round
    \/ CleanOther
    \/ AnswerBackup
    \/ WriteConfig \/ StartDelete
    \/ HangDelete
    \/ ClearJournals
    \/ Administration
    \/ Crash
    \/ Load

Spec == Init /\ [][Next]_vars

\* Threads run; a lock is got by who waits for it while it is free again and
\* again (the backup thread sleeps for an hour between rounds; readers of the
\* table go first; no request joins those that a deletion waits for).
Fairness ==
    /\ WF_vars(Insertion) /\ WF_vars(Round) /\ WF_vars(Administration)
    /\ SF_vars(LockTable) /\ SF_vars(AnswerBackup) /\ SF_vars(ClearJournals)

FairSpec == Spec /\ Fairness

------------------------------------------------------------------------------
(***************************************************************************)
(* Properties                                                              *)
(***************************************************************************)
FlagsOK ==
    /\ cfg \in BOOLEAN /\ up \in BOOLEAN /\ open \in BOOLEAN
    /\ enabled \in BOOLEAN /\ late \in BOOLEAN

FilesOK ==
    /\ dict \subseteq Word /\ rdict \subseteq Word /\ deltas \subseteq Word
    /\ journals \subseteq Word /\ batch \subseteq Word
    /\ fresh \subseteq Word /\ since \subseteq Word

NumbersOK ==
    /\ ninserts \in 0 .. Wrap - 1 /\ atBackup \in 0 .. Wrap - 1
    /\ mishaps \in 0 .. MaxMishaps

PlacesOK ==
    /\ handle \in {"open", "closed"}
    /\ mutex \in {"free", "backup"}
    /\ upc \in {"idle", "journal", "dict", "delta", "rdict", "failed"}
    /\ bpc \in {"sleep", "enabled", "check", "close", "reopen", "clean", "note"}
    /\ cpc \in {"idle", "pause", "resume"}
    /\ apc \in {"idle", "create", "created", "drain", "wedged", "unlink cfg",
                "unlink dict", "unlink rdict"}
    /\ jfile \in {"none", "empty", "kept", "unlinked"}

\* Every variable holds a value of its type; the counter stays below Wrap.
TypeOK == FlagsOK /\ FilesOK /\ NumbersOK /\ PlacesOK

\* A word of the dictionary is also in the reverse dictionary and in a delta
\* file or the backup, but for the word under way and one for each crash and each
\* insertion that met a closed delta file: no order of updates, rounds, deletions
\* and restarts costs more than the word it meets (tokenize.c:583-588).
OneWordPerMishap ==
    Cardinality(dict \ (rdict \cap deltas))
        <= mishaps + (IF upc \in {"delta", "rdict"} THEN 1 ELSE 0)

\* "Record in a journal the words to be added to the dictionary" (tokenize.c:467):
\* what is in the dictionary and not in a delta file yet is in a journal.
JournalCovers == dict \subseteq deltas \cup journals

\* It is, as long as nothing broke and no round of the backup took the journal of
\* the update under way (dict.c:1274-1282).
JournalCoversUnlessCleaned == mishaps = 0 /\ jfile # "unlinked" => JournalCovers

\* "the consolidate delta script brings the backup up-to-date" (dict.c:1224): at
\* rest, the backup and the delta files have the words of the dictionary.
BackupUpToDate ==
    mishaps = 0 /\ open /\ apc = "idle" /\ upc = "idle" => deltas = dict

\* Once a pause is answered, and until the resume is, no round is under way
\* (dict.c:1149-1171).
PausedIsQuiet == up /\ ~enabled => ~InRound

\* A round that says "No inserts since last backup" is right: all words but the one
\* under way are in delta files that were closed, where the backup can have them
\* (dict.c:1207, 1215, 1291).  The exceptions: the counter has gone round
\* (tokenize.c:594), or the last round noted words that had been inserted after it
\* closed the delta file, which wait for the next insertion (dict.c:1288).
SkipsRight ==
    bpc = "check" /\ open /\ ninserts = atBackup =>
        fresh \subseteq Current \/ Cardinality(since) >= Wrap \/ late

\* "create an empty dictionary" (dict.c:239): what dict_Create makes has nothing
\* of an earlier dictionary of the name, unless there was a crash or a failure.
CreatedEmpty == apc = "created" /\ mishaps = 0 => dict = {} /\ rdict = {} /\ journals = {}

\* A pause or a resume is answered, or the server goes down: the backup thread
\* takes the table with the mutex held, behind updates and deletions.
PauseAnswered == cpc # "idle" ~> cpc = "idle"

------------------------------------------------------------------------------
(***************************************************************************)
(* The files as Storage has them                                           *)
(***************************************************************************)
\* What the update in progress will still complete.
UnderWay ==
    CASE upc = "delta" -> Current
      [] upc = "rdict" -> Current \cap deltas
      [] OTHER         -> {}

\* The words of dict that a file lacks and nobody will add to it.
Lost == (dict \ (rdict \cap deltas)) \ UnderWay

\* Every step is one of Storage, or none: no order of updates, rounds, deletions,
\* crashes and restarts takes a word out of the files of a name in use once they
\* all have it, and a mishap costs at most the word under way (tokenize.c:583-588,
\* dict.c:363-391).
whole == dict \cap rdict \cap deltas

Stored == INSTANCE Storage WITH named <- cfg, broken <- Lost

ImplementsStorage == Stored!Spec

------------------------------------------------------------------------------
(***************************************************************************)
(* The inductive invariant, in the parts the proofs use                    *)
(***************************************************************************)
\* Who can be where at once.
ControlInv ==
    /\ open => up
    /\ ~up => mishaps > 0
    /\ apc # "idle" => up
    /\ apc \in {"drain", "wedged", "created"} => open
    /\ apc \in {"create", "unlink cfg", "unlink dict", "unlink rdict"} => ~open
    /\ apc = "unlink rdict" => dict = {}
    /\ upc # "idle" => open /\ apc \in {"idle", "drain", "wedged"}
    /\ IF upc = "idle" THEN batch = {} /\ jfile = "none" ELSE jfile # "none"
    /\ upc \notin {"idle", "journal"} => jfile \in {"kept", "unlinked"}

\* The backup thread has the mutex from its look at the flag to its sleep.
RoundInv ==
    /\ bpc # "sleep" => mutex = "backup" /\ up
    /\ InRound => enabled

\* One word of the batch is under way at most, all others are not in dict.
WordInv ==
    /\ upc \in {"journal", "dict"} => Current = {}
    /\ upc \in {"delta", "rdict", "failed"} => \E w \in Word : Current = {w}

LossInv == Cardinality(Lost) <= mishaps

JournalInv ==
    /\ jfile = "kept" => batch \subseteq journals
    /\ mishaps = 0 => dict \ deltas \subseteq (IF upc = "delta" THEN Current ELSE {})

\* The counter counts the words inserted since it was noted, up to Wrap.
CountInv ==
    /\ ninserts = (atBackup + Cardinality(since)) % Wrap
    /\ open => since \subseteq dict
    /\ since \cap batch = {}

\* A word of the new delta file is under way or was counted after the note, or one
\* of them is late; while a round has not noted the counter, it is not counted.
FreshWordsInv ==
    ~late =>
        /\ open => fresh \subseteq since \cup Current
        /\ Reopened => fresh \subseteq Current

\* The configuration file is there while the dictionary can be written to, and
\* gone before the others are.
NameInv ==
    /\ open \/ apc = "create" => cfg
    /\ apc \in {"unlink dict", "unlink rdict"} => ~cfg

\* A name that is not in use has no files, while nothing breaks.
FreshInv ==
    mishaps = 0 =>
        /\ ~open => journals = {}
        /\ ~open /\ apc \in {"idle", "create"} => dict = {} /\ rdict = {}
        /\ apc = "created" => dict = {} /\ rdict = {} /\ journals = {}

IInv ==
    /\ TypeOK /\ ControlInv /\ RoundInv /\ WordInv
    /\ LossInv /\ JournalInv /\ CountInv /\ FreshWordsInv /\ FreshInv /\ NameInv
==============================================================================
