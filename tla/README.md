# A TLA+ model of the token server

The token server keeps *dictionaries* that give every word a number, and turns
documents into numbers for its clients over XML-RPC. Connections are served by
threads that share the dictionaries. This directory holds TLA+ modules for the
parts of the server where threads, failures and the order of steps matter, and for
its algorithms on words and counts, the configurations that TLC checks, and proofs
for TLAPS.

    tlc -workers 2 -config VocabularySafety.cfg MCVocabulary
    tlapm VocabularyProofs.tla

Line numbers below are those of the C files in `src/`.

## The system

| Part | State | Operations | Talks to |
|---|---|---|---|
| tokenization, `tokenize.c` | per dictionary: `dict` (word to id), `rdict` (id to word), `deltadict` (words since the last backup), `ninserts`; `dictstate_rwlock` | `Tokenize`, `TokenizeSegments`, `ReverseTokenize`; inside them `termify`, `idterms`, `update_dict`, the translation of ids | table of dictionaries, journals, stop list |
| table of dictionaries, `dict.c` | `dtionaries` under `dtionaries_rwlock`; each `dict_t` with its `inuse_rwlock` | `dict_Create`, `dict_Delete`, `dict_List` | every other call |
| information calls, `dict.c` | none | `dict_Get_Meta`, `dict_Get_Stoplist`, `dict_GetStats`, `dict_heartbeat` (which writes and deletes a test word) | table, dictionaries |
| backup, `dict.c` | `backup_enabled`, `ninserts_at_backup`; `srvstate_mutex` | the thread `dict_backup`, `dict_pause_backup`, `dict_resume_backup` | table, dictionaries, journals |
| journals and loading, `dict.c` | files in the journal directory | `dict_loadall`, `dict_load`, `dict_restore`, `dict_replay_journal`, `dict_ClearJournals` | dictionaries |
| splitting of text, `tokenize.c`, `stoplist.c`, `stemmer.c` | per dictionary: `stophash`, made from three strings | `termify`; `stoplist_create`, `stopWord`, `stem` | tokenization, configuration |
| quarter frequencies, `tokenize.c` | none | `tokenize_quarter_frequency`, `tokenize_quartfreq_new` | tokenization |
| server, `server.c`, `main.c`, `daemon.c` | the process | `MultiThreadedServer`, `requestShutdown`, `close_dictionaries` | everything |
| configuration, introspection, conversions | none that changes | | |

What is hard here:

* **Interleaving.** Any number of requests on one dictionary at once, with two
  locks (`dictstate_rwlock` for the contents, `inuse_rwlock` for the life of the
  structure), a backup thread that uses neither, and calls that create and
  delete dictionaries.
* **State read before a lock and used after it.** `idterms` reads the size
  first and locks afterwards; the information calls use a pointer after the
  table is released; the backup reads `ninserts` without a lock.
* **Partial failure.** A word goes into three tables in turn. Error exits
  return with locks held.
* **Crashes and restarts.** Journals, delta files and backup copies are there
  for them, and `dict_load` throws the journals away.
* **Limits.** `ninserts` restarts at 1000, documents have fewer than four tokens,
  ids pass 256 and are stored through a `char *`, words get shorter than the
  suffixes the stemmer looks for, a table has one word more than is copied.
* **Shared data that looks private.** The iterator of a hash is part of the hash;
  the test word of a heartbeat is in everybody's dictionary.

What makes each part correct:

* a dictionary: ids are dense, stable and unique; `rdict` is the inverse of
  `dict`; an answer gives each term its own id; requests add their words
  atomically; every request is answered;
* the table: no call works on a deleted dictionary, nothing dangles, leaks or is
  freed twice; calls return;
* backup and journals: after a crash at any point every word is still somewhere
  it can be recovered from; a pause means that no round is under way;
* information calls: the sizes told are those between updates, a stop list is
  whole, a heartbeat leaves nothing behind;
* the algorithms: quarters partition the document and count real ids; the terms of
  a text are those that the client's strings ask for, also after a restart; the
  stemmer stays inside the word; every text comes to its end.

`PROJECT.json` lists the hazards one by one, at their lines, with the properties
that watch them.

## Modules

### TermIds: what a dictionary promises

A vocabulary is a partial numbering of words. The only step adds a non-empty set
of new words at once, with the ids that follow the ones in use, in some order.

### Vocabulary: one dictionary under concurrent requests

Models `idterms`, `update_dict`, `tokenize_freq_known`/`_new`,
`tokenize_idlist_known`/`_new`, and the paths through `tokenize_frequency` and
`tokenize_idlist` that call them.

| Code | Model |
|---|---|
| `dict->dict`, `dict->deltadict`, `dict->rdict`, `dictvalid` | `dict`, `delta`, `rdict`, `dictvalid` |
| `dictstate_rwlock` | `readers`, `writer` |
| locals of `idterms` | `nodictn`, `ids` (the answer being made), `newwords` |
| locals of `update_dict` | `keyslist`, `word`, `firstid`, `nwords`, `transdict` |
| size read before the lock, 137 | `ReadSize` |
| read lock, loop, unlock, 140-167 | `RdLock`, `IdTerms` |
| write lock and size, 494-503 | `WrLock` |
| journal, 504-557 | `WriteJournal` |
| the three writes, 583-593 | `InsertDict`, `InsertDelta`, `InsertRdict` |
| the word is already there, 608-613 | `SkipExisting` |
| unlock and translation, 617, 306-342 | `Unlock` |
| error exits, 626-646 | `InsertFails`, `JournalFails`, `AnswerUntranslated` |

What is merged and why: the loop of `idterms` is one step, because nothing can
write while the read lock is held. The translation is merged with the unlock
before it, because it touches only the request's own data. Each of the three writes is a
step of its own: each may fail, `idterms` reads the size and `ReverseTokenize`
reads `rdict` without the lock. The order in which a hash hands out its keys is
left open (`Numberings`, and the choice of `w` in the insertions).

What is abstracted: a document is the set of its distinct terms; an answer is a
function from terms to ids, which stands for both the frequency vector and the
id list, as both are translated entry by entry. A request whose terms are all
stop words changes nothing and is left out. After a failed write
the code looks ids up in a `NULL` table in a library that is not part of the
repository: the process either dies there (the behaviour simply ends, as it may
after any step) or builds an answer with the provisional ids in vain
(`AnswerUntranslated`): the failed write has set the fault (`macros.h` 35-71), and the
fault is what the client gets.

### Directory, Registry: the table of dictionaries

`Directory` is what the table promises to tokenizations, in four steps: a name gets a
dictionary that nobody works on, a name whose dictionary nobody works on loses it,
somebody begins to work on the dictionary a name has, and ends. `Registry` models how
every call finds, uses, creates, deletes and frees a `dict_t`, and implements it:
`working` is the dictionary whose inuse lock a call holds, and all other steps (locks,
look-ups, freeing, the information calls) stutter.

| Code | Model |
|---|---|
| `dtionaries`, `dtionaries_rwlock` | `dtionaries`, `tableReaders`, `tableWriter` |
| a `dict_t` in memory, `inuse_rwlock` | `heap`, `users`, `inuseWriter` |
| locals `dict_name`, `dict` | `name`, `ptr` |
| look-up, inuse lock, table unlock, `tokenize.c` 987-999, 1116-1128, 1180-1192 | `RdLock`, `FindToUse`, `Use`, `LeaveTable` |
| the tokenization and its unlock | `StopUsing`, or `GetStuck` |
| information calls | `FindToRead`, `ReadInfo` |
| `dict_List`, a round of `dict_backup` | `WorkOnTable` |
| `dict_Create`, `dict.c` 181-286 | `WrLock`, `Refuse`, `Create` |
| `dict_Delete`, `dict.c` 337-397 | `WrLock`, `FindToDelete`, `Drain`, `Remove`, `Free` |

A place in memory may be used again once it is freed, as `malloc` may. Calls may
never end (`GetStuck`): a tokenization or an information call that waits for the lock that
a failed `update_dict` keeps (`tokenize.c` 626, `dict.c` 496, 571), a tokenization with a
regular expression on which `termify` does not advance, a heartbeat that meets a test word
that was left (`dict.c` 698), a backup round that waits for the disk lock such a heartbeat
holds, or was refused it (1212). Tokenizations keep the inuse lock then, the backup the
table's read lock, information calls nothing that others need here. Calls that
fail before they take a lock (missing parameters) change nothing and are left
out. `dict_Delete` of a dictionary without a stop list passes a `NULL` table to
the hash library; if that crashes, the behaviour ends there.

`Vocabulary` and `Registry` meet in `StopUsing`/`GetStuck`: all that `Vocabulary` does
happens between `LeaveTable` and one of them, on a dictionary that
`UsedStaysRegistered` shows to be there throughout.

### Storage, Durability: one dictionary on disk

`Storage` says what the files of one name promise: a word that all of them have stays
until the name is deleted, and a mishap breaks one word at most, none of those.
`Durability` models what the server writes and removes for one dictionary, the backup
thread, and what a crash leaves. It implements `Storage`: a name has a dictionary while
its configuration file is there, a word is whole once it is in `dict`, `rdict` and
`deltas`, and broken when one of them lacks it and no update will still add it (`Lost`).

| Code | Model |
|---|---|
| configuration, dictionary and reverse dictionary files | `cfg`, `dict`, `rdict` |
| delta files and backup copy; journals | `deltas`; `journals` |
| `dict->deltadict` as the backup thread leaves it | `handle` |
| `ninserts`, `ninserts_at_backup` | `ninserts`, `atBackup` |
| `backup_enabled`, `srvstate_mutex` | `enabled`, `mutex` |
| the update's journal, open and perhaps already unlinked | `jfile` |
| `update_dict` | `StartUpdate` to `InsertRdict`; `FailDelta` and `MissDelta` when the delta file is closed |
| `dict_backup`, `dict.c` 1196-1303 | `LockMutex` to `NoteBackup`; the disk lock is `DiskLocked` |
| `dict_pause_backup`, `dict_resume_backup` | `AskBackup`, `AnswerBackup` |
| `dict_Create`, `dict_Delete` | `WriteConfig`, `Create`, `Created`; `StartDelete` to `UnlinkRdict` |
| `requestShutdown`, a killed process | `Crash` |
| `dict_loadall`, `dict_load` | `Load` |

Words have no ids here: `Vocabulary` deals with them. `deltas` holds the words of
the delta files and of the `.bak` copy together, because the script that moves
them from one to the other is not in the repository and does not change their
union; the copy is made when a name is first used and is empty then. The other
dictionaries appear through what their backup does to this one: `CleanOther`, as
journals are found by `strstr`. A crash is a process that ends, not a machine
that loses what it has not flushed. The library `hhash` is taken to lock the
disk table in `hhash_Put`, as the comment at `dict.c` 1211 and `dict_heartbeat`
suggest. What an insertion into a closed and freed delta file does is undefined:
it may fail, seem to succeed, or end the process. Other failing writes are in
`Vocabulary`.

`upc` is one thread because `Vocabulary` shows that updates exclude each other;
the deletion waits for it because `Registry` shows that (`FreedAlone`). Other requests are
there only as what a deletion waits for: one that begins after a failed update takes the
inuse lock and waits for `dictstate_rwlock` for ever, and so does the deletion that waits
for it, with the table (`HangDelete`; a `termify` that never ends does the same).

What a round backs up is settled when it closes the delta file (`dict.c` 1215). The history
variable `fresh` has the words that went into the file opened then, `since` those counted
since the counter was noted (1288), and `late` says that the last note counted a fresh word.

### Heartbeat, Heartbeats, Inquiries: calls that look at a dictionary

`Heartbeat` is `dict_heartbeat` by itself: the disk lock, the search for an unused
word (`rand_str` starts from a constant seed, so it is always the same word), the
insertion, the deletion, the answer. Two modules put it beside others.

`Heartbeats` EXTENDS `Durability`: the test word in the dictionary file, the disk
lock that insertions, backups and heartbeats take in turn (`Along` says when a step
of `Durability` may be taken and what it does to the heartbeat), and the
refusal of that lock to the backup thread (`LockRefused`, `dict.c` 1212), which
leaves with `srvstate_mutex` and the table's read lock. A deletion does not wait for a
heartbeat, which holds nothing of the table after 676: it takes the dictionary away under
it, at any step of it (`Left`). Such a heartbeat is "lost". What it does in freed memory is
undefined: it may return, stay there, end the process, or work on the dictionary that is in
the same place by then (`StrayHeartbeat`).

`Inquiries` EXTENDS `Vocabulary` with clients that ask:

| Code | Model |
|---|---|
| `dict_Get_Meta` 496-506 | `LockMeta`, `ReadMeta` |
| `dict_GetStats` 783-793, under `dict_statslock` only | `ReadStats` |
| `dict_Get_Stoplist` 571-632, `utils.c` 304-335 | `IterInit`, `IterGet`, `EndWalk`; `iter` is the hash's iterator |
| a size read while the test word is in the file | `ReadSizeTested`, `WrLockTested`, `Records` |

The three stop lists are walked one after the other in the same way; one is
modelled. Whether `hhash_Size` counts the test word is the library's affair: it
may or may not. Bounds: while stop lists are read no other inquiry is made,
and none is going on once an update has counted a test word.

### Stemmer, StopLists, Termify: from a text to its terms

`Stemmer` has one operator for each function of `stemmer.c`, on TLC's strings. The
switch statements on a letter only save time and are dropped; of the suffixes that
fit, the first listed is the longest. It was compared with the compiled
`stemmer.c` on 26,000 words when it was written.

`StopLists` makes the three tables of a stop list from the three strings, in
`dict_Create` and again in `dict_load` from what `config_GetValue` gives back. A
string is the set of its entries (`{Blank}`: a string of blanks).

`Termify` is `termify` with `stopWord`, a match per step, and a step of the stemmer
per step. A text is what `pcre_exec` meets in it: words, other characters, places where it
hits a limit, fails, or matches nothing. `Load` is a restart of the server.

### Quarters, Documents: from terms to quarter frequencies

`Quarters` is the loop of `tokenize_quartfreq_new`, one token per step, with the
boundaries, the translation of an id through a `char *` (`Stored`), and the pointers
`q1` to `q4`, which are not set before the loop gets there. The history variable `real`
has the ids the tokens have in the dictionary. `Documents` composes it
with `Termify`: `tokenize_quarter_frequency` from the text to the answer (`HandOver`).
Known words have ids below the size. New words are numbered from the size that `idterms` has
read, which may be smaller, as in `vocabulary_race`, or one larger, for a test word
(`inquiries`); so a known word's id may be a provisional id as well. `update_dict` gives the
new words any ids from the size on (`Updated`); or it fails, and there is no table
(`UpdateFailed`: the quarters are counted, but the client gets a fault); or it is not called
(`LookedUp`). That call tokenizes the document a second time for the whole frequencies,
which is `Vocabulary`'s request.

## Runs

| Run | Instance | Shows |
|---|---|---|
| `vocabulary_safety` | 2 connections, 3 words, every write may fail; 140,633 states up to symmetry | the dictionary and the answers, see below |
| `vocabulary_liveness` | 3 connections, 1 word, no failure | every request is answered |
| `vocabulary_race` | 2 connections, 2 words | a wrong answer (finding) |
| `vocabulary_failure` | 2 connections, 2 words, the first write may fail | other clients hang (finding) |
| `registry` | 2 connections and the backup, 2 names and a reserved one, 2 places; 93,132 states | the life of dictionaries; who returns, and who keeps whom out |
| `registry_info` | 2 connections and the backup, 1 name, 2 places | an information call reads freed memory (finding) |
| `durability` | 2 words, counter up to 2, a suffix name, one mishap, heartbeats, refused locks; 284,209 states | what crashes, rounds, pauses and heartbeats do |
| `durability_journal` | 2 words, no mishap, no suffix name | a journal taken too early (finding) |
| `durability_backup` | 2 words, no mishap | a backup of two dictionaries (finding) |
| `inquiries` | 1 connection that tokenizes, 2 that ask, heartbeats; 2 words, 2 stop words; 77,209 states | what sizes and stop lists are told |
| `documents` | 34 spellings, 9 stop lists, texts of up to 9 tokens, ids up to 3, bytes of two values, up to one known word; 77,875 states | terms, counts and quarters |
| `documents_byte` | the same | an id stored in one byte (finding) |

Why the bounds are enough. Requests interact only through the tables and the
lock. Two of them with three words reach every kind of overlap: the same new
word, different new words, a known and a new word in one request (the race needs
that), and a third word that makes a batch of two meet a batch of two. Three
connections with two words were also checked once, with the same result. For
liveness the third connection matters (two readers that take turns can starve a
writer), the number of words does not. In the registry two connections, the
backup thread and two places allow a call that uses against one that deletes
and one that creates the same name again, and a place to be reused; two names allow a
dictionary to be shared by mistake. (Three connections and three places, 620,762
states up to symmetry, were checked before safety and liveness were put in one run;
safety is proved for all of them.) In `Durability` a mishap is a crash or an insertion that meets a
closed delta file; two words allow one lost and one under way, two insertions pass the
restart of a counter that goes up to 2 (1000 in the code). Three words without
heartbeats, and two mishaps, were also checked once, with the same result, and the
theorems below do not depend on the bounds. In `inquiries` two clients are what one
iterator needs to be shared, and one connection that tokenizes is enough, as writers
exclude each other. In `documents` the words are chosen so that every step of the stemmer
changes one of them and stops short at another; every mixture of three items
occurs; 4 to 9 tokens have every remainder modulo 4; two values of a byte give ids
with an upper one; a known word with the id 0 is what a stale size of 0 needs to clash.

Deadlock is checked in all runs but those where the system may really stop: in
`vocabulary_safety` and `vocabulary_failure` a failed update keeps the lock, in `registry`
and `registry_info` a delete waits for a stuck tokenization, and in the three runs of
`Durability` a deletion waits for ever and with it the backup, the pauses and the rest.

### What the properties say

`Vocabulary`: `DenseIds` (after every single write the ids are 0..size-1 without
repetition, so the size is the next free id), `StableIds` (no id ever changes),
`ReverseAgrees` (`rdict` is the inverse of `dict`, but for one word),
`AnswersRightUnlessRaced` (the answer is right, or the term was added between the
early size read and the lock), `RoundTrip` (every answered id reverses to a
term of the request, even in that race), `ImplementsTermIds` (refinement),
`RequestServed` and `WriterServed`.

`Registry`: `UsedStaysRegistered`, `TableOwnsHeap`, `FreedAlone`, `ImplementsDirectory`
(refinement), `ReadersReturn`, `WritersReturn`. The last two do not say that calls return:
`GetStuck` has what keeps them. `ReadersReturn`: a call that reads the table gets it, and
then returns or hangs on its own dictionary (`stuck`, `hung`, or `stalled`), unless somebody
deletes a dictionary on which a tokenization is stuck. `WritersReturn`: a create or a
delete returns on the same condition, if in addition the readers leave the table now and
then, which they do not once the backup is stalled.

`Durability`: `OneWordPerMishap` (a word of the dictionary is also in the reverse
dictionary and in a delta file, but for one word for each mishap and the one under
way), `JournalCoversUnlessCleaned` (until then it is in a journal, unless a round
took the journal; after a mishap it says nothing), `PausedIsQuiet` and
`PauseAnsweredUnlessStuck` (unless the backup thread was refused the disk lock, a test word
was left in the file, or a deletion waits for a request that hangs),
`SkipsRight` (when a round finds "No inserts", all words but the one under way are in delta
files that were closed; two exceptions: the counter went round, or the last round noted words
that came after it had closed the delta file, which is what `dict.c` 1288 does), `CreatedEmpty` (no remains of an earlier dictionary, while nothing
breaks), `ImplementsStorage` (refinement: also which word is lost, and when a name's words
may go), `HeartbeatAnswered` (unless a test word was left, or its dictionary is deleted
under it).
Note what `OneWordPerMishap` does not say: that the word is repaired. Nothing
does, as `dict_load` throws the journals away unread (`nocheck` is always 1).

`Inquiries`: `SizesReported` (a size is that between two updates; `dict_GetStats` may
be told a part of the update under way, and a test word may be counted),
`StopListWhole` (unless two calls read it at once), `DenseIdsUnlessCounted`
(unless an update counts a test word: then an id is skipped), `InquiryAnswered` (while no
write fails, as in the run: a failed update would keep the lock two inquiries wait for).

`Termify` and `Quarters`: `TermsAsAsked` compares what the code makes of the client's strings,
at creation and after restarts, with what the strings say word by word and with stems where
`dostem` asks for them (`dict.c` 115); three exceptions, named in `Exceptional`: with `dostop`
0 nothing is stemmed, a list of blanks becomes the default list, and the last default word is
left out. A break in the matching shortens the list, and the client is not told. `CountsAgree` (the
frequencies are those of the tokens next to them), `StemsInPlace` (no step reads
before the word or makes it longer), `StopListKept` (across a restart),
`TermifyEnds`; `AllQuartersMade`, `QuartersSplit` (each token in exactly one quarter),
`QuartersRightUnlessClashOrBorder` (counted under the id the word has in the dictionary, unless
two words of the request were given the same id, as in `vocabulary_race`, or a provisional and
the real id differ above the lowest byte, as in `documents_byte`).

### Fairness

A thread runs, and a lock that is free again and again is got eventually: weak
fairness for the steps of `Documents`, which wait for nobody; elsewhere strong
fairness, for each thread, of the steps it may take (`Registry`, `Inquiries`,
`Heartbeats`), or weak for its own steps and strong for taking locks (`Vocabulary`).
Nothing is assumed about clients: no fairness for `Request`, `Begin`, `Ask`,
`CallHeartbeat`, failures or `GetStuck`.

The writers' properties have the premise `[]<>(readers = {})` (or
`tableReaders`). The server uses default rwlocks, which in glibc prefer readers,
so that two readers that take turns keep a writer out for ever; without the
premise TLC shows exactly this. `ReadersReturn` needs no such premise. In `Heartbeats` a lost
heartbeat is given no fairness: it may stay where it is.

### Findings

1. `idterms` reads the size before the lock (`tokenize.c` 137), against the
   comment at 501. Two terms of one answer may then share an id.
2. `update_dict` does not tell other clients of a failure (comment at 627): it
   keeps the lock and nobody reads `dictvalid`.
3. Information calls are not protected by `inuse_rwlock` (`struct.h` 48) against
   `dict_Delete`.
4. A backup round deletes the journal of the update that is under way
   (`dict.c` 1274-1282 against `tokenize.c` 467).
5. A name that is deleted and created again keeps the backup copy and the delta
   files of the first dictionary (`dict.c` 243, 387-392, 1224).

6. `tokenize_quartfreq_new` writes one byte of the translated id (`tokenize.c` 385).

Seen while modelling, without a run of their own: the default stop list leaves out
the last word of its table (`stoplist.c` 13: 390 of 391), a stop list of
blanks is replaced by the default after a restart (`config.c` 338, `dict.c` 872),
an insertion counted beside a heartbeat skips an id (`dict.c` 697), and two readers of a
stop list disturb each other (`utils.c` 318), a round notes words that it did not back up (`dict.c`
1288), a heartbeat works on a deleted dictionary (`dict.c` 676-692): the properties of the passing runs name
these exceptions. The parameter `stopdelim` has no effect (`stoplist.c` 482 hides
it), `dostem` none when `dostop` is 0 (`tokenize.c` 89), and the cache statistics are always 0.

## Proofs

`VocabularyProofs`, `RegistryProofs`, `DurabilityProofs`, `HeartbeatsProofs`,
`QuartersProofs`, `DocumentsProofs` and `InquiriesProofs` prove, for any set of
connections, names and memory places, any finite set of words, any limit of the counter,
any number of mishaps, any texts and stop lists and any width of a byte: every safety
property of the passing runs but `StemsInPlace`, with the refinements among them.
Assumptions: the set of words is finite; the values for "nobody" and "none" are not members
of the sets they are told from; texts are sequences of items no longer than the bound; setups
have the five settings, and the entries of their strings have no mark or one of `*` and `+`
(`SetupsAssumption`: what `stoplist_create` tells apart, `stoplist.c` 562-576). The theorems
about requests beside heartbeats have one hypothesis more, see **Inquiries**.

**Vocabulary.** The invariant (`IInv`) is built in layers, each inductive
given the ones before.

1. `Inv1`: types; who holds the lock is told by the program counters; the word
   being inserted is one of the request's; the provisional ids are distinct and
   not below the size that was read.
2. `Inv2` = `DenseIds` and `CounterInv`: the writer's counter is the number of
   words, or one less between the write to `dict` and the increment. Density alone is not
   inductive: the next id must be known to be the size, which holds because the size is read under the
   lock.
3. `ReverseInv`, from which `ReverseAgrees` follows as at most one word is being
   inserted.
4. `AnswerInv`: what was found is still so (tables only grow), what was
   translated is right, and what is answered follows. The key case is
   `UnlockGood`: a known term's id can be mistaken for a provisional one only if
   it is not below the size that was read.
5. The refinement maps the dictionary to what is seen under the lock: while
   there is a writer, the words below the size it found. The unlock is `AddBatch`
   and every other step stutters; after a failure the writer's words never become visible.

**Registry.** The inductive invariant says who holds which lock, that a call
between look-up and inuse lock holds the table, and that a delete between its
look-up and removal holds it exclusively. So nobody can join the users a delete has
waited for, and a name in use keeps its pointer. One lemma per conjunct, one
step per action. The refinement of `Directory` takes it from there: taking the inuse lock is
`Begin`, because the look-up is still true (the table is held), `Remove` is `Delete`,
because the delete has drained the users, and the place that `Create` gets is neither in
the table nor in use, because both are in the heap.

**Durability.** `OneWordPerMishap` is not inductive: the word under way leaves the
debt only if it is the one that is missing. The invariant names what is missing
for good (`Lost`: not what the update in progress will still complete,
`UnderWay`), and `LossShrinks` and `LossGrows` say what a step does to it: all
steps but mishaps leave it or make it smaller. It needs to know that one word at
most is under way (`WordInv`), that no update runs while the files are
unlinked (`ControlInv`), and that the dictionary goes before its reverse.
`JournalInv` and `FreshInv` carry the journals and the clean start. The refinement of
`Storage` needs to know in addition that the configuration file is there while the
dictionary can be written to and gone before the other files are (`NameInv`). The insertion
that completes a word is `Store`, the unlinking of the configuration file is `Delete`, that
of the dictionary is `Erase`: it takes all words, whole or not, at once, because a word is
whole or broken only while the dictionary has it.
`SkipsRight` comes from two parts. `CountInv`: `ninserts` = (`ninserts_at_backup` + words
counted since) modulo the limit, for every limit; the arithmetic of remainders
is proved from division (`Remainder`, `NextRemainder`, `BackAgain`). `FreshWordsInv`: unless
the last note was late, a word of the open delta file was counted since the note or is under
way, and between the closing of the delta file and the note it is not counted at all.
Equal counters then mean no word counted, or a full turn.

**Heartbeats.** A refinement: forgetting the test word, the heartbeat, lost or not, and
the refusals, every step is a step of `Durability` or a stutter (`AddsNothing`), so its
safety properties and its refinement of `Storage` carry over (`SafeWithTests`).

**Quarters.** The invariant `QInv`: the list is translated up to the current token;
the table under way and those put aside are the counts of what lies between
boundaries; and a boundary is seen at its own token, not before and not later
(`PlaceInv`), which gives three of them for every length. The arithmetic (quarter
size times three is less than the size, for every length of four and more) and the counting lemmas
stand by themselves. `RightUnlessClashOrBorder` needs to know of what was handed over only that
a token's id is right already or the table has an entry for it, and that every entry is for a
token (`HandedInv`): without a clash, that token's id in the dictionary is that of all tokens
with the same number.

**Documents.** `DInv`: there are no more terms than `tptr` has passed items, one less while
a word is looked at; hash and list count the same; and the stop list is the one that the
settings in the file make, which a restart keeps because `config_GetValue` drops nothing but a
string of blanks (`ReadBack`). `RequestsAreCounted` is a refinement: the list and the table
that `idterms` and `update_dict` hand over are of the kind `Quarters` starts from
(`HandedOver`: with the table, which `update_dict` makes from the provisional to the real ids of
the new words; without one after a failure or without an update), so the
theorems about `Quarters` are true of the requests (`RequestsSplit`), for any size that
`idterms` may have read.

`TermsAreAsked` compares the list with what the client's strings say, word by word. The
table that `stoplist_create` makes answers what those strings ask for: an entry's mark
decides in which of the three tables it is, and deletions come last (`TablesAsAsked`). The
invariant `AskedInv` says that the terms so far are those of the items passed (`TermsOf`),
but in the exceptional dictionaries, and that of a word being looked at the steps that are left lead to the stem of the whole
(`Rest`, `StemInv`; `StemStages` unfolds the recursive function in `Stem` into its six
steps), so that what `stopWord` looks up at the end is that stem. What a step
of the stemmer makes of a word is left open: the theorem is true of any six steps.

**Inquiries.** `WalkInv`: a client that walks and met nobody walks alone, and its
reply and the iterator are at the same word.

A test word breaks the invariants of `Vocabulary` only by being counted in `update_dict`. So
`Beside` says: until that happens (`counted`), all of them hold (`Kernel`, which also has
what a writer brought in since it took the lock, `BatchInv`), the clients that hold the read
lock are those that read under it, and the test word is in the file only between its
insertion and its deletion. A size that `idterms` reads one too large keeps `Kernel`:
provisional ids start one higher (`SizeTested`). From it follow the density of the ids
(`DenseUnlessCounted`), the answers (`AnswersUnlessCounted`), the refinement of `TermIds`
step by step (`TermIdsUnlessCounted`) and the sizes (`SizesAreSizes`: what a writer has added
so far is among its new words, and the words below the size it found are those of the
updates completed). These theorems assume that deletions of the test word do not fail
(`"delete" \notin TestFaults`), as in the run. Where they may, a word that is left over is
counted by every later update, and `counted` no longer marks the exception.

Only model-checked: the liveness properties (temporal reasoning with fairness is
out of the prover's reach), and `StemsInPlace`, which is about what the stemmer computes on
strings.

## Plan

Done: `TermIds`, `Vocabulary`, `Directory`, `Registry`, `Storage`, `Durability`, `Quarters`,
`Stemmer`, `StopLists`, `Termify`, `Documents`, `Heartbeat`, `Heartbeats`, `Inquiries`, and
the proofs above. What is left, in the order of what it would add:

1. Segments: a request of several documents under one inuse lock, of which one fails
   (`tokenize.c` 1036-1069). The thread then asks for the lock it holds itself.
2. The requests of `Documents` on the dictionary of `Vocabulary`, instead of on the ids that
   `Vocabulary` is shown to give.
3. Replay of journals, should `nocheck` ever be settable.

## Not modelled

* `dict_restore` and `dict_replay_journal`: `nocheck` is 1 (`main.c` 19) and nothing sets
  it to 0, so that nothing calls them. What is inside `#if 0` (most of `stoplist.c`
  from 661 on, an older `stoplist_create`).
* `tokenize_segment`'s walk over the XML tree (libxml2's); the calls it makes are those of
  `Vocabulary` and `Documents`, one after the other. What `ReverseTokenize` answers for an id the
  server never gave (`RoundTrip` is about those it gave).
* The preprocessing of a dictionary's configuration file by `gpp` (`dict.c` 823), which may
  rewrite macros in the strings of a stop list: `StopLists` has the file read back as written.
* The server's configuration file and the command line, read in sequence at
  start-up; introspection; conversion to XML-RPC values but for the one that walks a shared
  hash; logging; daemonizing: input and output, without state that other parts
  depend on.
* The hash, list and database libraries, PCRE and the XML-RPC server are not in the
  repository; the models use of them what the calls in `src/` rely on: a hash maps keys
  to values, keys come out in any order, `hhash_Size` counts the words,
  `pcre_exec` finds the first match from where it is pointed to.
* Failures of the lock operations themselves, but for the disk lock in `dict_backup`.
