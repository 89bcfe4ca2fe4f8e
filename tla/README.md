# A verification project for level_db-

The repository is a partial transcription of LevelDB in C++: the database object
(`src/db/dp_impl.cpp`), table building, file names, write batches, the Posix
environment (`src/util/env_posix.cpp`), the arena, interfaces and tests. Many parts
that this code calls (VersionSet, MakeRoomForWrite, DoCompactionWork, the log
format, the memtable, the thread pool) are not in it. This directory holds TLA+
modules for the parts that keep state, TLC configurations, and proofs checked by
TLAPS.

The sources do not compile as they stand. Misspelt identifiers and stray
punctuation are read as what they stand for; a statement that is missing or in the
wrong place is read as it is written, and where it makes the program break a promise
of its own comments or tests, a run shows it (see *Findings*).

## Inventory

| Part | State | Operations | Interaction | What is hard | Right when |
|---|---|---|---|---|---|
| Background scheduler (`dp_impl.cpp` 572-814, 876-900) | `bg_compaction_scheduled_`, `shutting_down_`, `bg_error_`, `imm_`, `manual_compaction_`, `writers_` | MaybeScheduleCompaction, BackgroundCall, BackgroundCompaction, CompactMemtable, CompactRange, TEST_CompactRange, TEST_CompactMemTable, Write, destructor | pool threads and callers share `mutex_` and `bg_cv_`; a stack object is shared through `manual_compaction_` | the mutex is released in the middle of flushes and compactions; lost wakeups; stale pointers; failure and shutdown at any time | one task at a time, no forgotten work, every wait ends, flushed means flushed |
| Recovery and files (`dp_impl.cpp` 174-603, 817-859, `builder.cpp`) | logs, tables, MANIFESTs, CURRENT; the version in memory; `pending_outputs_`, `logfile_number_` | DB::Open, NewDb, Recover, RecoverLogFile, WriteLevel10Table, BuildTable, CompactMemtable, DeleteObsoleteFiles, close | through the directory with earlier and later incarnations | crashes between any two file operations; a commit that fails but has been written; garbage collection with a stale version, or with deletions that fail unseen | acknowledged writes survive; numbers are fresh; garbage and only garbage goes |
| File names (`filename.cpp`) | none | MakeFileName, ParseFileName, SetCurrentFile | used by recovery | names made and names recognised must agree | a file made is a file found |
| Random access files (`env_posix.cpp` 36-215, 363-390) | two Limiters, the descriptor table | NewRandomAccessFile, Read, destructors | many threads, one table of descriptors | unlocked first check, descriptor reuse, error paths | limits hold, nothing leaks, a file reads itself |
| Arena (`arena.cpp`, `arena.hpp`) | current block, remaining bytes, usage | Allocate, AllocateAlignement | used by the memtable | padding, the quarter-block rule | regions disjoint, inside, aligned |
| Write batches (`write_batch.cpp`, the loop of RecoverLogFile) | a byte string with a 32-bit count | Clear, Put, Delete, Append, Iterate, InsertInto | Write puts them into the log and the memtable, RecoverLogFile replays them | count, contents and sequence numbers kept in three places; records that are skipped or break off | what is appended is what is iterated, what is logged is what is replayed |
| Writable files (`env_posix.cpp` 218-305, 392-418) and SetCurrentFile (`filename.cpp` 115-144) | FILE buffer, file, directory | Append, Flush, Sync, Close, SyncDirIfManifest; write and rename CURRENT | tables, logs, the MANIFEST and CURRENT are written through it | buffers that spill when they like, errors half way, durability of data and of names apart | what Sync has reported survives; CURRENT names nothing incomplete |
| File locks (`env_posix.cpp` 307-349) | the table of a process, the kernel's lock | LockOrUnlock, PosixLockTable::Insert and Remove | Recover locks, the destructor unlocks | fcntl does not tell threads apart | one database object per directory, none locked out for ever |
| Sequential files (`env_posix.cpp` 86-117, 351-361) | position and indicators of a FILE | Read, Skip | logs, MANIFEST and CURRENT are read with it | a short read is an error or the end | an error is not taken for the end |
| Directory operations (`env_posix.cpp` 420-464), EnvWrapper | none | FileExists, GetChildren, CreateDir; forwarding | used by Recover | - | - |
| Random (`random.hpp`) | a seed | Next, Uniform, Skewed | used by tests, not by the database | 31-bit reduction without division | every number comes before one comes twice |
| String buffers (`other/buffer.cpp`) | memory with its size | init, reset, move, copy, append, free | none: the database does not use them | memory changes hands; sizes wrap | every block has one owner |
| Interfaces, other scraps in `other/`, `main.cpp`, tests | - | - | - | - | - |

`PROJECT.json` lists every part with its status, and every hazard with its line and
the properties that cover it.

## Modules

    DBBackground  <- DBBackgroundProofs            MCBackground         background_*.cfg
    DBRecovery, implements DurableStore            MCRecovery           recovery_*.cfg
      <- DBRecoveryOpenProofs <- DBRecoveryProofs <- DBRecoveryRefinement
    RandomAccessFiles <- RandomAccessFilesProofs   MCRandomAccessFiles  files_*.cfg
    WritableFiles <- WritableFilesProofs           MCWritableFiles      writable_names.cfg
    these two, and
    Arena         <- ArenaProofs            \
    FileLocks, SequentialFiles,              |     MCParts              parts_safety.cfg
    WriteBatches, Buffers, FileNames,        |
    RandomNumbers <- PartsProofs            /

MCParts puts the small components side by side: its variable `part` is chosen at the
beginning and only that component moves, so that one run explores all of them without
multiplying their states. Their definitions carry the name of the component
(`LockNext`, `FilesSpec`), because one module extends them all. MCRandomAccessFiles and
MCWritableFiles instantiate two of them alone, for the runs that show one of their findings.

Operators introduced by a comment beginning "Mutant" are deliberately wrong variants
of the definition that follows. Nothing uses them; each one, put in the place of that
definition, makes the property named with it in `PROJECT.json` fail.

### DBBackground

One action is one critical section of `DBImpl::mutex_`: from taking the mutex, or
returning from a wait, to giving it up. The unlocked windows of the background thread
(BuildTable, LogAndApply, DoCompactionWork) are the states `build`, `install`, `move`
and `work` of `bg[w]`; any other thread may act in them, and each ends with success or
failure. Members of DBImpl keep their names. `imm_` is the number of the immutable
memtable, so that order can be stated; `manual_compaction_` is the caller whose stack
object it points to; `left[c]` is the number of pieces a manual range is still to be
compacted in. `needs` is the answer of `VersionSet::NeedsCompaction`, chosen freely
whenever a task has changed the version.

The source of Write stops at BuildBatchGroup. The constant `WriteLeaves` says whether
the missing end (leave `writers_`, wake the next, return the status) is supplied. The
runs supply it: without it a second call never returns. `CloseWhileBusy` says whether
the database may be deleted while calls are in progress.

### DBRecovery

The disk is a record of logs (sequences of writes, with how much is synced), complete
tables, half-written table files, MANIFESTs (the version their records add up to) and
the number CURRENT leads to. A write is its sequence number. DB::Open is a chain of
steps that a crash may cut anywhere: open, one log after the other, one record after
the other, table started, table built, new log, commit, one deletion after the other.
Running, the database accepts writes, rotates its log, flushes, compacts and collects
garbage; these steps take the mutex, so they are atomic between its releases. A commit
has three outcomes: done, not done, and reported as failed but written.

A process crash loses memory; a machine crash also loses what was not synced: the tail of a log,
a MANIFEST that was only closed. Names in the directory are durable at once here; what becomes
of names is the subject of WritableFiles. `SlashInName` says whether `dbname` ends in a slash:
MakeFileName adds no separator, so otherwise logs and tables are not in the directory that is
listed. `BadRecords` lets log records be damaged.

DeleteObsoleteFiles goes through the files it does not keep one by one. It ignores the errors
of GetChildren (`dp_impl.cpp:279`, "on purpose") and of DeleteFile (`dp_impl.cpp:314`), so
`DeleteFileFails` leaves one file where it is and `GetChildrenFails` all of them, and the pass
is over as if nothing had happened. `db.refused`, an observation, has the files that the
latest pass could not delete. A switch of CURRENT, by NewDb or by the first commit of DB::Open,
that fails or is cut short by a crash may leave the new MANIFEST, and the temporary file that
was to become CURRENT (`Leftovers`): `disk.strays`. The constant `Remains` turns both on.

### DurableStore

What the database promises, without files: `store`, the writes in it, and `acked`, those
acknowledged with sync. While the store is open or being opened nothing enters or leaves
`store` but new writes, each with a number above all others; when it stops, writes that
were not acknowledged may go. DBRecovery implements it under the mapping `Store`:

| DurableStore | DBRecovery |
|---|---|
| `open` | the database is running, or collecting garbage, and the result of DB::Open is ok |
| `store` | open: what the memtables and the tables of the version hold (`Held`); otherwise `Recoverable`, the tables of the MANIFEST that CURRENT names and the logs it still needs |
| `acked` | `acked` |

So every step of recovery, flush, compaction and garbage collection is a stutter,
crashed or not. The property is checked with `paranoid_checks`: without it DB::Open
skips a log that cannot be opened, and says so (`dp_impl.cpp:426`).

### RandomAccessFiles

Each object is created, read and deleted by a thread of its own. The two steps of
`Limiter::Acquire` (a look without the lock, a look with it) are two actions. Opening
returns the lowest free descriptor, as the kernel does, which is what makes reuse of a
closed descriptor visible. `ReadErrors` lets pread fail on an open descriptor; `left`, an
observation, has the descriptors that such a Read leaves open.

### WritableFiles

A file's data passes through the FILE buffer, the kernel and the disk. `content` is what
the kernel has, `maybe` everything a machine crash may leave of it, `held` the files each
name may stand for after one; fdatasync and fsync of the directory make these sets
singletons. A write may spill any prefix of the buffer, a failing one likewise.
PosixWritableFile is `file[n]`; Sync is three actions (directory, flush, fdatasync), so that
a crash or an error falls between any two. The callers are there as far as they decide the
order: tables are written, synced and closed, then a MANIFEST record names them and is
synced (LogAndApply, external), then SetCurrentFile writes, syncs and renames the
temporary file.

Assumed of the file system: a rename is atomic in a crash (the file is not found under
both names); names are otherwise durable or not independently of one another; an fdatasync
that fails has made nothing durable, and one that succeeds later covers what it missed.
DB::Open goes on only if the tables of the MANIFEST are there (`Intact`), which is all it
knows of them: after a crash a table is `done` if it was done and named by a record that Sync
had reported, and merely `found` otherwise. A MANIFEST is
synced before CURRENT names it; that NewDb does not do so is `recovery_newdb_sync`.

### FileLocks

Openers are threads in processes. LockFile and UnlockFile are not in the repository; they
are modelled by the order that Recover, the destructor, LockOrUnlock and PosixLockTable
leave open to them: table, then fcntl; unlock and close, then table. A process may end
at any time.

### WriteBatches

A batch is its header (sequence number and count, modulo `CountMod`) and its entries. Groups
of up to `MaxGroup` batches, a bound, are written as DBImpl::Write does it. `Replay` is the loop of
RecoverLogFile over any subset of the records, each readable up to any entry: what the loop
adds up is the union of what the records insert and the largest of their last numbers. Write
never logs an empty batch under sequence number 0, for which the subtraction at
`dp_impl.cpp:471` would wrap.

### SequentialFiles, FileNames, RandomNumbers, Buffers

*SequentialFiles* has the end-of-file indicator of the FILE: it outlives the call that has
set it, and Skip clears it. *FileNames* forms all names a database makes and all strange
ones of a head, digits and a tail, and parses them. *RandomNumbers* has the constructor and
the reduction of Next. *Buffers* has the memory of `other/buffer.cpp` as blocks with a
size. Of the two functions it takes from elsewhere, buffer_string_prepare_copy does what
`buffer.hpp` says; of buffer_string_prepare_append `buffer.hpp` says nothing, and what is
assumed of it is in the comment of AppendString. The database uses neither RandomNumbers, which
is for tests, nor Buffers, which are a fragment of another program.

### Arena

A pointer is a block and an offset. The sequence `regions` has the memory set aside by
each call. AllocateAlignement has no return statement; the region is what it has set
aside, not what the caller is given.

## Runs

| Run | Expect | Bounds | What it shows |
|---|---|---|---|
| background_safety | pass | 3 callers, 2 pool threads, 1 level, 1 piece | one task; no forgotten work; no work after error or close; manual request neither dangling nor NULL; flushes reported truthfully and in order |
| background_live | pass | 2 callers, 2 pool threads | every call returns, the destructor ends, memtables drain |
| recovery_safety | pass | 2 writes, file numbers to 6, 2 faults | nothing acknowledged is lost; the database implements DurableStore; file and sequence numbers fresh; also when recovery from a fault fails |
| recovery_fresh | pass | no database at first, 1 write, numbers to 5, 2 faults, damaged records, failing deletions and listings, leftovers | creation never leaves CURRENT dangling; new writes are not hidden; garbage is collected |
| recovery_replay, recovery_name, recovery_newdb_sync, recovery_skipped | violation | no more than needed | see *Findings* |
| files_kept_read, files_leak | violation | 3 objects, 2 or 3 descriptors, limits 1 and 1 | see *Findings* |
| writable_names | violation | 1 table, 3 files, 2 MANIFEST records, no faults | see *Findings* |
| parts_safety | pass | see below | arena: regions inside, disjoint, aligned; waste. Locks: one owner, no stale lock. Batches: faithful, replayed faithfully. Files read to the end. Names understood. Full period. Every block of memory has one owner. Random access files: the Limiters balance, every descriptor is accounted for. Writable files: what Sync has reported survives; CURRENT is whole and names a safe MANIFEST; done tables are stored; nothing is written to another file |

Why the bounds are enough. Three callers are one with the manual slot, one waiting for it and one
that writes; a second pool thread is what a violated `bg_compaction_scheduled_` needs to show. Two
writes let one be in a table and the other in a log, or both in different logs; six file numbers
hold a first incarnation with a flush or a compaction and a second that takes a MANIFEST, a log
and a table; two faults are a crash and another, or an error, in the recovery from it. `Remains`
is FALSE in `recovery_safety`, where what is left over would not fit into the time of a run: it is
one more file that the version does not need, and a deletion that fails is one more fault. It is
TRUE in `recovery_fresh`, whose two faults may be a failed switch or deletion and what comes of
it, and the proofs, that of `Durable` too, cover both. Three objects and two or three descriptors
let a descriptor be closed, reused and used again. A block of four quarters of four bytes, with
sizes below, at and above a quarter and one of three quarters, has every branch of the allocator
in five calls. Among writable files one table is enough because every promise is about one table
and one MANIFEST; three files are a MANIFEST with the old and the new CURRENT, or with an old and
a new file of the table; two records are one that is promised and one under way; three faults are
an error, the crash after it, and one that shows what these have left. That all four files may be
needed at once, and more faults, is covered by the proofs. Three openers in two processes are two
that only the table keeps apart and one that only fcntl does. Two batches of two entries and two
log records have a group, a batch written twice and a record to skip; the count wraps at 8, above
what two batches reach: the code does not check for an overflow of 2^32, so none is claimed to be
handled. A file of four bytes has reads that end before, at and behind its end. Names have radix 3
and at least two digits, numbers to 14 (three digits and the edge of the number type), strange
names up to three digits. The generator has 5 bits (`HighBit` is 32) and the multiplier 3, a
primitive root of 31 as 16807 is one of 2^31 - 1; every seed is tried, and 32 draws are more than
a period. Buffers have pieces of 4 bytes, sizes modulo 32, and strings up to 30, where AlignSize
wraps. Bounds are guards named `Max...`; `Stopped` keeps the end of the bound from counting as a
deadlock; in `writable_names` and `parts_safety`, where the bounds stop components in many places,
deadlock is not checked. Callers are interchangeable, and so are pool threads and the objects of
RandomAccessFiles: symmetry is used in `background_safety`, `files_kept_read` and `files_leak`.
`parts_safety` and the runs of DBRecovery use none.

Fairness (`background_live`): the pool eventually runs what is
queued, a background thread finishes what it has begun, a caller that is not waiting
goes on, the destructor looks at its condition when woken. This is what a pool thread
and a mutex that is always released give. Nobody is made to call, to read, to close or to
wake up without a signal, so a missing SignalAll shows as a call that never returns.

## Proofs

*DBBackgroundProofs* proves the safety properties of `background_safety` for any sets
of callers and pool threads and any numbers of levels and pieces. None of them is
inductive alone. The invariant is `IndInv == TypeOK /\ SchedInv /\ ManualInv /\ MemInv`:

- `SchedInv`: the flag is exact and work is scheduled; with this, the second half of
  every task knows that no other task has run in between;
- `ManualInv`: a posted request belongs to a caller that is inside TEST_CompactRange,
  the request a worker has taken up is still the posted one unless a close or an error
  has intervened, and a close that waits for calls finds no request. Without the middle
  part nothing is known about the pointer that is read the second time;
- `MemInv`: memtables are numbered in order, `imm_` is the last one rotated and
  `flushed` the one before it, and a caller that waits for a flush waits for one that
  is not beyond what has been rotated.

`ManualSafe` has the assumption `~CloseWhileBusy`: with it dropped, TEST_CompactRange may
leave on shutdown and clear `manual_compaction_` between the two reads.
`NoDanglingManual` needs no such assumption.

*DBRecoveryOpenProofs*, *DBRecoveryProofs* and *DBRecoveryRefinement* prove every property of
DBRecovery that a passing run checks, with the refinement, for any options, any number of crashes
and failures, writes and files, whatever is left over (`Remains`). The invariant `Ind` (in
DBRecoveryOpenProofs) says what each phase of DB::Open and of the open database can rely on:

- `DirInv`, `UnsyncedInv`: CURRENT names the newest MANIFEST, its tables are there and
  their writes have numbers up to the one it records; only NewDb leaves a MANIFEST
  unsynced, and without `reuse_logs` the next DB::Open means to replace it;
- `DownInv`, `OpeningInv`, `ReadingInv`: during DB::Open the version in memory is that of
  CURRENT with larger counters; tables and logs that have been added have numbers below the
  next one; the locals of RecoverLogFile fit the log being read;
- `RunningInv`, `JobInv`: without a background error the version in memory is the one
  CURRENT leads to; a job's output number is above every table of the version, and is in
  `pending_outputs_` until its table is complete;
- `LogsInv`, `ReplayInv`, `LoggedInv`, `HeldInv`: where each write is. A log below the
  version's log number has nothing that is not in a table; while logs are replayed each
  record is still to be read, in a table, or in a memtable, and nothing else is in them; an
  open database shows all that is in any log, and what is in a log other than `log_`'s is in
  a table or in `imm_`;
- `DurableInv`: an acknowledged write is in a table of CURRENT's version, or synced in a
  log that this version needs.

One lemma per action (`...Step`) shows that it preserves `Ind`; three lemmas (`OpeningStep`,
`RunningStep`, `StopStep`) say which conjuncts matter for each kind of step. `Inductive`
puts them together, and each property is a consequence of `Ind`. `StoreImplemented`
rests on what `Ind` says about the contents: a step that leaves the database closed makes nothing
recoverable that was not (`Shrinks`), and a step of the open database other than Write leaves
what it shows as it was (`KeepsHeld`).

`TypeOK`, `ManifestComplete`, `NeverHidden` and `FreshNumber` need no assumption.
The others need what the code leaves open, and only that:

| Theorem | Assumes | Otherwise |
|---|---|---|
| `GarbageCollected` | the listing, if it succeeds, shows the files (`SlashInName`) | `filename.cpp:22`, run `recovery_name` |
| `SequenceAlwaysFresh` | `Trusted`, see below | a log that was skipped is replayed later, with numbers that have been given out again (`dp_impl.cpp:426`, run `recovery_skipped`) |
| `CurrentAlwaysValid` | the machine does not crash in a directory without a database | `dp_impl.cpp:244`, run `recovery_newdb_sync` |
| `AlwaysDurable`, `AlwaysVisible`, `StoreImplemented` | `Trusted`: `SlashInName`; no damaged records; `paranoid_checks` if files may fail to open; and, if the machine may crash in a directory without a database, no `reuse_logs` | a skipped record or log loses writes by design (`dp_impl.cpp:426`, `dp_impl.cpp:415`); with `reuse_logs`, what is written before the MANIFEST of NewDb is replaced is lost with it (`dp_impl.cpp:244`) |

`NewestOnTop` (`NeverHidden`) and `SequenceAlwaysFresh` (`FreshSequence`) are two questions: a new
write is newer than what the open database holds, always; it is newer than what a later open may
add from the logs only if nothing in them was passed over. `GarbageCollected` says what a pass that
may fail can promise: a file that nothing needs and that is still there is one of `db.refused`,
those of the latest pass, so whatever earlier passes and incarnations left has been collected.

*RandomAccessFilesProofs* proves `LimitsHold`, with the cardinality theorems for finite
sets: each step moves one object into or out of one of the two sets of holders. `TypeCorrect`
needs that `fd_` is a descriptor wherever it is used (`FdInv`). `DescriptorsAccounted` proves
`FdsAccounted` without an assumption on pread, from `OwnFd`: an open descriptor is the `fd_` of the
object whose file it is open on, and that object has a call under way or keeps it, unless a
failed Read has left it open (`left`; `env_posix.cpp:167`, run `files_leak`).

*ArenaProofs* proves all properties of Arena that `parts_safety` checks, and `UsageCovers`, that
MemoryUsage() covers what was asked for. The invariant adds to them what `alloc_ptr_` and
`alloc_bytes_remaining_` mean (`PointerInv`: the rest of the current block, behind every region
cut from it) and that usage also pays for that rest (`UsageInv`). The alignment proof rests on the
lemma `SlopAligns` about `%`.

*PartsProofs* proves the properties of six small components.

- `LockExclusive` and `NoStaleLock`, for any openers in any processes. The invariant says why:
  the table has at most one opener of a process under way, and the lock is with whoever has the
  database open and has left it before the name leaves the table.
- `NotCutShort`, for a file of any size. `SequentialInv`: every byte before the position has been
  delivered or skipped, and the position has reached the end of the file if the indicator is
  set or a reader has been told of the end. fseek may move the position past the end, and clears
  the indicator, which is why the two are implied separately.
- `BatchFaithful`, for any number of batches and entries. `BatchInv`: the entries are the ones that
  were put in, and the count is their number as long as it does not wrap, which the bounds
  on a group (`MaxGroup` times `MaxOps` entries, below 2^32) exclude.
- `ReplayFaithful`, for a log of any length and groups of any size. `LogInv`: the records take
  the sequence numbers up to LastSequence one after the other, as many as their counts say, and
  the counts are right. So no two records share a number, which is why leaving one out takes
  away its own entries and no others, and why the largest last number of the accepted records
  covers what they insert.
- `BuffersOwn`, for any set of buffers and any lengths; no call fails, since the code asserts
  that malloc has not. `BufferInv` ties each buffer to its block in both
  directions; the arithmetic is in `AlignedEnough`: buffer_align_size never makes a size smaller,
  also where it wraps.
- `NamesUnderstood`, for any radix, width and largest number. `DigitsRead`: the digits that are
  printed are read back as the number, whatever zeros come before them, so that ParseFileName
  undoes each of the functions that make names (`OursUnderstood`). `NamesTellApart` follows: files
  of different types or numbers never share a name.
- `FullPeriod`, for any prime `M` and primitive root `A` of it. `NextSeedTimes`: the shift, the mask
  and the one subtraction of Next multiply modulo `M`. So the number after n draws is the seed
  times the n-th power of `A` (`DrawState`), and one that came twice would make an earlier power
  equal to 1. That 2^31 - 1 is a prime and 16807 a primitive root of it is the assumption
  `PrimitiveRoot`, a fact about these two numbers that the comment in `random.hpp` relies on; TLC
  evaluates it for 31 and 3.

Three of these need inductions: over the batches of a group (`GroupedCount`), over the digits
of a number and over draws. The induction theorems of the library take an operator and cannot
be used here; `SetInduction` and `StrongInduction` say
the same of a set, from the least element that a set of counterexamples would have
(`LeastIn`). `LoopExists` gives a recursive function its existence, which its definition alone
does not.

*WritableFilesProofs* proves the properties of WritableFiles that `parts_safety` checks, and
`WritableTypeOK`, for any number of tables, files, records, errors and crashes. A crash picks any
of the disks that `held` and `maybe` allow, so the invariant `WritableInv` has to bound these sets
by what the program is doing:

- `HeldInv`: no file has two names, except for the temporary file that a crash may give back
  its name;
- `FileInv`: what each state of a PosixWritableFile says about its file: where Sync is, that a
  synced file is what the disk has, that a table and the temporary file are empty or
  complete, and that they are open only at their time;
- `ManifestInv`, `RecordInv`: every table in a record, written or still in the buffer, is known
  to the process and its name is there; once Sync of the MANIFEST has been past the directory,
  its name and the MANIFEST's are on the disk. This is what makes the report of Sync true;
- `PromiseInv`: reported records begin every MANIFEST there may be, and their tables have
  no other file;
- `SettingInv`: SetCurrentFile begins after a reported MANIFEST, and renames a file that the
  disk has.

Most steps write to one file: `Touches` says what they leave alone, and `TableStep`, `TmpStep`
and `ManifestStep` what is left to show for each kind of file; `DirStep` is the same for steps that
only change names, and `RestartStep` for crashes. What sequences do when a buffer is written out
in part is in `SentParts`, `PrefixNames` and `NamesAppend`.

Assumptions on constants are the named ASSUMEs of each module; TLC evaluates them in
every run.

tlapm reads `UNION A \cup UNION B` as `UNION (A \cup UNION B)`, TLC as two unions; DBRecovery
has parentheses where this matters.

Only model-checked: liveness (`CallReturns`, `CloseCompletes`, `ImmDrains`), since the
prover does not treat fairness and ENABLED.

## Findings

Each is a run that is expected to be violated, quoted in `PROJECT.json` with the line of
the repository it contradicts.

1. DB::Open commits log number 0, so old logs are replayed by every open until a flush commits
   a log number (`dp_impl.cpp:202`, `recovery_replay`). No write is lost by it: `recovery_safety`
   passes with this behaviour.
2. Log and table names lack the separator (`filename.cpp:22`, `recovery_name`).
3. NewDb does not sync the MANIFEST that CURRENT will name (`dp_impl.cpp:244`,
   `recovery_newdb_sync`).
4. Without `paranoid_checks` a log that cannot be opened is skipped, but stays needed, since log
   number 0 is committed. Its sequence numbers are given out again, and the next open replays old
   and new writes of one number (`dp_impl.cpp:426`, `recovery_skipped`). The model tells writes
   apart by their numbers and so shows only that the number is given out, not which value wins.
5. Read closes a descriptor that is to be kept (`env_posix.cpp:171`, `files_kept_read`).
6. Read leaves its temporary descriptor open when pread fails (`env_posix.cpp:167`, `files_leak`).
7. A record that LogAndApply has appended to the MANIFEST may reach the kernel, and the disk,
   before Sync gets to the fsync of the directory (a full buffer, or the fclose after a failed
   Sync), so that a MANIFEST on disk may name a table that the directory does not have
   (`env_posix.cpp:290`, `writable_names`). Nothing that was promised is lost by it
   (`PromisesKept`), but the next DB::Open reports missing files.

Met while modelling and built into the modules, without a run of their own:

- `create_if_missing` creates the database and reports that it does not exist
  (`dp_impl.cpp:336`): see NewDbDone.
- Write never leaves the queue (`dp_impl.cpp:900`): `CallReturns` fails with
  `WriteLeaves = FALSE`.
- Closing while a manual compaction runs goes through NULL (`dp_impl.cpp:802`):
  `NoNullManual` fails with `CloseWhileBusy = TRUE`.
- `error_if_exists` is only consulted when nothing exists (`dp_impl.cpp:342`); damaged
  records are not reported under `paranoid_checks` (`dp_impl.cpp:415`); see OpenMissing,
  OpenExisting and SkipRecord.
- AllocateAlignement returns nothing (`arena.cpp:54`).
- DeleteObsoleteFiles ignores a deletion that fails (`dp_impl.cpp:314`), and a MANIFEST that a
  failed switch of CURRENT has left stays as long as its number is above that of the MANIFEST in
  use (`dp_impl.cpp:291`): `NoGarbage` says which files may stay.
- DB::Open checks that the tables of the MANIFEST exist, not that they are complete
  (`dp_impl.cpp:376`), and `NewWritableFile` takes a number again that an earlier process gave
  up. If a process fails to write a table and crashes, the next writes the table of that number
  anew, its record reaches the disk without being reported, and the machine stops, then the name may
  be that of the first, incomplete file; the next Sync reports the record with the rest. It takes
  three faults, and the proof of `PromisesKept` found it: what is in a table is promised if the
  process that reports it wrote it, or it was reported before the crash; of others (`found`)
  only the name.
- The destructor unlocks the database before it deletes `logfile_`, whose fclose may write
  (`dp_impl.cpp:151`).
- ClipToRange converts a `size_t` to the type of the bounds, int, before it compares
  (`dp_impl.cpp:78`): a write_buffer_size of 2^31 becomes negative and is clipped to the
  minimum, one of 2^32 + 2^20 passes unclipped.

## Not modelled

- The contents of keys, values and tables, levels, snapshots, iterators: a write is its
  sequence number. Which of two values of a key is read is planned (`ReadLatest`).
- Directory operations that are one system call without state, and forwarding (EnvWrapper):
  what they find or fail with is in the guards of DBRecovery.
- ParseFileName on names other than a head, digits and a tail; the coding of lengths in
  batches and blocks; SanitizeOptions.
- The log format: a log is a sequence of records that are whole, damaged or lost at the end.
- VersionSet, MakeRoomForWrite, DoCompactionWork, the tail of Write, the pool, the
  kernel: not in the repository, modelled as far as the code relies on them.
- Interfaces, the rest of `other/`, `main.cpp` (a binary search tree), the test harness: no
  state of the database.

## Plan

Done: every component above that has state, DurableStore and its refinement, the proofs of
DBBackground, DBRecovery, RandomAccessFiles, WritableFiles, Arena, FileLocks, SequentialFiles,
WriteBatches, Buffers, FileNames and RandomNumbers. Next:

1. `ReadLatest`: that replayed logs never hide a later value, on the order of level-0
   tables, which needs keys in DBRecovery.
