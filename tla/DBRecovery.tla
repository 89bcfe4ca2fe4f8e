----------------------------- MODULE DBRecovery -----------------------------
(***************************************************************************)
(* The files of a database and what becomes of the writes in them: DB::Open*)
(* (Recover, RecoverLogFile, NewDb, the new log, the first LogAndApply),   *)
(* WriteLevel10Table and BuildTable, CompactMemtable, compactions,         *)
(* DeleteObsoleteFiles, closing, and crashes of the process or the machine *)
(* between any two steps.                                                  *)
(*                                                                         *)
(* A write is its sequence number; a log is the sequence of the writes     *)
(* appended to it, a table a set of writes, a MANIFEST the version its     *)
(* records add up to.  Files are known by their numbers.                   *)
(*                                                                         *)
(* Outside the repository, and modelled from how it is used: VersionSet    *)
(* (Recover, LogAndApply, NewFileNumber, AddLiveFiles), MakeRoomForWrite,  *)
(* the part of Write that appends to the log, and DoCompactionWork.        *)
(***************************************************************************)
EXTENDS Naturals, Sequences, FiniteSets, FiniteSetsExt, Functions

CONSTANTS
  Options,       \* option records DB::Open may be called with
  SlashInName,   \* does dbname end in a slash?
  Fresh,         \* does the directory start without a database?
  CrashKinds,    \* subset of {"process", "machine"}
  IoErrors,      \* may file operations fail?
  Remains,       \* may files remain that a switch of CURRENT leaves
                 \* behind, or that DeleteObsoleteFiles cannot delete?
  BadRecords,    \* may a log record turn out to be damaged?
  MaxFaults,     \* bound: crashes and failed operations
  MaxSeq,        \* bound: sequence numbers
  MaxFile        \* bound: file numbers

ASSUME RecoveryAssumption ==
  /\ Options \subseteq [create_if_missing : BOOLEAN, error_if_exists : BOOLEAN,
                        paranoid_checks : BOOLEAN, reuse_logs : BOOLEAN]
  /\ SlashInName \in BOOLEAN /\ Fresh \in BOOLEAN
  /\ IoErrors \in BOOLEAN /\ Remains \in BOOLEAN
  /\ BadRecords \in BOOLEAN
  /\ CrashKinds \subseteq {"process", "machine"}
  /\ MaxFaults \in Nat /\ MaxSeq \in Nat /\ MaxFile \in Nat

VARIABLES
  disk,      \* the files, see EmptyDisk
  db,        \* the DBImpl object and the locals of DB::Open, see NoDB
  phase,     \* what the thread that holds mutex_ is doing
  opts,      \* options_ of the DBImpl
  result,    \* Status the last DB::Open has returned
  acked,     \* writes acknowledged with sync
  faults     \* crashes and failed operations so far

vars == <<disk, db, phase, opts, result, acked, faults>>

Version == [log : Nat, prev : Nat, next : Nat, seq : Nat, tables : SUBSET Nat]

(* A file system holding the files of one database.                        *)
(*   current    number of the MANIFEST that CURRENT names, 0 if missing    *)
(*   manifests  what each MANIFEST records                                 *)
(*   unsynced   MANIFESTs a machine crash would lose                       *)
(*   logs       the writes in each log                                     *)
(*   synced     how many of them are on stable storage                     *)
(*   tables     the writes in each complete table                          *)
(*   partial    table files that are being written or were left behind     *)
(*   strays     <<kind, number>> of what was left behind of a switch to a  *)
(*              new MANIFEST: the MANIFEST, the temporary file for CURRENT *)
EmptyDisk ==
  [current |-> 0, manifests |-> <<>>, unsynced |-> {}, logs |-> <<>>,
   synced |-> <<>>, tables |-> <<>>, partial |-> {}, strays |-> {}]

NewDbEdit == [log |-> 0, prev |-> 0, next |-> 2, seq |-> 0, tables |-> {}]

NoJob == [kind |-> "none", num |-> 0, inputs |-> {}]

(* The state of a process with no database open, which is also what the    *)
(* constructor starts from.                                                *)
(*   vs, manifest    the VersionSet: current version, manifest number      *)
(*   save, added     save_manifest and the new files of DB::Open's edit    *)
(*   todo            logs still to be recovered, log the one being read    *)
(*   pos, compactions, final, num, maxseq   locals of RecoverLogFile       *)
(*   rmem, hasRmem   its memtable mem, and mem # NULL                      *)
(*   mem, imm, hasImm                  mem_, imm_ and imm_ # NULL          *)
(*   active                            the log that log_ appends to        *)
(*   refused         <<kind, number>> of files that the latest call of     *)
(*                   DeleteObsoleteFiles was to delete and could not       *)
NoDB ==
  [vs |-> NewDbEdit, manifest |-> 0, save |-> FALSE, added |-> {},
   todo |-> {}, log |-> 0, pos |-> 0, rmem |-> {}, hasRmem |-> FALSE,
   compactions |-> FALSE, final |-> FALSE, num |-> 0, maxseq |-> 0,
   mem |-> {}, imm |-> {}, hasImm |-> FALSE, active |-> 0,
   logfile_number_ |-> 0, pending_outputs_ |-> {}, bg_error_ |-> FALSE,
   closing |-> FALSE, job |-> NoJob, refused |-> {}]

Phases == {"down", "newdb", "logs", "read", "build", "newlog", "apply", "gc",
           "running"}

TypeOK ==
  /\ disk.current \in Nat
  /\ disk.manifests \in [DOMAIN disk.manifests -> Version]
  /\ DOMAIN disk.synced = DOMAIN disk.logs
  /\ \A l \in DOMAIN disk.logs : /\ disk.logs[l] \in Seq(1..MaxSeq)
                                 /\ disk.synced[l] \in 0..Len(disk.logs[l])
  /\ \A t \in DOMAIN disk.tables : disk.tables[t] \subseteq 1..MaxSeq
  /\ disk.partial \cap DOMAIN disk.tables = {}
  /\ disk.strays \subseteq {"manifest", "temp"} \X Nat
  /\ db.vs \in Version
  /\ db.pending_outputs_ \subseteq Nat
  /\ db.refused \subseteq {"log", "manifest", "table", "temp"} \X Nat
  /\ phase \in Phases
  /\ opts \in Options
  /\ result \in {"none", "ok", "InvalidArgument", "IOError", "Corruption"}
  /\ acked \subseteq 1..MaxSeq
  /\ faults \in 0..MaxFaults

(* f with n mapped to v, and f without the keys in S.                      *)
With(f, n, v) == [k \in DOMAIN f \cup {n} |-> IF k = n THEN v ELSE f[k]]
Without(f, S) == Restrict(f, DOMAIN f \ S)

Larger(m, n) == IF m < n THEN n ELSE m

-----------------------------------------------------------------------------
(* File names.  MakeFileName puts dbname and the number together without a *)
(* separator: only if dbname ends in one are logs and tables in the        *)
(* directory that GetChildren lists.  MANIFESTs always are.                *)
Listed(numbers) == IF SlashInName THEN numbers ELSE {}

(* The logs that Recover picks for a version, and the numbers that it      *)
(* crosses off its list of expected tables, whatever the file's type.      *)
LogsOf(v) == {l \in Listed(DOMAIN disk.logs) : l >= v.log \/ l = v.prev}

SeenNumbers ==
  Listed(DOMAIN disk.logs \cup DOMAIN disk.tables \cup disk.partial
           \cup {n \in 1..MaxFile : <<"temp", n>> \in disk.strays})
    \cup DOMAIN disk.manifests
    \cup {n \in 1..MaxFile : <<"manifest", n>> \in disk.strays}

(* DeleteObsoleteFiles: the files it does not keep.                        *)
Live == db.pending_outputs_ \cup db.vs.tables

(* Mutant: the log of the version counts as obsolete.                      *)
ObsoleteLogsOffByOne ==
  {l \in Listed(DOMAIN disk.logs) : l <= db.vs.log /\ l # db.vs.prev}

ObsoleteLogs ==
  {l \in Listed(DOMAIN disk.logs) : l < db.vs.log /\ l # db.vs.prev}

ObsoleteManifests == {m \in DOMAIN disk.manifests : m < db.manifest}

(* Mutants: live files are not kept; half-written files are.               *)
ObsoleteTablesNoLive ==
  Listed(DOMAIN disk.tables \cup disk.partial) \ db.pending_outputs_

ObsoleteTablesComplete == Listed(DOMAIN disk.tables) \ Live

ObsoleteTables == Listed(DOMAIN disk.tables \cup disk.partial) \ Live

(* MANIFESTs newer than the open one are kept, as are temporary files that *)
(* share their number with a live table.                                   *)
ObsoleteStrays ==
  {f \in disk.strays : \/ f[1] = "manifest" /\ f[2] < db.manifest
                       \/ f[1] = "temp" /\ SlashInName /\ f[2] \notin Live}

Obsolete ==
  ({"log"} \X ObsoleteLogs) \cup ({"manifest"} \X ObsoleteManifests)
    \cup ({"table"} \X ObsoleteTables) \cup ObsoleteStrays

-----------------------------------------------------------------------------
(* VersionSet::LogAndApply of version v, which writes the MANIFEST, syncs  *)
(* it and, if it is a new one, switches CURRENT to it.                     *)
Committed(v) ==
  [disk EXCEPT !.manifests = With(disk.manifests, db.manifest, v),
               !.unsynced = @ \ {db.manifest},
               !.current = db.manifest,
               !.strays = @ \ ({"manifest", "temp"} \X {db.manifest})]

(* What a switch of CURRENT to a new MANIFEST, in NewDb or in the first    *)
(* LogAndApply of DB::Open, may leave behind when it fails or the process  *)
(* dies: the MANIFEST, and the temporary file that SetCurrentFile renames  *)
(* (or deletes, and does not look whether that succeeds).                  *)
Leftovers ==
  LET manifest == <<"manifest", db.manifest>>
      temp == <<"temp", db.manifest>> IN
  IF ~Remains THEN {}
  ELSE CASE phase = "newdb" -> {{<<"temp", 1>>}}
         [] phase = "apply" /\ db.manifest # disk.current ->
              {{manifest}, {manifest, temp}}
         [] OTHER -> {}

(* The directory then, in every case.                                      *)
LeftDisks ==
  {disk} \cup {[disk EXCEPT !.strays = @ \cup left] : left \in Leftovers}

(* Its three outcomes: success; failure with nothing written that counts;  *)
(* failure after the record has reached the disk.                          *)
Outcomes == {"ok", "failed", "written"}

LogAndApply(v, outcome) ==
  IF outcome = "failed" THEN disk' \in LeftDisks ELSE disk' = Committed(v)

(* DB::Open returns without a database: delete impl.                       *)
OpenReturns(status) ==
  /\ db' = NoDB
  /\ phase' = "down"
  /\ result' = status

(* The database exists, closed, with an empty log; or nothing exists.      *)
Init ==
  /\ disk = IF Fresh THEN EmptyDisk
            ELSE [EmptyDisk EXCEPT
                    !.current = 1,
                    !.manifests = With(<<>>, 1, [NewDbEdit EXCEPT !.next = 3]),
                    !.logs = With(<<>>, 2, <<>>),
                    !.synced = With(<<>>, 2, 0)]
  /\ db = NoDB
  /\ phase = "down"
  /\ opts \in Options
  /\ result = "none"
  /\ acked = {}
  /\ faults = 0

-----------------------------------------------------------------------------
(* DB::Open up to the end of Recover.                                      *)

(* LockFile, VersionSet::Recover or GetChildren fails.                     *)
OpenFails(o) ==
  /\ phase = "down"
  /\ opts' = o
  /\ OpenReturns("IOError")
  /\ UNCHANGED <<disk, acked>>

(* There is no CURRENT: NewDb writes MANIFEST-000001, or Recover gives up. *)
OpenMissing(o) ==
  /\ phase = "down"
  /\ disk.current = 0
  /\ opts' = o
  /\ UNCHANGED acked
  /\ IF o.create_if_missing
     THEN /\ disk' = [disk EXCEPT !.manifests = With(@, 1, NewDbEdit),
                                  !.unsynced = @ \cup {1}]
          /\ phase' = "newdb"
          /\ result' = "none"
          /\ UNCHANGED db
     ELSE /\ OpenReturns(IF o.error_if_exists THEN "InvalidArgument" ELSE "IOError")
          /\ UNCHANGED disk

(* NewDb returns without a new file if it cannot open the MANIFEST, and    *)
(* deletes it if it cannot write it.                                       *)
NewDbFails(o) ==
  /\ phase = "down"
  /\ disk.current = 0
  /\ o.create_if_missing
  /\ opts' = o
  /\ \E opened \in SUBSET {1} :
       disk' = [disk EXCEPT !.manifests = Without(@, opened)]
  /\ OpenReturns("IOError")
  /\ UNCHANGED acked

(* Mutant: the MANIFEST is removed because the status is not ok.           *)
NewDbDoneRemoves(ok) ==
  /\ phase = "newdb"
  /\ disk' = [disk EXCEPT !.current = IF ok THEN 1 ELSE @,
                          !.manifests = Without(@, {1})]
  /\ OpenReturns(IF ok THEN "InvalidArgument" ELSE "IOError")
  /\ UNCHANGED <<opts, acked>>

(* SetCurrentFile renames the temporary file; Recover then reports that    *)
(* the database does not exist.                                            *)
NewDbDone(ok) ==
  /\ phase = "newdb"
  /\ IF ok
     THEN disk' = [disk EXCEPT !.current = 1, !.strays = @ \ {<<"temp", 1>>}]
     ELSE disk' \in LeftDisks
  /\ OpenReturns(IF ok THEN "InvalidArgument" ELSE "IOError")
  /\ UNCHANGED <<opts, acked>>

(* There is a CURRENT: VersionSet::Recover reads the MANIFEST and decides  *)
(* whether to start a new one, as it must unless files may be reused, or   *)
(* to go on with it.  Then the directory is listed.                        *)
OpenExisting(o) ==
  /\ phase = "down"
  /\ disk.current # 0
  /\ opts' = o
  /\ UNCHANGED <<disk, acked>>
  /\ IF disk.current \notin DOMAIN disk.manifests
     THEN OpenReturns("Corruption")
     ELSE LET v == disk.manifests[disk.current] IN
          IF ~(v.tables \subseteq SeenNumbers)
          THEN OpenReturns("Corruption")
          ELSE \E save \in IF o.reuse_logs THEN BOOLEAN ELSE {TRUE} :
                 /\ save => v.next <= MaxFile
                 /\ db' = [NoDB EXCEPT
                             !.vs = IF save THEN [v EXCEPT !.next = @ + 1] ELSE v,
                             !.manifest = IF save THEN v.next ELSE disk.current,
                             !.save = save,
                             !.todo = LogsOf(v)]
                 /\ phase' = "logs"
                 /\ result' = "none"

(* Mutant: no MarkFileNumberUsed.                                          *)
LogDoneUnmarked(d) ==
  [d EXCEPT !.todo = @ \ {Min(@)},
            !.log = 0, !.pos = 0, !.rmem = {}, !.hasRmem = FALSE,
            !.compactions = FALSE, !.final = FALSE, !.num = 0]

(* A log is done with and the locals of RecoverLogFile are gone:           *)
(* MarkFileNumberUsed, on to the next one.                                 *)
LogDone(d) ==
  [d EXCEPT !.todo = @ \ {Min(@)},
            !.vs.next = Larger(@, Min(d.todo) + 1),
            !.log = 0, !.pos = 0, !.rmem = {}, !.hasRmem = FALSE,
            !.compactions = FALSE, !.final = FALSE, !.num = 0]

(* RecoverLogFile opens the oldest log left.                               *)
OpenLog ==
  /\ phase = "logs"
  /\ db.todo # {}
  /\ db' = [db EXCEPT !.log = Min(db.todo)]
  /\ phase' = "read"
  /\ UNCHANGED <<disk, opts, result, acked>>

(* The log cannot be opened: an error if checks are paranoid, else ignored.*)
OpenLogFails ==
  /\ phase = "logs"
  /\ db.todo # {}
  /\ IF opts.paranoid_checks
     THEN OpenReturns("IOError")
     ELSE db' = LogDone(db) /\ UNCHANGED <<phase, result>>
  /\ UNCHANGED <<disk, opts, acked>>

(* WriteLevel10Table takes a number and BuildTable starts the file.        *)
StartTable(d) ==
  [d EXCEPT !.num = d.vs.next, !.vs.next = @ + 1,
            !.pending_outputs_ = @ \cup {d.vs.next}, !.save = TRUE]

(* NewWritableFile truncates a table that is already there.                *)
NewTableFile(n) == [disk EXCEPT !.partial = @ \cup {n},
                                !.tables = Without(@, {n})]

BeginBuild(d) ==
  /\ d.vs.next <= MaxFile
  /\ db' = StartTable(d)
  /\ disk' = IF d.rmem = {} THEN disk ELSE NewTableFile(d.vs.next)
  /\ phase' = "build"

(* The next record is inserted into the memtable, or writes of it are, and *)
(* the memtable may now be full.                                           *)
HasRecord == phase = "read" /\ db.pos < Len(disk.logs[db.log])

Insert(writes) ==
  LET r == disk.logs[db.log][db.pos + 1]
      d == [db EXCEPT !.pos = @ + 1, !.hasRmem = TRUE, !.rmem = @ \cup writes,
                      !.maxseq = Larger(@, r)] IN
  \/ db' = d /\ UNCHANGED <<disk, phase>>
  \/ BeginBuild([d EXCEPT !.compactions = TRUE])

ReadRecord ==
  /\ HasRecord
  /\ Insert({disk.logs[db.log][db.pos + 1]})
  /\ UNCHANGED <<opts, result, acked>>

(* The record is damaged.  If the reader cannot make it out, or it is too  *)
(* short, LogReporter::Corruption is called, which only writes a message,  *)
(* and the record is passed over.  If InsertInto stops in the middle of it,*)
(* what it has inserted stays, and the error counts if checks are paranoid.*)
SkipRecord ==
  /\ HasRecord
  /\ db' = [db EXCEPT !.pos = @ + 1]
  /\ UNCHANGED <<disk, phase, opts, result, acked>>

InsertFails ==
  /\ HasRecord
  /\ IF opts.paranoid_checks
     THEN OpenReturns("Corruption") /\ UNCHANGED disk
     ELSE /\ \E part \in SUBSET {disk.logs[db.log][db.pos + 1]} : Insert(part)
          /\ UNCHANGED result
  /\ UNCHANGED <<opts, acked>>

(* The log is read.  The last one may be reused, together with the         *)
(* memtable, unless part of it has been compacted; else what is left in    *)
(* the memtable becomes a table.                                           *)
CanReuse == opts.reuse_logs /\ db.todo = {db.log} /\ ~db.compactions

LogRead == phase = "read" /\ db.pos = Len(disk.logs[db.log])

ReuseLog ==
  /\ LogRead
  /\ CanReuse
  /\ db' = [LogDone(db) EXCEPT !.logfile_number_ = db.log,
                               !.active = db.log, !.mem = db.rmem]
  /\ phase' = "logs"
  /\ UNCHANGED <<disk, opts, result, acked>>

(* Mutant: what is left in the memtable is dropped.                        *)
EndLogDropsRest ==
  /\ LogRead
  /\ db' = LogDone(db)
  /\ phase' = "logs"
  /\ UNCHANGED <<disk, opts, result, acked>>

EndLog ==
  /\ LogRead
  /\ IF db.hasRmem
     THEN BeginBuild([db EXCEPT !.final = TRUE])
     ELSE db' = LogDone(db) /\ phase' = "logs" /\ UNCHANGED disk
  /\ UNCHANGED <<opts, result, acked>>

(* BuildTable has synced, closed and verified the table (an empty memtable *)
(* makes none); or has failed and deleted it, which makes DB::Open fail.   *)
TableBuilt(ok) ==
  LET made == IF db.rmem = {} THEN {} ELSE {db.num}
      d == [db EXCEPT !.added = @ \cup made, !.rmem = {}, !.hasRmem = FALSE,
                      !.num = 0, !.pending_outputs_ = @ \ {db.num}] IN
  /\ phase = "build"
  /\ IF ok
     THEN /\ disk' = [disk EXCEPT
                         !.tables = IF made = {} THEN @ ELSE With(@, db.num, db.rmem),
                         !.partial = @ \ {db.num}]
          /\ db' = IF db.final THEN LogDone(d) ELSE d
          /\ phase' = IF db.final THEN "logs" ELSE "read"
          /\ UNCHANGED result
     ELSE /\ disk' = [disk EXCEPT !.partial = @ \ {db.num}]
          /\ OpenReturns("IOError")
  /\ UNCHANGED <<opts, acked>>

(* Mutant: SetLastSequence is not called.                                  *)
RecoverReturnsOldSequence ==
  /\ phase = "logs"
  /\ db.todo = {}
  /\ db' = [db EXCEPT !.maxseq = 0]
  /\ phase' = "newlog"
  /\ UNCHANGED <<disk, opts, result, acked>>

(* The end of Recover: the last sequence number is brought up to date.     *)
RecoverReturns ==
  /\ phase = "logs"
  /\ db.todo = {}
  /\ db' = [db EXCEPT !.vs.seq = Larger(@, db.maxseq), !.maxseq = 0]
  /\ phase' = "newlog"
  /\ UNCHANGED <<disk, opts, result, acked>>

-----------------------------------------------------------------------------
(* The rest of DB::Open.                                                   *)

(* A new log, unless one is reused.  Its number is not stored in           *)
(* logfile_number_.                                                        *)
NewLog(ok) ==
  LET n == db.vs.next IN
  /\ phase = "newlog"
  /\ ok \/ db.active = 0
  /\ IF db.active # 0
     THEN /\ phase' = IF db.save THEN "apply" ELSE "gc"
          /\ UNCHANGED <<disk, db, result>>
     ELSE /\ n <= MaxFile
          /\ IF ok
             THEN /\ disk' = [disk EXCEPT !.logs = With(@, n, <<>>),
                                          !.synced = With(@, n, 0)]
                  /\ db' = [db EXCEPT !.active = n, !.vs.next = n + 1]
                  /\ phase' = IF db.save THEN "apply" ELSE "gc"
                  /\ UNCHANGED result
             ELSE OpenReturns("IOError") /\ UNCHANGED disk
  /\ UNCHANGED <<opts, acked>>

(* The version DB::Open commits.                                           *)
OpenEdit ==
  [db.vs EXCEPT !.prev = 0, !.log = db.logfile_number_,
                !.tables = @ \cup db.added]

ApplyOpenEdit(outcome) ==
  /\ phase = "apply"
  /\ LogAndApply(OpenEdit, outcome)
  /\ IF outcome = "ok"
     THEN /\ db' = [db EXCEPT !.vs = OpenEdit, !.save = FALSE, !.added = {}]
          /\ phase' = "gc"
          /\ UNCHANGED result
     ELSE OpenReturns("IOError")
  /\ UNCHANGED <<opts, acked>>

(* DeleteObsoleteFiles deletes one file after the other, in the order in   *)
(* which the directory lists them.                                         *)
DeleteObsoleteFile ==
  /\ phase = "gc"
  /\ \/ \E l \in ObsoleteLogs :
          /\ <<"log", l>> \notin db.refused
          /\ disk' = [disk EXCEPT !.logs = Without(@, {l}),
                                  !.synced = Without(@, {l})]
     \/ \E m \in ObsoleteManifests :
          /\ <<"manifest", m>> \notin db.refused
          /\ disk' = [disk EXCEPT !.manifests = Without(@, {m}),
                                  !.unsynced = @ \ {m}]
     \/ \E t \in ObsoleteTables :
          /\ <<"table", t>> \notin db.refused
          /\ disk' = [disk EXCEPT !.tables = Without(@, {t}),
                                  !.partial = @ \ {t}]
     \/ \E f \in ObsoleteStrays \ db.refused :
          disk' = [disk EXCEPT !.strays = @ \ {f}]
  /\ UNCHANGED <<db, phase, opts, result, acked>>

(* The status of DeleteFile is dropped: the file stays, the pass goes on.  *)
(* So is that of GetChildren: the files it has not listed stay.            *)
DeletionsFail(files) ==
  /\ Remains
  /\ phase = "gc"
  /\ db' = [db EXCEPT !.refused = @ \cup files]
  /\ UNCHANGED <<disk, phase, opts, result, acked>>

DeleteFileFails ==
  \E f \in Obsolete \ db.refused : DeletionsFail({f})

GetChildrenFails ==
  Obsolete \ db.refused # {} /\ DeletionsFail(Obsolete)

(* The pass is over, and DB::Open or the background task goes on.          *)
DeleteObsoleteFilesDone ==
  /\ phase = "gc"
  /\ Obsolete \subseteq db.refused
  /\ phase' = "running"
  /\ result' = "ok"
  /\ UNCHANGED <<disk, db, opts, acked>>

-----------------------------------------------------------------------------
(* The open database.  These steps are taken when nobody holds mutex_.     *)
Usable == phase = "running" /\ ~db.closing /\ ~db.bg_error_

StaysOpen == phase' = "running" /\ UNCHANGED <<opts, result>>

(* A write is appended to the log and, if asked for, synced.               *)
Write(sync) ==
  LET s == db.vs.seq + 1
      records == Append(disk.logs[db.active], s) IN
  /\ Usable
  /\ s <= MaxSeq
  /\ disk' = [disk EXCEPT
                !.logs[db.active] = records,
                !.synced[db.active] = IF sync THEN Len(records) ELSE @]
  /\ db' = [db EXCEPT !.vs.seq = s, !.mem = @ \cup {s}]
  /\ acked' = IF sync THEN acked \cup {s} ELSE acked
  /\ StaysOpen

(* The memtable becomes immutable and writes go to a new log.              *)
MakeRoomForWrite ==
  LET n == db.vs.next IN
  /\ Usable
  /\ ~db.hasImm
  /\ n <= MaxFile
  /\ disk' = [disk EXCEPT !.logs = With(@, n, <<>>), !.synced = With(@, n, 0)]
  /\ db' = [db EXCEPT !.imm = db.mem, !.hasImm = TRUE, !.mem = {},
                      !.active = n, !.logfile_number_ = n, !.vs.next = n + 1]
  /\ UNCHANGED acked
  /\ StaysOpen

(* The background task begins to write the immutable memtable out          *)
(* (CompactMemtable), or to merge some tables (OpenCompactionOutputFile).  *)
(* An empty memtable makes no file.                                        *)
StartJob(kind, inputs) ==
  LET n == db.vs.next IN
  /\ Usable
  /\ db.job = NoJob
  /\ n <= MaxFile
  /\ disk' = IF kind = "flush" /\ db.imm = {} THEN disk
             ELSE NewTableFile(n)
  /\ db' = [db EXCEPT !.job = [kind |-> kind, num |-> n, inputs |-> inputs],
                      !.pending_outputs_ = @ \cup {n}, !.vs.next = n + 1]
  /\ UNCHANGED acked
  /\ StaysOpen

CompactMemtable == db.hasImm /\ StartJob("flush", {})

StartCompaction ==
  /\ ~db.hasImm
  /\ \E inputs \in SUBSET db.vs.tables \ {{}} : StartJob("compact", inputs)

(* RecordBackgroundError; the job is over and DeleteObsoleteFiles, where   *)
(* it is called, returns at once.                                          *)
JobFails == db' = [db EXCEPT !.bg_error_ = TRUE, !.job = NoJob,
                             !.pending_outputs_ = @ \ {db.job.num}]

(* The table of a memtable: built (and then not used if the database is    *)
(* being closed), or deleted by BuildTable.                                *)
FlushBuilt(ok) ==
  LET n == db.job.num IN
  /\ phase = "running"
  /\ db.job.kind = "flush"
  /\ disk' = [disk EXCEPT
                !.partial = @ \ {n},
                !.tables = IF ok /\ db.imm # {} THEN With(@, n, db.imm) ELSE @]
  /\ IF ok /\ ~db.closing
     THEN db' = [db EXCEPT !.job.kind = "install", !.pending_outputs_ = @ \ {n}]
     ELSE JobFails
  /\ UNCHANGED acked
  /\ StaysOpen

(* The version CompactMemtable commits: earlier logs no longer needed.     *)
FlushEdit ==
  [db.vs EXCEPT !.prev = 0, !.log = db.logfile_number_,
                !.tables = @ \cup IF db.imm = {} THEN {} ELSE {db.job.num}]

FlushInstalled(outcome) ==
  /\ phase = "running"
  /\ db.job.kind = "install"
  /\ LogAndApply(FlushEdit, outcome)
  /\ IF outcome = "ok"
     THEN /\ db' = [db EXCEPT !.vs = FlushEdit, !.imm = {}, !.hasImm = FALSE,
                              !.job = NoJob, !.refused = {}]
          /\ phase' = "gc"
     ELSE JobFails /\ UNCHANGED phase
  /\ UNCHANGED <<opts, result, acked>>

(* Mutant: the output counts as complete before it is.                     *)
CompactionBuiltUnfinished(ok) ==
  LET n == db.job.num IN
  /\ phase = "running"
  /\ db.job.kind = "compact"
  /\ disk' = [disk EXCEPT
                !.tables = With(@, n, UNION {@[t] : t \in db.job.inputs})]
  /\ db' = [db EXCEPT !.job.kind = "results"]
  /\ UNCHANGED acked
  /\ StaysOpen

(* The output of a compaction.  When it fails, or the database is closed   *)
(* meanwhile, CleanupCompaction leaves the file where it is.               *)
CompactionBuilt(ok) ==
  LET n == db.job.num IN
  /\ phase = "running"
  /\ db.job.kind = "compact"
  /\ IF ok /\ ~db.closing
     THEN /\ disk' = [disk EXCEPT
                        !.partial = @ \ {n},
                        !.tables = With(@, n, UNION {@[t] : t \in db.job.inputs})]
          /\ db' = [db EXCEPT !.job.kind = "results"]
     ELSE JobFails /\ UNCHANGED disk
  /\ UNCHANGED acked
  /\ StaysOpen

CompactionEdit ==
  [db.vs EXCEPT !.tables = (@ \ db.job.inputs) \cup {db.job.num}]

(* The results are committed; CleanupCompaction and DeleteObsoleteFiles.   *)
CompactionInstalled(outcome) ==
  /\ phase = "running"
  /\ db.job.kind = "results"
  /\ LogAndApply(CompactionEdit, outcome)
  /\ IF outcome = "ok"
     THEN /\ db' = [db EXCEPT !.vs = CompactionEdit, !.job = NoJob,
                              !.pending_outputs_ = @ \ {db.job.num},
                              !.refused = {}]
          /\ phase' = "gc"
     ELSE JobFails /\ UNCHANGED phase
  /\ UNCHANGED <<opts, result, acked>>

-----------------------------------------------------------------------------
(* ~DBImpl: no new job once closing has begun, the running one is awaited, *)
(* then memory is gone.                                                    *)
Close ==
  /\ phase = "running"
  /\ IF db.job = NoJob
     THEN db' = NoDB /\ phase' = "down"
     ELSE ~db.closing /\ db' = [db EXCEPT !.closing = TRUE] /\ UNCHANGED phase
  /\ UNCHANGED <<disk, opts, result, acked>>

(* The process dies, or the machine does and takes what was not synced     *)
(* with it (also after the process has gone).                              *)
ProcessCrash ==
  /\ "process" \in CrashKinds
  /\ phase # "down"
  /\ disk' \in LeftDisks
  /\ db' = NoDB
  /\ phase' = "down"
  /\ UNCHANGED <<opts, result, acked>>

MachineCrash ==
  /\ "machine" \in CrashKinds
  /\ \E left \in LeftDisks :
       disk' = [left EXCEPT
                  !.logs = [l \in DOMAIN @ |-> SubSeq(@[l], 1, disk.synced[l])],
                  !.manifests = Without(@, disk.unsynced),
                  !.unsynced = {}]
  /\ db' = NoDB
  /\ phase' = "down"
  /\ UNCHANGED <<opts, result, acked>>

(* A closed database may stay closed; and the model stops where the file   *)
(* numbers it is given end.                                                *)
Stopped == (phase = "down" \/ db.vs.next > MaxFile) /\ UNCHANGED vars

(* A step that succeeds, and one that is a fault.                          *)
Good(A) == A /\ UNCHANGED faults
Fault(A) == IoErrors /\ faults < MaxFaults /\ A /\ faults' = faults + 1
Damage(A) == BadRecords /\ faults < MaxFaults /\ A /\ faults' = faults + 1
Crash(A) == faults < MaxFaults /\ A /\ faults' = faults + 1

Next ==
  \/ \E o \in Options : \/ Good(OpenMissing(o))
                         \/ Good(OpenExisting(o))
                         \/ Fault(OpenFails(o))
                         \/ Fault(NewDbFails(o))
  \/ Good(NewDbDone(TRUE)) \/ Fault(NewDbDone(FALSE))
  \/ Good(OpenLog) \/ Fault(OpenLogFails)
  \/ Good(ReadRecord) \/ Damage(SkipRecord) \/ Damage(InsertFails)
  \/ Good(ReuseLog)
  \/ Good(~CanReuse /\ EndLog) \/ Fault(CanReuse /\ EndLog)
  \/ Good(TableBuilt(TRUE)) \/ Fault(TableBuilt(FALSE))
  \/ Good(RecoverReturns)
  \/ Good(NewLog(TRUE)) \/ Fault(NewLog(FALSE))
  \/ Good(ApplyOpenEdit("ok"))
  \/ Good(DeleteObsoleteFile)
  \/ Fault(DeleteFileFails) \/ Fault(GetChildrenFails)
  \/ Good(DeleteObsoleteFilesDone)
  \/ \E sync \in BOOLEAN : Good(Write(sync))
  \/ Good(MakeRoomForWrite)
  \/ Good(CompactMemtable)
  \/ Good(FlushBuilt(TRUE)) \/ Fault(FlushBuilt(FALSE))
  \/ Good(FlushInstalled("ok"))
  \/ Good(StartCompaction)
  \/ Good(CompactionBuilt(TRUE)) \/ Fault(CompactionBuilt(FALSE))
  \/ Good(CompactionInstalled("ok"))
  \/ \E outcome \in Outcomes \ {"ok"} : \/ Fault(ApplyOpenEdit(outcome))
                                       \/ Fault(FlushInstalled(outcome))
                                       \/ Fault(CompactionInstalled(outcome))
  \/ Good(Close)
  \/ Crash(ProcessCrash)
  \/ Crash(MachineCrash)
  \/ Stopped

Spec == Init /\ [][Next]_vars

-----------------------------------------------------------------------------
(* What the next DB::Open would find if the machine crashed now.           *)
OnDisk(v) ==
  (UNION {disk.tables[t] : t \in v.tables \cap DOMAIN disk.tables})
    \cup UNION {{disk.logs[l][i] : i \in 1..disk.synced[l]} : l \in LogsOf(v)}

(* A write acknowledged with sync is never lost: at every instant, in the  *)
(* middle of an Open, a flush, a compaction or a garbage collection, and   *)
(* after any failure, it is in a log that the next Open will replay or in  *)
(* a table of the version CURRENT leads to.                                *)
Durable ==
  acked # {} => /\ disk.current \in DOMAIN disk.manifests
                /\ acked \subseteq OnDisk(disk.manifests[disk.current])

(* The version CURRENT leads to lists only tables that are complete, so    *)
(* that the "missing files" check of Recover never fires: BuildTable syncs *)
(* before LogAndApply, and DeleteObsoleteFiles does not touch them, even   *)
(* after a LogAndApply of which nobody knows whether it was written.       *)
ManifestComplete ==
  disk.current \in DOMAIN disk.manifests =>
    disk.manifests[disk.current].tables \subseteq DOMAIN disk.tables

(* CURRENT, once it exists, names a MANIFEST that is there.                *)
CurrentValid == disk.current = 0 \/ disk.current \in DOMAIN disk.manifests

(* An open database shows every write acknowledged with sync, in this or   *)
(* in an earlier incarnation.                                              *)
Held == db.mem \cup db.imm
          \cup UNION {disk.tables[t] : t \in db.vs.tables \cap DOMAIN disk.tables}

Visible == phase = "running" => acked \subseteq Held

(* The next sequence number is larger than that of everything an open      *)
(* database holds, so that a new write is never hidden by an earlier one.  *)
NeverHidden == phase = "running" => \A s \in Held : s <= db.vs.seq

(* And larger than that of everything in a log that the next Open would    *)
(* replay: no number is given to two writes that meet there.               *)
InNeededLogs == UNION {Range(disk.logs[l]) : l \in LogsOf(db.vs)}

FreshSequence ==
  phase = "running" => \A s \in Held \cup InNeededLogs : s <= db.vs.seq

(* No file is created over one that is in use: the number handed out next  *)
(* is larger than that of every log and table the version may refer to.    *)
FreshNumber ==
  phase = "running" =>
    \A n \in db.vs.tables \cup LogsOf(db.vs) \cup db.pending_outputs_
               \cup {db.active, db.manifest} : n < db.vs.next

(* What DB::Open would recover if nothing failed.                          *)
Recoverable ==
  IF disk.current \notin DOMAIN disk.manifests THEN {}
  ELSE LET v == disk.manifests[disk.current] IN
       (UNION {disk.tables[t] : t \in v.tables \cap DOMAIN disk.tables})
         \cup UNION {Range(disk.logs[l]) : l \in LogsOf(v)}

IsOpen == phase \in {"running", "gc"} /\ result = "ok"

Store == INSTANCE DurableStore WITH
           open <- IsOpen, store <- IF IsOpen THEN Held ELSE Recoverable

(* The database implements DurableStore.  No flush, compaction, garbage    *)
(* collection or recovery, nor one that fails, makes a write appear or     *)
(* disappear, acknowledged or not; only a stop may lose those that were    *)
(* not acknowledged; and a new write has a larger number than every other. *)
ImplementsStore == Store!Spec

(* Garbage is collected: while nothing is in progress, every file that the *)
(* version and the MANIFEST in use do not account for, be it left by a     *)
(* crash, by a step that failed or by an earlier pass, is one that the     *)
(* latest DeleteObsoleteFiles was refused, and nothing else is missed.     *)
(* A MANIFEST newer than the one in use, and a temporary file that shares  *)
(* its number with a table of the version, are kept.                       *)
NoGarbage ==
  phase = "running" /\ db.job = NoJob /\ ~db.bg_error_ =>
    /\ \A t \in (DOMAIN disk.tables \cup disk.partial) \ db.vs.tables :
         <<"table", t>> \in db.refused
    /\ \A m \in DOMAIN disk.manifests \ {db.manifest} :
         <<"manifest", m>> \in db.refused
    /\ \A l \in DOMAIN disk.logs :
         l < db.vs.log => <<"log", l>> \in db.refused
    /\ \A f \in disk.strays \ db.refused :
         IF f[1] = "temp" THEN f[2] \in db.vs.tables ELSE f[2] >= db.manifest

(* A log is not recovered again once all of it is in tables of the         *)
(* version: "No older logs needed after recovery".                         *)
NoLogReplayedTwice ==
  \A l \in db.todo : disk.logs[l] # <<>> =>
    \E i \in DOMAIN disk.logs[l] :
      \A t \in db.vs.tables : disk.logs[l][i] \notin disk.tables[t]

=============================================================================
