------------------------ MODULE DBRecoveryOpenProofs ------------------------
(***************************************************************************)
(* The inductive invariant of DBRecovery, for any options, any crashes and *)
(* failures and any number of files and writes, and that the steps of      *)
(* DB::Open preserve it: Recover, RecoverLogFile, NewDb, the tables and    *)
(* the log it creates, its LogAndApply.                                    *)
(***************************************************************************)
EXTENDS DBRecovery, WellFoundedInduction, TLAPS

HasCur == disk.current \in DOMAIN disk.manifests
Cur == disk.manifests[disk.current]

(* The writes in some tables, and in a log.                                *)
Tab(S) == UNION {disk.tables[t] : t \in S}
InLog(l) == {disk.logs[l][i] : i \in DOMAIN disk.logs[l]}
InSynced(l) == {disk.logs[l][i] : i \in 1..disk.synced[l]}

Opening == phase \in {"logs", "read", "build", "newlog", "apply"}
Running == phase \in {"gc", "running"}

(* What the theorems about the writes need to assume: the listing of the   *)
(* directory shows the logs, no record is damaged, no log that cannot be   *)
(* opened is ignored, and the MANIFEST of NewDb is not used unsynced.      *)
Trusted ==
  /\ SlashInName
  /\ ~BadRecords
  /\ IoErrors => \A o \in Options : o.paranoid_checks
  /\ Fresh /\ "machine" \in CrashKinds => \A o \in Options : ~o.reuse_logs

Writes == 1..MaxSeq

(* Names of files.                                                         *)
Strays == {"manifest", "temp"} \X Nat
Files == {"log", "manifest", "table", "temp"} \X Nat

DiskType ==
  /\ DOMAIN disk = {"current", "manifests", "unsynced", "logs", "synced",
                    "tables", "partial", "strays"}
  /\ disk.current \in Nat
  /\ disk.manifests \in [DOMAIN disk.manifests -> Version]
  /\ DOMAIN disk.manifests \subseteq Nat \ {0}
  /\ disk.logs \in [DOMAIN disk.logs -> Seq(Writes)]
  /\ DOMAIN disk.logs \subseteq Nat \ {0}
  /\ disk.synced \in [DOMAIN disk.logs -> Nat]
  /\ \A l \in DOMAIN disk.logs : disk.synced[l] <= Len(disk.logs[l])
  /\ disk.tables \in [DOMAIN disk.tables -> SUBSET Writes]
  /\ DOMAIN disk.tables \subseteq Nat
  /\ disk.partial \in SUBSET Nat
  /\ disk.partial \cap DOMAIN disk.tables = {}
  /\ disk.strays \in SUBSET Strays

Job == [kind : {"none", "flush", "install", "compact", "results"}, num : Nat,
        inputs : SUBSET Nat]

DbType ==
  /\ DOMAIN db = {"vs", "manifest", "save", "added", "todo", "log", "pos",
                  "rmem", "hasRmem", "compactions", "final", "num", "maxseq",
                  "mem", "imm", "hasImm", "active", "logfile_number_",
                  "pending_outputs_", "bg_error_", "closing", "job", "refused"}
  /\ db.refused \in SUBSET Files
  /\ db.vs \in Version
  /\ db.job \in Job
  /\ db.manifest \in Nat /\ db.log \in Nat /\ db.pos \in Nat /\ db.num \in Nat
  /\ db.maxseq \in Nat /\ db.active \in Nat /\ db.logfile_number_ \in Nat
  /\ db.save \in BOOLEAN /\ db.hasRmem \in BOOLEAN /\ db.compactions \in BOOLEAN
  /\ db.final \in BOOLEAN /\ db.hasImm \in BOOLEAN /\ db.bg_error_ \in BOOLEAN
  /\ db.closing \in BOOLEAN
  /\ db.added \subseteq Nat /\ db.todo \subseteq Nat
  /\ db.pending_outputs_ \subseteq Nat
  /\ db.rmem \subseteq Writes /\ db.mem \subseteq Writes /\ db.imm \subseteq Writes

OtherType ==
  /\ phase \in Phases
  /\ opts \in Options
  /\ result \in {"none", "ok", "InvalidArgument", "IOError", "Corruption"}
  /\ acked \in SUBSET Writes
  /\ faults \in 0..MaxFaults

(* The directory, whatever the process is doing.                           *)
DirInv ==
  /\ disk.current = 0 => /\ DOMAIN disk.logs = {} /\ DOMAIN disk.tables = {}
                         /\ DOMAIN disk.manifests \subseteq {1}
                         /\ acked = {}
  /\ disk.current # 0 => \A m \in DOMAIN disk.manifests : m <= disk.current
  /\ HasCur => /\ Cur.prev = 0 /\ Cur.log < Cur.next /\ disk.current < Cur.next
               /\ \A t \in Cur.tables : /\ t < Cur.next
                                        /\ t \in DOMAIN disk.tables
                                        /\ \A s \in disk.tables[t] : s <= Cur.seq

(* MANIFESTs that only NewDb has written.                                  *)
UnsyncedInv ==
  /\ ~Fresh => disk.unsynced = {} /\ disk.current # 0
  /\ ("machine" \notin CrashKinds \/ ~Fresh) /\ disk.current # 0 => HasCur
  /\ Trusted /\ "machine" \in CrashKinds =>
       /\ disk.current \in disk.unsynced => acked = {} /\ ~Running
       /\ Fresh /\ Opening => db.save

DownInv ==
  /\ phase \in {"down", "newdb"} => db = NoDB
  /\ phase = "newdb" => /\ disk.current = 0
                        /\ 1 \in DOMAIN disk.manifests
                        /\ disk.manifests[1] = NewDbEdit

Newest == Larger(db.vs.seq, db.maxseq)

OpeningInv ==
  Opening =>
    /\ HasCur /\ result = "none"
    /\ ~db.hasImm /\ db.imm = {} /\ db.job = NoJob /\ ~db.bg_error_
    /\ db.vs.tables = Cur.tables /\ db.vs.log = Cur.log /\ db.vs.prev = 0
    /\ db.vs.seq >= Cur.seq /\ db.vs.next >= Cur.next
    /\ \/ db.manifest = disk.current
       \/ db.save /\ db.manifest >= Cur.next /\ db.manifest < db.vs.next
    /\ db.added # {} => db.save
    /\ \A t \in db.added : /\ t < db.vs.next /\ t \in DOMAIN disk.tables
                           /\ \A s \in disk.tables[t] : s <= Newest
    /\ \A s \in db.rmem \cup db.mem : s <= Newest
    /\ \A l \in db.todo : l \in DOMAIN disk.logs /\ l >= db.vs.log
    /\ \A l \in Listed(DOMAIN disk.logs) : l < db.vs.next \/ l \in db.todo
    /\ db.active = 0 => db.mem = {} /\ db.logfile_number_ = 0
    /\ db.active # 0 => /\ db.todo = {} /\ db.logfile_number_ \in {0, db.active}
                        /\ db.active \in DOMAIN disk.logs
                        /\ db.vs.log <= db.active /\ db.active < db.vs.next
    /\ phase \in {"newlog", "apply"} => db.todo = {}
    /\ phase = "apply" => db.active # 0 /\ db.save
    /\ ~db.hasRmem => db.rmem = {}

(* The locals of RecoverLogFile.                                           *)
ReadingInv ==
  /\ phase \in {"read", "build"} =>
       /\ db.log \in db.todo /\ db.log = Min(db.todo)
       /\ db.pos <= Len(disk.logs[db.log])
  /\ phase \notin {"read", "build"} => /\ db.log = 0 /\ db.pos = 0
                                      /\ db.rmem = {} /\ ~db.hasRmem
  /\ phase # "build" => ~db.final
  /\ phase \in {"newlog", "apply"} => db.maxseq = 0
  /\ phase \in {"logs", "read", "newlog", "apply"} => db.pending_outputs_ = {}
  /\ phase = "build" =>
       /\ db.final => db.pos = Len(disk.logs[db.log])
       /\ db.save /\ db.pending_outputs_ = {db.num}
       /\ Cur.next <= db.num /\ db.num < db.vs.next
       /\ \A t \in db.vs.tables \cup db.added : t < db.num

JobInv ==
  Running =>
    /\ db.job = NoJob => db.pending_outputs_ = {}
    /\ db.job # NoJob =>
         /\ phase = "running" /\ ~db.bg_error_
         /\ db.job.kind # "none"
         /\ db.job.num < db.vs.next
         /\ \A t \in db.vs.tables : t < db.job.num
         /\ db.pending_outputs_ = IF db.job.kind = "install" THEN {} ELSE {db.job.num}
    /\ db.job.kind \in {"flush", "install"} => db.hasImm
    /\ db.job.kind = "install" /\ db.imm # {} =>
         db.job.num \in DOMAIN disk.tables /\ disk.tables[db.job.num] = db.imm
    /\ db.job.kind \in {"compact", "results"} => db.job.inputs \subseteq db.vs.tables
    /\ db.job.kind = "results" =>
         db.job.num \in DOMAIN disk.tables /\ disk.tables[db.job.num] = Tab(db.job.inputs)

RunningInv ==
  Running =>
    /\ HasCur /\ disk.current = db.manifest
    /\ db.todo = {} /\ db.vs.prev = 0
    /\ db.vs.next >= Cur.next
    /\ db.active \in DOMAIN disk.logs
    /\ db.vs.log <= db.active /\ db.active < db.vs.next
    /\ \A t \in db.vs.tables : /\ t < db.vs.next /\ t \in DOMAIN disk.tables
                               /\ \A s \in disk.tables[t] : s <= db.vs.seq
    /\ \A l \in Listed(DOMAIN disk.logs) : l < db.vs.next
    /\ \A s \in db.mem \cup db.imm : s <= db.vs.seq
    /\ ~db.hasImm => db.imm = {}
    /\ db.hasImm => db.logfile_number_ = db.active
    /\ ~db.bg_error_ => Cur.tables = db.vs.tables /\ Cur.log = db.vs.log
    /\ phase = "gc" => db.job = NoJob /\ ~db.bg_error_
    /\ phase = "running" => result = "ok"
    /\ result = "ok" \/ db.imm = {}

Refused(kind) == {n \in Nat : <<kind, n>> \in db.refused}

GarbageInv ==
  SlashInName /\ phase = "running" /\ ~db.bg_error_ =>
    /\ DOMAIN disk.tables \cup disk.partial
         \subseteq db.vs.tables \cup (IF db.job = NoJob THEN {} ELSE {db.job.num})
                     \cup Refused("table")
    /\ DOMAIN disk.manifests \subseteq {db.manifest} \cup Refused("manifest")
    /\ \A l \in DOMAIN disk.logs : l < db.vs.log => l \in Refused("log")
    /\ \A f \in disk.strays \ db.refused :
         IF f[1] = "temp" THEN f[2] \in db.vs.tables ELSE f[2] >= db.manifest

(* What is in a log is in a table, or the log is needed.                   *)
LogsInv ==
  Trusted /\ HasCur =>
    \A l \in DOMAIN disk.logs : l < Cur.log => InLog(l) \subseteq Tab(Cur.tables)

(* What has been read so far: a record is still to be read, or it is in a  *)
(* table, or in the memtable of its log.                                   *)
ToBeRead(l, i) == l \in db.todo /\ (l = db.log => i > db.pos)

Recovered(l, i) ==
  \/ disk.logs[l][i] \in Tab(db.vs.tables \cup db.added)
  \/ l = db.log /\ disk.logs[l][i] \in db.rmem
  \/ l = db.active /\ disk.logs[l][i] \in db.mem

ReplayInv ==
  Trusted /\ Opening =>
    \A l \in DOMAIN disk.logs : \A i \in DOMAIN disk.logs[l] :
      ToBeRead(l, i) \/ Recovered(l, i)

(* And nothing has been read that is not in a log.                         *)
Logged(s) == \E l \in DOMAIN disk.logs : s \in InLog(l)

LoggedInv ==
  Trusted /\ Opening => /\ \A s \in Tab(db.added) : Logged(s)
                        /\ \A s \in db.rmem : s \in InLog(db.log)
                        /\ \A s \in db.mem : s \in InLog(db.active)

HeldInv ==
  Trusted /\ Running =>
    /\ \A s \in db.mem : s \in InLog(db.active)
    /\ \A l \in DOMAIN disk.logs :
         /\ l # db.active => InLog(l) \subseteq Tab(db.vs.tables) \cup db.imm
         /\ InLog(l) \subseteq Tab(db.vs.tables) \cup db.imm \cup db.mem
    /\ Tab(Cur.tables) \subseteq Tab(db.vs.tables) \cup db.imm

DurableInv ==
  Trusted /\ acked # {} =>
    /\ HasCur
    /\ \A s \in acked :
         \/ s \in Tab(Cur.tables)
         \/ \E l \in DOMAIN disk.logs : l >= Cur.log /\ s \in InSynced(l)

Ind == /\ DiskType /\ DbType /\ OtherType
       /\ DirInv /\ UnsyncedInv /\ DownInv /\ OpeningInv /\ ReadingInv
       /\ JobInv /\ RunningInv /\ GarbageInv
       /\ LogsInv /\ ReplayInv /\ LoggedInv /\ HeldInv /\ DurableInv

-----------------------------------------------------------------------------
(* Operators of the model.                                                 *)
LEMMA WithFacts ==
  ASSUME NEW f, NEW n, NEW v
  PROVE  /\ DOMAIN With(f, n, v) = DOMAIN f \cup {n}
         /\ With(f, n, v)[n] = v
         /\ \A k \in DOMAIN f : k # n => With(f, n, v)[k] = f[k]
  BY DEF With

(* Deleting files leaves the others as they are (Env::DeleteFile).         *)
LEMMA WithoutFacts ==
  ASSUME NEW f, NEW S
  PROVE  /\ DOMAIN Without(f, S) = DOMAIN f \ S
         /\ \A k \in DOMAIN f \ S : Without(f, S)[k] = f[k]
  BY DEF Without, Restrict

(* A map of files keeps its type when a file is added.                     *)
LEMMA WithType ==
  ASSUME NEW f, NEW T, f \in [DOMAIN f -> T], NEW n, NEW v \in T
  PROVE  With(f, n, v) \in [DOMAIN With(f, n, v) -> T]
  BY DEF With

(* And when files are removed.                                             *)
LEMMA WithoutType ==
  ASSUME NEW f, NEW T, f \in [DOMAIN f -> T], NEW S
  PROVE  Without(f, S) \in [DOMAIN Without(f, S) -> T]
  BY DEF Without, Restrict

(* Recover takes the smallest log number left: there is one if any log is  *)
(* left.                                                                   *)
LEMMA MinIn ==
  ASSUME NEW S \in SUBSET Nat, S # {}
  PROVE  Min(S) \in S
<1>1. OpToRel(<, Nat) = {s \in Nat \X Nat : s[1] < s[2]}
  BY Zenon DEF OpToRel
<1>2. PICK x \in S : \A y \in S : ~(<<y, x>> \in {s \in Nat \X Nat : s[1] < s[2]})
  BY NatLessThanWellFounded, WFMin, <1>1
<1>3. ASSUME NEW y \in S PROVE x =< y
  <2>1. x \in Nat /\ y \in Nat
    OBVIOUS
  <2>2. y < x => <<y, x>> \in {s \in Nat \X Nat : s[1] < s[2]}
    BY <2>1
  <2>3. ~(y < x)
    BY <1>2, <2>2
  <2>4. QED
    BY <2>1, <2>3
<1>4. QED
  BY <1>3 DEF Min

(* NewFileNumber and MarkFileNumberUsed change the next file number alone. *)
LEMMA VersionNext ==
  ASSUME NEW v \in Version, NEW n \in Nat
  PROVE  /\ [v EXCEPT !.next = n] \in Version
         /\ [v EXCEPT !.next = n].next = n
         /\ [v EXCEPT !.next = n].log = v.log
         /\ [v EXCEPT !.next = n].prev = v.prev
         /\ [v EXCEPT !.next = n].seq = v.seq
         /\ [v EXCEPT !.next = n].tables = v.tables
  BY DEF Version

(* SetLastSequence changes the sequence number alone.                      *)
LEMMA VersionSeq ==
  ASSUME NEW v \in Version, NEW n \in Nat
  PROVE  /\ [v EXCEPT !.seq = n] \in Version
         /\ [v EXCEPT !.seq = n].seq = n
         /\ [v EXCEPT !.seq = n].log = v.log
         /\ [v EXCEPT !.seq = n].prev = v.prev
         /\ [v EXCEPT !.seq = n].next = v.next
         /\ [v EXCEPT !.seq = n].tables = v.tables
  BY DEF Version

(* A compaction's edit changes the tables alone.                           *)
LEMMA VersionTables ==
  ASSUME NEW v \in Version, NEW T \in SUBSET Nat
  PROVE  /\ [v EXCEPT !.tables = T] \in Version
         /\ [v EXCEPT !.tables = T].tables = T
         /\ [v EXCEPT !.tables = T].log = v.log
         /\ [v EXCEPT !.tables = T].prev = v.prev
         /\ [v EXCEPT !.tables = T].seq = v.seq
         /\ [v EXCEPT !.tables = T].next = v.next
  BY DEF Version

(* The edits that are committed.                                           *)
Edited(v, l, T) == [v EXCEPT !.prev = 0, !.log = l, !.tables = T]

(* An edit that sets the log number and adds tables leaves the counters    *)
(* alone.                                                                  *)
LEMMA VersionEdit ==
  ASSUME NEW v \in Version, NEW l \in Nat, NEW T \in SUBSET Nat
  PROVE  /\ Edited(v, l, T) \in Version /\ Edited(v, l, T).prev = 0
         /\ Edited(v, l, T).log = l /\ Edited(v, l, T).tables = T
         /\ Edited(v, l, T).next = v.next /\ Edited(v, l, T).seq = v.seq
<1>1. ASSUME NEW w, w = [v EXCEPT !.prev = 0, !.log = l, !.tables = T]
      PROVE  w = [log |-> l, prev |-> 0, next |-> v.next, seq |-> v.seq, tables |-> T]
  BY <1>1 DEF Version
<1>2. [log |-> l, prev |-> 0, next |-> v.next, seq |-> v.seq, tables |-> T] \in Version
  BY DEF Version
<1>3. Edited(v, l, T) = [log |-> l, prev |-> 0, next |-> v.next, seq |-> v.seq, tables |-> T]
  BY <1>1 DEF Edited
<1>4. QED
  BY <1>2, <1>3

-----------------------------------------------------------------------------
(* Steps that have the same kind of effect.                                *)

(* A step that ends without a database leaves only the files to look at.   *)
LEMMA StopStep ==
  ASSUME OtherType', db' = NoDB, phase' = "down",
         DiskType', DirInv', UnsyncedInv', LogsInv', DurableInv'
  PROVE  Ind'
<1>1. DbType'
  BY DEF DbType, NoDB, NewDbEdit, NoJob, Version, Job, Writes
<1>2. DownInv' /\ OpeningInv' /\ ReadingInv' /\ JobInv' /\ RunningInv'
      /\ GarbageInv' /\ ReplayInv' /\ LoggedInv' /\ HeldInv'
  BY DEF DownInv, OpeningInv, ReadingInv, JobInv, RunningInv, GarbageInv,
         ReplayInv, LoggedInv, HeldInv, Opening, Running, NoDB
<1>3. QED
  BY <1>1, <1>2 DEF Ind

(* A step of DB::Open does not disturb what is said of an open database.   *)
LEMMA OpeningStep ==
  ASSUME Opening', OtherType', DbType', DiskType', DirInv', UnsyncedInv',
         OpeningInv', ReadingInv', LogsInv', ReplayInv', LoggedInv',
         DurableInv'
  PROVE  Ind'
  BY DEF Opening, Ind, DownInv, JobInv, RunningInv, GarbageInv, HeldInv, Running

(* And the other way round.                                                *)
LEMMA RunningStep ==
  ASSUME Running', OtherType', DbType', DiskType', DirInv', UnsyncedInv',
         ReadingInv', JobInv', RunningInv', GarbageInv', LogsInv', HeldInv',
         DurableInv'
  PROVE  Ind'
  BY DEF Opening, Ind, DownInv, OpeningInv, ReplayInv, LoggedInv, Running

(* The files that CURRENT leads to are left alone.                         *)
SameCur ==
  /\ disk'.current = disk.current /\ disk'.manifests = disk.manifests
  /\ disk'.logs = disk.logs /\ disk'.synced = disk.synced
  /\ acked' = acked
  /\ HasCur => \A t \in Cur.tables :
                 /\ t \in DOMAIN disk'.tables
                 /\ disk'.tables[t] = disk.tables[t]
  /\ disk.current = 0 => disk'.tables = disk.tables

(* If these files are left alone, all that is said of the directory stays  *)
(* true, and CURRENT leads to the same version.                            *)
LEMMA SameCurStep ==
  ASSUME SameCur, DirInv, LogsInv, DurableInv
  PROVE  /\ DirInv' /\ LogsInv' /\ DurableInv'
         /\ HasCur' = HasCur /\ Cur' = Cur
         /\ HasCur => Tab(Cur.tables)' = Tab(Cur.tables)
<1>1. HasCur' = HasCur /\ Cur' = Cur
  BY DEF SameCur, HasCur, Cur
<1>2. HasCur => Tab(Cur.tables)' = Tab(Cur.tables)
  BY <1>1 DEF SameCur, Tab
<1>3. DirInv'
  BY <1>1 DEF DirInv, SameCur
<1>4. LogsInv'
  BY <1>1, <1>2 DEF LogsInv, SameCur, InLog
<1>5. DurableInv'
  BY <1>1, <1>2 DEF DurableInv, SameCur, InSynced
<1>6. QED
  BY <1>1, <1>2, <1>3, <1>4, <1>5

(* The same for a step that touches no file at all.                        *)
LEMMA SameDiskStep ==
  ASSUME Ind, disk' = disk, acked' = acked
  PROVE  /\ DiskType' /\ DirInv' /\ LogsInv' /\ DurableInv'
         /\ HasCur' = HasCur /\ Cur' = Cur
<1>1. SameCur
  BY DEF SameCur, Ind, DirInv
<1>2. DiskType'
  BY DEF Ind, DiskType
<1>3. QED
  BY <1>1, <1>2, SameCurStep DEF Ind

(* No MANIFEST is written: what NewDb left unsynced stays so, and DB::Open *)
(* still means to replace it.                                              *)
LEMMA UnsyncedStep ==
  ASSUME UnsyncedInv, disk'.current = disk.current,
         disk'.manifests = disk.manifests, disk'.unsynced = disk.unsynced,
         acked' = acked,
         \/ ~Opening' /\ ~Running'
         \/ Opening /\ Opening' /\ (db.save => db'.save)
         \/ Running /\ Running'
  PROVE  UnsyncedInv'
  BY DEF UnsyncedInv, HasCur, Opening, Running

(* DB::Open returns an error without having touched a file.                *)
LEMMA QuietStopStep ==
  ASSUME Ind, OtherType', db' = NoDB, phase' = "down", disk' = disk, acked' = acked
  PROVE  Ind'
<1>1. DiskType' /\ DirInv' /\ LogsInv' /\ DurableInv' /\ UnsyncedInv'
  BY SameDiskStep, UnsyncedStep DEF Ind, Opening, Running
<1>2. QED
  BY <1>1, StopStep

(* What a switch of CURRENT leaves behind are files that nothing refers to.*)
LEMMA LeftoversAre ==
  ASSUME DbType, NEW left \in Leftovers
  PROVE  left \subseteq Strays /\ phase \in {"newdb", "apply"}
<1>1. db.manifest \in Nat
  BY DEF DbType
<1>2. PICK n \in Nat : left \subseteq {<<"manifest", n>>, <<"temp", n>>}
  BY <1>1 DEF Leftovers
<1>3. left \subseteq Strays
  BY <1>2 DEF Strays
<1>4. phase \in {"newdb", "apply"}
  BY DEF Leftovers
<1>5. QED
  BY <1>3, <1>4

(* The rest of the directory is as it was.                                 *)
LEMMA LeftFacts ==
  ASSUME DiskType, DbType, NEW d \in LeftDisks
  PROVE  /\ DOMAIN d = DOMAIN disk /\ d.strays \in SUBSET Strays
         /\ d.current = disk.current /\ d.manifests = disk.manifests
         /\ d.unsynced = disk.unsynced /\ d.logs = disk.logs
         /\ d.synced = disk.synced /\ d.tables = disk.tables
         /\ d.partial = disk.partial
         /\ phase \notin {"newdb", "apply"} => d = disk
<1>1. CASE d = disk
  BY <1>1 DEF DiskType
<1>2. ASSUME NEW left \in Leftovers, d = [disk EXCEPT !.strays = @ \cup left]
      PROVE  /\ DOMAIN d = DOMAIN disk /\ d.strays = disk.strays \cup left
             /\ d.current = disk.current /\ d.manifests = disk.manifests
             /\ d.unsynced = disk.unsynced /\ d.logs = disk.logs
             /\ d.synced = disk.synced /\ d.tables = disk.tables
             /\ d.partial = disk.partial
  BY <1>2 DEF DiskType
<1>3. disk.strays \in SUBSET Strays
  BY DEF DiskType
<1>4. QED
  BY <1>1, <1>2, <1>3, LeftoversAre DEF LeftDisks

(* DB::Open returns an error, or the process dies, and a switch of CURRENT *)
(* may have left files behind.                                             *)
LEMMA LeftStopStep ==
  ASSUME Ind, OtherType', db' = NoDB, phase' = "down", disk' \in LeftDisks,
         acked' = acked
  PROVE  Ind'
<1>1. /\ DOMAIN disk' = DOMAIN disk /\ disk'.strays \in SUBSET Strays
      /\ disk'.current = disk.current /\ disk'.manifests = disk.manifests
      /\ disk'.unsynced = disk.unsynced /\ disk'.logs = disk.logs
      /\ disk'.synced = disk.synced /\ disk'.tables = disk.tables
      /\ disk'.partial = disk.partial
  BY LeftFacts DEF Ind
<1>2. SameCur
  BY <1>1 DEF SameCur, Ind, DirInv
<1>3. DiskType'
  BY <1>1 DEF Ind, DiskType
<1>4. DirInv' /\ LogsInv' /\ DurableInv'
  BY <1>2, SameCurStep DEF Ind
<1>5. UnsyncedInv'
  BY <1>1, UnsyncedStep DEF Ind, Opening, Running
<1>6. QED
  BY <1>3, <1>4, <1>5, StopStep

(* Fields that do not change while logs are recovered.                     *)
SameObject ==
  /\ DOMAIN db' = DOMAIN db /\ db'.manifest = db.manifest
  /\ db'.imm = db.imm /\ db'.hasImm = db.hasImm
  /\ db'.bg_error_ = db.bg_error_ /\ db'.closing = db.closing /\ db'.job = db.job
  /\ db'.refused = db.refused

(* And the results of what has been recovered.                             *)
SameResults ==
  /\ db'.vs = db.vs /\ db'.save = db.save /\ db'.added = db.added
  /\ db'.mem = db.mem /\ db'.active = db.active
  /\ db'.logfile_number_ = db.logfile_number_
  /\ db'.pending_outputs_ = db.pending_outputs_

-----------------------------------------------------------------------------
(* Recovery of the logs.                                                   *)
(* RecoverLogFile opens the next log and starts from its beginning.        *)
LEMMA OpenLogStep ==
  ASSUME Ind, OtherType', OpenLog
  PROVE  Ind'
<1>1. phase = "logs" /\ phase' = "read" /\ disk' = disk /\ result' = result
      /\ acked' = acked /\ opts' = opts
  BY DEF OpenLog
<1>2. /\ SameObject /\ SameResults
      /\ db'.todo = db.todo /\ db'.log = Min(db.todo) /\ db'.pos = db.pos
      /\ db'.rmem = db.rmem /\ db'.hasRmem = db.hasRmem
      /\ db'.compactions = db.compactions /\ db'.final = db.final
      /\ db'.num = db.num /\ db'.maxseq = db.maxseq
  BY DEF OpenLog, Ind, DbType, SameObject, SameResults
<1>3. Min(db.todo) \in db.todo /\ Min(db.todo) \in Nat
  <2>1. db.todo \in SUBSET Nat /\ db.todo # {}
    BY DEF OpenLog, Ind, DbType
  <2>2. QED
    BY <2>1, MinIn
<1>4. Opening /\ Opening'
  BY <1>1 DEF Opening
<1>5. DiskType' /\ DirInv' /\ LogsInv' /\ DurableInv' /\ UnsyncedInv'
  BY <1>1, <1>2, <1>4, SameDiskStep, UnsyncedStep DEF Ind, SameResults
<1>6. DbType'
  BY <1>2, <1>3 DEF Ind, DbType, SameObject, SameResults
<1>7. OpeningInv'
  BY <1>1, <1>2, <1>4 DEF Ind, OpeningInv, SameObject, SameResults, HasCur, Cur,
     Newest, Listed
<1>8. ReadingInv'
  <2>1. db.pos = 0 /\ db.todo \subseteq DOMAIN disk.logs
    BY <1>1, <1>4 DEF Ind, ReadingInv, OpeningInv
  <2>2. 0 <= Len(disk.logs[db'.log])
    BY <1>2, <1>3, <2>1 DEF Ind, DiskType
  <2>3. QED
    BY <1>1, <1>2, <1>3, <2>1, <2>2 DEF Ind, ReadingInv, SameResults
<1>9. ReplayInv' /\ LoggedInv'
  <2>1. db.pos = 0 /\ db.log = 0 /\ 0 \notin DOMAIN disk.logs
    BY <1>1 DEF Ind, ReadingInv, DiskType
  <2>2. ASSUME NEW l \in DOMAIN disk.logs, NEW i \in DOMAIN disk.logs[l]
        PROVE  /\ ToBeRead(l, i) => ToBeRead(l, i)'
               /\ Recovered(l, i) => Recovered(l, i)'
    <3>1. i > 0
      BY DEF Ind, DiskType
    <3>2. QED
      BY <1>1, <1>2, <2>1, <3>1 DEF ToBeRead, Recovered, SameResults, Tab
  <2>3. ReplayInv'
    BY <1>1, <1>4, <2>2 DEF Ind, ReplayInv
  <2>4. \A l : InLog(l)' = InLog(l)
    BY <1>1 DEF InLog
  <2>5. (\A s : Logged(s)' = Logged(s)) /\ Tab(db.added)' = Tab(db.added)
    BY <1>1, <1>2, <2>4 DEF Logged, Tab, SameResults
  <2>6. db.rmem = {}
    BY <1>1 DEF Ind, ReadingInv
  <2>7. LoggedInv'
    BY <1>2, <1>4, <2>4, <2>5, <2>6 DEF Ind, LoggedInv, SameResults
  <2>8. QED
    BY <2>3, <2>7
<1>10. QED
  BY <1>4, <1>5, <1>6, <1>7, <1>8, <1>9, OpeningStep

(* A record is passed over.                                                *)
LEMMA SkipRecordStep ==
  ASSUME Ind, OtherType', SkipRecord, BadRecords
  PROVE  Ind'
<1>1. phase = "read" /\ phase' = "read" /\ disk' = disk /\ result' = result
      /\ acked' = acked /\ opts' = opts /\ db.pos < Len(disk.logs[db.log])
  BY DEF SkipRecord, HasRecord
<1>2. /\ SameObject /\ SameResults
      /\ db'.todo = db.todo /\ db'.log = db.log /\ db'.pos = db.pos + 1
      /\ db'.rmem = db.rmem /\ db'.hasRmem = db.hasRmem
      /\ db'.compactions = db.compactions /\ db'.final = db.final
      /\ db'.num = db.num /\ db'.maxseq = db.maxseq
  BY DEF SkipRecord, Ind, DbType, SameObject, SameResults
<1>4. Opening /\ Opening'
  BY <1>1 DEF Opening
<1>5. DiskType' /\ DirInv' /\ LogsInv' /\ DurableInv' /\ UnsyncedInv'
  BY <1>1, <1>2, <1>4, SameDiskStep, UnsyncedStep DEF Ind, SameResults
<1>6. DbType'
  BY <1>2 DEF Ind, DbType, SameObject, SameResults
<1>7. OpeningInv'
  BY <1>1, <1>2, <1>4 DEF Ind, OpeningInv, SameObject, SameResults, HasCur, Cur,
     Newest, Listed
<1>8. ReadingInv'
  <2>1. db.log \in DOMAIN disk.logs
    BY <1>1, <1>4 DEF Ind, ReadingInv, OpeningInv
  <2>2. db.pos + 1 <= Len(disk.logs[db.log])
    BY <1>1, <2>1 DEF Ind, DiskType, DbType
  <2>3. QED
    BY <1>1, <1>2, <2>2 DEF Ind, ReadingInv, SameResults
<1>9. ReplayInv' /\ LoggedInv'
  BY DEF ReplayInv, LoggedInv, Trusted
<1>10. QED
  BY <1>4, <1>5, <1>6, <1>7, <1>8, <1>9, OpeningStep

(* The record that is read next.                                           *)
Record == disk.logs[db.log][db.pos + 1]

(* The record that reader.ReadRecord is about to return is one of the      *)
(* log's.                                                                  *)
LEMMA RecordFacts ==
  ASSUME Ind, HasRecord
  PROVE  /\ phase = "read" /\ Opening
         /\ db.log \in DOMAIN disk.logs /\ db.log \in db.todo
         /\ db.pos + 1 \in DOMAIN disk.logs[db.log]
         /\ db.pos + 1 <= Len(disk.logs[db.log])
         /\ Record \in Writes /\ Record \in Nat
         /\ Record \in InLog(db.log)
<1>1. phase = "read" /\ Opening /\ db.pos < Len(disk.logs[db.log])
  BY DEF HasRecord, Opening
<1>2. db.log \in DOMAIN disk.logs /\ db.log \in db.todo
  BY <1>1 DEF Ind, ReadingInv, OpeningInv
<1>3. db.pos \in Nat /\ disk.logs[db.log] \in Seq(Writes)
  BY <1>2 DEF Ind, DiskType, DbType
<1>4. db.pos + 1 \in DOMAIN disk.logs[db.log] /\ db.pos + 1 <= Len(disk.logs[db.log])
  BY <1>1, <1>3
<1>5. Record \in Writes /\ Record \in Nat
  <2>1. Record \in Writes
    BY <1>3, <1>4 DEF Record
  <2>2. QED
    BY <2>1, RecoveryAssumption DEF Writes
<1>6. Record \in InLog(db.log)
  BY <1>2, <1>4 DEF InLog, Record
<1>7. QED
  BY <1>1, <1>2, <1>4, <1>5, <1>6

(* The record goes into the memtable, and max_sequence follows it.         *)
LEMMA InsertStep ==
  ASSUME Ind, OtherType', HasRecord, NEW W \in SUBSET {Record},
         W = {Record} \/ BadRecords,
         db' = [db EXCEPT !.pos = @ + 1, !.hasRmem = TRUE, !.rmem = @ \cup W,
                          !.maxseq = Larger(@, Record)],
         disk' = disk, phase' = phase, result' = result, acked' = acked
  PROVE  Ind'
<1>1. /\ phase = "read" /\ Opening
      /\ db.log \in DOMAIN disk.logs /\ db.log \in db.todo
      /\ db.pos + 1 \in DOMAIN disk.logs[db.log]
      /\ db.pos + 1 <= Len(disk.logs[db.log])
      /\ Record \in Writes /\ Record \in Nat
      /\ Record \in InLog(db.log)
  BY RecordFacts
<1>2. /\ SameObject /\ SameResults
      /\ db'.todo = db.todo /\ db'.log = db.log /\ db'.pos = db.pos + 1
      /\ db'.rmem = db.rmem \cup W /\ db'.hasRmem = TRUE
      /\ db'.compactions = db.compactions /\ db'.final = db.final
      /\ db'.num = db.num /\ db'.maxseq = Larger(db.maxseq, Record)
  BY DEF Ind, DbType, SameObject, SameResults
<1>3. Newest' \in Nat /\ Newest' >= Newest /\ Newest' >= Record /\ Newest \in Nat
  BY <1>1, <1>2 DEF Newest, Larger, Ind, DbType, Version, SameResults
<1>4. Opening'
  BY <1>1 DEF Opening
<1>5. DiskType' /\ DirInv' /\ LogsInv' /\ DurableInv' /\ UnsyncedInv'
  BY <1>1, <1>2, <1>4, SameDiskStep, UnsyncedStep DEF Ind, SameResults
<1>6. DbType'
  BY <1>1, <1>2 DEF Ind, DbType, SameObject, SameResults, Larger, Writes
<1>7. OpeningInv'
  <2>1. \A t \in db'.added : /\ t < db'.vs.next /\ t \in DOMAIN disk'.tables
                             /\ \A s \in disk'.tables[t] : s <= Newest'
    BY <1>1, <1>2, <1>3 DEF Ind, OpeningInv, SameResults, DiskType, Writes
  <2>2. \A s \in db'.rmem \cup db'.mem : s <= Newest'
    BY <1>1, <1>2, <1>3 DEF Ind, OpeningInv, SameResults, DbType, Writes
  <2>3. QED
    BY <1>1, <1>2, <1>4, <2>1, <2>2 DEF Ind, OpeningInv, SameObject, SameResults,
       HasCur, Cur, Listed
<1>8. ReadingInv'
  BY <1>1, <1>2 DEF Ind, ReadingInv, SameResults
<1>9. ReplayInv' /\ LoggedInv'
  <2>1. ASSUME Trusted, NEW l \in DOMAIN disk.logs, NEW i \in DOMAIN disk.logs[l]
        PROVE  ToBeRead(l, i)' \/ Recovered(l, i)'
    <3>1. ToBeRead(l, i) \/ Recovered(l, i)
      BY <1>1, <2>1 DEF Ind, ReplayInv
    <3>2. i \in Nat /\ db.pos \in Nat
      BY DEF Ind, DiskType, DbType
    <3>3. i > db.pos => i > db.pos + 1 \/ i = db.pos + 1
      BY <3>2
    <3>4. W = {Record}
      BY <2>1 DEF Trusted
    <3>5. l = db.log /\ i = db.pos + 1 => disk.logs[l][i] = Record
      BY DEF Record
    <3>6. QED
      BY <1>2, <3>1, <3>3, <3>4, <3>5 DEF ToBeRead, Recovered, SameResults, Tab
  <2>2. ReplayInv'
    BY <2>1 DEF ReplayInv
  <2>3. LoggedInv'
    <3>1. \A l : InLog(l)' = InLog(l)
      BY DEF InLog
    <3>2. Tab(db.added)' = Tab(db.added) /\ (\A s : Logged(s)' = Logged(s))
      BY <1>2, <3>1 DEF Tab, SameResults, Logged
    <3>3. QED
      BY <1>1, <1>2, <3>1, <3>2 DEF Ind, LoggedInv, SameResults
  <2>4. QED
    BY <2>2, <2>3
<1>10. QED
  BY <1>4, <1>5, <1>6, <1>7, <1>8, <1>9, OpeningStep

(* MarkFileNumberUsed of the log that is done with.                        *)
Marked == [db.vs EXCEPT !.next = Larger(db.vs.next, Min(db.todo) + 1)]

(* Only the next file number changes, and no lower than beyond the log.    *)
LEMMA MarkedFacts ==
  ASSUME Ind, db.todo # {}
  PROVE  /\ Min(db.todo) \in db.todo /\ Min(db.todo) \in Nat
         /\ Marked \in Version /\ Marked.next \in Nat
         /\ Marked.next >= db.vs.next /\ Marked.next > Min(db.todo)
         /\ Marked.log = db.vs.log /\ Marked.prev = db.vs.prev
         /\ Marked.seq = db.vs.seq /\ Marked.tables = db.vs.tables
<1>1. Min(db.todo) \in db.todo /\ Min(db.todo) \in Nat
  BY MinIn DEF Ind, DbType
<1>2. db.vs \in Version /\ db.vs.next \in Nat
  BY DEF Ind, DbType, Version
<1>3. /\ Larger(db.vs.next, Min(db.todo) + 1) \in Nat
      /\ Larger(db.vs.next, Min(db.todo) + 1) >= db.vs.next
      /\ Larger(db.vs.next, Min(db.todo) + 1) > Min(db.todo)
  BY <1>1, <1>2 DEF Larger
<1>4. QED
  BY <1>1, <1>2, <1>3, VersionNext DEF Marked

(* Nothing is left of a log that has not been opened or has been read.     *)
LEMMA LogDoneStep ==
  ASSUME Ind, OtherType', Opening, db.todo # {}, db' = LogDone(db),
         \/ phase = "logs" /\ ~Trusted
         \/ LogRead /\ ~db.hasRmem,
         phase' = "logs", disk' = disk, result' = result, acked' = acked
  PROVE  Ind'
<1>1. /\ phase \in {"logs", "read"} /\ Opening'
      /\ db.rmem = {} /\ db.pending_outputs_ = {}
  BY DEF Ind, ReadingInv, OpeningInv, LogRead, Opening
<1>3. /\ SameObject
      /\ db'.vs = Marked
      /\ db'.save = db.save /\ db'.added = db.added
      /\ db'.mem = db.mem /\ db'.active = db.active
      /\ db'.logfile_number_ = db.logfile_number_
      /\ db'.pending_outputs_ = db.pending_outputs_
      /\ db'.todo = db.todo \ {Min(db.todo)} /\ db'.log = 0 /\ db'.pos = 0
      /\ db'.rmem = {} /\ db'.hasRmem = FALSE
      /\ db'.compactions = FALSE /\ db'.final = FALSE
      /\ db'.num = 0 /\ db'.maxseq = db.maxseq
  BY DEF LogDone, Ind, DbType, SameObject, Marked
<1>4. /\ db'.vs \in Version /\ db'.vs.next \in Nat
      /\ db'.vs.next >= db.vs.next /\ db'.vs.next > Min(db.todo)
      /\ db'.vs.log = db.vs.log /\ db'.vs.prev = db.vs.prev
      /\ db'.vs.seq = db.vs.seq /\ db'.vs.tables = db.vs.tables
      /\ Min(db.todo) \in db.todo /\ Min(db.todo) \in Nat
  BY <1>3, MarkedFacts
<1>5. DiskType' /\ DirInv' /\ LogsInv' /\ DurableInv' /\ UnsyncedInv'
  BY <1>1, <1>3, SameDiskStep, UnsyncedStep DEF Ind
<1>6. DbType'
  <2>1. DOMAIN db' = DOMAIN db /\ db'.job \in Job
    BY <1>3 DEF Ind, DbType, SameObject
  <2>2. db'.todo \subseteq Nat
    BY <1>3 DEF Ind, DbType
  <2>3. /\ db'.manifest \in Nat /\ db'.log \in Nat /\ db'.pos \in Nat
        /\ db'.num \in Nat /\ db'.maxseq \in Nat /\ db'.active \in Nat
        /\ db'.logfile_number_ \in Nat
    BY <1>3 DEF Ind, DbType, SameObject
  <2>4. QED
    BY <1>3, <1>4, <2>1, <2>2, <2>3 DEF Ind, DbType, SameObject
<1>7. OpeningInv'
  <2>1. Newest' = Newest
    BY <1>3, <1>4 DEF Newest
  <2>2. db.vs.next \in Nat /\ Cur.next \in Nat
    BY DEF Ind, OpeningInv, DbType, DiskType, Version, HasCur, Cur
  <2>3. \A t \in db'.added : /\ t < db'.vs.next /\ t \in DOMAIN disk'.tables
                             /\ \A s \in disk'.tables[t] : s <= Newest'
    BY <1>3, <1>4, <2>1, <2>2 DEF Ind, OpeningInv, DbType
  <2>4. \A l \in Listed(DOMAIN disk.logs) : l < db'.vs.next \/ l \in db'.todo
    BY <1>3, <1>4, <2>2 DEF Ind, OpeningInv, DiskType, Listed
  <2>5. db'.active # 0 => db'.active < db'.vs.next
    BY <1>3, <1>4, <2>2 DEF Ind, OpeningInv, DbType
  <2>6. /\ db'.vs.next >= Cur.next
        /\ \/ db'.manifest = disk'.current
           \/ db'.save /\ db'.manifest >= Cur.next /\ db'.manifest < db'.vs.next
    BY <1>3, <1>4, <2>2 DEF Ind, OpeningInv, DbType, SameObject
  <2>7. QED
    BY <1>1, <1>3, <1>4, <2>1, <2>3, <2>4, <2>5, <2>6 DEF Ind, OpeningInv,
       SameObject, HasCur, Cur, Listed
<1>8. ReadingInv'
  BY <1>1, <1>3 DEF Ind, ReadingInv
<1>9. ReplayInv' /\ LoggedInv'
  <2>1. CASE ~Trusted
    BY <2>1 DEF ReplayInv, LoggedInv
  <2>2. CASE Trusted
    <3>1. db.log = Min(db.todo) /\ db.pos = Len(disk.logs[db.log])
      BY <2>2 DEF LogRead, Ind, ReadingInv
    <3>2. ASSUME NEW l \in DOMAIN disk.logs, NEW i \in DOMAIN disk.logs[l]
          PROVE  ToBeRead(l, i)' \/ Recovered(l, i)'
      <4>1. ToBeRead(l, i) \/ Recovered(l, i)
        BY <2>2 DEF Ind, ReplayInv
      <4>2. i \in Nat /\ i <= Len(disk.logs[l]) /\ Len(disk.logs[l]) \in Nat /\ i > 0
        BY DEF Ind, DiskType
      <4>3. ~(l = db.log /\ i > db.pos)
        BY <3>1, <4>2
      <4>4. ToBeRead(l, i) => ToBeRead(l, i)'
        BY <1>3, <3>1, <4>2, <4>3 DEF ToBeRead
      <4>5. Recovered(l, i) => Recovered(l, i)'
        BY <1>1, <1>3, <1>4 DEF Recovered, Tab
      <4>6. QED
        BY <4>1, <4>4, <4>5
    <3>3. ReplayInv'
      BY <3>2 DEF ReplayInv
    <3>4. LoggedInv'
      BY <2>2, <1>3 DEF Ind, LoggedInv, Logged, InLog, Tab
    <3>5. QED
      BY <3>3, <3>4
  <2>3. QED
    BY <2>1, <2>2
<1>10. QED
  BY <1>1, <1>5, <1>6, <1>7, <1>8, <1>9, OpeningStep

(* The last log becomes the open log: what was read of it is kept as mem_  *)
(* instead of being written to a table (options_.reuse_logs).              *)
LEMMA ReuseLogStep ==
  ASSUME Ind, OtherType', ReuseLog
  PROVE  Ind'
<1>1. /\ phase = "read" /\ Opening /\ phase' = "logs" /\ Opening'
      /\ disk' = disk /\ result' = result /\ acked' = acked
      /\ db.pos = Len(disk.logs[db.log]) /\ db.todo = {db.log}
      /\ db.log = Min(db.todo) /\ db.todo # {} /\ db.active = 0
      /\ db.mem = {} /\ db.log \in DOMAIN disk.logs /\ db.log >= db.vs.log
      /\ db.pending_outputs_ = {}
  <2>1. phase = "read" /\ phase' = "logs" /\ db.todo = {db.log}
        /\ disk' = disk /\ result' = result /\ acked' = acked
        /\ db.pos = Len(disk.logs[db.log])
    BY DEF ReuseLog, LogRead, CanReuse
  <2>2. Opening /\ Opening' /\ db.todo # {}
    BY <2>1 DEF Opening
  <2>3. QED
    BY <2>1, <2>2 DEF Ind, OpeningInv, ReadingInv
<1>3. /\ SameObject
      /\ db'.vs = Marked
      /\ db'.save = db.save /\ db'.added = db.added
      /\ db'.mem = db.rmem /\ db'.active = db.log
      /\ db'.logfile_number_ = db.log
      /\ db'.pending_outputs_ = db.pending_outputs_
      /\ db'.todo = db.todo \ {Min(db.todo)} /\ db'.log = 0 /\ db'.pos = 0
      /\ db'.rmem = {} /\ db'.hasRmem = FALSE
      /\ db'.compactions = FALSE /\ db'.final = FALSE
      /\ db'.num = 0 /\ db'.maxseq = db.maxseq
  BY DEF ReuseLog, LogDone, Ind, DbType, SameObject, Marked
<1>4. /\ db'.vs \in Version /\ db'.vs.next \in Nat
      /\ db'.vs.next >= db.vs.next /\ db'.vs.next > Min(db.todo)
      /\ db'.vs.log = db.vs.log /\ db'.vs.prev = db.vs.prev
      /\ db'.vs.seq = db.vs.seq /\ db'.vs.tables = db.vs.tables
      /\ Min(db.todo) \in db.todo /\ Min(db.todo) \in Nat
  BY <1>1, <1>3, MarkedFacts
<1>5. DiskType' /\ DirInv' /\ LogsInv' /\ DurableInv' /\ UnsyncedInv'
  BY <1>1, <1>3, SameDiskStep, UnsyncedStep DEF Ind
<1>6. DbType'
  <2>1. DOMAIN db' = DOMAIN db /\ db'.job \in Job
    BY <1>3 DEF Ind, DbType, SameObject
  <2>2. db'.todo \subseteq Nat
    BY <1>3 DEF Ind, DbType
  <2>3. /\ db'.manifest \in Nat /\ db'.log \in Nat /\ db'.pos \in Nat
        /\ db'.num \in Nat /\ db'.maxseq \in Nat /\ db'.active \in Nat
        /\ db'.logfile_number_ \in Nat
    BY <1>3 DEF Ind, DbType, SameObject
  <2>4. QED
    BY <1>3, <1>4, <2>1, <2>2, <2>3 DEF Ind, DbType, SameObject
<1>7. OpeningInv'
  <2>1. Newest' = Newest
    BY <1>3, <1>4 DEF Newest
  <2>2. db.vs.next \in Nat /\ Cur.next \in Nat
    BY <1>1 DEF Ind, OpeningInv, DbType, DiskType, Version, HasCur, Cur
  <2>3. \A t \in db'.added : /\ t < db'.vs.next /\ t \in DOMAIN disk'.tables
                             /\ \A s \in disk'.tables[t] : s <= Newest'
    BY <1>1, <1>3, <1>4, <2>1, <2>2 DEF Ind, OpeningInv, DbType
  <2>4. \A l \in Listed(DOMAIN disk.logs) : l < db'.vs.next \/ l \in db'.todo
    <3>1. \A l \in Listed(DOMAIN disk.logs) : l \in Nat /\ (l < db.vs.next \/ l \in db.todo)
      BY <1>1 DEF Ind, OpeningInv, DiskType, Listed
    <3>2. QED
      BY <1>3, <1>4, <2>2, <3>1
  <2>5. db'.active < db'.vs.next /\ db'.active \in DOMAIN disk'.logs
        /\ db'.vs.log <= db'.active /\ db'.todo = {} /\ db'.active # 0
    BY <1>1, <1>3, <1>4, <2>2 DEF Ind, DiskType
  <2>6. /\ db'.vs.next >= Cur.next
        /\ \/ db'.manifest = disk'.current
           \/ db'.save /\ db'.manifest >= Cur.next /\ db'.manifest < db'.vs.next
    BY <1>1, <1>3, <1>4, <2>2 DEF Ind, OpeningInv, DbType, SameObject
  <2>7. QED
    BY <1>1, <1>3, <1>4, <2>1, <2>3, <2>4, <2>5, <2>6 DEF Ind, OpeningInv,
       SameObject, HasCur, Cur, Listed
<1>8. ReadingInv'
  BY <1>1, <1>3 DEF Ind, ReadingInv
<1>9. ReplayInv' /\ LoggedInv'
  <2>1. ASSUME Trusted, NEW l \in DOMAIN disk.logs, NEW i \in DOMAIN disk.logs[l]
        PROVE  ToBeRead(l, i)' \/ Recovered(l, i)'
    <3>1. ToBeRead(l, i) \/ Recovered(l, i)
      BY <1>1, <2>1 DEF Ind, ReplayInv
    <3>2. i \in Nat /\ i <= Len(disk.logs[l]) /\ Len(disk.logs[l]) \in Nat
      BY DEF Ind, DiskType
    <3>3. ~ToBeRead(l, i)
      BY <1>1, <3>2 DEF ToBeRead
    <3>4. db.active \notin DOMAIN disk.logs
      BY <1>1 DEF Ind, DiskType
    <3>5. Recovered(l, i) => Recovered(l, i)'
      BY <1>1, <1>3, <1>4, <3>4 DEF Recovered, Tab
    <3>6. QED
      BY <3>1, <3>3, <3>5
  <2>2. ReplayInv'
    BY <1>1, <2>1 DEF ReplayInv
  <2>3. LoggedInv'
    <3>1. \A l : InLog(l)' = InLog(l)
      BY <1>1 DEF InLog
    <3>2. (\A s : Logged(s)' = Logged(s)) /\ Tab(db.added)' = Tab(db.added)
      BY <1>1, <1>3, <3>1 DEF Logged, Tab
    <3>3. QED
      BY <1>1, <1>3, <3>1, <3>2 DEF Ind, LoggedInv
  <2>4. QED
    BY <2>2, <2>3
<1>10. QED
  BY <1>1, <1>5, <1>6, <1>7, <1>8, <1>9, OpeningStep

(* The end of Recover.                                                     *)
LEMMA RecoverReturnsStep ==
  ASSUME Ind, OtherType', RecoverReturns
  PROVE  Ind'
<1>1. /\ phase = "logs" /\ Opening /\ phase' = "newlog" /\ Opening'
      /\ disk' = disk /\ result' = result /\ acked' = acked /\ db.todo = {}
  BY DEF RecoverReturns, Opening
<1>3. /\ SameObject
      /\ db'.vs = [db.vs EXCEPT !.seq = Larger(db.vs.seq, db.maxseq)]
      /\ db'.save = db.save /\ db'.added = db.added
      /\ db'.mem = db.mem /\ db'.active = db.active
      /\ db'.logfile_number_ = db.logfile_number_
      /\ db'.pending_outputs_ = db.pending_outputs_
      /\ db'.todo = db.todo /\ db'.log = db.log /\ db'.pos = db.pos
      /\ db'.rmem = db.rmem /\ db'.hasRmem = db.hasRmem
      /\ db'.compactions = db.compactions /\ db'.final = db.final
      /\ db'.num = db.num /\ db'.maxseq = 0
  BY DEF RecoverReturns, Ind, DbType, SameObject
<1>4. /\ db'.vs \in Version /\ db'.vs.next = db.vs.next
      /\ db'.vs.log = db.vs.log /\ db'.vs.prev = db.vs.prev
      /\ db'.vs.seq \in Nat /\ db'.vs.seq = Newest /\ db'.vs.seq >= db.vs.seq
      /\ db'.vs.tables = db.vs.tables
  <2>1. db.vs \in Version /\ db.vs.seq \in Nat /\ db.maxseq \in Nat
    BY DEF Ind, DbType, Version
  <2>2. Larger(db.vs.seq, db.maxseq) \in Nat
        /\ Larger(db.vs.seq, db.maxseq) >= db.vs.seq
    BY <2>1 DEF Larger
  <2>3. QED
    BY <1>3, <2>1, <2>2, VersionSeq DEF Newest
<1>5. DiskType' /\ DirInv' /\ LogsInv' /\ DurableInv' /\ UnsyncedInv'
  BY <1>1, <1>3, SameDiskStep, UnsyncedStep DEF Ind
<1>6. DbType'
  BY <1>3, <1>4 DEF Ind, DbType, SameObject
<1>7. OpeningInv'
  <2>1. Newest' = Newest
    BY <1>3, <1>4 DEF Newest, Larger
  <2>2. Cur.seq \in Nat /\ db.vs.seq \in Nat
    BY <1>1 DEF Ind, OpeningInv, DiskType, Version, HasCur, Cur, DbType
  <2>3. db'.vs.seq >= Cur.seq
    BY <1>1, <1>4, <2>2 DEF Ind, OpeningInv
  <2>4. QED
    BY <1>1, <1>3, <1>4, <2>1, <2>3 DEF Ind, OpeningInv,
       SameObject, HasCur, Cur, Listed
<1>8. ReadingInv'
  BY <1>1, <1>3 DEF Ind, ReadingInv
<1>9. ReplayInv' /\ LoggedInv'
  <2>1. \A l, i : /\ ToBeRead(l, i) => ToBeRead(l, i)'
                  /\ Recovered(l, i) => Recovered(l, i)'
    BY <1>1, <1>3, <1>4 DEF ToBeRead, Recovered, Tab
  <2>2. ReplayInv'
    BY <1>1, <2>1 DEF Ind, ReplayInv
  <2>3. LoggedInv'
    <3>1. \A l : InLog(l)' = InLog(l)
      BY <1>1 DEF InLog
    <3>2. (\A s : Logged(s)' = Logged(s)) /\ Tab(db.added)' = Tab(db.added)
      BY <1>1, <1>3, <3>1 DEF Logged, Tab
    <3>3. QED
      BY <1>1, <1>3, <3>1, <3>2 DEF Ind, LoggedInv
  <2>4. QED
    BY <2>2, <2>3
<1>10. QED
  BY <1>1, <1>5, <1>6, <1>7, <1>8, <1>9, OpeningStep

-----------------------------------------------------------------------------
(* Tables written by recovery.                                             *)

(* A file that is created truncates no table but its own.                  *)
LEMMA NewTableStep ==
  ASSUME DiskType, HasCur, NEW n \in Nat, n \notin Cur.tables,
         disk' = disk \/ disk' = NewTableFile(n), acked' = acked, DirInv
  PROVE  /\ DiskType' /\ SameCur
         /\ disk'.unsynced = disk.unsynced /\ disk'.strays = disk.strays
         /\ DOMAIN disk'.tables \cup disk'.partial
              \subseteq DOMAIN disk.tables \cup disk.partial \cup {n}
         /\ \A t \in DOMAIN disk.tables \ {n} : /\ t \in DOMAIN disk'.tables
                                                /\ disk'.tables[t] = disk.tables[t]
<1>0. disk.current # 0
  BY DEF DiskType, HasCur
<1>1. CASE disk' = disk
  BY <1>0, <1>1 DEF DiskType, SameCur, DirInv
<1>2. CASE disk' = NewTableFile(n)
  <2>1. /\ DOMAIN disk' = DOMAIN disk /\ disk'.strays = disk.strays
        /\ disk'.current = disk.current /\ disk'.manifests = disk.manifests
        /\ disk'.unsynced = disk.unsynced
        /\ disk'.logs = disk.logs /\ disk'.synced = disk.synced
        /\ disk'.tables = Without(disk.tables, {n})
        /\ disk'.partial = disk.partial \cup {n}
    BY <1>2 DEF DiskType, NewTableFile
  <2>2. /\ DOMAIN disk'.tables = DOMAIN disk.tables \ {n}
        /\ \A t \in DOMAIN disk.tables \ {n} : disk'.tables[t] = disk.tables[t]
    <3>1. /\ DOMAIN Without(disk.tables, {n}) = DOMAIN disk.tables \ {n}
          /\ \A t \in DOMAIN disk.tables \ {n} :
               Without(disk.tables, {n})[t] = disk.tables[t]
      BY WithoutFacts, Zenon
    <3>2. QED
      BY <2>1, <3>1
  <2>3. disk'.tables \in [DOMAIN disk'.tables -> SUBSET Writes]
    <3>1. disk.tables \in [DOMAIN disk.tables -> SUBSET Writes]
      BY DEF DiskType
    <3>2. Without(disk.tables, {n}) \in [DOMAIN Without(disk.tables, {n}) -> SUBSET Writes]
      BY <3>1, WithoutType, Zenon
    <3>3. QED
      BY <2>1, <3>2
  <2>4. DiskType'
    BY <2>1, <2>2, <2>3 DEF DiskType
  <2>5. SameCur
    BY <1>0, <2>1, <2>2 DEF DirInv, SameCur
  <2>6. QED
    BY <2>1, <2>2, <2>4, <2>5
<1>3. QED
  BY <1>1, <1>2

(* WriteLevel10Table begins, at record p of the log, with what is in the   *)
(* memtable by then.                                                       *)
LEMMA BeginBuildStep ==
  ASSUME Ind, OtherType', phase = "read", phase' = "build",
         result' = result, acked' = acked,
         SameObject, db'.vs = [db.vs EXCEPT !.next = db.vs.next + 1],
         db'.save = TRUE, db'.added = db.added, db'.mem = db.mem,
         db'.active = db.active, db'.logfile_number_ = db.logfile_number_,
         db'.pending_outputs_ = db.pending_outputs_ \cup {db.vs.next},
         db'.num = db.vs.next, db'.todo = db.todo, db'.log = db.log,
         db'.compactions \in BOOLEAN, db'.final \in BOOLEAN, db'.hasRmem = TRUE,
         db'.maxseq \in Nat, db'.maxseq >= db.maxseq,
         db'.pos \in Nat, db'.pos <= Len(disk.logs[db.log]),
         db'.final => db'.pos = Len(disk.logs[db.log]),
         db'.rmem \subseteq Writes, db.rmem \subseteq db'.rmem,
         \A s \in db'.rmem : s <= Newest',
         Trusted => db'.rmem \subseteq InLog(db.log),
         Trusted => \A i \in DOMAIN disk.logs[db.log] :
                      i > db.pos => i > db'.pos \/ disk.logs[db.log][i] \in db'.rmem,
         disk' = disk \/ disk' = NewTableFile(db.vs.next)
  PROVE  Ind'
<1>1. /\ Opening /\ Opening' /\ HasCur
      /\ db.vs.tables = Cur.tables /\ db.vs.next >= Cur.next
      /\ db.pending_outputs_ = {}
  <2>1. Opening /\ Opening'
    BY DEF Opening
  <2>2. QED
    BY <2>1 DEF Ind, OpeningInv, ReadingInv
<1>2. /\ db.vs \in Version /\ db.vs.next \in Nat /\ db.vs.seq \in Nat
      /\ Cur \in Version /\ Cur.next \in Nat /\ Cur.tables \subseteq Nat
  BY <1>1 DEF Ind, DbType, DiskType, Version, HasCur, Cur
<1>3. \A t \in Cur.tables : t < db.vs.next
  <2>1. \A t \in Cur.tables : t \in Nat /\ t < Cur.next
    BY <1>1, <1>2 DEF Ind, DirInv
  <2>2. QED
    BY <1>1, <1>2, <2>1
<1>4. /\ db'.vs \in Version /\ db'.vs.next = db.vs.next + 1
      /\ db'.vs.log = db.vs.log /\ db'.vs.prev = db.vs.prev
      /\ db'.vs.seq = db.vs.seq /\ db'.vs.tables = db.vs.tables
  <2>1. db.vs.next + 1 \in Nat
    BY <1>2
  <2>2. QED
    BY <1>2, <2>1, VersionNext
<1>5. /\ DiskType' /\ SameCur
      /\ disk'.unsynced = disk.unsynced
      /\ \A t \in DOMAIN disk.tables \ {db.vs.next} :
           /\ t \in DOMAIN disk'.tables
           /\ disk'.tables[t] = disk.tables[t]
  BY <1>1, <1>2, <1>3, NewTableStep DEF Ind
<1>6. /\ DirInv' /\ LogsInv' /\ DurableInv' /\ HasCur' = HasCur /\ Cur' = Cur
  BY <1>5, SameCurStep DEF Ind
<1>7. UnsyncedInv'
  BY <1>1, <1>5, UnsyncedStep DEF Ind, SameCur
<1>8. DbType'
  <2>1. DOMAIN db' = DOMAIN db /\ db'.job \in Job /\ db'.pending_outputs_ \subseteq Nat
    BY <1>2 DEF Ind, DbType, SameObject
  <2>2. QED
    BY <1>2, <1>4, <2>1 DEF Ind, DbType, SameObject
<1>9. Newest \in Nat /\ Newest' \in Nat /\ Newest' >= Newest
  BY <1>2, <1>4 DEF Newest, Larger, Ind, DbType
<1>10. \A t \in db.added : /\ t < db.vs.next /\ t < db'.vs.next
                           /\ t \in DOMAIN disk'.tables
                           /\ disk'.tables[t] = disk.tables[t]
                           /\ \A s \in disk'.tables[t] : s <= Newest'
  <2>1. \A t \in db.added : /\ t \in Nat /\ t < db.vs.next
                            /\ t \in DOMAIN disk.tables
                            /\ \A s \in disk.tables[t] : s \in Writes /\ s <= Newest
    BY <1>1 DEF Ind, OpeningInv, DbType, DiskType
  <2>2. \A s \in Writes : s <= Newest => s <= Newest'
    BY <1>9, RecoveryAssumption DEF Writes
  <2>3. QED
    BY <1>2, <1>4, <1>5, <2>1, <2>2
<1>11. OpeningInv'
  <2>1. \A s \in db'.rmem \cup db'.mem : s <= Newest'
    <3>1. \A s \in db.mem : s \in Writes /\ s <= Newest
      BY <1>1 DEF Ind, OpeningInv, DbType
    <3>2. QED
      BY <1>9, <3>1, RecoveryAssumption DEF Writes
  <2>2. \A l \in Listed(DOMAIN disk'.logs) : l < db'.vs.next \/ l \in db'.todo
    <3>1. \A l \in Listed(DOMAIN disk.logs) : l \in Nat /\ (l < db.vs.next \/ l \in db.todo)
      BY <1>1 DEF Ind, OpeningInv, DiskType, Listed
    <3>2. QED
      BY <1>2, <1>4, <1>5, <3>1 DEF SameCur
  <2>3. db'.active # 0 => db'.active < db'.vs.next
    BY <1>1, <1>2, <1>4 DEF Ind, OpeningInv, DbType
  <2>4. /\ db'.vs.next >= Cur.next
        /\ \/ db'.manifest = disk'.current
           \/ db'.save /\ db'.manifest >= Cur.next /\ db'.manifest < db'.vs.next
    BY <1>1, <1>2, <1>4, <1>5 DEF Ind, OpeningInv, DbType, SameObject, SameCur
  <2>5. QED
    BY <1>1, <1>4, <1>5, <1>6, <1>10, <2>1, <2>2, <2>3, <2>4 DEF Ind, OpeningInv,
       SameObject, SameCur
<1>12. ReadingInv'
  <2>1. db.log \in db.todo /\ db.log = Min(db.todo)
    BY DEF Ind, ReadingInv
  <2>2. db'.pending_outputs_ = {db'.num} /\ Cur.next <= db'.num /\ db'.num < db'.vs.next
    BY <1>1, <1>2, <1>4
  <2>3. \A t \in db'.vs.tables \cup db'.added : t < db'.num
    BY <1>1, <1>3, <1>4, <1>10
  <2>4. QED
    BY <1>5, <1>6, <2>1, <2>2, <2>3 DEF ReadingInv, SameCur
<1>13. Tab(db.vs.tables \cup db.added)' = Tab(db.vs.tables \cup db.added)
       /\ Tab(db.added)' = Tab(db.added)
  <2>1. \A t \in db.vs.tables \cup db.added : disk'.tables[t] = disk.tables[t]
    BY <1>1, <1>5, <1>10 DEF SameCur
  <2>2. QED
    BY <1>4, <2>1 DEF Tab
<1>14. ReplayInv'
  <2>1. ASSUME Trusted, NEW l \in DOMAIN disk.logs, NEW i \in DOMAIN disk.logs[l]
        PROVE  ToBeRead(l, i)' \/ Recovered(l, i)'
    <3>1. ToBeRead(l, i) \/ Recovered(l, i)
      BY <1>1, <2>1 DEF Ind, ReplayInv
    <3>2. Recovered(l, i) => Recovered(l, i)'
      BY <1>5, <1>13 DEF Recovered, SameCur
    <3>3. ToBeRead(l, i) => ToBeRead(l, i)' \/ Recovered(l, i)'
      BY <1>5, <2>1 DEF ToBeRead, Recovered, SameCur
    <3>4. QED
      BY <3>1, <3>2, <3>3
  <2>2. QED
    BY <1>5, <2>1 DEF ReplayInv, SameCur
<1>15. LoggedInv'
  BY <1>1, <1>5, <1>13 DEF Ind, LoggedInv, Logged, InLog, SameCur
<1>16. QED
  BY <1>1, <1>5, <1>6, <1>7, <1>8, <1>11, <1>12, <1>14, <1>15, OpeningStep

(* The next record, or what is inserted of it, with or without a table.    *)
LEMMA InsertAnyStep ==
  ASSUME Ind, OtherType', HasRecord, NEW W \in SUBSET {Record},
         W = {Record} \/ BadRecords, Insert(W), result' = result, acked' = acked
  PROVE  Ind'
<1> DEFINE d == [db EXCEPT !.pos = @ + 1, !.hasRmem = TRUE, !.rmem = @ \cup W,
                           !.maxseq = Larger(@, Record)]
<1>1. \/ db' = d /\ UNCHANGED <<disk, phase>>
      \/ BeginBuild([d EXCEPT !.compactions = TRUE])
  BY DEF Insert, Record
<1>2. CASE db' = d /\ UNCHANGED <<disk, phase>>
  BY <1>2, InsertStep
<1>3. CASE BeginBuild([d EXCEPT !.compactions = TRUE])
  <2>1. /\ phase = "read" /\ Opening
        /\ db.log \in DOMAIN disk.logs /\ db.log \in db.todo
        /\ db.pos + 1 \in DOMAIN disk.logs[db.log]
        /\ db.pos + 1 <= Len(disk.logs[db.log])
        /\ Record \in Writes /\ Record \in Nat /\ Record \in InLog(db.log)
    BY RecordFacts
  <2>2. /\ SameObject /\ db'.vs = [db.vs EXCEPT !.next = db.vs.next + 1]
        /\ db'.save = TRUE /\ db'.added = db.added /\ db'.mem = db.mem
        /\ db'.active = db.active /\ db'.logfile_number_ = db.logfile_number_
        /\ db'.pending_outputs_ = db.pending_outputs_ \cup {db.vs.next}
        /\ db'.num = db.vs.next /\ db'.todo = db.todo /\ db'.log = db.log
        /\ db'.compactions = TRUE /\ db'.final = db.final /\ db'.hasRmem = TRUE
        /\ db'.maxseq = Larger(db.maxseq, Record)
        /\ db'.pos = db.pos + 1 /\ db'.rmem = db.rmem \cup W
    BY <1>3 DEF BeginBuild, StartTable, Ind, DbType, SameObject
  <2>3. phase' = "build" /\ (disk' = disk \/ disk' = NewTableFile(db.vs.next))
    BY <1>3 DEF BeginBuild, Ind, DbType
  <2>4. /\ db.vs.seq \in Nat /\ db.maxseq \in Nat /\ db.pos \in Nat
        /\ db.rmem \subseteq Writes /\ ~db.final /\ db.final \in BOOLEAN
        /\ \A s \in db.rmem : s \in Nat /\ s <= Newest
    <3>1. /\ db.vs.seq \in Nat /\ db.maxseq \in Nat /\ db.pos \in Nat
          /\ db.rmem \subseteq Writes /\ db.final \in BOOLEAN
      BY DEF Ind, DbType, Version
    <3>2. ~db.final /\ \A s \in db.rmem : s <= Newest
      BY <2>1 DEF Ind, ReadingInv, OpeningInv
    <3>3. QED
      BY <3>1, <3>2, RecoveryAssumption DEF Writes
  <2>5. /\ Newest \in Nat /\ Newest' \in Nat /\ Newest' >= Newest
        /\ Newest' >= Record /\ db'.maxseq \in Nat /\ db'.maxseq >= db.maxseq
    <3>1. db'.vs.seq = db.vs.seq
      <4>1. db.vs \in Version /\ db.vs.next + 1 \in Nat
        BY DEF Ind, DbType, Version
      <4>2. QED
        BY <2>2, <4>1, VersionNext
    <3>2. QED
      BY <2>1, <2>2, <2>4, <3>1 DEF Newest, Larger
  <2>6. \A s \in db'.rmem : s \in Writes /\ s <= Newest'
    BY <2>1, <2>2, <2>4, <2>5
  <2>7. Trusted => db'.rmem \subseteq InLog(db.log)
    BY <2>1, <2>2 DEF Ind, LoggedInv
  <2>8. Trusted => \A i \in DOMAIN disk.logs[db.log] :
                     i > db.pos => i > db'.pos \/ disk.logs[db.log][i] \in db'.rmem
    <3>1. ASSUME Trusted, NEW i \in DOMAIN disk.logs[db.log], i > db.pos
          PROVE  i > db.pos + 1 \/ disk.logs[db.log][i] \in db'.rmem
      <4>1. i \in Nat
        BY <2>1 DEF Ind, DiskType
      <4>2. i > db.pos + 1 \/ i = db.pos + 1
        BY <2>4, <3>1, <4>1
      <4>3. W = {Record}
        BY <3>1 DEF Trusted
      <4>4. QED
        BY <2>2, <4>2, <4>3 DEF Record
    <3>2. QED
      BY <2>2, <3>1
  <2>9. db'.pos \in Nat /\ db'.pos <= Len(disk.logs[db.log]) /\ db.rmem \subseteq db'.rmem
    BY <2>1, <2>2, <2>4
  <2>10. QED
    BY <2>1, <2>2, <2>3, <2>4, <2>5, <2>6, <2>7, <2>8, <2>9, BeginBuildStep
<1>4. QED
  BY <1>1, <1>2, <1>3

(* A record is read and inserted whole, whether or not the memtable is     *)
(* then full.                                                              *)
LEMMA ReadRecordStep ==
  ASSUME Ind, OtherType', ReadRecord
  PROVE  Ind'
  BY InsertAnyStep DEF ReadRecord, Record

(* WriteBatch::InsertInto fails on a damaged record that the options       *)
(* ignore; what it inserted before that stays.                             *)
LEMMA InsertFailsStep ==
  ASSUME Ind, OtherType', InsertFails, BadRecords
  PROVE  Ind'
<1>1. CASE opts.paranoid_checks
  <2>1. db' = NoDB /\ phase' = "down" /\ disk' = disk /\ acked' = acked
    BY <1>1 DEF InsertFails, OpenReturns
  <2>2. QED
    BY <2>1, QuietStopStep
<1>2. CASE ~opts.paranoid_checks
  <2>1. PICK W \in SUBSET {Record} : Insert(W)
    BY <1>2 DEF InsertFails, Record
  <2>2. HasRecord /\ result' = result /\ acked' = acked
    BY <1>2 DEF InsertFails
  <2>3. QED
    BY <2>1, <2>2, InsertAnyStep
<1>3. QED
  BY <1>1, <1>2

(* The end of a log, which may leave a last table to be built.             *)
LEMMA EndLogStep ==
  ASSUME Ind, OtherType', EndLog
  PROVE  Ind'
<1>1. /\ LogRead /\ phase = "read" /\ db.pos = Len(disk.logs[db.log])
      /\ result' = result /\ acked' = acked
  BY DEF EndLog, LogRead
<1>2. Opening /\ db.log \in db.todo
  BY <1>1 DEF Opening, Ind, ReadingInv
<1>3. CASE ~db.hasRmem
  BY <1>1, <1>2, <1>3, LogDoneStep DEF EndLog
<1>4. CASE db.hasRmem
  <2>1. BeginBuild([db EXCEPT !.final = TRUE])
    BY <1>4 DEF EndLog
  <2>2. /\ SameObject /\ db'.vs = [db.vs EXCEPT !.next = db.vs.next + 1]
        /\ db'.save = TRUE /\ db'.added = db.added /\ db'.mem = db.mem
        /\ db'.active = db.active /\ db'.logfile_number_ = db.logfile_number_
        /\ db'.pending_outputs_ = db.pending_outputs_ \cup {db.vs.next}
        /\ db'.num = db.vs.next /\ db'.todo = db.todo /\ db'.log = db.log
        /\ db'.compactions = db.compactions /\ db'.final = TRUE
        /\ db'.hasRmem = db.hasRmem /\ db'.maxseq = db.maxseq
        /\ db'.pos = db.pos /\ db'.rmem = db.rmem
    BY <2>1 DEF BeginBuild, StartTable, Ind, DbType, SameObject
  <2>3. phase' = "build" /\ (disk' = disk \/ disk' = NewTableFile(db.vs.next))
    BY <2>1 DEF BeginBuild, Ind, DbType
  <2>4. Newest' = Newest
    <3>1. db.vs \in Version /\ db.vs.next + 1 \in Nat
      BY DEF Ind, DbType, Version
    <3>2. db'.vs.seq = db.vs.seq
      BY <2>2, <3>1, VersionNext
    <3>3. QED
      BY <2>2, <3>2 DEF Newest
  <2>5. /\ db'.compactions \in BOOLEAN /\ db'.hasRmem = TRUE
        /\ db'.maxseq \in Nat /\ db'.maxseq >= db.maxseq
        /\ db'.pos \in Nat /\ db'.rmem \subseteq Writes
    BY <1>4, <2>2 DEF Ind, DbType
  <2>6. db'.pos <= Len(disk.logs[db.log])
    BY <1>1, <2>2, <2>5
  <2>7. \A s \in db'.rmem : s <= Newest'
    BY <1>2, <2>2, <2>4 DEF Ind, OpeningInv
  <2>8. Trusted => db'.rmem \subseteq InLog(db.log)
    BY <1>2, <2>2 DEF Ind, LoggedInv
  <2>9. QED
    BY <1>1, <2>2, <2>3, <2>5, <2>6, <2>7, <2>8, BeginBuildStep
<1>5. QED
  BY <1>3, <1>4

(* A log that cannot be opened.                                            *)
LEMMA OpenLogFailsStep ==
  ASSUME Ind, OtherType', OpenLogFails, IoErrors
  PROVE  Ind'
<1>1. CASE opts.paranoid_checks
  <2>1. db' = NoDB /\ phase' = "down" /\ disk' = disk /\ acked' = acked
    BY <1>1 DEF OpenLogFails, OpenReturns
  <2>2. QED
    BY <2>1, QuietStopStep
<1>2. CASE ~opts.paranoid_checks
  <2>1. ~Trusted
    BY <1>2 DEF Trusted, Ind, OtherType
  <2>2. /\ phase = "logs" /\ Opening /\ db.todo # {} /\ db' = LogDone(db)
        /\ phase' = "logs" /\ disk' = disk /\ result' = result /\ acked' = acked
    BY <1>2 DEF OpenLogFails, Opening
  <2>3. QED
    BY <2>1, <2>2, LogDoneStep
<1>3. QED
  BY <1>1, <1>2

(* BuildTable is done: what was in the memtable is in a table.             *)
LEMMA TableBuiltStep ==
  ASSUME Ind, OtherType', TableBuilt(TRUE)
  PROVE  Ind'
<1> DEFINE made == IF db.rmem = {} THEN {} ELSE {db.num}
<1>1. /\ phase = "build" /\ Opening /\ HasCur
      /\ result' = result /\ acked' = acked
      /\ phase' = IF db.final THEN "logs" ELSE "read"
      /\ db.log \in db.todo /\ db.log = Min(db.todo) /\ db.todo # {}
      /\ db.pos <= Len(disk.logs[db.log])
      /\ db.final => db.pos = Len(disk.logs[db.log])
      /\ db.save /\ db.pending_outputs_ = {db.num}
      /\ Cur.next <= db.num /\ db.num < db.vs.next
      /\ \A t \in db.vs.tables \cup db.added : t < db.num
      /\ db.vs.tables = Cur.tables
  <2>1. /\ phase = "build" /\ result' = result /\ acked' = acked
        /\ phase' = IF db.final THEN "logs" ELSE "read"
    BY DEF TableBuilt
  <2>2. Opening
    BY <2>1 DEF Opening
  <2>3. QED
    BY <2>1, <2>2 DEF Ind, ReadingInv, OpeningInv
<1>2. Opening'
  BY <1>1 DEF Opening
<1>3. /\ SameObject
      /\ db'.vs = IF db.final THEN Marked ELSE db.vs
      /\ db'.save = db.save /\ db'.added = db.added \cup made
      /\ db'.mem = db.mem /\ db'.active = db.active
      /\ db'.logfile_number_ = db.logfile_number_
      /\ db'.pending_outputs_ = db.pending_outputs_ \ {db.num}
      /\ db'.todo = IF db.final THEN db.todo \ {Min(db.todo)} ELSE db.todo
      /\ db'.log = IF db.final THEN 0 ELSE db.log
      /\ db'.pos = IF db.final THEN 0 ELSE db.pos
      /\ db'.rmem = {} /\ db'.hasRmem = FALSE
      /\ db'.compactions = IF db.final THEN FALSE ELSE db.compactions
      /\ db'.final = FALSE /\ db'.num = 0 /\ db'.maxseq = db.maxseq
  <2>1. CASE db.final
    <3> DEFINE d == [db EXCEPT !.added = @ \cup made, !.rmem = {},
                               !.hasRmem = FALSE, !.num = 0,
                               !.pending_outputs_ = @ \ {db.num}]
    <3>1. db' = LogDone(d)
      BY <2>1 DEF TableBuilt
    <3>2. /\ DOMAIN d = DOMAIN db /\ d.manifest = db.manifest /\ d.vs = db.vs
          /\ d.imm = db.imm /\ d.hasImm = db.hasImm /\ d.bg_error_ = db.bg_error_
          /\ d.closing = db.closing /\ d.job = db.job /\ d.save = db.save
          /\ d.added = db.added \cup made /\ d.mem = db.mem /\ d.active = db.active
          /\ d.logfile_number_ = db.logfile_number_ /\ d.todo = db.todo
          /\ d.pending_outputs_ = db.pending_outputs_ \ {db.num}
          /\ d.maxseq = db.maxseq /\ d.refused = db.refused
      BY DEF Ind, DbType
    <3>3. DOMAIN d = {"vs", "manifest", "save", "added", "todo", "log", "pos",
                      "rmem", "hasRmem", "compactions", "final", "num", "maxseq",
                      "mem", "imm", "hasImm", "active", "logfile_number_",
                      "pending_outputs_", "bg_error_", "closing", "job", "refused"}
      BY <3>2 DEF Ind, DbType
    <3> HIDE DEF d, made
    <3>4. /\ DOMAIN db' = DOMAIN d /\ db'.manifest = d.manifest
          /\ db'.vs = [d.vs EXCEPT !.next = Larger(d.vs.next, Min(d.todo) + 1)]
          /\ db'.imm = d.imm /\ db'.hasImm = d.hasImm /\ db'.bg_error_ = d.bg_error_
          /\ db'.closing = d.closing /\ db'.job = d.job /\ db'.save = d.save
          /\ db'.added = d.added /\ db'.mem = d.mem /\ db'.active = d.active
          /\ db'.logfile_number_ = d.logfile_number_ /\ db'.todo = d.todo \ {Min(d.todo)}
          /\ db'.pending_outputs_ = d.pending_outputs_
          /\ db'.log = 0 /\ db'.pos = 0 /\ db'.rmem = {} /\ db'.hasRmem = FALSE
          /\ db'.compactions = FALSE /\ db'.final = FALSE /\ db'.num = 0
          /\ db'.maxseq = d.maxseq /\ db'.refused = d.refused
      BY <3>1, <3>3 DEF LogDone
    <3>5. QED
      BY <2>1, <3>2, <3>4 DEF SameObject, Marked
  <2>2. CASE ~db.final
    BY <2>2, ZenonT(40) DEF TableBuilt, Ind, DbType, SameObject
  <2>3. QED
    BY <2>1, <2>2
<1>4. /\ db.vs \in Version /\ db.vs.next \in Nat
      /\ db'.vs \in Version /\ db'.vs.next \in Nat
      /\ db'.vs.next >= db.vs.next
      /\ db.final => db'.vs.next > Min(db.todo)
      /\ db'.vs.log = db.vs.log /\ db'.vs.prev = db.vs.prev
      /\ db'.vs.seq = db.vs.seq /\ db'.vs.tables = db.vs.tables
      /\ Min(db.todo) \in db.todo /\ Min(db.todo) \in Nat
  <2>1. db.vs \in Version /\ db.vs.next \in Nat
    BY DEF Ind, DbType, Version
  <2>2. CASE db.final
    BY <1>1, <1>3, <2>1, <2>2, MarkedFacts
  <2>3. CASE ~db.final
    BY <1>1, <1>3, <2>1, <2>3, MarkedFacts
  <2>4. QED
    BY <2>2, <2>3
<1>5. /\ DOMAIN disk' = DOMAIN disk /\ disk'.strays = disk.strays
      /\ disk'.current = disk.current /\ disk'.manifests = disk.manifests
      /\ disk'.unsynced = disk.unsynced
      /\ disk'.logs = disk.logs /\ disk'.synced = disk.synced
      /\ disk'.partial = disk.partial \ {db.num}
      /\ disk'.tables = IF db.rmem = {} THEN disk.tables
                        ELSE With(disk.tables, db.num, db.rmem)
  BY DEF TableBuilt, Ind, DiskType
<1>6. /\ DOMAIN disk'.tables = DOMAIN disk.tables \cup made
      /\ \A t \in DOMAIN disk.tables : t # db.num => disk'.tables[t] = disk.tables[t]
      /\ db.rmem # {} => disk'.tables[db.num] = db.rmem
      /\ disk'.tables \in [DOMAIN disk'.tables -> SUBSET Writes]
  <2>1. CASE db.rmem = {}
    BY <1>5, <2>1 DEF Ind, DiskType
  <2>2. CASE db.rmem # {}
    <3>1. /\ DOMAIN With(disk.tables, db.num, db.rmem) = DOMAIN disk.tables \cup {db.num}
          /\ With(disk.tables, db.num, db.rmem)[db.num] = db.rmem
          /\ \A t \in DOMAIN disk.tables :
               t # db.num => With(disk.tables, db.num, db.rmem)[t] = disk.tables[t]
      BY DEF With
    <3>2. disk.tables \in [DOMAIN disk.tables -> SUBSET Writes]
          /\ db.rmem \in SUBSET Writes
      BY DEF Ind, DiskType, DbType
    <3>3. With(disk.tables, db.num, db.rmem)
            \in [DOMAIN With(disk.tables, db.num, db.rmem) -> SUBSET Writes]
      BY <3>2, WithType, Zenon
    <3>4. QED
      BY <1>5, <2>2, <3>1, <3>3
  <2>3. QED
    BY <2>1, <2>2
<1>7. DiskType'
  <2>1. DOMAIN disk'.tables \subseteq Nat /\ disk'.partial \subseteq Nat
        /\ disk'.partial \cap DOMAIN disk'.tables = {}
    BY <1>5, <1>6 DEF Ind, DiskType, DbType
  <2>2. QED
    BY <1>5, <1>6, <2>1 DEF Ind, DiskType
<1>8. db.num \in Nat /\ \A t \in db.vs.tables \cup db.added :
                          /\ t \in Nat /\ t # db.num /\ t \in DOMAIN disk.tables
                          /\ t \in DOMAIN disk'.tables
                          /\ disk'.tables[t] = disk.tables[t]
  <2>1. db.num \in Nat /\ \A t \in db.vs.tables \cup db.added : t \in Nat /\ t \in DOMAIN disk.tables
    BY <1>1, <1>4 DEF Ind, DbType, DirInv, OpeningInv, Version
  <2>2. \A t \in db.vs.tables \cup db.added : t # db.num
    BY <1>1, <2>1
  <2>3. QED
    BY <1>6, <2>1, <2>2
<1>9. SameCur
  <2>1. disk.current # 0
    BY <1>1 DEF HasCur, Ind, DiskType
  <2>2. QED
    BY <1>1, <1>5, <1>8, <2>1 DEF SameCur
<1>10. /\ DirInv' /\ LogsInv' /\ DurableInv' /\ HasCur' = HasCur /\ Cur' = Cur
       /\ UnsyncedInv'
  BY <1>1, <1>2, <1>3, <1>5, <1>9, SameCurStep, UnsyncedStep DEF Ind
<1>11. DbType'
  <2>1. DOMAIN db' = DOMAIN db /\ db'.job \in Job
    BY <1>3 DEF Ind, DbType, SameObject
  <2>2. db'.todo \subseteq Nat /\ db'.added \subseteq Nat
        /\ db'.pending_outputs_ \subseteq Nat
    BY <1>3 DEF Ind, DbType
  <2>3. /\ db'.manifest \in Nat /\ db'.log \in Nat /\ db'.pos \in Nat
        /\ db'.num \in Nat /\ db'.maxseq \in Nat /\ db'.active \in Nat
        /\ db'.logfile_number_ \in Nat
    BY <1>3 DEF Ind, DbType, SameObject
  <2>4. QED
    BY <1>3, <1>4, <2>1, <2>2, <2>3 DEF Ind, DbType, SameObject
<1>12. Newest' = Newest
  BY <1>3, <1>4 DEF Newest
<1>13. OpeningInv'
  <2>1. Cur.next \in Nat
    BY <1>1 DEF Ind, DiskType, Version, HasCur, Cur
  <2>2. \A t \in db'.added : /\ t < db'.vs.next /\ t \in DOMAIN disk'.tables
                             /\ \A s \in disk'.tables[t] : s <= Newest'
    <3>1. \A t \in db.added : t < db'.vs.next
      BY <1>1, <1>4, <1>8 DEF Ind, OpeningInv
    <3>2. db.num < db'.vs.next
      BY <1>1, <1>4, <1>8
    <3>3. \A s \in db.rmem : s <= Newest
      BY <1>1 DEF Ind, OpeningInv
    <3>4. \A t \in db.added : \A s \in disk'.tables[t] : s <= Newest
      BY <1>1, <1>8 DEF Ind, OpeningInv
    <3>5. QED
      BY <1>3, <1>6, <1>8, <1>12, <3>1, <3>2, <3>3, <3>4
  <2>3. \A l \in Listed(DOMAIN disk.logs) : l < db'.vs.next \/ l \in db'.todo
    <3>1. \A l \in Listed(DOMAIN disk.logs) : l \in Nat /\ (l < db.vs.next \/ l \in db.todo)
      BY <1>1 DEF Ind, OpeningInv, DiskType, Listed
    <3>2. QED
      BY <1>3, <1>4, <3>1
  <2>4. db'.active # 0 => db'.active < db'.vs.next
    BY <1>1, <1>3, <1>4 DEF Ind, OpeningInv, DbType
  <2>5. /\ db'.vs.next >= Cur.next
        /\ \/ db'.manifest = disk'.current
           \/ db'.save /\ db'.manifest >= Cur.next /\ db'.manifest < db'.vs.next
    BY <1>1, <1>3, <1>4, <1>5, <2>1 DEF Ind, OpeningInv, DbType, SameObject
  <2>6. QED
    BY <1>1, <1>2, <1>3, <1>4, <1>5, <1>10, <1>12, <2>2, <2>3, <2>4, <2>5
    DEF Ind, OpeningInv, SameObject
<1>14. ReadingInv'
  BY <1>1, <1>3, <1>5 DEF Ind, ReadingInv
<1>15. /\ Tab(db.vs.tables \cup db.added) \cup db.rmem
            \subseteq Tab(db.vs.tables \cup db.added)'
       /\ Tab(db.added)' \subseteq Tab(db.added) \cup db.rmem
  <2>1. CASE db.rmem = {}
    BY <1>3, <1>4, <1>8, <2>1 DEF Tab
  <2>2. CASE db.rmem # {}
    BY <1>3, <1>4, <1>6, <1>8, <2>2 DEF Tab
  <2>3. QED
    BY <2>1, <2>2
<1>16. ReplayInv'
  <2>1. ASSUME Trusted, NEW l \in DOMAIN disk.logs, NEW i \in DOMAIN disk.logs[l]
        PROVE  ToBeRead(l, i)' \/ Recovered(l, i)'
    <3>1. ToBeRead(l, i) \/ Recovered(l, i)
      BY <1>1, <2>1 DEF Ind, ReplayInv
    <3>2. Recovered(l, i) => Recovered(l, i)'
      BY <1>3, <1>5, <1>15 DEF Recovered
    <3>3. i \in Nat /\ i <= Len(disk.logs[l]) /\ Len(disk.logs[l]) \in Nat /\ i > 0
      BY DEF Ind, DiskType
    <3>4. CASE db.final
      <4>1. ~(l = db.log /\ i > db.pos)
        BY <1>1, <3>3, <3>4
      <4>2. ToBeRead(l, i) => ToBeRead(l, i)'
        BY <1>1, <1>3, <3>3, <3>4, <4>1 DEF ToBeRead
      <4>3. QED
        BY <3>1, <3>2, <4>2
    <3>5. CASE ~db.final
      BY <1>3, <3>1, <3>2, <3>5 DEF ToBeRead
    <3>6. QED
      BY <3>4, <3>5
  <2>2. QED
    BY <1>5, <2>1 DEF ReplayInv
<1>17. LoggedInv'
  <2>1. \A l : InLog(l)' = InLog(l)
    BY <1>5 DEF InLog
  <2>2. \A s : Logged(s)' = Logged(s)
    BY <1>5, <2>1 DEF Logged
  <2>3. db.log \in DOMAIN disk.logs
    BY <1>1 DEF Ind, OpeningInv
  <2>4. Trusted => \A s \in Tab(db.added) \cup db.rmem : Logged(s)
    BY <1>1, <2>3 DEF Ind, LoggedInv, Logged
  <2>5. QED
    BY <1>1, <1>3, <1>15, <2>1, <2>2, <2>4 DEF Ind, LoggedInv
<1>18. QED
  BY <1>2, <1>7, <1>10, <1>11, <1>13, <1>14, <1>16, <1>17, OpeningStep

-----------------------------------------------------------------------------
(* The beginning of DB::Open.                                              *)

(* Making sure of the files that With and Without leave behind.            *)
LEMMA ManifestWith ==
  ASSUME DiskType, NEW n \in Nat \ {0}, NEW v \in Version,
         NEW m, m = With(disk.manifests, n, v)
  PROVE  /\ DOMAIN m = DOMAIN disk.manifests \cup {n}
         /\ m \in [DOMAIN m -> Version] /\ DOMAIN m \subseteq Nat \ {0}
         /\ m[n] = v
         /\ \A k \in DOMAIN disk.manifests : k # n => m[k] = disk.manifests[k]
<1>1. /\ DOMAIN With(disk.manifests, n, v) = DOMAIN disk.manifests \cup {n}
      /\ With(disk.manifests, n, v)[n] = v
      /\ \A k \in DOMAIN disk.manifests :
           k # n => With(disk.manifests, n, v)[k] = disk.manifests[k]
  BY DEF With
<1>2. disk.manifests \in [DOMAIN disk.manifests -> Version]
      /\ DOMAIN disk.manifests \subseteq Nat \ {0}
  BY DEF DiskType
<1>3. With(disk.manifests, n, v) \in [DOMAIN With(disk.manifests, n, v) -> Version]
  BY <1>2, WithType, Zenon
<1>4. QED
  BY <1>1, <1>2, <1>3

(* There is no CURRENT: InvalidArgument, or NewDb writes the first         *)
(* MANIFEST.                                                               *)
LEMMA OpenMissingStep ==
  ASSUME Ind, OtherType', NEW o, OpenMissing(o)
  PROVE  Ind'
<1>1. phase = "down" /\ disk.current = 0 /\ acked' = acked /\ db = NoDB
  BY DEF OpenMissing, Ind, DownInv
<1>2. CASE o.create_if_missing
  <2>1. /\ phase' = "newdb" /\ db' = NoDB /\ DOMAIN disk' = DOMAIN disk /\ disk'.strays = disk.strays
        /\ disk'.manifests = With(disk.manifests, 1, NewDbEdit)
        /\ disk'.current = 0 /\ disk'.logs = disk.logs /\ disk'.synced = disk.synced
        /\ disk'.tables = disk.tables /\ disk'.partial = disk.partial
    BY <1>1, <1>2 DEF OpenMissing, Ind, DiskType
  <2>2. NewDbEdit \in Version
    BY DEF NewDbEdit, Version
  <2>3. /\ DOMAIN disk'.manifests = DOMAIN disk.manifests \cup {1}
        /\ disk'.manifests \in [DOMAIN disk'.manifests -> Version]
        /\ DOMAIN disk'.manifests \subseteq Nat \ {0}
        /\ disk'.manifests[1] = NewDbEdit
    BY <2>1, <2>2, ManifestWith DEF Ind
  <2>4. DiskType'
    BY <2>1, <2>3 DEF Ind, DiskType
  <2>5. DirInv' /\ ~HasCur'
    BY <1>1, <2>1, <2>3 DEF Ind, DirInv, HasCur
  <2>6. UnsyncedInv' /\ LogsInv' /\ DurableInv'
    BY <1>1, <2>1, <2>5 DEF Ind, UnsyncedInv, LogsInv, DurableInv, DirInv,
       Opening, Running
  <2>7. DbType'
    BY <1>1, <2>1 DEF Ind, DbType
  <2>8. DownInv'
    BY <2>1, <2>3 DEF DownInv
  <2>9. ReadingInv'
    BY <2>1 DEF ReadingInv, NoDB
  <2>10. OpeningInv' /\ JobInv' /\ RunningInv' /\ GarbageInv' /\ ReplayInv'
         /\ LoggedInv' /\ HeldInv'
    BY <2>1 DEF OpeningInv, JobInv, RunningInv, GarbageInv, ReplayInv, LoggedInv,
       HeldInv, Opening, Running
  <2>11. QED
    BY <2>4, <2>5, <2>6, <2>7, <2>8, <2>9, <2>10 DEF Ind
<1>3. CASE ~o.create_if_missing
  BY <1>1, <1>3, QuietStopStep DEF OpenMissing, OpenReturns
<1>4. QED
  BY <1>2, <1>3

(* NewDb cannot write its MANIFEST and removes it.                         *)
LEMMA NewDbFailsStep ==
  ASSUME Ind, OtherType', NEW o, NewDbFails(o)
  PROVE  Ind'
<1>1. PICK opened \in SUBSET {1} :
        disk' = [disk EXCEPT !.manifests = Without(@, opened)]
  BY DEF NewDbFails
<1>2. /\ disk.current = 0 /\ acked' = acked /\ db' = NoDB /\ phase' = "down"
      /\ DOMAIN disk' = DOMAIN disk /\ disk'.strays = disk.strays
      /\ disk'.manifests = Without(disk.manifests, opened)
      /\ disk'.current = 0 /\ disk'.logs = disk.logs /\ disk'.synced = disk.synced
      /\ disk'.tables = disk.tables /\ disk'.partial = disk.partial
      /\ disk'.unsynced = disk.unsynced
  BY <1>1 DEF NewDbFails, OpenReturns, Ind, DiskType
<1>3. /\ DOMAIN disk'.manifests = DOMAIN disk.manifests \ opened
      /\ disk'.manifests \in [DOMAIN disk'.manifests -> Version]
  <2>1. DOMAIN Without(disk.manifests, opened) = DOMAIN disk.manifests \ opened
    BY WithoutFacts, Zenon
  <2>2. disk.manifests \in [DOMAIN disk.manifests -> Version]
    BY DEF Ind, DiskType
  <2>3. Without(disk.manifests, opened)
          \in [DOMAIN Without(disk.manifests, opened) -> Version]
    BY <2>2, WithoutType, Zenon
  <2>4. QED
    BY <1>2, <2>1, <2>3
<1>4. DiskType'
  BY <1>2, <1>3 DEF Ind, DiskType
<1>5. DirInv' /\ ~HasCur'
  BY <1>2, <1>3 DEF Ind, DirInv, HasCur, DiskType
<1>6. UnsyncedInv' /\ LogsInv' /\ DurableInv'
  BY <1>2, <1>5 DEF Ind, UnsyncedInv, LogsInv, DurableInv, DirInv, Opening, Running
<1>7. QED
  BY <1>2, <1>4, <1>5, <1>6, StopStep

(* NewDb sets CURRENT, which leads to an empty database; Recover then      *)
(* reports that the database does not exist.                               *)
LEMMA NewDbDoneStep ==
  ASSUME Ind, OtherType', NewDbDone(TRUE)
  PROVE  Ind'
<1>1. /\ phase = "newdb" /\ disk.current = 0 /\ acked' = acked /\ acked = {}
      /\ db' = NoDB /\ phase' = "down"
      /\ DOMAIN disk' = DOMAIN disk /\ disk'.manifests = disk.manifests
      /\ disk'.strays = disk.strays \ {<<"temp", 1>>}
      /\ disk'.current = 1 /\ disk'.logs = disk.logs /\ disk'.synced = disk.synced
      /\ disk'.tables = disk.tables /\ disk'.partial = disk.partial
  BY DEF NewDbDone, OpenReturns, Ind, DiskType, DownInv, DirInv
<1>2. /\ HasCur' /\ Cur' = NewDbEdit /\ DOMAIN disk.logs = {}
      /\ DOMAIN disk'.manifests \subseteq {1}
  BY <1>1 DEF HasCur, Cur, Ind, DownInv, DirInv
<1>3. DiskType'
  BY <1>1 DEF Ind, DiskType
<1>4. DirInv'
  BY <1>1, <1>2 DEF DirInv, NewDbEdit
<1>5. UnsyncedInv' /\ LogsInv' /\ DurableInv'
  BY <1>1, <1>2 DEF Ind, UnsyncedInv, LogsInv, DurableInv, Opening, Running
<1>6. QED
  BY <1>1, <1>3, <1>4, <1>5, StopStep

(* NewDb cannot set CURRENT: there is no database yet.                     *)
LEMMA NewDbNotDoneStep ==
  ASSUME Ind, OtherType', NewDbDone(FALSE)
  PROVE  Ind'
  BY LeftStopStep DEF NewDbDone, OpenReturns

(* DB::Open fails before it recovers anything.                             *)
LEMMA OpenFailsStep ==
  ASSUME Ind, OtherType', NEW o, OpenFails(o)
  PROVE  Ind'
  BY QuietStopStep DEF OpenFails, OpenReturns

(* VersionSet::Recover reads the version that CURRENT leads to and Recover *)
(* picks its logs; a table that the listing does not show stops it.        *)
LEMMA OpenExistingStep ==
  ASSUME Ind, OtherType', NEW o \in Options, OpenExisting(o)
  PROVE  Ind'
<1>1. /\ phase = "down" /\ disk.current # 0 /\ disk' = disk /\ acked' = acked
  BY DEF OpenExisting
<1>2. CASE ~HasCur
  BY <1>1, <1>2, QuietStopStep DEF OpenExisting, OpenReturns, HasCur
<1>3. CASE HasCur /\ ~(Cur.tables \subseteq SeenNumbers)
  BY <1>1, <1>3, QuietStopStep DEF OpenExisting, OpenReturns, HasCur, Cur
<1>4. CASE HasCur /\ Cur.tables \subseteq SeenNumbers
  <2>1. PICK save \in IF o.reuse_logs THEN BOOLEAN ELSE {TRUE} :
          /\ db' = [NoDB EXCEPT
                      !.vs = IF save THEN [Cur EXCEPT !.next = @ + 1] ELSE Cur,
                      !.manifest = IF save THEN Cur.next ELSE disk.current,
                      !.save = save, !.todo = LogsOf(Cur)]
          /\ phase' = "logs" /\ result' = "none"
    BY <1>4 DEF OpenExisting, HasCur, Cur
  <2>2. /\ DOMAIN db' = DOMAIN NoDB
        /\ db'.vs = IF save THEN [Cur EXCEPT !.next = Cur.next + 1] ELSE Cur
        /\ db'.manifest = IF save THEN Cur.next ELSE disk.current
        /\ db'.save = save /\ db'.added = {} /\ db'.todo = LogsOf(Cur)
        /\ db'.log = 0 /\ db'.pos = 0 /\ db'.rmem = {} /\ db'.hasRmem = FALSE
        /\ db'.compactions = FALSE /\ db'.final = FALSE /\ db'.num = 0
        /\ db'.maxseq = 0 /\ db'.mem = {} /\ db'.imm = {} /\ db'.hasImm = FALSE
        /\ db'.active = 0 /\ db'.logfile_number_ = 0
        /\ db'.pending_outputs_ = {} /\ db'.bg_error_ = FALSE
        /\ db'.closing = FALSE /\ db'.job = NoJob /\ db'.refused = {}
    BY <2>1 DEF NoDB
  <2>3. /\ Cur \in Version /\ Cur.next \in Nat /\ Cur.log \in Nat /\ Cur.seq \in Nat
        /\ disk.current \in Nat /\ Cur.tables \subseteq Nat
    BY <1>4 DEF Ind, DiskType, HasCur, Cur, Version
  <2>4. save \in BOOLEAN
    OBVIOUS
  <2>5. /\ db'.vs \in Version /\ db'.vs.log = Cur.log /\ db'.vs.prev = Cur.prev
        /\ db'.vs.seq = Cur.seq /\ db'.vs.tables = Cur.tables
        /\ db'.vs.next = IF save THEN Cur.next + 1 ELSE Cur.next
    <3>1. Cur.next + 1 \in Nat
      BY <2>3
    <3>2. CASE save
      BY <2>2, <2>3, <3>1, <3>2, VersionNext
    <3>3. CASE ~save
      BY <2>2, <2>3, <3>3
    <3>4. QED
      BY <3>2, <3>3
  <2>6. /\ Cur.prev = 0 /\ Cur.log < Cur.next /\ disk.current < Cur.next
    BY <1>4 DEF Ind, DirInv
  <2>7. db'.todo = {l \in Listed(DOMAIN disk.logs) : l >= Cur.log}
        /\ db'.todo \subseteq Nat /\ Listed(DOMAIN disk.logs) \subseteq DOMAIN disk.logs
    BY <2>2, <2>6 DEF LogsOf, Listed, Ind, DiskType
  <2>8. Opening' /\ HasCur' /\ Cur' = Cur
    BY <1>1, <1>4, <2>1 DEF Opening, HasCur, Cur
  <2>9. DiskType' /\ DirInv' /\ LogsInv' /\ DurableInv'
    BY <1>1, SameDiskStep
  <2>10. UnsyncedInv'
    <3>1. Trusted /\ "machine" \in CrashKinds /\ Fresh => save
      BY DEF Trusted
    <3>2. QED
      BY <1>1, <2>1, <2>2, <2>8, <3>1 DEF Ind, UnsyncedInv, HasCur, Running
  <2>11. DbType'
    <3>1. DOMAIN db' = {"vs", "manifest", "save", "added", "todo", "log", "pos",
                  "rmem", "hasRmem", "compactions", "final", "num", "maxseq",
                  "mem", "imm", "hasImm", "active", "logfile_number_",
                  "pending_outputs_", "bg_error_", "closing", "job", "refused"}
      BY <2>2 DEF NoDB
    <3>2. db'.job \in Job /\ db'.refused \in SUBSET Files
      BY <2>2 DEF Job, NoJob
    <3>3. db'.manifest \in Nat
      BY <2>2, <2>3
    <3>4. /\ db'.log \in Nat /\ db'.pos \in Nat /\ db'.num \in Nat
          /\ db'.maxseq \in Nat /\ db'.active \in Nat /\ db'.logfile_number_ \in Nat
      BY <2>2
    <3>5. /\ db'.save \in BOOLEAN /\ db'.hasRmem \in BOOLEAN
          /\ db'.compactions \in BOOLEAN /\ db'.final \in BOOLEAN
          /\ db'.hasImm \in BOOLEAN /\ db'.bg_error_ \in BOOLEAN
          /\ db'.closing \in BOOLEAN
      BY <2>2, <2>4
    <3>6. /\ db'.added \subseteq Nat /\ db'.todo \subseteq Nat
          /\ db'.pending_outputs_ \subseteq Nat /\ db'.rmem \subseteq Writes
          /\ db'.mem \subseteq Writes /\ db'.imm \subseteq Writes
      BY <2>2, <2>7
    <3>7. QED
      BY <2>5, <3>1, <3>2, <3>3, <3>4, <3>5, <3>6 DEF DbType
  <2>12. OpeningInv'
    <3>1. \A l \in Listed(DOMAIN disk.logs) : l < db'.vs.next \/ l \in db'.todo
      BY <2>3, <2>5, <2>6, <2>7 DEF Ind, DiskType
    <3>2. /\ db'.vs.next >= Cur.next
          /\ \/ db'.manifest = disk'.current
             \/ db'.save /\ db'.manifest >= Cur.next /\ db'.manifest < db'.vs.next
      BY <1>1, <2>2, <2>3, <2>5
    <3>3. db'.vs.seq >= Cur.seq
      BY <2>3, <2>5
    <3>4. QED
      BY <1>1, <2>1, <2>2, <2>5, <2>6, <2>7, <2>8, <3>1, <3>2, <3>3 DEF OpeningInv
  <2>13. ReadingInv'
    BY <2>1, <2>2 DEF ReadingInv
  <2>14. ReplayInv'
    <3>1. ASSUME Trusted, NEW l \in DOMAIN disk.logs, NEW i \in DOMAIN disk.logs[l]
          PROVE  ToBeRead(l, i)' \/ Recovered(l, i)'
      <4>1. l \in Nat /\ l # 0
        BY DEF Ind, DiskType
      <4>2. CASE l >= Cur.log
        BY <2>2, <2>7, <3>1, <4>1, <4>2 DEF ToBeRead, Trusted, Listed
      <4>3. CASE l < Cur.log
        <5>1. disk.logs[l][i] \in Tab(Cur.tables)
          BY <1>4, <3>1, <4>3 DEF Ind, LogsInv, InLog
        <5>2. Tab(db.vs.tables \cup db.added)' = Tab(Cur.tables)
          BY <1>1, <2>2, <2>5 DEF Tab
        <5>3. QED
          BY <1>1, <5>1, <5>2 DEF Recovered
      <4>4. QED
        BY <2>3, <4>1, <4>2, <4>3
    <3>2. QED
      BY <1>1, <3>1 DEF ReplayInv
  <2>15. LoggedInv'
    <3>1. Tab(db.added)' = {}
      BY <2>2 DEF Tab
    <3>2. QED
      BY <2>2, <3>1 DEF LoggedInv
  <2>16. QED
    BY <2>8, <2>9, <2>10, <2>11, <2>12, <2>13, <2>14, <2>15, OpeningStep
<1>5. QED
  BY <1>2, <1>3, <1>4

-----------------------------------------------------------------------------
(* Commits.                                                                *)

(* What every LogAndApply that reaches the disk does to the directory.     *)
LEMMA CommitStep ==
  ASSUME Ind, NEW v \in Version, disk' = Committed(v), acked' = acked,
         db.manifest # 0, \A m \in DOMAIN disk.manifests : m <= db.manifest,
         v.prev = 0, v.log < v.next, db.manifest < v.next,
         \A t \in v.tables : /\ t < v.next /\ t \in DOMAIN disk.tables
                             /\ \A s \in disk.tables[t] : s <= v.seq,
         ~Opening'
  PROVE  /\ DiskType' /\ DirInv' /\ UnsyncedInv' /\ HasCur' /\ Cur' = v
         /\ disk'.current = db.manifest
         /\ DOMAIN disk'.manifests = DOMAIN disk.manifests \cup {db.manifest}
         /\ disk'.logs = disk.logs /\ disk'.synced = disk.synced
         /\ disk'.tables = disk.tables /\ disk'.partial = disk.partial
<1>1. /\ DOMAIN disk' = DOMAIN disk /\ disk'.strays \subseteq disk.strays
      /\ disk'.manifests = With(disk.manifests, db.manifest, v)
      /\ disk'.unsynced = disk.unsynced \ {db.manifest}
      /\ disk'.current = db.manifest
      /\ disk'.logs = disk.logs /\ disk'.synced = disk.synced
      /\ disk'.tables = disk.tables /\ disk'.partial = disk.partial
  BY DEF Committed, Ind, DiskType
<1>2. db.manifest \in Nat \ {0}
  BY DEF Ind, DbType
<1>3. /\ DOMAIN disk'.manifests = DOMAIN disk.manifests \cup {db.manifest}
      /\ disk'.manifests \in [DOMAIN disk'.manifests -> Version]
      /\ DOMAIN disk'.manifests \subseteq Nat \ {0}
      /\ disk'.manifests[db.manifest] = v
  <2>1. disk.manifests \in [DOMAIN disk.manifests -> Version]
        /\ DOMAIN disk.manifests \subseteq Nat \ {0}
    BY DEF Ind, DiskType
  <2>2. /\ DOMAIN disk'.manifests = DOMAIN disk.manifests \cup {db.manifest}
        /\ disk'.manifests[db.manifest] = v
    BY <1>1 DEF With
  <2>3. disk'.manifests \in [DOMAIN disk'.manifests -> Version]
    BY <1>1, <2>1 DEF With
  <2>4. QED
    BY <1>2, <2>1, <2>2, <2>3
<1>4. DiskType'
  BY <1>1, <1>2, <1>3 DEF Ind, DiskType
<1>5. HasCur' /\ Cur' = v
  BY <1>1, <1>3 DEF HasCur, Cur
<1>6. DirInv'
  BY <1>1, <1>2, <1>3, <1>5 DEF DirInv
<1>7. UnsyncedInv'
  BY <1>1, <1>2, <1>5 DEF Ind, UnsyncedInv
<1>8. QED
  BY <1>1, <1>3, <1>4, <1>5, <1>6, <1>7

(* A new log, which does not exist if the directory is listed.             *)
LEMMA AddLogStep ==
  ASSUME Ind, HasCur, NEW n \in Nat, n >= Cur.next,
         Trusted => n \notin DOMAIN disk.logs,
         disk' = [disk EXCEPT !.logs = With(@, n, <<>>), !.synced = With(@, n, 0)],
         acked' = acked
  PROVE  /\ DiskType' /\ DirInv' /\ LogsInv' /\ DurableInv'
         /\ HasCur' = HasCur /\ Cur' = Cur
         /\ disk'.current = disk.current /\ disk'.manifests = disk.manifests
         /\ disk'.unsynced = disk.unsynced /\ disk'.strays = disk.strays
         /\ disk'.tables = disk.tables /\ disk'.partial = disk.partial
         /\ DOMAIN disk'.logs = DOMAIN disk.logs \cup {n}
         /\ disk'.logs[n] = <<>>
         /\ \A l \in DOMAIN disk.logs : l # n => disk'.logs[l] = disk.logs[l]
<1>1. /\ DOMAIN disk' = DOMAIN disk /\ disk'.strays = disk.strays
      /\ disk'.current = disk.current /\ disk'.manifests = disk.manifests
      /\ disk'.unsynced = disk.unsynced
      /\ disk'.tables = disk.tables /\ disk'.partial = disk.partial
      /\ disk'.logs = With(disk.logs, n, <<>>)
      /\ disk'.synced = With(disk.synced, n, 0)
  BY DEF Ind, DiskType
<1>2. /\ disk.logs \in [DOMAIN disk.logs -> Seq(Writes)]
      /\ DOMAIN disk.logs \subseteq Nat \ {0}
      /\ disk.synced \in [DOMAIN disk.logs -> Nat]
      /\ DOMAIN disk.synced = DOMAIN disk.logs
      /\ \A l \in DOMAIN disk.logs : disk.synced[l] <= Len(disk.logs[l])
  BY DEF Ind, DiskType
<1>3. /\ DOMAIN disk'.logs = DOMAIN disk.logs \cup {n} /\ disk'.logs[n] = <<>>
      /\ \A l \in DOMAIN disk.logs : l # n => disk'.logs[l] = disk.logs[l]
  BY <1>1 DEF With
<1>4. /\ DOMAIN disk'.synced = DOMAIN disk.logs \cup {n} /\ disk'.synced[n] = 0
      /\ \A l \in DOMAIN disk.logs : l # n => disk'.synced[l] = disk.synced[l]
  BY <1>1, <1>2 DEF With
<1>5. disk'.logs \in [DOMAIN disk'.logs -> Seq(Writes)]
  <2>1. <<>> \in Seq(Writes)
    OBVIOUS
  <2>2. QED
    BY <1>1, <1>2, <2>1 DEF With
<1>6. disk'.synced \in [DOMAIN disk'.logs -> Nat]
  BY <1>1, <1>2, <1>3 DEF With
<1>7. n # 0 /\ Cur.log < n /\ disk.current # 0
  <2>1. Cur.log \in Nat /\ Cur.next \in Nat /\ Cur.log < Cur.next
    BY DEF Ind, DiskType, DirInv, HasCur, Cur, Version
  <2>2. QED
    BY <2>1 DEF HasCur, Ind, DiskType
<1>8. \A l \in DOMAIN disk'.logs : disk'.synced[l] <= Len(disk'.logs[l])
  <2>1. Len(<<>>) = 0
    OBVIOUS
  <2>2. QED
    BY <1>2, <1>3, <1>4, <2>1
<1>9. DiskType'
  BY <1>1, <1>2, <1>3, <1>5, <1>6, <1>7, <1>8 DEF Ind, DiskType
<1>10. HasCur' = HasCur /\ Cur' = Cur
  BY <1>1 DEF HasCur, Cur
<1>11. DirInv'
  BY <1>1, <1>7, <1>10 DEF Ind, DirInv
<1>12. Tab(Cur.tables)' = Tab(Cur.tables)
  BY <1>1, <1>10 DEF Tab
<1>13. LogsInv'
  <2>1. \A l \in DOMAIN disk'.logs : l < Cur.log => InLog(l)' = InLog(l) /\ l \in DOMAIN disk.logs
    BY <1>2, <1>3, <1>7 DEF InLog, Ind, DiskType, Version, HasCur, Cur
  <2>2. QED
    BY <1>10, <1>12, <2>1 DEF Ind, LogsInv
<1>14. DurableInv'
  <2>1. Trusted => \A l \in DOMAIN disk.logs :
                     InSynced(l)' = InSynced(l) /\ l \in DOMAIN disk'.logs
    BY <1>3, <1>4 DEF InSynced
  <2>2. QED
    BY <1>10, <1>12, <2>1 DEF Ind, DurableInv
<1>15. QED
  BY <1>1, <1>3, <1>9, <1>10, <1>11, <1>13, <1>14

-----------------------------------------------------------------------------
(* The end of DB::Open.                                                    *)

(* What has been recovered, once there is a log to write to.               *)
LEMMA RecoveredAll ==
  ASSUME Ind, Opening, db.todo = {}, db.log = 0, db.rmem = {}, Trusted
  PROVE  /\ \A l \in DOMAIN disk.logs :
              /\ l # db.active => InLog(l) \subseteq Tab(db.vs.tables \cup db.added)
              /\ InLog(l) \subseteq Tab(db.vs.tables \cup db.added) \cup db.mem
         /\ \A s \in db.mem : s \in InLog(db.active)
<1>1. ASSUME NEW l \in DOMAIN disk.logs, NEW i \in DOMAIN disk.logs[l]
      PROVE  \/ disk.logs[l][i] \in Tab(db.vs.tables \cup db.added)
             \/ l = db.active /\ disk.logs[l][i] \in db.mem
  BY <1>1 DEF Ind, ReplayInv, ToBeRead, Recovered
<1>2. \A s \in db.mem : s \in InLog(db.active)
  BY DEF Ind, LoggedInv
<1>3. ASSUME NEW l \in DOMAIN disk.logs, NEW s \in InLog(l)
      PROVE  \/ s \in Tab(db.vs.tables \cup db.added)
             \/ l = db.active /\ s \in db.mem
  <2>1. PICK i \in DOMAIN disk.logs[l] : s = disk.logs[l][i]
    BY DEF InLog
  <2>2. QED
    BY <1>1, <2>1
<1>4. QED
  BY <1>2, <1>3

(* Going on to DeleteObsoleteFiles, with the version CURRENT leads to.     *)
LEMMA EnterGcStep ==
  ASSUME OtherType', DbType', DiskType', DirInv', UnsyncedInv',
         LogsInv', DurableInv', phase' = "gc", HasCur',
         disk'.current = db'.manifest, db'.vs.tables = Cur'.tables,
         db'.vs.log = Cur'.log, db'.vs.prev = 0, db'.vs.next >= Cur'.next,
         db'.vs.seq >= Cur'.seq,
         db'.log = 0, db'.pos = 0, db'.rmem = {}, ~db'.hasRmem, ~db'.final,
         db'.pending_outputs_ = {}, db'.job = NoJob, ~db'.bg_error_,
         db'.todo = {}, db'.imm = {}, ~db'.hasImm, db'.active \in DOMAIN disk'.logs,
         db'.vs.log <= db'.active, db'.active < db'.vs.next,
         \A l \in Listed(DOMAIN disk'.logs) : l < db'.vs.next,
         \A s \in db'.mem : s <= db'.vs.seq,
         Trusted => /\ \A s \in db'.mem : s \in InLog(db.active)'
                    /\ \A l \in DOMAIN disk'.logs :
                         /\ l # db'.active => InLog(l)' \subseteq Tab(db.vs.tables)'
                         /\ InLog(l)' \subseteq Tab(db.vs.tables)' \cup db'.mem
  PROVE  Ind'
<1>1. /\ Running' /\ db'.vs.next \in Nat /\ db'.vs.seq \in Nat
      /\ Cur'.next \in Nat /\ Cur'.seq \in Nat /\ Cur'.tables \subseteq Nat
  BY DEF Running, DbType, DiskType, Version, HasCur, Cur
<1>2. ReadingInv'
  BY DEF ReadingInv
<1>3. JobInv'
  BY DEF JobInv, NoJob
<1>4. RunningInv'
  <2>1. \A t \in Cur'.tables : /\ t < db'.vs.next /\ t \in DOMAIN disk'.tables
                               /\ \A s \in disk'.tables[t] : s <= db'.vs.seq
    <3>1. \A t \in Cur'.tables : /\ t \in Nat /\ t < Cur'.next
                                 /\ t \in DOMAIN disk'.tables
                                 /\ \A s \in disk'.tables[t] : s \in Nat /\ s <= Cur'.seq
      BY <1>1, RecoveryAssumption DEF DirInv, DiskType, Writes
    <3>2. QED
      BY <1>1, <3>1
  <2>2. QED
    BY <1>1, <2>1 DEF RunningInv
<1>5. GarbageInv'
  BY DEF GarbageInv
<1>6. HeldInv'
  BY DEF HeldInv
<1>7. QED
  BY <1>1, <1>2, <1>3, <1>4, <1>5, <1>6, RunningStep

(* The new log cannot be created: DB::Open returns the error, the files of *)
(* the version are untouched.                                              *)
LEMMA NewLogFailsStep ==
  ASSUME Ind, OtherType', NewLog(FALSE)
  PROVE  Ind'
<1>1. db.active = 0 /\ acked' = acked
  BY DEF NewLog
<1>2. db' = NoDB /\ phase' = "down" /\ disk' = disk
  BY <1>1 DEF NewLog, OpenReturns
<1>3. QED
  BY <1>1, <1>2, QuietStopStep

(* What holds when the logs have been recovered.                           *)
LEMMA NewLogFacts ==
  ASSUME Ind, phase = "newlog"
  PROVE  /\ Opening /\ HasCur /\ db.todo = {} /\ db.log = 0 /\ db.pos = 0
         /\ db.rmem = {} /\ ~db.hasRmem /\ ~db.final /\ db.maxseq = 0
         /\ db.pending_outputs_ = {} /\ db.job = NoJob /\ ~db.bg_error_
         /\ db.imm = {} /\ ~db.hasImm
         /\ db.vs \in Version /\ db.vs.next \in Nat /\ db.vs.seq \in Nat
         /\ Cur.next \in Nat /\ db.vs.next >= Cur.next /\ Newest = db.vs.seq
         /\ db.vs.tables = Cur.tables /\ db.vs.log = Cur.log /\ Cur.log \in Nat
         /\ Cur.log < Cur.next
         /\ \A l \in Listed(DOMAIN disk.logs) : l < db.vs.next
<1>1. Opening
  BY DEF Opening
<1>2. /\ HasCur /\ db.todo = {} /\ db.log = 0 /\ db.pos = 0
      /\ db.rmem = {} /\ ~db.hasRmem /\ ~db.final /\ db.maxseq = 0
      /\ db.pending_outputs_ = {} /\ db.job = NoJob /\ ~db.bg_error_
      /\ db.imm = {} /\ ~db.hasImm
      /\ db.vs.next >= Cur.next /\ db.vs.tables = Cur.tables /\ db.vs.log = Cur.log
      /\ \A l \in Listed(DOMAIN disk.logs) : l < db.vs.next
  BY <1>1 DEF Ind, OpeningInv, ReadingInv
<1>3. /\ db.vs \in Version /\ db.vs.next \in Nat /\ db.vs.seq \in Nat
      /\ Cur.next \in Nat /\ Cur.log \in Nat /\ Cur.log < Cur.next
  BY <1>2 DEF Ind, DbType, DiskType, Version, HasCur, Cur, DirInv
<1>4. Newest = db.vs.seq
  BY <1>2, <1>3 DEF Newest, Larger
<1>5. QED
  BY <1>1, <1>2, <1>3, <1>4

(* The MANIFEST is not replaced: the version is the one CURRENT leads to.  *)
LEMMA NothingToSave ==
  ASSUME Ind, phase = "newlog", ~db.save, phase' = "gc", acked' = acked,
         disk'.current = disk.current, disk'.manifests = disk.manifests,
         disk'.unsynced = disk.unsynced
  PROVE  db.manifest = disk.current /\ db.added = {} /\ UnsyncedInv'
<1>1. Opening
  BY DEF Opening
<1>2. db.manifest = disk.current /\ db.added = {}
  BY <1>1 DEF Ind, OpeningInv
<1>3. Trusted /\ "machine" \in CrashKinds => ~Fresh
  BY <1>1 DEF Ind, UnsyncedInv
<1>4. UnsyncedInv'
  BY <1>3 DEF Ind, UnsyncedInv, HasCur, Opening, Running
<1>5. QED
  BY <1>2, <1>4

(* The log is reused.                                                      *)
LEMMA OldLogStep ==
  ASSUME Ind, OtherType', NewLog(TRUE), db.active # 0
  PROVE  Ind'
<1>1. /\ phase = "newlog" /\ disk' = disk /\ db' = db /\ result' = result
      /\ acked' = acked /\ phase' = IF db.save THEN "apply" ELSE "gc"
  BY DEF NewLog
<1>2. /\ Opening /\ HasCur /\ db.todo = {} /\ db.log = 0 /\ db.pos = 0
      /\ db.rmem = {} /\ ~db.hasRmem /\ ~db.final /\ db.maxseq = 0
      /\ db.pending_outputs_ = {} /\ db.job = NoJob /\ ~db.bg_error_
      /\ db.imm = {} /\ ~db.hasImm
      /\ db.vs.next >= Cur.next /\ Newest = db.vs.seq
      /\ db.vs.tables = Cur.tables /\ db.vs.log = Cur.log
      /\ \A l \in Listed(DOMAIN disk.logs) : l < db.vs.next
  BY <1>1, NewLogFacts
<1>3. DiskType' /\ DirInv' /\ LogsInv' /\ DurableInv' /\ HasCur' = HasCur /\ Cur' = Cur
  BY <1>1, SameDiskStep
<1>4. DbType'
  BY <1>1 DEF Ind, DbType
<1>5. CASE db.save
  <2>1. Opening' /\ phase' = "apply"
    BY <1>1, <1>5 DEF Opening
  <2>2. UnsyncedInv'
    BY <1>1, <1>2, <2>1, UnsyncedStep DEF Ind
  <2>3. OpeningInv'
    BY <1>1, <1>2, <1>3, <1>5, <2>1 DEF Ind, OpeningInv, Newest
  <2>4. ReadingInv'
    BY <1>1, <1>2, <1>5 DEF Ind, ReadingInv
  <2>5. \A l, i : /\ ToBeRead(l, i) => ToBeRead(l, i)'
                  /\ Recovered(l, i) => Recovered(l, i)'
    BY <1>1 DEF ToBeRead, Recovered, Tab
  <2>6. ReplayInv'
    BY <1>1, <1>2, <2>5 DEF Ind, ReplayInv
  <2>7. LoggedInv'
    BY <1>1, <1>2 DEF Ind, LoggedInv, Logged, InLog, Tab
  <2>8. QED
    BY <1>3, <1>4, <2>1, <2>2, <2>3, <2>4, <2>6, <2>7, OpeningStep
<1>6. CASE ~db.save
  <2>1. phase' = "gc"
    BY <1>1, <1>6
  <2>2. db.manifest = disk.current /\ db.added = {} /\ UnsyncedInv'
    BY <1>1, <1>6, <2>1, NothingToSave
  <2>3. /\ db.active \in DOMAIN disk.logs /\ db.vs.log <= db.active
        /\ db.active < db.vs.next /\ db.vs.prev = 0 /\ db.vs.seq >= Cur.seq
        /\ \A s \in db.mem : s <= db.vs.seq
    BY <1>2 DEF Ind, OpeningInv
  <2>4. Trusted =>
          /\ \A s \in db.mem : s \in InLog(db.active)
          /\ \A l \in DOMAIN disk.logs :
               /\ l # db.active => InLog(l) \subseteq Tab(db.vs.tables)
               /\ InLog(l) \subseteq Tab(db.vs.tables) \cup db.mem
    <3>1. db.vs.tables \cup db.added = db.vs.tables
      BY <2>2
    <3>2. QED
      BY <1>2, <3>1, RecoveredAll
  <2>5. /\ Tab(db.vs.tables)' = Tab(db.vs.tables) /\ \A l : InLog(l)' = InLog(l)
        /\ InLog(db.active)' = InLog(db.active)
    BY <1>1 DEF Tab, InLog
  <2>6. QED
    BY <1>1, <1>2, <1>3, <1>4, <2>1, <2>2, <2>3, <2>4, <2>5, EnterGcStep
<1>7. QED
  BY <1>5, <1>6

(* The log is a new one.                                                   *)
LEMMA FreshLogStep ==
  ASSUME Ind, OtherType', NewLog(TRUE), db.active = 0
  PROVE  Ind'
<1> DEFINE n == db.vs.next
<1>1. /\ phase = "newlog" /\ result' = result /\ acked' = acked
      /\ phase' = IF db.save THEN "apply" ELSE "gc"
      /\ disk' = [disk EXCEPT !.logs = With(@, n, <<>>), !.synced = With(@, n, 0)]
      /\ db' = [db EXCEPT !.active = n, !.vs.next = n + 1]
  BY DEF NewLog
<1>2. /\ Opening /\ HasCur /\ db.todo = {} /\ db.log = 0 /\ db.pos = 0
      /\ db.rmem = {} /\ ~db.hasRmem /\ ~db.final /\ db.maxseq = 0
      /\ db.pending_outputs_ = {} /\ db.job = NoJob /\ ~db.bg_error_
      /\ db.imm = {} /\ ~db.hasImm
      /\ db.vs \in Version /\ db.vs.next \in Nat /\ db.vs.seq \in Nat
      /\ Cur.next \in Nat /\ db.vs.next >= Cur.next /\ Newest = db.vs.seq
      /\ db.vs.tables = Cur.tables /\ db.vs.log = Cur.log /\ Cur.log \in Nat
      /\ Cur.log < Cur.next
      /\ \A l \in Listed(DOMAIN disk.logs) : l < db.vs.next
  BY <1>1, NewLogFacts
<1>3. /\ SameObject /\ db'.vs = [db.vs EXCEPT !.next = db.vs.next + 1]
      /\ db'.save = db.save /\ db'.added = db.added /\ db'.mem = db.mem
      /\ db'.active = n /\ db'.logfile_number_ = db.logfile_number_
      /\ db'.pending_outputs_ = db.pending_outputs_ /\ db'.todo = db.todo
      /\ db'.log = db.log /\ db'.pos = db.pos /\ db'.rmem = db.rmem
      /\ db'.hasRmem = db.hasRmem /\ db'.compactions = db.compactions
      /\ db'.final = db.final /\ db'.num = db.num /\ db'.maxseq = db.maxseq
  BY <1>1 DEF Ind, DbType, SameObject
<1>4. /\ db'.vs \in Version /\ db'.vs.next = n + 1 /\ db'.vs.log = db.vs.log
      /\ db'.vs.prev = db.vs.prev /\ db'.vs.seq = db.vs.seq
      /\ db'.vs.tables = db.vs.tables
  <2>1. db.vs.next + 1 \in Nat
    BY <1>2
  <2>2. QED
    BY <1>2, <1>3, <2>1, VersionNext
<1>5. Trusted => n \notin DOMAIN disk.logs
  BY <1>2 DEF Trusted, Listed
<1>6. /\ DiskType' /\ DirInv' /\ LogsInv' /\ DurableInv'
      /\ HasCur' = HasCur /\ Cur' = Cur
      /\ disk'.current = disk.current /\ disk'.manifests = disk.manifests
      /\ disk'.unsynced = disk.unsynced
      /\ disk'.tables = disk.tables /\ disk'.partial = disk.partial
      /\ DOMAIN disk'.logs = DOMAIN disk.logs \cup {n}
      /\ disk'.logs[n] = <<>>
      /\ \A l \in DOMAIN disk.logs : l # n => disk'.logs[l] = disk.logs[l]
  BY <1>1, <1>2, <1>5, AddLogStep
<1>7. DbType'
  BY <1>2, <1>3, <1>4 DEF Ind, DbType, SameObject
<1>8. /\ db.mem = {} /\ db.logfile_number_ = 0 /\ db.vs.prev = 0 /\ db.vs.seq >= Cur.seq
      /\ \/ db.manifest = disk.current
         \/ db.save /\ db.manifest >= Cur.next /\ db.manifest < db.vs.next
      /\ db.added # {} => db.save
      /\ result = "none"
      /\ \A t \in db.added : /\ t \in Nat /\ t < db.vs.next /\ t \in DOMAIN disk.tables
                             /\ \A s \in disk.tables[t] : s <= Newest
  BY <1>2 DEF Ind, OpeningInv, DbType
<1>9. /\ n # 0 /\ db.vs.log <= n /\ n < n + 1 /\ Newest' = Newest
      /\ \A l \in Listed(DOMAIN disk'.logs) : l < n + 1
  <2>1. \A l \in Listed(DOMAIN disk'.logs) : l \in Listed(DOMAIN disk.logs) \/ l = n
    BY <1>6 DEF Listed
  <2>2. Listed(DOMAIN disk.logs) \subseteq Nat
    BY DEF Listed, Ind, DiskType
  <2>3. QED
    BY <1>2, <1>3, <1>4, <2>1, <2>2 DEF Newest
<1>10. /\ Tab(db.vs.tables \cup db.added)' = Tab(db.vs.tables \cup db.added)
       /\ Tab(db.added)' = Tab(db.added)
       /\ Tab(db.vs.tables)' = Tab(db.vs.tables)
  BY <1>3, <1>4, <1>6 DEF Tab
<1>11. /\ \A l : l = n => InLog(l)' = {}
       /\ \A l \in DOMAIN disk.logs : l # n => InLog(l)' = InLog(l)
  BY <1>6 DEF InLog
<1>12. CASE db.save
  <2>1. Opening' /\ phase' = "apply"
    BY <1>1, <1>12 DEF Opening
  <2>2. UnsyncedInv'
    BY <1>1, <1>2, <1>3, <1>6, <2>1, UnsyncedStep DEF Ind
  <2>3. OpeningInv'
    <3>1. \A t \in db'.added : /\ t < db'.vs.next /\ t \in DOMAIN disk'.tables
                               /\ \A s \in disk'.tables[t] : s <= Newest'
      BY <1>2, <1>3, <1>4, <1>6, <1>8, <1>9
    <3>2. /\ db'.vs.next >= Cur.next
          /\ \/ db'.manifest = disk'.current
             \/ db'.save /\ db'.manifest >= Cur.next /\ db'.manifest < db'.vs.next
      BY <1>2, <1>3, <1>4, <1>6, <1>8 DEF SameObject, Ind, DbType
    <3>3. QED
      BY <1>1, <1>2, <1>3, <1>4, <1>6, <1>8, <1>9, <1>12, <2>1, <3>1, <3>2
      DEF OpeningInv, SameObject
  <2>4. ReadingInv'
    BY <1>1, <1>2, <1>3, <1>12 DEF ReadingInv
  <2>5. ReplayInv'
    <3>1. ASSUME Trusted, NEW l \in DOMAIN disk'.logs, NEW i \in DOMAIN disk'.logs[l]
          PROVE  Recovered(l, i)'
      <4>1. l # n /\ l \in DOMAIN disk.logs /\ disk'.logs[l] = disk.logs[l]
        BY <1>6
      <4>2. InLog(l) \subseteq Tab(db.vs.tables \cup db.added) \cup db.mem
        BY <1>2, <3>1, <4>1, RecoveredAll
      <4>3. disk.logs[l][i] \in InLog(l)
        BY <4>1 DEF InLog
      <4>4. QED
        BY <1>8, <1>10, <4>1, <4>2, <4>3 DEF Recovered
    <3>2. QED
      BY <3>1 DEF ReplayInv
  <2>6. LoggedInv'
    <3>1. Trusted => \A s \in Tab(db.added) : Logged(s)'
      BY <1>2, <1>5, <1>6, <1>11 DEF Ind, LoggedInv, Logged
    <3>2. QED
      BY <1>2, <1>3, <1>8, <1>10, <3>1 DEF LoggedInv
  <2>7. QED
    BY <1>6, <1>7, <2>1, <2>2, <2>3, <2>4, <2>5, <2>6, OpeningStep
<1>13. CASE ~db.save
  <2>1. phase' = "gc"
    BY <1>1, <1>13
  <2>2. db.manifest = disk.current /\ db.added = {} /\ UnsyncedInv'
    BY <1>1, <1>6, <1>13, <2>1, NothingToSave
  <2>3. Trusted => \A l \in DOMAIN disk'.logs : InLog(l)' \subseteq Tab(db.vs.tables)'
    <3>1. db.vs.tables \cup db.added = db.vs.tables
      BY <2>2
    <3>2. Trusted => \A l \in DOMAIN disk.logs : InLog(l) \subseteq Tab(db.vs.tables)
      BY <1>2, <1>8, <3>1, RecoveredAll
    <3>3. QED
      <4>1. ASSUME Trusted, NEW l \in DOMAIN disk'.logs
            PROVE  InLog(l)' \subseteq Tab(db.vs.tables)'
        <5>1. CASE l = n
          BY <1>11, <5>1
        <5>2. CASE l # n
          BY <1>6, <1>10, <1>11, <3>2, <4>1, <5>2
        <5>3. QED
          BY <5>1, <5>2
      <4>2. QED
        BY <4>1
  <2>4. db'.vs.next >= Cur'.next
    BY <1>2, <1>4, <1>6
  <2>5. QED
    BY <1>1, <1>2, <1>3, <1>4, <1>6, <1>7, <1>8, <1>9, <1>10, <2>1, <2>2, <2>3, <2>4,
       EnterGcStep DEF SameObject
<1>14. QED
  BY <1>12, <1>13

(* Together: DB::Open has a log to write to, or gives up.                  *)
LEMMA NewLogStep ==
  ASSUME Ind, OtherType', NEW ok \in BOOLEAN, NewLog(ok)
  PROVE  Ind'
<1>1. CASE ok = FALSE
  BY <1>1, NewLogFailsStep
<1>2. CASE ok = TRUE
  BY <1>2, OldLogStep, FreshLogStep
<1>3. QED
  BY <1>1, <1>2

(* The version that DB::Open commits loses nothing.                        *)
LEMMA ApplyFacts ==
  ASSUME Ind, phase = "apply"
  PROVE  /\ Opening /\ HasCur /\ db.todo = {} /\ db.log = 0 /\ db.pos = 0
         /\ db.rmem = {} /\ ~db.hasRmem /\ ~db.final /\ db.maxseq = 0
         /\ db.pending_outputs_ = {} /\ db.job = NoJob /\ ~db.bg_error_
         /\ db.imm = {} /\ ~db.hasImm
         /\ db.manifest # 0 /\ db.manifest < db.vs.next
         /\ \A m \in DOMAIN disk.manifests : m <= db.manifest
         /\ OpenEdit \in Version /\ OpenEdit.prev = 0
         /\ OpenEdit.log = db.logfile_number_
         /\ OpenEdit.tables = db.vs.tables \cup db.added
         /\ OpenEdit.next = db.vs.next /\ OpenEdit.seq = db.vs.seq
         /\ db.active \in DOMAIN disk.logs
         /\ db.logfile_number_ \in {0, db.active}
         /\ db.active < db.vs.next /\ db.vs.next \in Nat /\ db.active \in Nat
         /\ \A t \in OpenEdit.tables :
              /\ t < db.vs.next /\ t \in DOMAIN disk.tables
              /\ \A s \in disk.tables[t] : s <= db.vs.seq
         /\ \A l \in Listed(DOMAIN disk.logs) : l < db.vs.next
         /\ \A s \in db.mem : s <= db.vs.seq
<1>1. Opening
  BY DEF Opening
<1>2. /\ HasCur /\ db.todo = {} /\ db.log = 0 /\ db.pos = 0
      /\ db.rmem = {} /\ ~db.hasRmem /\ ~db.final /\ db.maxseq = 0
      /\ db.pending_outputs_ = {} /\ db.job = NoJob /\ ~db.bg_error_
      /\ db.imm = {} /\ ~db.hasImm /\ db.active # 0
  BY <1>1 DEF Ind, OpeningInv, ReadingInv
<1>3. /\ db.active \in DOMAIN disk.logs /\ db.logfile_number_ \in {0, db.active}
      /\ db.active < db.vs.next
      /\ \A l \in Listed(DOMAIN disk.logs) : l < db.vs.next
      /\ db.vs.tables = Cur.tables /\ db.vs.next >= Cur.next /\ db.vs.seq >= Cur.seq
      /\ \A s \in db.mem : s <= Newest
      /\ \/ db.manifest = disk.current
         \/ db.save /\ db.manifest >= Cur.next /\ db.manifest < db.vs.next
      /\ \A t \in db.added : /\ t < db.vs.next /\ t \in DOMAIN disk.tables
                             /\ \A s \in disk.tables[t] : s <= Newest
  BY <1>1, <1>2 DEF Ind, OpeningInv
<1>4. /\ db.vs \in Version /\ db.vs.next \in Nat /\ db.vs.seq \in Nat
      /\ db.vs.tables \subseteq Nat /\ db.added \subseteq Nat
      /\ db.logfile_number_ \in Nat /\ db.active \in Nat /\ db.manifest \in Nat
      /\ Cur.next \in Nat /\ Cur.seq \in Nat
      /\ disk.current \in Nat /\ DOMAIN disk.manifests \subseteq Nat \ {0}
      /\ disk.current # 0
      /\ disk.tables \in [DOMAIN disk.tables -> SUBSET Writes]
  BY <1>2 DEF Ind, DbType, DiskType, Version, HasCur, Cur
<1>5. /\ disk.current < Cur.next
      /\ \A m \in DOMAIN disk.manifests : m <= disk.current
      /\ \A t \in Cur.tables : /\ t < Cur.next /\ t \in DOMAIN disk.tables
                               /\ \A s \in disk.tables[t] : s <= Cur.seq
  BY <1>2, <1>4 DEF Ind, DirInv
<1>6. Newest = db.vs.seq
  BY <1>2, <1>4 DEF Newest, Larger
<1>7. /\ OpenEdit \in Version /\ OpenEdit.prev = 0
      /\ OpenEdit.log = db.logfile_number_
      /\ OpenEdit.tables = db.vs.tables \cup db.added
      /\ OpenEdit.next = db.vs.next /\ OpenEdit.seq = db.vs.seq
  <2>1. db.vs.tables \cup db.added \in SUBSET Nat
    BY <1>4
  <2>2. OpenEdit = Edited(db.vs, db.logfile_number_, db.vs.tables \cup db.added)
    BY DEF OpenEdit, Edited
  <2>3. QED
    BY <1>4, <2>1, <2>2, VersionEdit
<1>8. db.manifest # 0 /\ db.manifest < db.vs.next
      /\ \A m \in DOMAIN disk.manifests : m <= db.manifest
  BY <1>3, <1>4, <1>5
<1>9. \A t \in Cur.tables : /\ t < db.vs.next /\ t \in DOMAIN disk.tables
                            /\ \A s \in disk.tables[t] : s <= db.vs.seq
  <2>1. \A t \in Cur.tables : t \in Nat
    BY <1>3, <1>4
  <2>2. \A t \in Cur.tables : \A s \in disk.tables[t] : s \in Nat
    BY <1>4, <1>5, RecoveryAssumption DEF Writes
  <2>3. QED
    BY <1>3, <1>4, <1>5, <2>1, <2>2
<1>10. QED
  BY <1>1, <1>2, <1>3, <1>4, <1>6, <1>7, <1>8, <1>9

(* LogAndApply of DB::Open's edit: committed, committed but reported as    *)
(* failed, or not committed.                                               *)
LEMMA ApplyOpenEditStep ==
  ASSUME Ind, OtherType', NEW outcome \in Outcomes, ApplyOpenEdit(outcome)
  PROVE  Ind'
<1>1. phase = "apply" /\ acked' = acked /\ LogAndApply(OpenEdit, outcome)
  BY DEF ApplyOpenEdit
<1>2. CASE outcome = "failed"
  BY <1>1, <1>2, LeftStopStep DEF ApplyOpenEdit, OpenReturns, LogAndApply, Outcomes
<1>3. CASE outcome # "failed"
  <2>1. disk' = Committed(OpenEdit)
    BY <1>1, <1>3 DEF LogAndApply
  <2>2. ~Opening'
    BY <1>3 DEF ApplyOpenEdit, OpenReturns, Opening
  <2>3. /\ Opening /\ HasCur /\ db.todo = {} /\ db.log = 0 /\ db.pos = 0
        /\ db.rmem = {} /\ ~db.hasRmem /\ ~db.final /\ db.maxseq = 0
        /\ db.pending_outputs_ = {} /\ db.job = NoJob /\ ~db.bg_error_
        /\ db.imm = {} /\ ~db.hasImm
        /\ db.manifest # 0 /\ db.manifest < db.vs.next
        /\ \A m \in DOMAIN disk.manifests : m <= db.manifest
        /\ OpenEdit \in Version /\ OpenEdit.prev = 0
        /\ OpenEdit.log = db.logfile_number_
        /\ OpenEdit.tables = db.vs.tables \cup db.added
        /\ OpenEdit.next = db.vs.next /\ OpenEdit.seq = db.vs.seq
        /\ db.active \in DOMAIN disk.logs
        /\ db.logfile_number_ \in {0, db.active}
        /\ db.active < db.vs.next /\ db.vs.next \in Nat /\ db.active \in Nat
        /\ \A t \in OpenEdit.tables :
             /\ t < db.vs.next /\ t \in DOMAIN disk.tables
             /\ \A s \in disk.tables[t] : s <= db.vs.seq
        /\ \A l \in Listed(DOMAIN disk.logs) : l < db.vs.next
        /\ \A s \in db.mem : s <= db.vs.seq
    BY <1>1, ApplyFacts
  <2>4. OpenEdit.log < OpenEdit.next /\ OpenEdit.log <= db.active
    BY <2>3
  <2>5. /\ DiskType' /\ DirInv' /\ UnsyncedInv' /\ HasCur' /\ Cur' = OpenEdit
        /\ disk'.current = db.manifest
        /\ disk'.logs = disk.logs /\ disk'.synced = disk.synced
        /\ disk'.tables = disk.tables
    BY <1>1, <2>1, <2>2, <2>3, <2>4, CommitStep
  <2>6. Trusted =>
          /\ \A s \in db.mem : s \in InLog(db.active)
          /\ \A l \in DOMAIN disk.logs :
               /\ l # db.active => InLog(l) \subseteq Tab(OpenEdit.tables)
               /\ InLog(l) \subseteq Tab(OpenEdit.tables) \cup db.mem
    BY <2>3, RecoveredAll
  <2>7. /\ \A l : InLog(l)' = InLog(l) /\ InSynced(l)' = InSynced(l)
        /\ Tab(Cur.tables)' = Tab(OpenEdit.tables)
    BY <2>5 DEF InLog, InSynced, Tab
  <2>8. LogsInv'
    <3>1. \A l \in DOMAIN disk.logs : l < OpenEdit.log => l # db.active
      BY <2>3
    <3>2. QED
      BY <2>5, <2>6, <2>7, <3>1 DEF LogsInv
  <2>9. DurableInv'
    <3>1. ASSUME Trusted, acked # {}, NEW s \in acked
          PROVE  \/ s \in Tab(OpenEdit.tables)
                 \/ \E l \in DOMAIN disk.logs : l >= OpenEdit.log /\ s \in InSynced(l)
      <4>1. \/ s \in Tab(Cur.tables)
            \/ \E l \in DOMAIN disk.logs : l >= Cur.log /\ s \in InSynced(l)
        BY <3>1 DEF Ind, DurableInv
      <4>2. Tab(Cur.tables) \subseteq Tab(OpenEdit.tables)
        BY <2>3 DEF Tab, Ind, OpeningInv
      <4>3. ASSUME NEW l \in DOMAIN disk.logs, s \in InSynced(l)
            PROVE  s \in Tab(OpenEdit.tables) \/ l = db.active
        <5>1. s \in InLog(l)
          BY <4>3 DEF InSynced, InLog, Ind, DiskType
        <5>2. QED
          BY <2>6, <3>1, <5>1
      <4>4. QED
        BY <2>4, <4>1, <4>2, <4>3
    <3>2. QED
      BY <1>1, <2>5, <2>7, <3>1 DEF DurableInv
  <2>10. CASE outcome = "written"
    <3>1. db' = NoDB /\ phase' = "down"
      BY <2>10 DEF ApplyOpenEdit, OpenReturns
    <3>2. QED
      BY <2>5, <2>8, <2>9, <3>1, StopStep
  <2>11. CASE outcome = "ok"
    <3>1. phase' = "gc" /\ db' = [db EXCEPT !.vs = OpenEdit, !.save = FALSE, !.added = {}]
      BY <2>11 DEF ApplyOpenEdit
    <3>2. /\ SameObject /\ db'.vs = OpenEdit
          /\ db'.save = FALSE /\ db'.added = {} /\ db'.mem = db.mem
          /\ db'.active = db.active /\ db'.logfile_number_ = db.logfile_number_
          /\ db'.pending_outputs_ = db.pending_outputs_ /\ db'.todo = db.todo
          /\ db'.log = db.log /\ db'.pos = db.pos /\ db'.rmem = db.rmem
          /\ db'.hasRmem = db.hasRmem /\ db'.compactions = db.compactions
          /\ db'.final = db.final /\ db'.num = db.num /\ db'.maxseq = db.maxseq
      BY <3>1 DEF Ind, DbType, SameObject
    <3>3. DbType'
      BY <2>3, <3>2 DEF Ind, DbType, SameObject
    <3>4. Tab(db.vs.tables)' = Tab(OpenEdit.tables) /\ InLog(db.active)' = InLog(db.active)
      BY <2>5, <3>2 DEF Tab, InLog
    <3>5. Cur'.next <= db'.vs.next /\ Cur'.seq <= db'.vs.seq
      <4>1. OpenEdit.seq \in Nat
        BY <2>3 DEF Version
      <4>2. QED
        BY <2>3, <2>5, <3>2, <4>1
    <3>6. QED
      BY <2>3, <2>4, <2>5, <2>6, <2>7, <2>8, <2>9, <3>1, <3>2, <3>3, <3>4, <3>5,
         EnterGcStep, ZenonT(40) DEF SameObject
  <2>12. QED
    BY <1>3, <2>10, <2>11 DEF Outcomes
<1>4. QED
  BY <1>2, <1>3

=============================================================================
