-------------------------- MODULE DBRecoveryProofs --------------------------
(***************************************************************************)
(* The steps of an open database preserve the invariant of                 *)
(* DBRecoveryOpenProofs, and so do crashes: it holds of every reachable    *)
(* state, and the properties of DBRecovery follow from it.                 *)
(***************************************************************************)
EXTENDS DBRecoveryOpenProofs

-----------------------------------------------------------------------------
(* Failures of BuildTable, crashes and the end.                            *)
(* BuildTable fails: its file is removed or left, DB::Open gives up and    *)
(* the logs remain.                                                        *)
LEMMA TableNotBuiltStep ==
  ASSUME Ind, OtherType', TableBuilt(FALSE)
  PROVE  Ind'
<1>1. /\ db' = NoDB /\ phase' = "down" /\ acked' = acked
      /\ DOMAIN disk' = DOMAIN disk /\ disk'.strays = disk.strays
      /\ disk'.current = disk.current /\ disk'.manifests = disk.manifests
      /\ disk'.unsynced = disk.unsynced
      /\ disk'.logs = disk.logs /\ disk'.synced = disk.synced
      /\ disk'.partial = disk.partial \ {db.num} /\ disk'.tables = disk.tables
  BY DEF TableBuilt, OpenReturns, Ind, DiskType
<1>2. DiskType'
  BY <1>1 DEF Ind, DiskType
<1>3. SameCur
  BY <1>1 DEF SameCur, Ind, DirInv
<1>4. DirInv' /\ LogsInv' /\ DurableInv'
  BY <1>3, SameCurStep DEF Ind
<1>5. UnsyncedInv'
  BY <1>1, UnsyncedStep DEF Ind, Opening, Running
<1>6. QED
  BY <1>1, <1>2, <1>4, <1>5, StopStep

(* The process dies: the files stay as written so far, the temporary file  *)
(* of a switch of CURRENT included.                                        *)
LEMMA ProcessCrashStep ==
  ASSUME Ind, OtherType', ProcessCrash
  PROVE  Ind'
  BY LeftStopStep DEF ProcessCrash

(* What was synced is still there when the machine has crashed.            *)
LEMMA MachineCrashStep ==
  ASSUME Ind, OtherType', MachineCrash
  PROVE  Ind'
<1>1. /\ "machine" \in CrashKinds /\ db' = NoDB /\ phase' = "down" /\ acked' = acked
      /\ DOMAIN disk' = DOMAIN disk /\ disk'.strays \in SUBSET Strays
      /\ disk'.current = disk.current
      /\ disk'.manifests = Without(disk.manifests, disk.unsynced)
      /\ disk'.unsynced = {}
      /\ disk'.logs = [l \in DOMAIN disk.logs |-> SubSeq(disk.logs[l], 1, disk.synced[l])]
      /\ disk'.synced = disk.synced
      /\ disk'.partial = disk.partial /\ disk'.tables = disk.tables
  <2>1. PICK left \in LeftDisks :
          disk' = [left EXCEPT
                     !.logs = [l \in DOMAIN @ |-> SubSeq(@[l], 1, disk.synced[l])],
                     !.manifests = Without(@, disk.unsynced),
                     !.unsynced = {}]
    BY DEF MachineCrash
  <2>2. /\ DOMAIN left = DOMAIN disk /\ left.strays \in SUBSET Strays
        /\ left.current = disk.current /\ left.manifests = disk.manifests
        /\ left.logs = disk.logs /\ left.synced = disk.synced
        /\ left.tables = disk.tables /\ left.partial = disk.partial
    BY LeftFacts DEF Ind
  <2>3. DOMAIN left = {"current", "manifests", "unsynced", "logs", "synced",
                       "tables", "partial", "strays"}
    BY <2>2 DEF Ind, DiskType
  <2>4. /\ DOMAIN disk' = DOMAIN left /\ disk'.strays = left.strays
        /\ disk'.current = left.current
        /\ disk'.manifests = Without(left.manifests, disk.unsynced)
        /\ disk'.unsynced = {}
        /\ disk'.logs = [l \in DOMAIN left.logs |->
                           SubSeq(left.logs[l], 1, disk.synced[l])]
        /\ disk'.synced = left.synced
        /\ disk'.partial = left.partial /\ disk'.tables = left.tables
    BY <2>1, <2>3
  <2>5. "machine" \in CrashKinds /\ db' = NoDB /\ phase' = "down" /\ acked' = acked
    BY DEF MachineCrash
  <2>6. QED
    BY <2>2, <2>4, <2>5
<1>2. /\ DOMAIN disk'.manifests = DOMAIN disk.manifests \ disk.unsynced
      /\ \A m \in DOMAIN disk'.manifests : disk'.manifests[m] = disk.manifests[m]
      /\ disk'.manifests \in [DOMAIN disk'.manifests -> Version]
  <2>1. disk.manifests \in [DOMAIN disk.manifests -> Version]
    BY DEF Ind, DiskType
  <2>2. QED
    BY <1>1, <2>1 DEF Without, Restrict
<1>3. ASSUME NEW l \in DOMAIN disk.logs
      PROVE  /\ disk'.logs[l] \in Seq(Writes)
             /\ Len(disk'.logs[l]) = disk.synced[l]
             /\ \A i \in 1..disk.synced[l] : /\ i \in DOMAIN disk.logs[l]
                                             /\ disk'.logs[l][i] = disk.logs[l][i]
  <2>1. /\ disk.logs[l] \in Seq(Writes) /\ disk.synced[l] \in Nat
        /\ disk.synced[l] <= Len(disk.logs[l])
    BY DEF Ind, DiskType
  <2>2. disk'.logs[l] = SubSeq(disk.logs[l], 1, disk.synced[l])
    BY <1>1
  <2>3. QED
    BY <2>1, <2>2
<1>4. disk'.logs \in [DOMAIN disk'.logs -> Seq(Writes)] /\ DOMAIN disk'.logs = DOMAIN disk.logs
  BY <1>1, <1>3
<1>5. DiskType'
  <2>1. \A l \in DOMAIN disk'.logs : disk'.synced[l] <= Len(disk'.logs[l])
    BY <1>1, <1>3, <1>4 DEF Ind, DiskType
  <2>2. QED
    BY <1>1, <1>2, <1>4, <2>1 DEF Ind, DiskType
<1>6. HasCur' => HasCur /\ Cur' = Cur
  BY <1>1, <1>2 DEF HasCur, Cur
<1>7. DirInv'
  BY <1>1, <1>2, <1>4, <1>6 DEF Ind, DirInv
<1>8. UnsyncedInv'
  <2>1. ~Fresh /\ disk.current # 0 => HasCur'
    BY <1>1, <1>2 DEF Ind, UnsyncedInv, HasCur
  <2>2. QED
    BY <1>1, <2>1 DEF Ind, UnsyncedInv, Opening
<1>9. Tab(Cur.tables)' = Tab(Cur'.tables)
  BY <1>1 DEF Tab
<1>10. \A l \in DOMAIN disk.logs : InSynced(l)' = InSynced(l) /\ InLog(l)' \subseteq InLog(l)
  <2>1. ASSUME NEW l \in DOMAIN disk.logs PROVE InLog(l)' \subseteq InLog(l)
    <3>1. DOMAIN disk'.logs[l] = 1..disk.synced[l]
      BY <1>3 DEF Ind, DiskType
    <3>2. QED
      BY <1>3, <3>1 DEF InLog
  <2>2. ASSUME NEW l \in DOMAIN disk.logs PROVE InSynced(l)' = InSynced(l)
    <3>1. \A i \in 1..disk.synced[l] : disk'.logs[l][i] = disk.logs[l][i]
      BY <1>3
    <3>2. disk'.synced = disk.synced
      BY <1>1
    <3>3. QED
      BY <3>1, <3>2 DEF InSynced
  <2>3. QED
    BY <2>1, <2>2
<1>11. LogsInv'
  BY <1>1, <1>4, <1>6, <1>9, <1>10 DEF Ind, LogsInv, Tab
<1>12. DurableInv'
  <2>1. Trusted /\ acked # {} => HasCur'
    BY <1>1, <1>2 DEF Ind, DurableInv, UnsyncedInv, HasCur
  <2>2. QED
    BY <1>1, <1>4, <1>6, <1>10, <2>1 DEF Ind, DurableInv, Tab
<1>13. QED
  BY <1>1, <1>5, <1>7, <1>8, <1>11, <1>12, StopStep

-----------------------------------------------------------------------------
(* The open database.                                                      *)

(* What the steps of an open database rely on.                             *)
LEMMA RunningFacts ==
  ASSUME Ind, Running
  PROVE  /\ HasCur /\ disk.current = db.manifest /\ disk.current # 0
         /\ db.vs \in Version /\ db.vs.next \in Nat /\ db.vs.seq \in Nat
         /\ db.vs.log \in Nat /\ db.vs.tables \subseteq Nat
         /\ Cur \in Version /\ Cur.next \in Nat /\ Cur.log \in Nat /\ Cur.seq \in Nat
         /\ Cur.tables \subseteq Nat /\ Cur.log < Cur.next
         /\ db.vs.next >= Cur.next /\ db.manifest < db.vs.next
         /\ db.active \in DOMAIN disk.logs /\ db.active \in Nat
         /\ db.vs.log <= db.active /\ db.active < db.vs.next
         /\ \A t \in db.vs.tables : t < db.vs.next /\ t \in DOMAIN disk.tables
         /\ \A t \in Cur.tables : t < db.vs.next /\ t \in DOMAIN disk.tables
         /\ \A l \in Listed(DOMAIN disk.logs) : l \in Nat /\ l < db.vs.next
         /\ ~db.bg_error_ => Cur.tables = db.vs.tables /\ Cur.log = db.vs.log
         /\ db.log = 0 /\ db.pos = 0 /\ db.rmem = {} /\ ~db.hasRmem /\ ~db.final
<1>1. /\ HasCur /\ disk.current = db.manifest
      /\ db.vs.next >= Cur.next /\ db.active \in DOMAIN disk.logs
      /\ db.vs.log <= db.active /\ db.active < db.vs.next
      /\ \A t \in db.vs.tables : t < db.vs.next /\ t \in DOMAIN disk.tables
      /\ \A l \in Listed(DOMAIN disk.logs) : l < db.vs.next
      /\ ~db.bg_error_ => Cur.tables = db.vs.tables /\ Cur.log = db.vs.log
  BY DEF Ind, RunningInv
<1>2. /\ db.vs \in Version /\ db.vs.next \in Nat /\ db.vs.seq \in Nat
      /\ db.vs.log \in Nat /\ db.vs.tables \subseteq Nat
      /\ Cur \in Version /\ Cur.next \in Nat /\ Cur.log \in Nat /\ Cur.seq \in Nat
      /\ Cur.tables \subseteq Nat /\ db.active \in Nat /\ db.manifest \in Nat
      /\ disk.current # 0 /\ Listed(DOMAIN disk.logs) \subseteq Nat
  BY <1>1 DEF Ind, DbType, DiskType, Version, HasCur, Cur, Listed
<1>3. /\ Cur.log < Cur.next /\ disk.current < Cur.next
      /\ \A t \in Cur.tables : t < Cur.next /\ t \in DOMAIN disk.tables
  BY <1>1 DEF Ind, DirInv
<1>4. db.log = 0 /\ db.pos = 0 /\ db.rmem = {} /\ ~db.hasRmem /\ ~db.final
  BY DEF Ind, ReadingInv, Running
<1>5. QED
  BY <1>1, <1>2, <1>3, <1>4

(* Fields that an open database does not use.                              *)
SameRecoveryLocals ==
  /\ DOMAIN db' = DOMAIN db /\ db'.manifest = db.manifest
  /\ db'.save = db.save /\ db'.added = db.added /\ db'.todo = db.todo
  /\ db'.log = db.log /\ db'.pos = db.pos /\ db'.rmem = db.rmem
  /\ db'.hasRmem = db.hasRmem /\ db'.compactions = db.compactions
  /\ db'.final = db.final /\ db'.num = db.num /\ db'.maxseq = db.maxseq
  /\ db'.refused \in {db.refused, {}}

(* Steps of an open database leave the locals of RecoverLogFile as they    *)
(* were.                                                                   *)
LEMMA RunningReading ==
  ASSUME Ind, Running, Running', SameRecoveryLocals
  PROVE  ReadingInv'
  BY DEF Ind, Running, SameRecoveryLocals, ReadingInv

(* Between two passes of DeleteObsoleteFiles, the only files that appear   *)
(* are the log and the table of the work in progress.                      *)
LEMMA GarbageKept ==
  ASSUME Ind, phase = "running", db'.bg_error_ = db.bg_error_,
         db'.manifest = db.manifest, db'.refused = db.refused,
         db'.vs.tables = db.vs.tables, db'.vs.log = db.vs.log,
         \/ db'.job = db.job
         \/ db'.job # NoJob /\ (db.job = NoJob \/ db'.job.num = db.job.num),
         disk'.manifests = disk.manifests, disk'.strays = disk.strays,
         DOMAIN disk'.tables \cup disk'.partial
           \subseteq DOMAIN disk.tables \cup disk.partial
                       \cup (IF db'.job = NoJob THEN {} ELSE {db'.job.num}),
         \A l \in DOMAIN disk'.logs : l \in DOMAIN disk.logs \/ ~(l < db.vs.log)
  PROVE  GarbageInv'
<1>1. /\ Refused("table")' = Refused("table")
      /\ Refused("manifest")' = Refused("manifest") /\ Refused("log")' = Refused("log")
  BY DEF Refused
<1>2. CASE ~(SlashInName /\ phase' = "running" /\ ~db.bg_error_)
  BY <1>2 DEF GarbageInv
<1>3. CASE SlashInName /\ phase' = "running" /\ ~db.bg_error_
  <2>1. /\ DOMAIN disk.tables \cup disk.partial
             \subseteq db.vs.tables \cup (IF db.job = NoJob THEN {} ELSE {db.job.num})
                         \cup Refused("table")
        /\ DOMAIN disk.manifests \subseteq {db.manifest} \cup Refused("manifest")
        /\ \A l \in DOMAIN disk.logs : l < db.vs.log => l \in Refused("log")
        /\ \A f \in disk.strays \ db.refused :
             IF f[1] = "temp" THEN f[2] \in db.vs.tables ELSE f[2] >= db.manifest
    BY <1>3 DEF Ind, GarbageInv
  <2>2. DOMAIN disk'.tables \cup disk'.partial
          \subseteq db.vs.tables \cup (IF db'.job = NoJob THEN {} ELSE {db'.job.num})
                      \cup Refused("table")
    BY <2>1
  <2>3. \A l \in DOMAIN disk'.logs : l < db.vs.log => l \in Refused("log")
    BY <2>1
  <2>4. QED
    BY <1>1, <2>1, <2>2, <2>3 DEF GarbageInv
<1>4. QED
  BY <1>2, <1>3

(* The destructor.                                                         *)
LEMMA CloseStep ==
  ASSUME Ind, OtherType', Close
  PROVE  Ind'
<1>1. phase = "running" /\ Running /\ disk' = disk /\ acked' = acked /\ result' = result
  BY DEF Close, Running
<1>2. CASE db.job = NoJob
  BY <1>1, <1>2, QuietStopStep DEF Close
<1>3. CASE db.job # NoJob
  <2>1. db' = [db EXCEPT !.closing = TRUE] /\ phase' = phase /\ Running'
    BY <1>1, <1>3 DEF Close, Running
  <2>2. /\ SameRecoveryLocals /\ db'.vs = db.vs /\ db'.mem = db.mem /\ db'.imm = db.imm
        /\ db'.hasImm = db.hasImm /\ db'.active = db.active
        /\ db'.logfile_number_ = db.logfile_number_
        /\ db'.pending_outputs_ = db.pending_outputs_
        /\ db'.bg_error_ = db.bg_error_ /\ db'.closing = TRUE /\ db'.job = db.job
        /\ db'.refused = db.refused
    BY <2>1 DEF Ind, DbType, SameRecoveryLocals
  <2>3. DiskType' /\ DirInv' /\ LogsInv' /\ DurableInv' /\ HasCur' = HasCur /\ Cur' = Cur
    BY <1>1, SameDiskStep
  <2>4. UnsyncedInv'
    BY <1>1, <2>1, UnsyncedStep DEF Ind
  <2>5. DbType'
    BY <2>2 DEF Ind, DbType, SameRecoveryLocals
  <2>6. ReadingInv'
    BY <1>1, <2>1, <2>2, RunningReading
  <2>7. JobInv'
    BY <1>1, <2>1, <2>2 DEF Ind, JobInv, Tab
  <2>8. RunningInv'
    BY <1>1, <2>1, <2>2, <2>3 DEF Ind, RunningInv, SameRecoveryLocals
  <2>9. GarbageInv'
    BY <1>1, <2>2, GarbageKept DEF SameRecoveryLocals
  <2>10. HeldInv'
    BY <1>1, <2>1, <2>2, <2>3 DEF Ind, HeldInv, Tab, InLog
  <2>11. QED
    BY <2>1, <2>3, <2>4, <2>5, <2>6, <2>7, <2>8, <2>9, <2>10, RunningStep
<1>4. QED
  BY <1>2, <1>3

-----------------------------------------------------------------------------
(* DeleteObsoleteFiles.                                                    *)
(* DeleteObsoleteFiles runs with no job under way, on the version that     *)
(* CURRENT leads to.                                                       *)
LEMMA GcFacts ==
  ASSUME Ind, phase = "gc"
  PROVE  /\ Running /\ ~db.bg_error_ /\ db.job = NoJob /\ db.pending_outputs_ = {}
         /\ Cur.tables = db.vs.tables /\ Cur.log = db.vs.log /\ db.vs.prev = 0
<1>1. Running
  BY DEF Running
<1>2. QED
  BY <1>1 DEF Ind, RunningInv, JobInv

(* A log that is removed is older than the version's log: what is in it is *)
(* in a table.                                                             *)
LEMMA DeleteLogStep ==
  ASSUME Ind, OtherType', phase = "gc", NEW n \in ObsoleteLogs,
         disk' = [disk EXCEPT !.logs = Without(@, {n}), !.synced = Without(@, {n})],
         UNCHANGED <<db, phase, opts, result, acked>>
  PROVE  Ind'
<1>1. /\ DOMAIN disk' = DOMAIN disk /\ disk'.strays = disk.strays
      /\ disk'.current = disk.current /\ disk'.manifests = disk.manifests
      /\ disk'.unsynced = disk.unsynced
      /\ disk'.logs = Without(disk.logs, {n}) /\ disk'.synced = Without(disk.synced, {n})
      /\ disk'.tables = disk.tables /\ disk'.partial = disk.partial
  BY DEF Ind, DiskType
<1>2. /\ Running /\ ~db.bg_error_ /\ db.job = NoJob
      /\ Cur.tables = db.vs.tables /\ Cur.log = db.vs.log
  BY GcFacts
<1>3. /\ HasCur /\ disk.current # 0 /\ db.vs.log \in Nat /\ db.active \in Nat
      /\ db.active \in DOMAIN disk.logs /\ db.vs.log <= db.active
  BY <1>2, RunningFacts
<1>4. n \in DOMAIN disk.logs /\ n \in Nat /\ n < db.vs.log /\ n # db.active
  <2>1. n \in DOMAIN disk.logs /\ n \in Nat /\ n < db.vs.log
    BY DEF ObsoleteLogs, Listed, Ind, DiskType
  <2>2. QED
    BY <1>3, <2>1
<1>5. /\ disk.logs \in [DOMAIN disk.logs -> Seq(Writes)]
      /\ disk.synced \in [DOMAIN disk.logs -> Nat]
      /\ DOMAIN disk.synced = DOMAIN disk.logs
  BY DEF Ind, DiskType
<1>6. /\ DOMAIN disk'.logs = DOMAIN disk.logs \ {n}
      /\ \A l \in DOMAIN disk'.logs : disk'.logs[l] = disk.logs[l]
      /\ disk'.logs \in [DOMAIN disk'.logs -> Seq(Writes)]
  BY <1>1, <1>5 DEF Without, Restrict
<1>7. /\ DOMAIN disk'.synced = DOMAIN disk.logs \ {n}
      /\ \A l \in DOMAIN disk'.logs : disk'.synced[l] = disk.synced[l]
      /\ disk'.synced \in [DOMAIN disk'.logs -> Nat]
  BY <1>1, <1>5, <1>6 DEF Without, Restrict
<1>8. DiskType'
  BY <1>1, <1>6, <1>7 DEF Ind, DiskType
<1>9. HasCur' = HasCur /\ Cur' = Cur /\ \A S : Tab(S)' = Tab(S)
  BY <1>1 DEF HasCur, Cur, Tab
<1>10. /\ \A l \in DOMAIN disk'.logs : InLog(l)' = InLog(l)
       /\ \A l \in DOMAIN disk'.logs : InSynced(l)' = InSynced(l)
  <2>1. ASSUME NEW l \in DOMAIN disk'.logs PROVE InLog(l)' = InLog(l)
    BY <1>6 DEF InLog
  <2>2. ASSUME NEW l \in DOMAIN disk'.logs PROVE InSynced(l)' = InSynced(l)
    <3>1. disk'.logs[l] = disk.logs[l] /\ disk'.synced[l] = disk.synced[l]
      BY <1>6, <1>7
    <3>2. QED
      BY <3>1 DEF InSynced
  <2>3. QED
    BY <2>1, <2>2
<1>11. DirInv'
  BY <1>1, <1>3, <1>9 DEF Ind, DirInv
<1>12. UnsyncedInv'
  BY <1>1, <1>2, UnsyncedStep DEF Ind, Running
<1>13. LogsInv'
  <2>1. Tab(Cur.tables)' = Tab(Cur.tables)
    BY <1>1, <1>9 DEF Tab
  <2>2. QED
    BY <1>6, <1>9, <1>10, <2>1 DEF Ind, LogsInv
<1>14. DurableInv'
  <2>1. \A l \in DOMAIN disk.logs : l >= Cur.log => l \in DOMAIN disk'.logs
    BY <1>2, <1>3, <1>4, <1>6
  <2>2. Tab(Cur.tables)' = Tab(Cur.tables)
    BY <1>1, <1>9 DEF Tab
  <2>3. QED
    BY <1>9, <1>10, <2>1, <2>2 DEF Ind, DurableInv
<1>15. DbType'
  BY DEF Ind, DbType
<1>16. Running' /\ ReadingInv'
  BY <1>2, RunningReading DEF Running, SameRecoveryLocals
<1>17. JobInv'
  BY <1>2 DEF Ind, JobInv, NoJob
<1>18. RunningInv'
  <2>1. \A l \in Listed(DOMAIN disk'.logs) : l \in Listed(DOMAIN disk.logs)
    BY <1>6 DEF Listed
  <2>2. QED
    BY <1>1, <1>2, <1>3, <1>4, <1>6, <1>9, <2>1 DEF Ind, RunningInv
<1>19. GarbageInv'
  BY DEF GarbageInv
<1>20. HeldInv'
  <2>1. Tab(Cur.tables)' = Tab(Cur.tables) /\ Tab(db.vs.tables)' = Tab(db.vs.tables)
    BY <1>1, <1>9 DEF Tab
  <2>2. db' = db /\ db.active \in DOMAIN disk'.logs
    BY <1>3, <1>4, <1>6
  <2>3. InLog(db.active)' = InLog(db.active)
    BY <1>10, <2>2
  <2>4. Trusted => /\ \A s \in db.mem' : s \in InLog(db.active)'
                   /\ Tab(Cur.tables)' \subseteq Tab(db.vs.tables)' \cup db.imm'
    <3>1. Trusted => /\ \A s \in db.mem : s \in InLog(db.active)
                     /\ Tab(Cur.tables) \subseteq Tab(db.vs.tables) \cup db.imm
      BY <1>2 DEF Ind, HeldInv
    <3>2. QED
      BY <2>1, <2>2, <2>3, <3>1
  <2>5. Trusted => \A l \in DOMAIN disk'.logs :
           /\ l # db.active' => InLog(l)' \subseteq Tab(db.vs.tables)' \cup db.imm'
           /\ InLog(l)' \subseteq Tab(db.vs.tables)' \cup db.imm' \cup db.mem'
    <3>1. Trusted => \A l \in DOMAIN disk.logs :
             /\ l # db.active => InLog(l) \subseteq Tab(db.vs.tables) \cup db.imm
             /\ InLog(l) \subseteq Tab(db.vs.tables) \cup db.imm \cup db.mem
      BY <1>2 DEF Ind, HeldInv
    <3>2. QED
      BY <1>6, <1>10, <2>1, <2>2, <3>1
  <2>6. QED
    BY <2>1, <2>3, <2>4, <2>5 DEF HeldInv
<1>21. QED
  BY <1>8, <1>11, <1>12, <1>13, <1>14, <1>15, <1>16, <1>17, <1>18, <1>19, <1>20, RunningStep

(* A MANIFEST that is removed is not the one CURRENT names.                *)
LEMMA DeleteManifestStep ==
  ASSUME Ind, OtherType', phase = "gc", NEW n \in ObsoleteManifests,
         disk' = [disk EXCEPT !.manifests = Without(@, {n}), !.unsynced = @ \ {n}],
         UNCHANGED <<db, phase, opts, result, acked>>
  PROVE  Ind'
<1>1. /\ DOMAIN disk' = DOMAIN disk /\ disk'.strays = disk.strays
      /\ disk'.current = disk.current
      /\ disk'.manifests = Without(disk.manifests, {n})
      /\ disk'.unsynced = disk.unsynced \ {n}
      /\ disk'.logs = disk.logs /\ disk'.synced = disk.synced
      /\ disk'.tables = disk.tables /\ disk'.partial = disk.partial
  BY DEF Ind, DiskType
<1>2. /\ Running /\ ~db.bg_error_ /\ db.job = NoJob
      /\ Cur.tables = db.vs.tables /\ Cur.log = db.vs.log
  BY GcFacts
<1>3. HasCur /\ disk.current = db.manifest /\ disk.current \in Nat /\ disk.current # 0
  BY <1>2, RunningFacts DEF Ind, DiskType
<1>4. n # disk.current
  BY <1>3 DEF ObsoleteManifests
<1>5. disk.manifests \in [DOMAIN disk.manifests -> Version]
  BY DEF Ind, DiskType
<1>6. /\ DOMAIN disk'.manifests = DOMAIN disk.manifests \ {n}
      /\ \A m \in DOMAIN disk'.manifests : disk'.manifests[m] = disk.manifests[m]
      /\ disk'.manifests \in [DOMAIN disk'.manifests -> Version]
  BY <1>1, <1>5 DEF Without, Restrict
<1>7. DiskType'
  BY <1>1, <1>6 DEF Ind, DiskType
<1>8. HasCur' = HasCur /\ Cur' = Cur
  BY <1>1, <1>3, <1>4, <1>6 DEF HasCur, Cur
<1>9. /\ Tab(Cur.tables)' = Tab(Cur.tables) /\ Tab(db.vs.tables)' = Tab(db.vs.tables)
      /\ \A l : InLog(l)' = InLog(l) /\ InSynced(l)' = InSynced(l)
      /\ InLog(db.active)' = InLog(db.active)
  BY <1>1, <1>8 DEF Tab, InLog, InSynced
<1>10. DirInv'
  BY <1>1, <1>6, <1>8 DEF Ind, DirInv
<1>11. UnsyncedInv'
  BY <1>1, <1>2, <1>8 DEF Ind, UnsyncedInv, Running, Opening
<1>12. LogsInv' /\ DurableInv'
  BY <1>1, <1>8, <1>9 DEF Ind, LogsInv, DurableInv
<1>13. DbType'
  BY DEF Ind, DbType
<1>14. Running' /\ ReadingInv'
  BY <1>2, RunningReading DEF Running, SameRecoveryLocals
<1>15. JobInv'
  BY <1>2 DEF Ind, JobInv, NoJob
<1>16. RunningInv'
  BY <1>1, <1>2, <1>3, <1>8 DEF Ind, RunningInv
<1>17. GarbageInv'
  BY DEF GarbageInv
<1>18. HeldInv'
  BY <1>1, <1>2, <1>9 DEF Ind, HeldInv
<1>19. QED
  BY <1>7, <1>10, <1>11, <1>12, <1>13, <1>14, <1>15, <1>16, <1>17, <1>18, RunningStep

(* A table that is removed is in no version and is not being written.      *)
LEMMA DeleteTableStep ==
  ASSUME Ind, OtherType', phase = "gc", NEW n \in ObsoleteTables,
         disk' = [disk EXCEPT !.tables = Without(@, {n}), !.partial = @ \ {n}],
         UNCHANGED <<db, phase, opts, result, acked>>
  PROVE  Ind'
<1>1. /\ DOMAIN disk' = DOMAIN disk /\ disk'.strays = disk.strays
      /\ disk'.current = disk.current /\ disk'.manifests = disk.manifests
      /\ disk'.unsynced = disk.unsynced
      /\ disk'.logs = disk.logs /\ disk'.synced = disk.synced
      /\ disk'.tables = Without(disk.tables, {n})
      /\ disk'.partial = disk.partial \ {n}
  BY DEF Ind, DiskType
<1>2. /\ Running /\ ~db.bg_error_ /\ db.job = NoJob
      /\ Cur.tables = db.vs.tables /\ Cur.log = db.vs.log
  BY GcFacts
<1>3. /\ HasCur /\ disk.current = db.manifest /\ disk.current # 0
      /\ db.vs.tables \subseteq DOMAIN disk.tables
  BY <1>2, RunningFacts
<1>4. n \notin db.vs.tables
  BY DEF ObsoleteTables, Live
<1>5. disk.tables \in [DOMAIN disk.tables -> SUBSET Writes]
  BY DEF Ind, DiskType
<1>6. /\ DOMAIN disk'.tables = DOMAIN disk.tables \ {n}
      /\ \A t \in DOMAIN disk'.tables : disk'.tables[t] = disk.tables[t]
      /\ disk'.tables \in [DOMAIN disk'.tables -> SUBSET Writes]
  BY <1>1, <1>5 DEF Without, Restrict
<1>7. DiskType'
  BY <1>1, <1>6 DEF Ind, DiskType
<1>8. \A t \in db.vs.tables : t \in DOMAIN disk'.tables /\ disk'.tables[t] = disk.tables[t]
  BY <1>3, <1>4, <1>6
<1>9. SameCur
  BY <1>1, <1>2, <1>3, <1>8 DEF SameCur
<1>10. /\ DirInv' /\ LogsInv' /\ DurableInv' /\ HasCur' = HasCur /\ Cur' = Cur
       /\ Tab(Cur.tables)' = Tab(Cur.tables)
  BY <1>3, <1>9, SameCurStep DEF Ind
<1>11. UnsyncedInv'
  BY <1>1, <1>2, UnsyncedStep DEF Ind, Running
<1>12. DbType'
  BY DEF Ind, DbType
<1>13. Running' /\ ReadingInv'
  BY <1>2, RunningReading DEF Running, SameRecoveryLocals
<1>14. JobInv'
  BY <1>2 DEF Ind, JobInv, NoJob
<1>15. RunningInv'
  BY <1>1, <1>2, <1>3, <1>8, <1>10 DEF Ind, RunningInv
<1>16. GarbageInv'
  BY DEF GarbageInv
<1>17. HeldInv'
  <2>1. db' = db
    OBVIOUS
  <2>2. Tab(db.vs.tables)' = Tab(db.vs.tables)
    BY <1>8, <2>1 DEF Tab
  <2>3. (\A l : InLog(l)' = InLog(l)) /\ InLog(db.active)' = InLog(db.active)
    BY <1>1, <2>1 DEF InLog
  <2>4. QED
    BY <1>1, <1>2, <1>10, <2>1, <2>2, <2>3 DEF Ind, HeldInv
<1>18. QED
  BY <1>7, <1>10, <1>11, <1>12, <1>13, <1>14, <1>15, <1>16, <1>17, RunningStep

(* What a switch of CURRENT left behind is not needed.                     *)
LEMMA DeleteStrayStep ==
  ASSUME Ind, OtherType', phase = "gc", NEW f,
         disk' = [disk EXCEPT !.strays = @ \ {f}],
         UNCHANGED <<db, phase, opts, result, acked>>
  PROVE  Ind'
<1>1. /\ DOMAIN disk' = DOMAIN disk /\ disk'.strays = disk.strays \ {f}
      /\ disk'.current = disk.current /\ disk'.manifests = disk.manifests
      /\ disk'.unsynced = disk.unsynced
      /\ disk'.logs = disk.logs /\ disk'.synced = disk.synced
      /\ disk'.tables = disk.tables /\ disk'.partial = disk.partial
  BY DEF Ind, DiskType
<1>2. /\ Running /\ ~db.bg_error_ /\ db.job = NoJob
      /\ Cur.tables = db.vs.tables /\ Cur.log = db.vs.log
  BY GcFacts
<1>3. HasCur /\ disk.current # 0
  BY <1>2, RunningFacts
<1>4. DiskType'
  BY <1>1 DEF Ind, DiskType
<1>5. SameCur
  BY <1>1 DEF SameCur, Ind, DirInv
<1>6. /\ DirInv' /\ LogsInv' /\ DurableInv' /\ HasCur' = HasCur /\ Cur' = Cur
      /\ Tab(Cur.tables)' = Tab(Cur.tables)
  BY <1>3, <1>5, SameCurStep DEF Ind
<1>7. UnsyncedInv'
  BY <1>1, <1>2, UnsyncedStep DEF Ind, Running
<1>8. DbType'
  BY DEF Ind, DbType
<1>9. Running' /\ ReadingInv'
  BY <1>2, RunningReading DEF Running, SameRecoveryLocals
<1>10. JobInv'
  BY <1>2 DEF Ind, JobInv, NoJob
<1>11. RunningInv'
  BY <1>1, <1>2, <1>6 DEF Ind, RunningInv
<1>12. GarbageInv'
  BY DEF GarbageInv
<1>13. HeldInv'
  <2>1. /\ Tab(db.vs.tables)' = Tab(db.vs.tables) /\ \A l : InLog(l)' = InLog(l)
        /\ InLog(db.active)' = InLog(db.active)
    BY <1>1 DEF Tab, InLog
  <2>2. QED
    BY <1>1, <1>2, <1>6, <2>1 DEF Ind, HeldInv
<1>14. QED
  BY <1>4, <1>6, <1>7, <1>8, <1>9, <1>10, <1>11, <1>12, <1>13, RunningStep

(* Together: a removed file was not needed.                                *)
LEMMA DeleteObsoleteFileStep ==
  ASSUME Ind, OtherType', DeleteObsoleteFile
  PROVE  Ind'
  BY DeleteLogStep, DeleteManifestStep, DeleteTableStep, DeleteStrayStep
  DEF DeleteObsoleteFile

(* The files that DeleteObsoleteFiles looks for are files of the directory.*)
LEMMA ObsoleteAreFiles ==
  ASSUME DiskType
  PROVE  Obsolete \subseteq Files
<1>1. /\ ObsoleteLogs \subseteq Nat /\ ObsoleteManifests \subseteq Nat
      /\ ObsoleteTables \subseteq Nat
  BY DEF DiskType, ObsoleteLogs, ObsoleteManifests, ObsoleteTables, Listed
<1>2. ObsoleteStrays \subseteq Files
  BY DEF DiskType, ObsoleteStrays, Strays, Files
<1>3. QED
  BY <1>1, <1>2 DEF Obsolete, Files

(* A deletion that fails, or a listing, leaves the directory as it is.     *)
LEMMA DeletionsFailStep ==
  ASSUME Ind, OtherType', NEW files \in SUBSET Files, DeletionsFail(files)
  PROVE  Ind'
<1>1. /\ phase = "gc" /\ phase' = "gc" /\ result' = result /\ disk' = disk
      /\ acked' = acked
      /\ db' = [db EXCEPT !.refused = @ \cup files]
  BY DEF DeletionsFail
<1>2. /\ DOMAIN db' = DOMAIN db /\ db'.manifest = db.manifest
      /\ db'.save = db.save /\ db'.added = db.added /\ db'.todo = db.todo
      /\ db'.log = db.log /\ db'.pos = db.pos /\ db'.rmem = db.rmem
      /\ db'.hasRmem = db.hasRmem /\ db'.compactions = db.compactions
      /\ db'.final = db.final /\ db'.num = db.num /\ db'.maxseq = db.maxseq
      /\ db'.refused = db.refused \cup files /\ db'.vs = db.vs
      /\ db'.mem = db.mem /\ db'.imm = db.imm /\ db'.hasImm = db.hasImm
      /\ db'.active = db.active /\ db'.logfile_number_ = db.logfile_number_
      /\ db'.pending_outputs_ = db.pending_outputs_
      /\ db'.bg_error_ = db.bg_error_ /\ db'.closing = db.closing /\ db'.job = db.job
  BY <1>1 DEF Ind, DbType
<1>3. Running /\ Running' /\ ~db.bg_error_ /\ db.job = NoJob /\ db.pending_outputs_ = {}
  BY <1>1, GcFacts DEF Running
<1>4. DiskType' /\ DirInv' /\ LogsInv' /\ DurableInv' /\ HasCur' = HasCur /\ Cur' = Cur
  BY <1>1, SameDiskStep
<1>5. DbType'
  BY <1>2 DEF Ind, DbType
<1>6. ReadingInv'
  BY <1>1, <1>2 DEF Ind, ReadingInv
<1>7. UnsyncedInv'
  BY <1>1, <1>3, UnsyncedStep DEF Ind
<1>8. JobInv'
  BY <1>2, <1>3 DEF JobInv, NoJob
<1>9. RunningInv'
  BY <1>1, <1>2, <1>3, <1>4 DEF Ind, RunningInv
<1>10. GarbageInv'
  BY <1>1 DEF GarbageInv
<1>11. HeldInv'
  <2>1. /\ Tab(db.vs.tables)' = Tab(db.vs.tables) /\ \A l : InLog(l)' = InLog(l)
        /\ InLog(db.active)' = InLog(db.active) /\ Tab(Cur.tables)' = Tab(Cur.tables)
    BY <1>1, <1>2, <1>4 DEF Tab, InLog
  <2>2. QED
    BY <1>1, <1>2, <1>3, <2>1 DEF Ind, HeldInv
<1>12. QED
  BY <1>3, <1>4, <1>5, <1>6, <1>7, <1>8, <1>9, <1>10, <1>11, RunningStep

(* DeleteFile and GetChildren may fail.                                    *)
LEMMA DeletionFaultStep ==
  ASSUME Ind, OtherType', DeleteFileFails \/ GetChildrenFails
  PROVE  Ind'
<1>1. Obsolete \subseteq Files
  BY ObsoleteAreFiles DEF Ind
<1>2. CASE DeleteFileFails
  <2>1. PICK f \in Obsolete \ db.refused : DeletionsFail({f})
    BY <1>2 DEF DeleteFileFails
  <2>2. {f} \in SUBSET Files
    BY <1>1, <2>1
  <2>3. QED
    BY <2>1, <2>2, DeletionsFailStep
<1>3. CASE GetChildrenFails
  <2>1. DeletionsFail(Obsolete) /\ Obsolete \in SUBSET Files
    BY <1>1, <1>3 DEF GetChildrenFails
  <2>2. QED
    BY <2>1, DeletionsFailStep
<1>4. QED
  BY <1>2, <1>3

(* What is left is needed, or has been refused.                            *)
LEMMA DeleteObsoleteFilesDoneStep ==
  ASSUME Ind, OtherType', DeleteObsoleteFilesDone
  PROVE  Ind'
<1>1. /\ phase = "gc" /\ phase' = "running" /\ result' = "ok"
      /\ disk' = disk /\ db' = db /\ acked' = acked
      /\ Obsolete \subseteq db.refused
  BY DEF DeleteObsoleteFilesDone
<1>2. /\ Running /\ ~db.bg_error_ /\ db.job = NoJob /\ db.pending_outputs_ = {}
      /\ Cur.tables = db.vs.tables /\ Cur.log = db.vs.log
  BY <1>1, GcFacts
<1>3. DiskType' /\ DirInv' /\ LogsInv' /\ DurableInv' /\ HasCur' = HasCur /\ Cur' = Cur
  BY <1>1, SameDiskStep
<1>4. DbType'
  BY <1>1 DEF Ind, DbType
<1>5. Running' /\ ReadingInv'
  BY <1>1, <1>2, RunningReading DEF Running, SameRecoveryLocals
<1>6. UnsyncedInv'
  BY <1>1, <1>2, <1>5, UnsyncedStep DEF Ind
<1>7. JobInv'
  BY <1>1, <1>2 DEF Ind, JobInv, NoJob
<1>8. RunningInv'
  BY <1>1, <1>2, <1>3 DEF Ind, RunningInv
<1>9. GarbageInv'
  <2>1. /\ \A l \in ObsoleteLogs : <<"log", l>> \in db.refused
        /\ \A m \in ObsoleteManifests : <<"manifest", m>> \in db.refused
        /\ \A t \in ObsoleteTables : <<"table", t>> \in db.refused
        /\ ObsoleteStrays \subseteq db.refused
    BY <1>1 DEF Obsolete
  <2>2. Live = db.vs.tables
    BY <1>2 DEF Live
  <2>3. SlashInName => DOMAIN disk.tables \cup disk.partial
                         \subseteq db.vs.tables \cup Refused("table")
    BY <2>1, <2>2 DEF ObsoleteTables, Listed, Refused, Ind, DiskType
  <2>4. DOMAIN disk.manifests \subseteq {db.manifest} \cup Refused("manifest")
    <3>1. disk.current = db.manifest /\ disk.current # 0 /\ db.manifest \in Nat
      BY <1>2, RunningFacts DEF Ind, DbType
    <3>2. \A m \in DOMAIN disk.manifests :
            m \in Nat /\ m <= db.manifest /\ (m < db.manifest => m \in ObsoleteManifests)
      BY <3>1 DEF Ind, DirInv, ObsoleteManifests, DiskType
    <3>3. QED
      BY <2>1, <3>1, <3>2 DEF Refused
  <2>5. SlashInName => \A l \in DOMAIN disk.logs : l < db.vs.log => l \in Refused("log")
    <3>1. db.vs.prev = 0 /\ db.vs.log \in Nat
      BY <1>1, GcFacts DEF Ind, DbType, Version
    <3>2. ASSUME SlashInName, NEW l \in DOMAIN disk.logs, l < db.vs.log
          PROVE  l \in ObsoleteLogs /\ l \in Nat
      BY <3>1, <3>2 DEF ObsoleteLogs, Listed, Ind, DiskType
    <3>3. QED
      BY <2>1, <3>2 DEF Refused
  <2>6. SlashInName => \A f \in disk.strays \ db.refused :
          IF f[1] = "temp" THEN f[2] \in db.vs.tables ELSE f[2] >= db.manifest
    <3>1. ASSUME SlashInName, NEW f \in disk.strays \ db.refused
          PROVE  IF f[1] = "temp" THEN f[2] \in db.vs.tables ELSE f[2] >= db.manifest
      <4>1. f[1] \in {"manifest", "temp"} /\ f[2] \in Nat /\ db.manifest \in Nat
        BY DEF Ind, DiskType, Strays, DbType
      <4>2. f \notin ObsoleteStrays
        BY <2>1
      <4>3. QED
        BY <2>2, <3>1, <4>1, <4>2 DEF ObsoleteStrays
    <3>2. QED
      BY <3>1
  <2>7. /\ Refused("table")' = Refused("table")
        /\ Refused("manifest")' = Refused("manifest") /\ Refused("log")' = Refused("log")
    BY <1>1 DEF Refused
  <2>8. QED
    BY <1>1, <2>3, <2>4, <2>5, <2>6, <2>7 DEF GarbageInv
<1>10. HeldInv'
  <2>1. /\ Tab(db.vs.tables)' = Tab(db.vs.tables) /\ \A l : InLog(l)' = InLog(l)
        /\ InLog(db.active)' = InLog(db.active) /\ Tab(Cur.tables)' = Tab(Cur.tables)
    BY <1>1, <1>3 DEF Tab, InLog
  <2>2. QED
    BY <1>1, <1>2, <2>1 DEF Ind, HeldInv
<1>11. QED
  BY <1>3, <1>4, <1>5, <1>6, <1>7, <1>8, <1>9, <1>10, RunningStep

-----------------------------------------------------------------------------
(* Writes.                                                                 *)
(* A write gets the next sequence number, in the memtable and in its log;  *)
(* it is acknowledged with sync only once the log has been synced.         *)
LEMMA WriteStep ==
  ASSUME Ind, OtherType', NEW sync \in BOOLEAN, Write(sync)
  PROVE  Ind'
<1> DEFINE s == db.vs.seq + 1
           a == db.active
           records == Append(disk.logs[a], s)
<1>1. /\ phase = "running" /\ phase' = "running" /\ result' = result
      /\ ~db.bg_error_ /\ s <= MaxSeq
      /\ disk' = [disk EXCEPT
                    !.logs[a] = records,
                    !.synced[a] = IF sync THEN Len(records) ELSE @]
      /\ db' = [db EXCEPT !.vs.seq = s, !.mem = @ \cup {s}]
      /\ acked' = IF sync THEN acked \cup {s} ELSE acked
  BY DEF Write, Usable, StaysOpen
<1>2. Running /\ Running'
  BY <1>1 DEF Running
<1>3. /\ HasCur /\ disk.current # 0 /\ a \in DOMAIN disk.logs /\ a \in Nat
      /\ db.vs \in Version /\ db.vs.seq \in Nat /\ db.vs.log <= a
      /\ Cur.tables = db.vs.tables /\ Cur.log = db.vs.log /\ db.vs.log \in Nat
      /\ \A t \in db.vs.tables : t \in DOMAIN disk.tables
  BY <1>1, <1>2, RunningFacts
<1>4. s \in Writes /\ s \in Nat /\ db.vs.seq < s
  BY <1>1, <1>3, RecoveryAssumption DEF Writes
<1>5. /\ disk.logs \in [DOMAIN disk.logs -> Seq(Writes)]
      /\ disk.synced \in [DOMAIN disk.logs -> Nat]
      /\ disk.logs[a] \in Seq(Writes) /\ disk.synced[a] \in Nat
      /\ disk.synced[a] <= Len(disk.logs[a])
      /\ disk.tables \in [DOMAIN disk.tables -> SUBSET Writes]
  BY <1>3 DEF Ind, DiskType
<1>6. /\ records \in Seq(Writes) /\ Len(records) = Len(disk.logs[a]) + 1
      /\ Len(disk.logs[a]) \in Nat /\ records[Len(records)] = s
      /\ \A i \in 1..Len(disk.logs[a]) : records[i] = disk.logs[a][i]
  BY <1>4, <1>5
<1> HIDE DEF records
<1>7. /\ DOMAIN disk' = DOMAIN disk /\ disk'.strays = disk.strays
      /\ disk'.current = disk.current /\ disk'.manifests = disk.manifests
      /\ disk'.unsynced = disk.unsynced
      /\ disk'.tables = disk.tables /\ disk'.partial = disk.partial
      /\ disk'.logs = [disk.logs EXCEPT ![a] = records]
      /\ disk'.synced = [disk.synced EXCEPT ![a] = IF sync THEN Len(records) ELSE @]
  BY <1>1 DEF Ind, DiskType
<1>8. /\ DOMAIN disk'.logs = DOMAIN disk.logs
      /\ disk'.logs \in [DOMAIN disk'.logs -> Seq(Writes)]
      /\ disk'.logs[a] = records
      /\ \A l \in DOMAIN disk.logs : l # a => disk'.logs[l] = disk.logs[l]
  BY <1>3, <1>5, <1>6, <1>7
<1>9. /\ DOMAIN disk'.synced = DOMAIN disk.logs
      /\ disk'.synced \in [DOMAIN disk'.logs -> Nat]
      /\ disk'.synced[a] = IF sync THEN Len(records) ELSE disk.synced[a]
      /\ \A l \in DOMAIN disk.logs : l # a => disk'.synced[l] = disk.synced[l]
  BY <1>3, <1>5, <1>6, <1>7
<1>10. disk'.synced[a] \in Nat /\ disk.synced[a] <= disk'.synced[a]
       /\ disk'.synced[a] <= Len(records)
  BY <1>5, <1>6, <1>9
<1>11. DiskType'
  <2>1. \A l \in DOMAIN disk'.logs : disk'.synced[l] <= Len(disk'.logs[l])
    BY <1>8, <1>9, <1>10 DEF Ind, DiskType
  <2>2. QED
    BY <1>7, <1>8, <1>9, <2>1 DEF Ind, DiskType
<1>12. /\ SameRecoveryLocals /\ db'.vs = [db.vs EXCEPT !.seq = s]
       /\ db'.mem = db.mem \cup {s} /\ db'.imm = db.imm /\ db'.hasImm = db.hasImm
       /\ db'.active = a /\ db'.logfile_number_ = db.logfile_number_
       /\ db'.pending_outputs_ = db.pending_outputs_ /\ db'.bg_error_ = db.bg_error_
       /\ db'.closing = db.closing /\ db'.job = db.job /\ db'.refused = db.refused
  BY <1>1 DEF Ind, DbType, SameRecoveryLocals
<1>13. /\ db'.vs \in Version /\ db'.vs.seq = s /\ db'.vs.log = db.vs.log
       /\ db'.vs.prev = db.vs.prev /\ db'.vs.next = db.vs.next
       /\ db'.vs.tables = db.vs.tables
  BY <1>3, <1>4, <1>12, VersionSeq
<1>14. DbType'
  BY <1>4, <1>12, <1>13 DEF Ind, DbType, SameRecoveryLocals
<1>15. HasCur' = HasCur /\ Cur' = Cur /\ Tab(Cur.tables)' = Tab(Cur.tables)
       /\ Tab(db.vs.tables)' = Tab(db.vs.tables)
  <2>1. HasCur' = HasCur /\ Cur' = Cur
    BY <1>7 DEF HasCur, Cur
  <2>2. QED
    BY <1>7, <1>13, <2>1 DEF Tab
<1>16. /\ \A l \in DOMAIN disk.logs : l # a => InLog(l)' = InLog(l)
       /\ InLog(a) \subseteq Tab(db.vs.tables) \cup db.imm \cup db.mem =>
            \A l : l = a => InLog(l)' \subseteq Tab(db.vs.tables) \cup db.imm \cup db.mem \cup {s}
       /\ \A x \in InLog(a) : \A l : l = a => x \in InLog(l)'
       /\ \A l : l = a => s \in InLog(l)'
  <2>1. DOMAIN records = 1..Len(records) /\ DOMAIN disk.logs[a] = 1..Len(disk.logs[a])
    BY <1>5, <1>6
  <2>2. \A i \in DOMAIN records : i \in DOMAIN disk.logs[a] \/ i = Len(records)
    BY <1>6, <2>1
  <2>3. Len(records) \in DOMAIN records /\ DOMAIN disk.logs[a] \subseteq DOMAIN records
    BY <1>6, <2>1
  <2>4. \A l : l = a => InLog(l)' = {records[i] : i \in DOMAIN records}
    BY <1>8 DEF InLog
  <2>5. \A i \in DOMAIN records : records[i] = s \/ records[i] \in InLog(a)
    BY <1>6, <2>1, <2>2 DEF InLog
  <2>6. \A x \in InLog(a) : x \in {records[i] : i \in DOMAIN records}
    BY <1>6, <2>1, <2>3 DEF InLog
  <2>7. s \in {records[i] : i \in DOMAIN records}
    BY <1>6, <2>3
  <2>8. \A l \in DOMAIN disk.logs : l # a => InLog(l)' = InLog(l)
    BY <1>8 DEF InLog
  <2>9. QED
    BY <2>4, <2>5, <2>6, <2>7, <2>8
<1>17. /\ \A l \in DOMAIN disk.logs : InSynced(l) \subseteq InSynced(l)'
       /\ sync => \A l : l = a => s \in InSynced(l)'
  <2>1. ASSUME NEW l \in DOMAIN disk.logs PROVE InSynced(l) \subseteq InSynced(l)'
    <3>1. \A i \in 1..disk.synced[l] : /\ i \in 1..disk'.synced[l]
                                       /\ disk'.logs[l][i] = disk.logs[l][i]
      <4>1. CASE l = a
        BY <1>5, <1>6, <1>8, <1>10, <4>1
      <4>2. CASE l # a
        BY <1>8, <1>9, <4>2
      <4>3. QED
        BY <4>1, <4>2
    <3>2. QED
      BY <3>1 DEF InSynced
  <2>2. sync => /\ Len(records) \in 1..disk'.synced[a]
                /\ disk'.logs[a][Len(records)] = s
    BY <1>6, <1>8, <1>9
  <2>3. sync => \A l : l = a => s \in InSynced(l)'
    BY <2>2 DEF InSynced
  <2>4. QED
    BY <2>1, <2>3
<1> HIDE DEF s, a
<1>18. DirInv'
  BY <1>3, <1>7, <1>15 DEF Ind, DirInv
<1>19. UnsyncedInv'
  BY <1>2, <1>7, <1>15 DEF Ind, UnsyncedInv, Opening, Running
<1>20. LogsInv'
  <2>1. \A l \in DOMAIN disk.logs : l < Cur.log => l # a
    BY <1>3
  <2>2. QED
    BY <1>8, <1>15, <1>16, <2>1 DEF Ind, LogsInv
<1>21. DurableInv'
  <2>1. ASSUME Trusted, NEW x \in acked'
        PROVE  \/ x \in Tab(Cur.tables)
               \/ \E l \in DOMAIN disk.logs : l >= Cur.log /\ x \in InSynced(l)'
    <3>1. CASE x \in acked
      BY <1>17, <2>1, <3>1 DEF Ind, DurableInv
    <3>2. CASE x \notin acked
      <4>1. sync /\ x = s
        BY <1>1, <3>2
      <4>2. a >= Cur.log
        BY <1>3
      <4>3. QED
        BY <1>3, <1>17, <4>1, <4>2
    <3>3. QED
      BY <3>1, <3>2
  <2>2. QED
    BY <1>3, <1>8, <1>15, <2>1 DEF DurableInv
<1>22. ReadingInv'
  BY <1>2, <1>12, RunningReading
<1>23. JobInv'
  <2>1. \A S : Tab(S)' = Tab(S)
    BY <1>7 DEF Tab
  <2>2. Tab(db.job.inputs)' = Tab(db.job.inputs)
    BY <1>7, <1>12 DEF Tab
  <2>3. QED
    BY <1>1, <1>2, <1>7, <1>12, <1>13, <2>2 DEF Ind, JobInv
<1>24. RunningInv'
  <2>1. \A t \in db.vs.tables : \A x \in disk.tables[t] : x <= s
    <3>1. \A t \in db.vs.tables : \A x \in disk.tables[t] : x <= db.vs.seq /\ x \in Nat
      BY <1>2, <1>3, <1>5, RecoveryAssumption DEF Ind, RunningInv, Writes
    <3>2. QED
      BY <1>3, <1>4, <3>1
  <2>2. \A x \in db.mem \cup db.imm : x <= s
    <3>1. \A x \in db.mem \cup db.imm : x <= db.vs.seq /\ x \in Nat
      BY <1>2, RecoveryAssumption DEF Ind, RunningInv, DbType, Writes
    <3>2. QED
      BY <1>3, <1>4, <3>1
  <2>3. s <= s
    BY <1>4
  <2>4. QED
    BY <1>1, <1>2, <1>3, <1>7, <1>8, <1>12, <1>13, <1>15, <2>1, <2>2, <2>3
    DEF Ind, RunningInv, SameRecoveryLocals, a, Listed
<1>25. GarbageInv'
  BY <1>1, <1>7, <1>8, <1>12, <1>13, GarbageKept DEF SameRecoveryLocals
<1>26. HeldInv'
  <2>1. Trusted => \A x \in db.mem' : x \in InLog(db.active)'
    <3>1. Trusted => \A x \in db.mem : x \in InLog(a)
      BY <1>2 DEF Ind, HeldInv, a
    <3>2. Trusted => \A x \in db.mem \cup {s} : \A l : l = a => x \in InLog(l)'
      BY <1>16, <3>1
    <3>3. QED
      BY <1>12, <3>2
  <2>2. Trusted => \A l \in DOMAIN disk'.logs :
          /\ l # db.active' => InLog(l)' \subseteq Tab(db.vs.tables)' \cup db.imm'
          /\ InLog(l)' \subseteq Tab(db.vs.tables)' \cup db.imm' \cup db.mem'
    <3>1. Trusted => \A l \in DOMAIN disk.logs :
          /\ l # a => InLog(l) \subseteq Tab(db.vs.tables) \cup db.imm
          /\ InLog(l) \subseteq Tab(db.vs.tables) \cup db.imm \cup db.mem
      BY <1>2 DEF Ind, HeldInv, a
    <3>2. ASSUME Trusted, NEW l \in DOMAIN disk'.logs
          PROVE  /\ l # a => InLog(l)' \subseteq Tab(db.vs.tables) \cup db.imm
                 /\ InLog(l)' \subseteq Tab(db.vs.tables) \cup db.imm \cup db.mem \cup {s}
      BY <1>3, <1>8, <1>16, <3>1, <3>2
    <3>3. QED
      BY <1>12, <1>15, <3>2
  <2>3. Trusted => Tab(Cur.tables)' \subseteq Tab(db.vs.tables)' \cup db.imm'
    BY <1>2, <1>12, <1>15 DEF Ind, HeldInv
  <2>4. QED
    BY <2>1, <2>2, <2>3 DEF HeldInv
<1>27. QED
  BY <1>2, <1>11, <1>14, <1>18, <1>19, <1>20, <1>21, <1>22, <1>23, <1>24, <1>25,
     <1>26, RunningStep

(* A new log and a new memtable; what was in memory stays in memory.       *)
LEMMA MakeRoomForWriteStep ==
  ASSUME Ind, OtherType', MakeRoomForWrite
  PROVE  Ind'
<1> DEFINE n == db.vs.next
<1>1. /\ phase = "running" /\ phase' = "running" /\ result' = result
      /\ acked' = acked /\ ~db.bg_error_ /\ ~db.hasImm
      /\ disk' = [disk EXCEPT !.logs = With(@, n, <<>>), !.synced = With(@, n, 0)]
      /\ db' = [db EXCEPT !.imm = db.mem, !.hasImm = TRUE, !.mem = {},
                          !.active = n, !.logfile_number_ = n, !.vs.next = n + 1]
  BY DEF MakeRoomForWrite, Usable, StaysOpen
<1>2. Running /\ Running'
  BY <1>1 DEF Running
<1>3. /\ HasCur /\ disk.current # 0 /\ disk.current = db.manifest
      /\ db.vs \in Version /\ n \in Nat /\ Cur.next \in Nat /\ n >= Cur.next
      /\ db.vs.log \in Nat /\ db.active \in Nat
      /\ db.vs.log <= db.active /\ db.active < n
      /\ Cur.tables = db.vs.tables /\ Cur.log = db.vs.log
      /\ \A t \in db.vs.tables : t \in Nat /\ t < n /\ t \in DOMAIN disk.tables
      /\ \A l \in Listed(DOMAIN disk.logs) : l \in Nat /\ l < n
  BY <1>1, <1>2, RunningFacts
<1>4. n + 1 \in Nat /\ n < n + 1 /\ db.vs.log <= n
  BY <1>3
<1>5. Trusted => n \notin DOMAIN disk.logs
  BY <1>3 DEF Trusted, Listed
<1>6. /\ DiskType' /\ DirInv' /\ LogsInv' /\ DurableInv'
      /\ HasCur' = HasCur /\ Cur' = Cur
      /\ disk'.current = disk.current /\ disk'.manifests = disk.manifests
      /\ disk'.unsynced = disk.unsynced /\ disk'.strays = disk.strays
      /\ disk'.tables = disk.tables /\ disk'.partial = disk.partial
      /\ DOMAIN disk'.logs = DOMAIN disk.logs \cup {n}
      /\ disk'.logs[n] = <<>>
      /\ \A l \in DOMAIN disk.logs : l # n => disk'.logs[l] = disk.logs[l]
  BY <1>1, <1>3, <1>5, AddLogStep
<1>7. /\ SameRecoveryLocals /\ db'.vs = [db.vs EXCEPT !.next = n + 1]
      /\ db'.mem = {} /\ db'.imm = db.mem /\ db'.hasImm = TRUE
      /\ db'.active = n /\ db'.logfile_number_ = n
      /\ db'.pending_outputs_ = db.pending_outputs_ /\ db'.bg_error_ = db.bg_error_
      /\ db'.closing = db.closing /\ db'.job = db.job /\ db'.refused = db.refused
  BY <1>1 DEF Ind, DbType, SameRecoveryLocals
<1>8. /\ db'.vs \in Version /\ db'.vs.next = n + 1 /\ db'.vs.log = db.vs.log
      /\ db'.vs.prev = db.vs.prev /\ db'.vs.seq = db.vs.seq
      /\ db'.vs.tables = db.vs.tables
  BY <1>3, <1>4, <1>7, VersionNext
<1>9. DbType'
  BY <1>3, <1>7, <1>8 DEF Ind, DbType, SameRecoveryLocals
<1>10. UnsyncedInv'
  BY <1>1, <1>2, <1>6, UnsyncedStep DEF Ind
<1>11. ReadingInv'
  BY <1>2, <1>7, RunningReading
<1>12. JobInv'
  <2>1. Tab(db.job.inputs)' = Tab(db.job.inputs)
    BY <1>6, <1>7 DEF Tab
  <2>2. db.job.kind \notin {"flush", "install"}
    BY <1>1, <1>2 DEF Ind, JobInv
  <2>3. db.job # NoJob => db.job.num < n + 1
    BY <1>2, <1>3 DEF Ind, JobInv, DbType, Job
  <2>4. QED
    BY <1>1, <1>2, <1>6, <1>7, <1>8, <2>1, <2>2, <2>3 DEF Ind, JobInv
<1>13. RunningInv'
  <2>1. \A l \in Listed(DOMAIN disk'.logs) : l < n + 1
    <3>1. \A l \in Listed(DOMAIN disk'.logs) : l \in Listed(DOMAIN disk.logs) \/ l = n
      BY <1>6 DEF Listed
    <3>2. QED
      BY <1>3, <3>1
  <2>2. \A t \in db.vs.tables : t < n + 1
    BY <1>3
  <2>3. n + 1 >= Cur.next
    BY <1>3
  <2>4. QED
    BY <1>1, <1>2, <1>3, <1>4, <1>6, <1>7, <1>8, <2>1, <2>2, <2>3
    DEF Ind, RunningInv, SameRecoveryLocals
<1>14. GarbageInv'
  <2>1. \A l \in DOMAIN disk'.logs : l \in DOMAIN disk.logs \/ ~(l < db.vs.log)
    BY <1>3, <1>4, <1>6
  <2>2. QED
    BY <1>1, <1>6, <1>7, <1>8, <2>1, GarbageKept DEF SameRecoveryLocals
<1>15. HeldInv'
  <2>1. Tab(db.vs.tables)' = Tab(db.vs.tables) /\ Tab(Cur.tables)' = Tab(Cur.tables)
    BY <1>6, <1>8 DEF Tab
  <2>2. /\ \A l : l = n => InLog(l)' = {}
        /\ \A l \in DOMAIN disk.logs : l # n => InLog(l)' = InLog(l)
    BY <1>6 DEF InLog
  <2>3. ASSUME Trusted, NEW l \in DOMAIN disk'.logs
        PROVE  InLog(l)' \subseteq Tab(db.vs.tables) \cup db.mem
    <3>1. CASE l = n
      BY <2>2, <3>1
    <3>2. CASE l # n
      <4>1. InLog(l) \subseteq Tab(db.vs.tables) \cup db.imm \cup db.mem /\ db.imm = {}
        BY <1>1, <1>2, <1>6, <2>3, <3>2 DEF Ind, HeldInv, RunningInv
      <4>2. QED
        BY <1>6, <2>2, <3>2, <4>1
    <3>3. QED
      BY <3>1, <3>2
  <2>4. QED
    BY <1>3, <1>6, <1>7, <2>1, <2>3 DEF HeldInv
<1>16. QED
  BY <1>2, <1>6, <1>9, <1>10, <1>11, <1>12, <1>13, <1>14, <1>15, RunningStep

-----------------------------------------------------------------------------
(* The background task.                                                    *)
LEMMA StartJobStep ==
  ASSUME Ind, OtherType', NEW kind \in {"flush", "compact"},
         NEW inputs \in SUBSET db.vs.tables, kind = "flush" => db.hasImm,
         StartJob(kind, inputs)
  PROVE  Ind'
<1> DEFINE n == db.vs.next
           j == [kind |-> kind, num |-> n, inputs |-> inputs]
<1>1. /\ phase = "running" /\ phase' = "running" /\ result' = result
      /\ acked' = acked /\ ~db.bg_error_ /\ db.job = NoJob
      /\ disk' = disk \/ disk' = NewTableFile(n)
      /\ db' = [db EXCEPT !.job = j, !.pending_outputs_ = @ \cup {n}, !.vs.next = n + 1]
  BY DEF StartJob, Usable, StaysOpen
<1>2. Running /\ Running'
  BY <1>1 DEF Running
<1>3. /\ HasCur /\ disk.current # 0 /\ disk.current = db.manifest
      /\ db.vs \in Version /\ n \in Nat /\ Cur.next \in Nat /\ n >= Cur.next
      /\ db.active \in Nat /\ db.active < n /\ db.vs.tables \subseteq Nat
      /\ Cur.tables = db.vs.tables /\ Cur.log = db.vs.log
      /\ \A t \in db.vs.tables : t \in Nat /\ t < n /\ t \in DOMAIN disk.tables
      /\ \A l \in Listed(DOMAIN disk.logs) : l \in Nat /\ l < n
  BY <1>1, <1>2, RunningFacts
<1>4. n + 1 \in Nat /\ n < n + 1 /\ n \notin Cur.tables
  BY <1>3
<1>5. DirInv
  BY DEF Ind
<1>6. /\ DiskType' /\ SameCur
      /\ disk'.unsynced = disk.unsynced /\ disk'.strays = disk.strays
      /\ DOMAIN disk'.tables \cup disk'.partial
           \subseteq DOMAIN disk.tables \cup disk.partial \cup {n}
      /\ \A t \in DOMAIN disk.tables \ {n} : /\ t \in DOMAIN disk'.tables
                                             /\ disk'.tables[t] = disk.tables[t]
  BY <1>1, <1>3, <1>4, <1>5, NewTableStep DEF Ind
<1>7. /\ DirInv' /\ LogsInv' /\ DurableInv' /\ HasCur' = HasCur /\ Cur' = Cur
      /\ Tab(Cur.tables)' = Tab(Cur.tables)
  BY <1>3, <1>6, SameCurStep DEF Ind
<1>8. /\ SameRecoveryLocals /\ db'.vs = [db.vs EXCEPT !.next = n + 1]
      /\ db'.mem = db.mem /\ db'.imm = db.imm /\ db'.hasImm = db.hasImm
      /\ db'.active = db.active /\ db'.logfile_number_ = db.logfile_number_
      /\ db'.pending_outputs_ = db.pending_outputs_ \cup {n}
      /\ db'.bg_error_ = db.bg_error_ /\ db'.closing = db.closing /\ db'.job = j
      /\ db'.refused = db.refused
  BY <1>1 DEF Ind, DbType, SameRecoveryLocals
<1>9. /\ db'.vs \in Version /\ db'.vs.next = n + 1 /\ db'.vs.log = db.vs.log
      /\ db'.vs.prev = db.vs.prev /\ db'.vs.seq = db.vs.seq
      /\ db'.vs.tables = db.vs.tables
  BY <1>3, <1>4, <1>8, VersionNext
<1>10. j \in Job /\ j.kind = kind /\ j.num = n /\ j.inputs = inputs
  BY <1>3 DEF Job
<1>11. j # NoJob
  BY <1>10 DEF NoJob
<1> HIDE DEF j
<1>12. DbType'
  BY <1>3, <1>8, <1>9, <1>10 DEF Ind, DbType, SameRecoveryLocals
<1>13. UnsyncedInv'
  BY <1>1, <1>2, <1>6, UnsyncedStep DEF Ind, SameCur
<1>14. ReadingInv'
  BY <1>2, <1>8, RunningReading
<1>15. JobInv'
  <2>1. db.pending_outputs_ = {}
    BY <1>1, <1>2 DEF Ind, JobInv
  <2>2. QED
    BY <1>1, <1>2, <1>3, <1>4, <1>8, <1>9, <1>10, <1>11, <2>1 DEF JobInv
<1>16. \A t \in db.vs.tables : /\ t \in DOMAIN disk'.tables
                               /\ disk'.tables[t] = disk.tables[t]
  BY <1>3, <1>4, <1>6
<1>17. RunningInv'
  <2>1. \A t \in db.vs.tables : t < n + 1
    BY <1>3
  <2>2. \A l \in Listed(DOMAIN disk'.logs) : l < n + 1
    BY <1>3, <1>6 DEF SameCur
  <2>3. n + 1 >= Cur.next /\ db.active < n + 1
    BY <1>3
  <2>4. QED
    BY <1>1, <1>2, <1>3, <1>6, <1>7, <1>8, <1>9, <1>16, <2>1, <2>2, <2>3
    DEF Ind, RunningInv, SameRecoveryLocals, SameCur
<1>18. GarbageInv'
  BY <1>1, <1>6, <1>8, <1>9, <1>10, <1>11, GarbageKept DEF SameCur, SameRecoveryLocals
<1>19. HeldInv'
  <2>1. Tab(db.vs.tables)' = Tab(db.vs.tables)
    BY <1>9, <1>16 DEF Tab
  <2>2. (\A l : InLog(l)' = InLog(l)) /\ InLog(db.active)' = InLog(db.active)
    BY <1>6, <1>8 DEF InLog, SameCur
  <2>3. QED
    BY <1>2, <1>6, <1>7, <1>8, <2>1, <2>2 DEF Ind, HeldInv, SameCur
<1>20. QED
  BY <1>2, <1>6, <1>7, <1>12, <1>13, <1>14, <1>15, <1>17, <1>18, <1>19, RunningStep

(* CompactMemtable starts a table for the immutable memtable.              *)
LEMMA CompactMemtableStep ==
  ASSUME Ind, OtherType', CompactMemtable
  PROVE  Ind'
  BY StartJobStep DEF CompactMemtable

(* A compaction starts a table for what is in its inputs.                  *)
LEMMA StartCompactionStep ==
  ASSUME Ind, OtherType', StartCompaction
  PROVE  Ind'
  BY StartJobStep DEF StartCompaction

(* What the steps that end a job rely on.                                  *)
LEMMA JobFacts ==
  ASSUME Ind, phase = "running", db.job # NoJob
  PROVE  /\ Running /\ ~db.bg_error_ /\ HasCur /\ disk.current # 0
         /\ disk.current = db.manifest /\ db.manifest < db.vs.next
         /\ db.vs \in Version /\ db.vs.next \in Nat /\ db.vs.seq \in Nat
         /\ db.vs.log \in Nat /\ db.vs.tables \in SUBSET Nat /\ db.vs.prev = 0
         /\ db.active \in DOMAIN disk.logs /\ db.active \in Nat
         /\ db.vs.log <= db.active /\ db.active < db.vs.next
         /\ Cur.tables = db.vs.tables /\ Cur.log = db.vs.log
         /\ Cur.next \in Nat /\ db.vs.next >= Cur.next
         /\ db.job \in Job /\ db.job.num \in Nat /\ db.job.num < db.vs.next
         /\ db.job.num \notin db.vs.tables
         /\ \A t \in db.vs.tables : t < db.job.num
         /\ \A t \in db.vs.tables : t < db.vs.next /\ t \in DOMAIN disk.tables
         /\ \A l \in Listed(DOMAIN disk.logs) : l < db.vs.next
<1>1. Running
  BY DEF Running
<1>2. /\ ~db.bg_error_ /\ db.job.num < db.vs.next
      /\ \A t \in db.vs.tables : t < db.job.num
  BY <1>1 DEF Ind, JobInv
<1>3. db.job \in Job /\ db.job.num \in Nat
  BY DEF Ind, DbType, Job
<1>4. db.vs.prev = 0
  BY <1>1 DEF Ind, RunningInv
<1>5. /\ HasCur /\ disk.current # 0 /\ disk.current = db.manifest
      /\ db.manifest < db.vs.next
      /\ db.vs \in Version /\ db.vs.next \in Nat /\ db.vs.seq \in Nat
      /\ db.vs.log \in Nat /\ db.vs.tables \in SUBSET Nat
      /\ db.active \in DOMAIN disk.logs /\ db.active \in Nat
      /\ db.vs.log <= db.active /\ db.active < db.vs.next
      /\ Cur.tables = db.vs.tables /\ Cur.log = db.vs.log
      /\ Cur.next \in Nat /\ db.vs.next >= Cur.next
      /\ \A t \in db.vs.tables : t < db.vs.next /\ t \in DOMAIN disk.tables
      /\ \A l \in Listed(DOMAIN disk.logs) : l < db.vs.next
  BY <1>1, <1>2, RunningFacts
<1>6. db.job.num \notin db.vs.tables
  BY <1>2, <1>3
<1>7. QED
  BY <1>1, <1>2, <1>3, <1>4, <1>5, <1>6

(* A job that fails leaves the open database as it is, with an error.      *)
LEMMA JobFailsStep ==
  ASSUME Ind, OtherType', phase = "running", phase' = "running", result' = result,
         db.job # NoJob, JobFails,
         DiskType', DirInv', UnsyncedInv', LogsInv', DurableInv', HasCur',
         disk'.current = disk.current, disk'.logs = disk.logs,
         db.vs.next >= Cur'.next,
         \A t \in db.vs.tables : /\ t \in DOMAIN disk'.tables
                                 /\ disk'.tables[t] = disk.tables[t],
         Trusted => Tab(Cur.tables)' \subseteq Tab(db.vs.tables) \cup db.imm
  PROVE  Ind'
<1>1. Running /\ Running'
  BY DEF Running
<1>2. /\ SameRecoveryLocals /\ db'.vs = db.vs
      /\ db'.mem = db.mem /\ db'.imm = db.imm /\ db'.hasImm = db.hasImm
      /\ db'.active = db.active /\ db'.logfile_number_ = db.logfile_number_
      /\ db'.pending_outputs_ = db.pending_outputs_ \ {db.job.num}
      /\ db'.bg_error_ = TRUE /\ db'.closing = db.closing /\ db'.job = NoJob
  BY DEF JobFails, Ind, DbType, SameRecoveryLocals
<1>3. DbType'
  <2>1. NoJob \in Job
    BY DEF NoJob, Job
  <2>2. QED
    BY <1>2, <2>1 DEF Ind, DbType, SameRecoveryLocals
<1>4. ReadingInv'
  BY <1>1, <1>2, RunningReading
<1>5. JobInv'
  <2>1. db.pending_outputs_ \subseteq {db.job.num}
    BY <1>1 DEF Ind, JobInv
  <2>2. QED
    BY <1>2, <2>1 DEF JobInv, NoJob
<1>6. RunningInv'
  BY <1>1, <1>2 DEF Ind, RunningInv, SameRecoveryLocals
<1>7. GarbageInv'
  BY <1>2 DEF GarbageInv
<1>8. HeldInv'
  <2>1. Tab(db.vs.tables)' = Tab(db.vs.tables)
    BY <1>2 DEF Tab
  <2>2. (\A l : InLog(l)' = InLog(l)) /\ InLog(db.active)' = InLog(db.active)
    BY <1>2 DEF InLog
  <2>3. QED
    BY <1>1, <1>2, <2>1, <2>2 DEF Ind, HeldInv
<1>9. QED
  BY <1>1, <1>3, <1>4, <1>5, <1>6, <1>7, <1>8, RunningStep

(* BuildTable or the merge finishes a table, or leaves it out.             *)
LEMMA BuiltTable ==
  ASSUME Ind, phase = "running", db.job # NoJob, acked' = acked,
         NEW W \in SUBSET Writes, NEW made \in BOOLEAN,
         disk' = [disk EXCEPT !.partial = @ \ {db.job.num},
                              !.tables = IF made THEN With(@, db.job.num, W) ELSE @]
  PROVE  /\ DiskType' /\ SameCur /\ disk'.unsynced = disk.unsynced
         /\ disk'.strays = disk.strays
         /\ DirInv' /\ LogsInv' /\ DurableInv' /\ HasCur' /\ Cur' = Cur
         /\ Tab(Cur.tables)' = Tab(Cur.tables)
         /\ disk'.partial \subseteq disk.partial
         /\ DOMAIN disk'.tables = DOMAIN disk.tables \cup IF made THEN {db.job.num} ELSE {}
         /\ made => disk'.tables[db.job.num] = W
         /\ \A t \in db.vs.tables : /\ t \in DOMAIN disk'.tables
                                    /\ disk'.tables[t] = disk.tables[t]
<1> DEFINE n == db.job.num
<1>1. /\ DOMAIN disk' = DOMAIN disk /\ disk'.strays = disk.strays
      /\ disk'.current = disk.current /\ disk'.manifests = disk.manifests
      /\ disk'.unsynced = disk.unsynced
      /\ disk'.logs = disk.logs /\ disk'.synced = disk.synced
      /\ disk'.partial = disk.partial \ {n}
      /\ disk'.tables = IF made THEN With(disk.tables, n, W) ELSE disk.tables
  BY DEF Ind, DiskType
<1>2. /\ n \in Nat /\ n \notin db.vs.tables /\ Cur.tables = db.vs.tables
      /\ disk.current # 0 /\ HasCur
      /\ \A t \in db.vs.tables : t \in DOMAIN disk.tables
  BY JobFacts
<1>3. disk.tables \in [DOMAIN disk.tables -> SUBSET Writes]
  BY DEF Ind, DiskType
<1>4. /\ DOMAIN disk'.tables = DOMAIN disk.tables \cup IF made THEN {n} ELSE {}
      /\ \A t \in DOMAIN disk.tables : t # n => disk'.tables[t] = disk.tables[t]
      /\ made => disk'.tables[n] = W
      /\ disk'.tables \in [DOMAIN disk'.tables -> SUBSET Writes]
  BY <1>1, <1>3 DEF With
<1>5. DiskType'
  BY <1>1, <1>2, <1>4 DEF Ind, DiskType
<1>6. \A t \in db.vs.tables : /\ t \in DOMAIN disk'.tables
                              /\ disk'.tables[t] = disk.tables[t]
  BY <1>2, <1>4
<1>7. SameCur
  BY <1>1, <1>2, <1>6 DEF SameCur
<1>8. /\ DirInv' /\ LogsInv' /\ DurableInv' /\ HasCur' = HasCur /\ Cur' = Cur
      /\ Tab(Cur.tables)' = Tab(Cur.tables)
  BY <1>2, <1>7, SameCurStep DEF Ind
<1>9. QED
  BY <1>1, <1>2, <1>4, <1>5, <1>6, <1>7, <1>8

(* A job goes on to its next stage.                                        *)
LEMMA JobGoesOnStep ==
  ASSUME Ind, OtherType', phase = "running", phase' = "running", result' = result,
         db.job # NoJob, DiskType', SameCur, disk'.unsynced = disk.unsynced,
         disk'.strays = disk.strays,
         DirInv', LogsInv', DurableInv', HasCur', Cur' = Cur,
         Tab(Cur.tables)' = Tab(Cur.tables),
         disk'.partial \subseteq disk.partial,
         DOMAIN disk'.tables \subseteq DOMAIN disk.tables \cup {db.job.num},
         \A t \in db.vs.tables : /\ t \in DOMAIN disk'.tables
                                 /\ disk'.tables[t] = disk.tables[t],
         NEW kind \in {"install", "results"}, NEW P \in SUBSET Nat,
         db' = [db EXCEPT !.job.kind = kind, !.pending_outputs_ = P],
         P = IF kind = "install" THEN {} ELSE {db.job.num},
         kind = "install" => /\ db.hasImm
                             /\ db.imm # {} => /\ db.job.num \in DOMAIN disk'.tables
                                               /\ disk'.tables[db.job.num] = db.imm,
         kind = "results" => /\ db.job.inputs \subseteq db.vs.tables
                             /\ db.job.num \in DOMAIN disk'.tables
                             /\ disk'.tables[db.job.num] = Tab(db.job.inputs)
  PROVE  Ind'
<1>1. /\ SameRecoveryLocals /\ db'.vs = db.vs
      /\ db'.mem = db.mem /\ db'.imm = db.imm /\ db'.hasImm = db.hasImm
      /\ db'.active = db.active /\ db'.logfile_number_ = db.logfile_number_
      /\ db'.pending_outputs_ = P /\ db'.bg_error_ = db.bg_error_
      /\ db'.closing = db.closing /\ db'.job = [db.job EXCEPT !.kind = kind]
      /\ db'.refused = db.refused
  BY DEF Ind, DbType, SameRecoveryLocals
<1>2. /\ db'.job \in Job /\ db'.job.kind = kind
      /\ db'.job.num = db.job.num /\ db'.job.inputs = db.job.inputs
  BY <1>1, JobFacts DEF Job
<1>3. db'.job # NoJob
  BY <1>2 DEF NoJob
<1>4. /\ Running /\ Running' /\ ~db.bg_error_ /\ db.job.num < db.vs.next
      /\ \A t \in db.vs.tables : t < db.job.num
  BY JobFacts DEF Running
<1>5. DbType'
  BY <1>1, <1>2 DEF Ind, DbType, SameRecoveryLocals
<1>6. UnsyncedInv'
  BY <1>4, UnsyncedStep DEF Ind, SameCur
<1>7. ReadingInv'
  BY <1>1, <1>4, RunningReading
<1>8. JobInv'
  <2>1. kind = "results" => Tab(db.job.inputs)' = Tab(db.job.inputs)
    BY <1>2 DEF Tab
  <2>2. QED
    BY <1>1, <1>2, <1>3, <1>4, <2>1 DEF JobInv
<1>9. RunningInv'
  BY <1>1, <1>4 DEF Ind, RunningInv, SameRecoveryLocals, SameCur
<1>10. GarbageInv'
  BY <1>1, <1>2, <1>3, GarbageKept DEF SameCur, SameRecoveryLocals
<1>11. HeldInv'
  <2>1. Tab(db.vs.tables)' = Tab(db.vs.tables)
    BY <1>1 DEF Tab
  <2>2. (\A l : InLog(l)' = InLog(l)) /\ InLog(db.active)' = InLog(db.active)
    BY <1>1 DEF InLog, SameCur
  <2>3. QED
    BY <1>1, <1>4, <2>1, <2>2 DEF Ind, HeldInv, SameCur
<1>12. QED
  BY <1>4, <1>5, <1>6, <1>7, <1>8, <1>9, <1>10, <1>11, RunningStep

(* WriteLevel10Table has written the immutable memtable out, or fails.     *)
LEMMA FlushBuiltStep ==
  ASSUME Ind, OtherType', NEW ok \in BOOLEAN, FlushBuilt(ok)
  PROVE  Ind'
<1> DEFINE n == db.job.num
           made == ok /\ db.imm # {}
<1>1. /\ phase = "running" /\ phase' = "running" /\ result' = result
      /\ acked' = acked /\ db.job.kind = "flush" /\ db.job # NoJob
      /\ disk' = [disk EXCEPT !.partial = @ \ {n},
                              !.tables = IF made THEN With(@, n, db.imm) ELSE @]
  BY DEF FlushBuilt, StaysOpen, NoJob
<1>2. made \in BOOLEAN /\ db.imm \in SUBSET Writes
  BY DEF Ind, DbType
<1>3. /\ DiskType' /\ SameCur /\ disk'.unsynced = disk.unsynced
      /\ disk'.strays = disk.strays
      /\ DirInv' /\ LogsInv' /\ DurableInv' /\ HasCur' /\ Cur' = Cur
      /\ Tab(Cur.tables)' = Tab(Cur.tables)
      /\ disk'.partial \subseteq disk.partial
      /\ DOMAIN disk'.tables = DOMAIN disk.tables \cup IF made THEN {n} ELSE {}
      /\ made => disk'.tables[n] = db.imm
      /\ \A t \in db.vs.tables : /\ t \in DOMAIN disk'.tables
                                 /\ disk'.tables[t] = disk.tables[t]
  BY <1>1, <1>2, BuiltTable
<1>4. /\ Running /\ Cur.tables = db.vs.tables /\ db.vs.next >= Cur.next
      /\ db.hasImm /\ db.pending_outputs_ = {n}
  <2>1. Running /\ Cur.tables = db.vs.tables /\ db.vs.next >= Cur.next
    BY <1>1, JobFacts
  <2>2. QED
    BY <1>1, <2>1 DEF Ind, JobInv
<1>5. CASE ok /\ ~db.closing
  <2>1. db' = [db EXCEPT !.job.kind = "install", !.pending_outputs_ = {}]
    BY <1>4, <1>5 DEF FlushBuilt
  <2>2. DOMAIN disk'.tables \subseteq DOMAIN disk.tables \cup {n}
    BY <1>3
  <2>3. db.imm # {} => n \in DOMAIN disk'.tables /\ disk'.tables[n] = db.imm
    BY <1>3, <1>5
  <2>4. {} \in SUBSET Nat /\ "install" \in {"install", "results"}
    OBVIOUS
  <2> HIDE DEF made
  <2>5. QED
    BY <1>1, <1>3, <1>4, <2>1, <2>2, <2>3, <2>4, JobGoesOnStep
<1>6. CASE ~(ok /\ ~db.closing)
  <2>1. JobFails
    BY <1>6 DEF FlushBuilt
  <2>2. UnsyncedInv'
    BY <1>1, <1>3, <1>4, UnsyncedStep DEF Ind, SameCur, Running
  <2>3. Trusted => Tab(Cur.tables)' \subseteq Tab(db.vs.tables) \cup db.imm
    BY <1>3, <1>4
  <2> HIDE DEF made
  <2>4. QED
    BY <1>1, <1>3, <1>4, <2>1, <2>2, <2>3, JobFailsStep DEF SameCur
<1>7. QED
  BY <1>5, <1>6

(* The merge has written its output, or fails.                             *)
LEMMA CompactionBuiltStep ==
  ASSUME Ind, OtherType', NEW ok \in BOOLEAN, CompactionBuilt(ok)
  PROVE  Ind'
<1> DEFINE n == db.job.num
<1>1. /\ phase = "running" /\ phase' = "running" /\ result' = result
      /\ acked' = acked /\ db.job.kind = "compact" /\ db.job # NoJob
  BY DEF CompactionBuilt, StaysOpen, NoJob
<1>2. /\ Running /\ Cur.tables = db.vs.tables /\ db.vs.next >= Cur.next /\ HasCur
      /\ \A t \in db.vs.tables : t \in DOMAIN disk.tables
      /\ n \in Nat
  BY <1>1, JobFacts
<1>3. db.job.inputs \subseteq db.vs.tables /\ db.pending_outputs_ = {n}
  BY <1>1, <1>2 DEF Ind, JobInv
<1>4. CASE ok /\ ~db.closing
  <2>1. /\ disk' = [disk EXCEPT !.partial = @ \ {n},
                                !.tables = With(@, n, Tab(db.job.inputs))]
        /\ db' = [db EXCEPT !.job.kind = "results", !.pending_outputs_ = {n}]
    <3>1. /\ disk' = [disk EXCEPT !.partial = @ \ {n},
                                  !.tables = With(@, n, UNION {@[t] : t \in db.job.inputs})]
          /\ db' = [db EXCEPT !.job.kind = "results"]
      BY <1>4 DEF CompactionBuilt
    <3>2. [db EXCEPT !.job.kind = "results"]
            = [db EXCEPT !.job.kind = "results", !.pending_outputs_ = {n}]
      BY <1>3 DEF Ind, DbType
    <3>3. QED
      BY <3>1, <3>2 DEF Tab
  <2>2. Tab(db.job.inputs) \in SUBSET Writes
    BY <1>2, <1>3 DEF Tab, Ind, DiskType
  <2>3. disk' = [disk EXCEPT !.partial = @ \ {n},
                             !.tables = IF TRUE THEN With(@, n, Tab(db.job.inputs)) ELSE @]
    BY <2>1
  <2>4. /\ DiskType' /\ SameCur /\ disk'.unsynced = disk.unsynced
        /\ disk'.strays = disk.strays
        /\ DirInv' /\ LogsInv' /\ DurableInv' /\ HasCur' /\ Cur' = Cur
        /\ Tab(Cur.tables)' = Tab(Cur.tables)
        /\ disk'.partial \subseteq disk.partial
        /\ DOMAIN disk'.tables = DOMAIN disk.tables \cup IF TRUE THEN {n} ELSE {}
        /\ disk'.tables[n] = Tab(db.job.inputs)
        /\ \A t \in db.vs.tables : /\ t \in DOMAIN disk'.tables
                                   /\ disk'.tables[t] = disk.tables[t]
    BY <1>1, <2>2, <2>3, BuiltTable
  <2>5. /\ DOMAIN disk'.tables \subseteq DOMAIN disk.tables \cup {n}
        /\ n \in DOMAIN disk'.tables
    BY <2>4
  <2>6. {n} \in SUBSET Nat
    BY <1>2
  <2>7. QED
    BY <1>1, <1>3, <2>1, <2>4, <2>5, <2>6, JobGoesOnStep
<1>5. CASE ~(ok /\ ~db.closing)
  <2>1. JobFails /\ disk' = disk
    BY <1>5 DEF CompactionBuilt
  <2>2. /\ DiskType' /\ DirInv' /\ LogsInv' /\ DurableInv'
        /\ HasCur' = HasCur /\ Cur' = Cur
    BY <1>1, <2>1, SameDiskStep
  <2>3. UnsyncedInv'
    BY <1>1, <1>2, <2>1, UnsyncedStep DEF Ind, Running
  <2>4. Trusted => Tab(Cur.tables)' \subseteq Tab(db.vs.tables) \cup db.imm
    BY <1>2, <2>1, <2>2 DEF Tab
  <2>5. QED
    BY <1>1, <1>2, <2>1, <2>2, <2>3, <2>4, JobFailsStep
<1>6. QED
  BY <1>4, <1>5

(* A version that a job commits, whatever LogAndApply then reports.        *)
LEMMA JobCommits ==
  ASSUME Ind, phase = "running", phase' \in {"running", "gc"}, db.job # NoJob,
         acked' = acked, NEW v \in Version, disk' = Committed(v),
         v.prev = 0, v.next = db.vs.next, v.seq = db.vs.seq,
         \/ v.log = db.vs.log
         \/ v.log = db.active /\ db.imm \subseteq Tab(v.tables),
         Tab(db.vs.tables) \subseteq Tab(v.tables),
         \A t \in v.tables : /\ t < db.vs.next /\ t \in DOMAIN disk.tables
                             /\ \A s \in disk.tables[t] : s <= db.vs.seq
  PROVE  /\ DiskType' /\ DirInv' /\ UnsyncedInv' /\ LogsInv' /\ DurableInv'
         /\ HasCur' /\ Cur' = v /\ Tab(Cur.tables)' = Tab(v.tables)
         /\ disk'.current = disk.current
         /\ disk'.logs = disk.logs /\ disk'.tables = disk.tables
<1>1. /\ Running /\ ~db.bg_error_ /\ HasCur /\ disk.current # 0
      /\ disk.current = db.manifest /\ db.manifest < db.vs.next
      /\ db.vs.next \in Nat /\ db.vs.log \in Nat
      /\ db.active \in DOMAIN disk.logs /\ db.active \in Nat
      /\ db.vs.log <= db.active /\ db.active < db.vs.next
      /\ Cur.tables = db.vs.tables /\ Cur.log = db.vs.log
  BY JobFacts
<1>2. v.log < v.next /\ v.log <= db.active /\ v.log \in Nat
  BY <1>1
<1>3. \A m \in DOMAIN disk.manifests : m <= db.manifest
  BY <1>1 DEF Ind, DirInv
<1>4. ~Opening'
  BY DEF Opening
<1>5. /\ DiskType' /\ DirInv' /\ UnsyncedInv' /\ HasCur' /\ Cur' = v
      /\ disk'.current = db.manifest
      /\ disk'.logs = disk.logs /\ disk'.synced = disk.synced
      /\ disk'.tables = disk.tables
  BY <1>1, <1>2, <1>3, <1>4, CommitStep
<1>6. /\ \A l : InLog(l)' = InLog(l) /\ InSynced(l)' = InSynced(l)
      /\ Tab(Cur.tables)' = Tab(v.tables)
  BY <1>5 DEF InLog, InSynced, Tab
<1>7. Trusted => \A l \in DOMAIN disk.logs :
         l # db.active => InLog(l) \subseteq Tab(db.vs.tables) \cup db.imm
  BY <1>1 DEF Ind, HeldInv
<1>8. LogsInv'
  <2>1. ASSUME Trusted, NEW l \in DOMAIN disk.logs, l < v.log
        PROVE  InLog(l) \subseteq Tab(v.tables)
    <3>1. CASE v.log = db.vs.log
      BY <1>1, <2>1, <3>1 DEF Ind, LogsInv
    <3>2. CASE v.log # db.vs.log
      <4>1. l # db.active
        BY <1>1, <2>1, <3>2
      <4>2. QED
        BY <1>7, <2>1, <3>2, <4>1
    <3>3. QED
      BY <3>1, <3>2
  <2>2. QED
    BY <1>5, <1>6, <2>1 DEF LogsInv
<1>9. DurableInv'
  <2>1. ASSUME Trusted, NEW s \in acked
        PROVE  \/ s \in Tab(v.tables)
               \/ \E l \in DOMAIN disk.logs : l >= v.log /\ s \in InSynced(l)
    <3>1. \/ s \in Tab(Cur.tables)
          \/ \E l \in DOMAIN disk.logs : l >= Cur.log /\ s \in InSynced(l)
      BY <2>1 DEF Ind, DurableInv
    <3>2. CASE v.log = db.vs.log
      BY <1>1, <3>1, <3>2
    <3>3. CASE v.log # db.vs.log
      <4>1. ASSUME NEW l \in DOMAIN disk.logs, s \in InSynced(l)
            PROVE  s \in Tab(v.tables) \/ l = db.active
        <5>1. s \in InLog(l)
          BY <4>1 DEF InSynced, InLog, Ind, DiskType
        <5>2. QED
          BY <1>7, <2>1, <3>3, <5>1
      <4>2. db.active >= v.log
        BY <1>1, <1>2
      <4>3. QED
        BY <1>1, <3>1, <4>1, <4>2
    <3>4. QED
      BY <3>2, <3>3
  <2>2. QED
    BY <1>5, <1>6, <2>1 DEF DurableInv
<1>10. QED
  BY <1>1, <1>5, <1>6, <1>8, <1>9

(* CompactMemtable commits: the memtable it wrote out is gone, and what    *)
(* was in it is in the table.                                              *)
LEMMA FlushInstalledStep ==
  ASSUME Ind, OtherType', NEW outcome \in Outcomes, FlushInstalled(outcome)
  PROVE  Ind'
<1> DEFINE n == db.job.num
<1>1. /\ phase = "running" /\ phase' \in {"running", "gc"} /\ result' = result
      /\ acked' = acked /\ db.job.kind = "install" /\ db.job # NoJob
      /\ LogAndApply(FlushEdit, outcome)
  BY DEF FlushInstalled, NoJob
<1>2. /\ Running /\ ~db.bg_error_ /\ HasCur /\ disk.current # 0
      /\ disk.current = db.manifest
      /\ db.vs \in Version /\ db.vs.next \in Nat /\ db.vs.seq \in Nat
      /\ db.vs.log \in Nat /\ db.vs.tables \in SUBSET Nat /\ db.vs.prev = 0
      /\ db.active \in DOMAIN disk.logs /\ db.active \in Nat
      /\ db.vs.log <= db.active /\ db.active < db.vs.next
      /\ Cur.tables = db.vs.tables
      /\ Cur.next \in Nat /\ db.vs.next >= Cur.next
      /\ n \in Nat /\ n < db.vs.next
      /\ \A t \in db.vs.tables : t < db.vs.next /\ t \in DOMAIN disk.tables
      /\ \A l \in Listed(DOMAIN disk.logs) : l < db.vs.next
  BY <1>1, JobFacts
<1>3. /\ db.hasImm /\ db.pending_outputs_ = {}
      /\ db.imm # {} => n \in DOMAIN disk.tables /\ disk.tables[n] = db.imm
      /\ db.logfile_number_ = db.active /\ db.todo = {}
      /\ \A s \in db.mem \cup db.imm : s <= db.vs.seq
      /\ \A t \in db.vs.tables : \A s \in disk.tables[t] : s <= db.vs.seq
  BY <1>1, <1>2 DEF Ind, JobInv, RunningInv
<1>4. /\ FlushEdit \in Version /\ FlushEdit.prev = 0 /\ FlushEdit.log = db.active
      /\ FlushEdit.next = db.vs.next /\ FlushEdit.seq = db.vs.seq
      /\ FlushEdit.tables = db.vs.tables \cup IF db.imm = {} THEN {} ELSE {n}
  <2> DEFINE T == db.vs.tables \cup IF db.imm = {} THEN {} ELSE {n}
  <2>1. T \in SUBSET Nat
    BY <1>2
  <2>2. FlushEdit = Edited(db.vs, db.logfile_number_, T)
    BY DEF FlushEdit, Edited
  <2> HIDE DEF T
  <2>3. /\ FlushEdit \in Version /\ FlushEdit.prev = 0 /\ FlushEdit.log = db.active
        /\ FlushEdit.next = db.vs.next /\ FlushEdit.seq = db.vs.seq
        /\ FlushEdit.tables = T
    BY <1>2, <1>3, <2>1, <2>2, VersionEdit
  <2>4. QED
    BY <2>3 DEF T
<1>5. Tab(FlushEdit.tables) = Tab(db.vs.tables) \cup db.imm
  BY <1>3, <1>4 DEF Tab
<1>6. \A t \in FlushEdit.tables : /\ t < db.vs.next /\ t \in DOMAIN disk.tables
                                  /\ \A s \in disk.tables[t] : s <= db.vs.seq
  BY <1>2, <1>3, <1>4
<1>7. CASE outcome = "failed"
  <2>1. /\ JobFails /\ phase' = "running" /\ disk' = disk
    <3>1. JobFails /\ phase' = "running" /\ disk' \in LeftDisks
      BY <1>1, <1>7 DEF FlushInstalled, LogAndApply
    <3>2. QED
      BY <1>1, <3>1, LeftFacts DEF Ind
  <2>2. /\ DiskType' /\ DirInv' /\ LogsInv' /\ DurableInv'
        /\ HasCur' = HasCur /\ Cur' = Cur
    BY <1>1, <2>1, SameDiskStep
  <2>3. UnsyncedInv'
    BY <1>1, <1>2, <2>1, UnsyncedStep DEF Ind, Running
  <2>4. Trusted => Tab(Cur.tables)' \subseteq Tab(db.vs.tables) \cup db.imm
    BY <1>2, <2>1, <2>2 DEF Tab
  <2>5. QED
    BY <1>1, <1>2, <2>1, <2>2, <2>3, <2>4, JobFailsStep
<1>8. CASE outcome # "failed"
  <2>1. disk' = Committed(FlushEdit)
    BY <1>1, <1>8 DEF LogAndApply
  <2>2. /\ DiskType' /\ DirInv' /\ UnsyncedInv' /\ LogsInv' /\ DurableInv'
        /\ HasCur' /\ Cur' = FlushEdit /\ Tab(Cur.tables)' = Tab(FlushEdit.tables)
        /\ disk'.current = disk.current
        /\ disk'.logs = disk.logs /\ disk'.tables = disk.tables
    BY <1>1, <1>4, <1>5, <1>6, <2>1, JobCommits
  <2>3. CASE outcome = "written"
    <3>1. JobFails /\ phase' = "running"
      BY <1>1, <2>3 DEF FlushInstalled
    <3>2. QED
      BY <1>1, <1>2, <1>4, <1>5, <2>2, <3>1, JobFailsStep
  <2>4. CASE outcome = "ok"
    <3>1. /\ phase' = "gc"
          /\ db' = [db EXCEPT !.vs = FlushEdit, !.imm = {}, !.hasImm = FALSE,
                              !.job = NoJob, !.refused = {}]
      BY <2>4 DEF FlushInstalled
    <3>2. /\ SameRecoveryLocals /\ db'.vs = FlushEdit
          /\ db'.mem = db.mem /\ db'.imm = {} /\ db'.hasImm = FALSE
          /\ db'.active = db.active /\ db'.logfile_number_ = db.logfile_number_
          /\ db'.pending_outputs_ = db.pending_outputs_
          /\ db'.bg_error_ = db.bg_error_ /\ db'.closing = db.closing
          /\ db'.job = NoJob
      BY <3>1 DEF Ind, DbType, SameRecoveryLocals
    <3>3. DbType'
      <4>1. NoJob \in Job
        BY DEF NoJob, Job
      <4>2. QED
        BY <1>4, <3>2, <4>1 DEF Ind, DbType, SameRecoveryLocals
    <3>4. db.log = 0 /\ db.pos = 0 /\ db.rmem = {} /\ ~db.hasRmem /\ ~db.final
      BY <1>2, RunningFacts
    <3>5. Tab(db.vs.tables)' = Tab(FlushEdit.tables)
      BY <2>2, <3>2 DEF Tab
    <3>6. (\A l : InLog(l)' = InLog(l)) /\ InLog(db.active)' = InLog(db.active)
      BY <2>2, <3>2 DEF InLog
    <3>7. Trusted =>
            /\ \A s \in db'.mem : s \in InLog(db.active)'
            /\ \A l \in DOMAIN disk'.logs :
                 /\ l # db'.active => InLog(l)' \subseteq Tab(db.vs.tables)'
                 /\ InLog(l)' \subseteq Tab(db.vs.tables)' \cup db'.mem
      <4>1. Trusted =>
              /\ \A s \in db.mem : s \in InLog(db.active)
              /\ \A l \in DOMAIN disk.logs :
                   /\ l # db.active => InLog(l) \subseteq Tab(db.vs.tables) \cup db.imm
                   /\ InLog(l) \subseteq Tab(db.vs.tables) \cup db.imm \cup db.mem
        BY <1>2 DEF Ind, HeldInv
      <4>2. QED
        BY <1>5, <2>2, <3>2, <3>5, <3>6, <4>1
    <3>8. /\ db'.vs.prev = 0 /\ db'.vs.log = Cur'.log /\ db'.vs.tables = Cur'.tables
          /\ db'.vs.next >= Cur'.next /\ db'.vs.seq >= Cur'.seq
          /\ db'.vs.log <= db'.active /\ db'.active < db'.vs.next
      BY <1>2, <1>4, <2>2, <3>2
    <3>9. /\ disk'.current = db'.manifest /\ db'.todo = {} /\ ~db'.bg_error_
          /\ db'.active \in DOMAIN disk'.logs
          /\ \A l \in Listed(DOMAIN disk'.logs) : l < db'.vs.next
          /\ \A s \in db'.mem : s <= db'.vs.seq
      BY <1>2, <1>3, <1>4, <2>2, <3>2 DEF SameRecoveryLocals
    <3>10. QED
      BY <1>3, <2>2, <3>1, <3>2, <3>3, <3>4, <3>7, <3>8, <3>9, EnterGcStep
      DEF SameRecoveryLocals
  <2>5. QED
    BY <1>8, <2>3, <2>4 DEF Outcomes
<1>9. QED
  BY <1>7, <1>8

(* A compaction commits: its output holds what its inputs held.            *)
LEMMA CompactionInstalledStep ==
  ASSUME Ind, OtherType', NEW outcome \in Outcomes, CompactionInstalled(outcome)
  PROVE  Ind'
<1> DEFINE n == db.job.num
<1>1. /\ phase = "running" /\ phase' \in {"running", "gc"} /\ result' = result
      /\ acked' = acked /\ db.job.kind = "results" /\ db.job # NoJob
      /\ LogAndApply(CompactionEdit, outcome)
  BY DEF CompactionInstalled, NoJob
<1>2. /\ Running /\ ~db.bg_error_ /\ HasCur /\ disk.current # 0
      /\ disk.current = db.manifest
      /\ db.vs \in Version /\ db.vs.next \in Nat /\ db.vs.seq \in Nat
      /\ db.vs.log \in Nat /\ db.vs.tables \in SUBSET Nat /\ db.vs.prev = 0
      /\ db.active \in DOMAIN disk.logs /\ db.active \in Nat
      /\ db.vs.log <= db.active /\ db.active < db.vs.next
      /\ Cur.tables = db.vs.tables
      /\ Cur.next \in Nat /\ db.vs.next >= Cur.next
      /\ n \in Nat /\ n < db.vs.next /\ n \notin db.vs.tables
      /\ \A t \in db.vs.tables : t < db.vs.next /\ t \in DOMAIN disk.tables
      /\ \A l \in Listed(DOMAIN disk.logs) : l < db.vs.next
  BY <1>1, JobFacts
<1>3. /\ db.pending_outputs_ = {n} /\ db.job.inputs \subseteq db.vs.tables
      /\ n \in DOMAIN disk.tables /\ disk.tables[n] = Tab(db.job.inputs)
      /\ db.todo = {}
      /\ \A s \in db.mem \cup db.imm : s <= db.vs.seq
      /\ \A t \in db.vs.tables : \A s \in disk.tables[t] : s <= db.vs.seq
      /\ ~db.hasImm => db.imm = {}
      /\ result = "ok"
      /\ db.hasImm => db.logfile_number_ = db.active
  BY <1>1, <1>2 DEF Ind, JobInv, RunningInv
<1>4. /\ CompactionEdit \in Version /\ CompactionEdit.prev = 0
      /\ CompactionEdit.log = db.vs.log
      /\ CompactionEdit.next = db.vs.next /\ CompactionEdit.seq = db.vs.seq
      /\ CompactionEdit.tables = (db.vs.tables \ db.job.inputs) \cup {n}
  <2> DEFINE T == (db.vs.tables \ db.job.inputs) \cup {n}
  <2>1. T \in SUBSET Nat
    BY <1>2
  <2>2. CompactionEdit = [db.vs EXCEPT !.tables = T]
    BY DEF CompactionEdit
  <2> HIDE DEF T
  <2>3. /\ CompactionEdit \in Version /\ CompactionEdit.prev = 0
        /\ CompactionEdit.log = db.vs.log
        /\ CompactionEdit.next = db.vs.next /\ CompactionEdit.seq = db.vs.seq
        /\ CompactionEdit.tables = T
    BY <1>2, <2>1, <2>2, VersionTables
  <2>4. QED
    BY <2>3 DEF T
<1>5. Tab(CompactionEdit.tables) = Tab(db.vs.tables)
  <2>1. \A s : s \in Tab(db.vs.tables) =>
                  (\E t \in db.vs.tables \ db.job.inputs : s \in disk.tables[t])
                  \/ s \in Tab(db.job.inputs)
    BY DEF Tab
  <2>2. Tab(db.job.inputs) \subseteq Tab(db.vs.tables)
    BY <1>3 DEF Tab
  <2>3. \A s : s \in Tab(CompactionEdit.tables) <=>
                  (\E t \in db.vs.tables \ db.job.inputs : s \in disk.tables[t])
                  \/ s \in Tab(db.job.inputs)
    BY <1>3, <1>4 DEF Tab
  <2>4. \A s : (\E t \in db.vs.tables \ db.job.inputs : s \in disk.tables[t])
                  => s \in Tab(db.vs.tables)
    BY DEF Tab
  <2>5. QED
    BY <2>1, <2>2, <2>3, <2>4
<1>6. \A t \in CompactionEdit.tables :
         /\ t < db.vs.next /\ t \in DOMAIN disk.tables
         /\ \A s \in disk.tables[t] : s <= db.vs.seq
  <2>1. \A s \in Tab(db.job.inputs) : s <= db.vs.seq
    BY <1>3 DEF Tab
  <2>2. QED
    BY <1>2, <1>3, <1>4, <2>1
<1>7. CASE outcome = "failed"
  <2>1. /\ JobFails /\ phase' = "running" /\ disk' = disk
    <3>1. JobFails /\ phase' = "running" /\ disk' \in LeftDisks
      BY <1>1, <1>7 DEF CompactionInstalled, LogAndApply
    <3>2. QED
      BY <1>1, <3>1, LeftFacts DEF Ind
  <2>2. /\ DiskType' /\ DirInv' /\ LogsInv' /\ DurableInv'
        /\ HasCur' = HasCur /\ Cur' = Cur
    BY <1>1, <2>1, SameDiskStep
  <2>3. UnsyncedInv'
    BY <1>1, <1>2, <2>1, UnsyncedStep DEF Ind, Running
  <2>4. Trusted => Tab(Cur.tables)' \subseteq Tab(db.vs.tables) \cup db.imm
    BY <1>2, <2>1, <2>2 DEF Tab
  <2>5. QED
    BY <1>1, <1>2, <2>1, <2>2, <2>3, <2>4, JobFailsStep
<1>8. CASE outcome # "failed"
  <2>1. disk' = Committed(CompactionEdit)
    BY <1>1, <1>8 DEF LogAndApply
  <2>2. /\ DiskType' /\ DirInv' /\ UnsyncedInv' /\ LogsInv' /\ DurableInv'
        /\ HasCur' /\ Cur' = CompactionEdit
        /\ Tab(Cur.tables)' = Tab(CompactionEdit.tables)
        /\ disk'.current = disk.current
        /\ disk'.logs = disk.logs /\ disk'.tables = disk.tables
    BY <1>1, <1>4, <1>5, <1>6, <2>1, JobCommits
  <2>3. CASE outcome = "written"
    <3>1. JobFails /\ phase' = "running"
      BY <1>1, <2>3 DEF CompactionInstalled
    <3>2. QED
      BY <1>1, <1>2, <1>4, <1>5, <2>2, <3>1, JobFailsStep
  <2>4. CASE outcome = "ok"
    <3>1. /\ phase' = "gc"
          /\ db' = [db EXCEPT !.vs = CompactionEdit, !.job = NoJob,
                              !.pending_outputs_ = @ \ {n}, !.refused = {}]
      BY <2>4 DEF CompactionInstalled
    <3>2. /\ SameRecoveryLocals /\ db'.vs = CompactionEdit
          /\ db'.mem = db.mem /\ db'.imm = db.imm /\ db'.hasImm = db.hasImm
          /\ db'.active = db.active /\ db'.logfile_number_ = db.logfile_number_
          /\ db'.pending_outputs_ = {}
          /\ db'.bg_error_ = db.bg_error_ /\ db'.closing = db.closing
          /\ db'.job = NoJob
      BY <1>3, <3>1 DEF Ind, DbType, SameRecoveryLocals
    <3>3. DbType'
      <4>1. NoJob \in Job
        BY DEF NoJob, Job
      <4>2. QED
        BY <1>4, <3>2, <4>1 DEF Ind, DbType, SameRecoveryLocals
    <3>4. Running'
      BY <3>1 DEF Running
    <3>5. Tab(db.vs.tables)' = Tab(CompactionEdit.tables)
      BY <2>2, <3>2 DEF Tab
    <3>6. (\A l : InLog(l)' = InLog(l)) /\ InLog(db.active)' = InLog(db.active)
      BY <2>2, <3>2 DEF InLog
    <3>7. ReadingInv'
      BY <1>2, <3>2, <3>4, RunningReading
    <3>8. JobInv'
      BY <3>2 DEF JobInv, NoJob
    <3>9. RunningInv'
      BY <1>1, <1>2, <1>3, <1>4, <1>6, <2>2, <3>1, <3>2
      DEF RunningInv, SameRecoveryLocals
    <3>10. GarbageInv'
      BY <3>1 DEF GarbageInv
    <3>11. HeldInv'
      BY <1>2, <1>5, <2>2, <3>2, <3>5, <3>6 DEF Ind, HeldInv
    <3>12. QED
      BY <2>2, <3>3, <3>4, <3>7, <3>8, <3>9, <3>10, <3>11, RunningStep
  <2>5. QED
    BY <1>8, <2>3, <2>4 DEF Outcomes
<1>9. QED
  BY <1>7, <1>8

-----------------------------------------------------------------------------
(* All steps.                                                              *)

(* The steps of DB::Open, of an open database, and those that end it.      *)
OpenNext(o) ==
  \/ OpenMissing(o) \/ OpenExisting(o) \/ OpenFails(o) \/ NewDbFails(o)

RecoverNext ==
  \/ \E ok \in BOOLEAN : NewDbDone(ok) \/ TableBuilt(ok) \/ NewLog(ok)
  \/ OpenLog \/ (IoErrors /\ OpenLogFails)
  \/ ReadRecord \/ (BadRecords /\ (SkipRecord \/ InsertFails))
  \/ ReuseLog \/ EndLog \/ RecoverReturns
  \/ \E outcome \in Outcomes : ApplyOpenEdit(outcome)
  \/ DeleteObsoleteFile \/ DeleteFileFails \/ GetChildrenFails
  \/ DeleteObsoleteFilesDone

RunNext ==
  \/ \E sync \in BOOLEAN : Write(sync)
  \/ MakeRoomForWrite \/ CompactMemtable \/ StartCompaction
  \/ \E ok \in BOOLEAN : FlushBuilt(ok) \/ CompactionBuilt(ok)
  \/ \E outcome \in Outcomes : FlushInstalled(outcome) \/ CompactionInstalled(outcome)
  \/ Close \/ ProcessCrash \/ MachineCrash

(* The steps of Next in three groups.                                      *)
LEMMA NextCases ==
  ASSUME Next
  PROVE  \/ (\E o \in Options : OpenNext(o)) \/ RecoverNext \/ RunNext
         \/ UNCHANGED vars
  BY DEF Next, OpenNext, RecoverNext, RunNext, Good, Fault, Damage, Crash,
         Stopped, Outcomes

(* Crashes and failed operations stay within their bound.                  *)
LEMMA FaultsStep ==
  ASSUME faults \in 0..MaxFaults, Next
  PROVE  faults' \in 0..MaxFaults
<1>1. faults' = faults \/ (faults < MaxFaults /\ faults' = faults + 1)
  BY DEF Next, Good, Fault, Damage, Crash, Stopped, vars
<1>2. QED
  BY <1>1, RecoveryAssumption

(* The types of the variables other than disk and db.                      *)
Typed ==
  /\ phase' \in Phases
  /\ opts' \in Options
  /\ result' \in {"none", "ok", "InvalidArgument", "IOError", "Corruption"}
  /\ acked' \in SUBSET Writes

(* The first steps of DB::Open set the variables to values they may have.  *)
LEMMA OpenNextTyped ==
  ASSUME OtherType, NEW o \in Options, OpenNext(o)
  PROVE  Typed
<1>1. OpenMissing(o) \/ OpenFails(o) => Typed
  BY DEF OtherType, Typed, Phases, OpenMissing, OpenFails, OpenReturns
<1>2. OpenExisting(o) => Typed
  BY DEF OtherType, Typed, Phases, OpenExisting, OpenReturns
<1>3. NewDbFails(o) => Typed
  BY DEF OtherType, Typed, Phases, NewDbFails, OpenReturns
<1>4. QED
  BY <1>1, <1>2, <1>3 DEF OpenNext

(* So do the other steps of DB::Open.                                      *)
LEMMA RecoverNextTyped ==
  ASSUME OtherType, RecoverNext
  PROVE  Typed
<1>1. ASSUME NEW ok \in BOOLEAN, NewDbDone(ok) PROVE Typed
  BY <1>1 DEF OtherType, Typed, Phases, NewDbDone, OpenReturns
<1>2. ASSUME NEW ok \in BOOLEAN, TableBuilt(ok) PROVE Typed
  BY <1>2 DEF OtherType, Typed, Phases, TableBuilt, OpenReturns
<1>3. ASSUME NEW ok \in BOOLEAN, NewLog(ok) PROVE Typed
  BY <1>3 DEF OtherType, Typed, Phases, NewLog, OpenReturns
<1>4. OpenLog \/ OpenLogFails => Typed
  BY DEF OtherType, Typed, Phases, OpenLog, OpenLogFails, OpenReturns
<1>5. ReadRecord => Typed
  BY DEF OtherType, Typed, Phases, ReadRecord, Insert, BeginBuild
<1>6. SkipRecord => Typed
  BY DEF OtherType, Typed, Phases, SkipRecord
<1>7. InsertFails => Typed
  BY DEF OtherType, Typed, Phases, InsertFails, Insert, BeginBuild, OpenReturns
<1>8. ReuseLog \/ EndLog => Typed
  BY DEF OtherType, Typed, Phases, ReuseLog, EndLog, BeginBuild
<1>9. RecoverReturns \/ DeleteObsoleteFile \/ DeleteObsoleteFilesDone => Typed
  BY DEF OtherType, Typed, Phases, RecoverReturns, DeleteObsoleteFile,
         DeleteObsoleteFilesDone
<1>10. ASSUME NEW outcome \in Outcomes, ApplyOpenEdit(outcome) PROVE Typed
  BY <1>10 DEF OtherType, Typed, Phases, ApplyOpenEdit, OpenReturns
<1>11. DeleteFileFails \/ GetChildrenFails => Typed
  BY DEF OtherType, Typed, Phases, DeleteFileFails, GetChildrenFails, DeletionsFail
<1>12. QED
  BY <1>1, <1>2, <1>3, <1>4, <1>5, <1>6, <1>7, <1>8, <1>9, <1>10, <1>11 DEF RecoverNext

(* And those of an open database, where only Write extends acked.          *)
LEMMA RunNextTyped ==
  ASSUME OtherType, DbType, RunNext
  PROVE  Typed
<1>1. ASSUME NEW sync \in BOOLEAN, Write(sync) PROVE Typed
  <2>1. db.vs.seq + 1 \in Writes
    BY <1>1, RecoveryAssumption DEF DbType, Version, Writes, Write
  <2>2. QED
    BY <1>1, <2>1 DEF OtherType, Typed, Phases, Write, StaysOpen
<1>2. MakeRoomForWrite => Typed
  BY DEF OtherType, Typed, Phases, MakeRoomForWrite, StaysOpen
<1>3. CompactMemtable \/ StartCompaction => Typed
  BY DEF OtherType, Typed, Phases, CompactMemtable, StartCompaction, StartJob, StaysOpen
<1>4. ASSUME NEW ok \in BOOLEAN, FlushBuilt(ok) \/ CompactionBuilt(ok) PROVE Typed
  BY <1>4 DEF OtherType, Typed, Phases, FlushBuilt, CompactionBuilt, StaysOpen
<1>5. ASSUME NEW outcome \in Outcomes,
             FlushInstalled(outcome) \/ CompactionInstalled(outcome)
      PROVE  Typed
  BY <1>5 DEF OtherType, Typed, Phases, FlushInstalled, CompactionInstalled
<1>6. Close \/ ProcessCrash \/ MachineCrash => Typed
  BY DEF OtherType, Typed, Phases, Close, ProcessCrash, MachineCrash
<1>7. QED
  BY <1>1, <1>2, <1>3, <1>4, <1>5, <1>6 DEF RunNext

(* A step that changes nothing.                                            *)
LEMMA StutterStep ==
  ASSUME Ind, UNCHANGED vars
  PROVE  Ind'
<1>1. /\ disk' = disk /\ db' = db /\ phase' = phase /\ opts' = opts
      /\ result' = result /\ acked' = acked /\ faults' = faults
  BY DEF vars
<1>2. HasCur' = HasCur /\ Cur' = Cur /\ Newest' = Newest
  BY <1>1 DEF HasCur, Cur, Newest
<1>3. DiskType' /\ DbType' /\ OtherType' /\ DirInv' /\ UnsyncedInv' /\ DownInv'
  BY <1>1, <1>2 DEF Ind, DiskType, DbType, OtherType, DirInv, UnsyncedInv, DownInv,
     Opening, Running
<1>4. OpeningInv' /\ ReadingInv'
  BY <1>1, <1>2 DEF Ind, OpeningInv, ReadingInv, Opening
<1>5. JobInv' /\ RunningInv' /\ GarbageInv'
  BY <1>1, <1>2 DEF Ind, JobInv, RunningInv, GarbageInv, Refused, Running, Tab
<1>6. LogsInv' /\ ReplayInv' /\ LoggedInv' /\ HeldInv' /\ DurableInv'
  BY <1>1, <1>2 DEF Ind, LogsInv, ReplayInv, LoggedInv, HeldInv, DurableInv, Tab,
     InLog, InSynced, Logged, ToBeRead, Recovered, Opening, Running
<1>7. QED
  BY <1>3, <1>4, <1>5, <1>6 DEF Ind

(* Every step preserves the invariant.                                     *)
LEMMA NextStep ==
  ASSUME Ind, [Next]_vars
  PROVE  Ind'
<1>1. CASE UNCHANGED vars
  BY <1>1, StutterStep
<1>2. ASSUME Next, NEW o \in Options, OpenNext(o)
      PROVE  Ind'
  <2>1. OtherType'
    BY <1>2, OpenNextTyped, FaultsStep DEF Ind, OtherType, Typed
  <2>2. QED
    BY <1>2, <2>1, OpenMissingStep, OpenExistingStep, OpenFailsStep, NewDbFailsStep
    DEF OpenNext
<1>3. ASSUME Next, RecoverNext
      PROVE  Ind'
  <2>1. OtherType'
    BY <1>3, RecoverNextTyped, FaultsStep DEF Ind, OtherType, Typed
  <2>2. ASSUME NEW ok \in BOOLEAN, NewDbDone(ok) \/ TableBuilt(ok) \/ NewLog(ok)
        PROVE  Ind'
    <3>1. CASE ok = TRUE
      BY <2>1, <2>2, <3>1, NewDbDoneStep, TableBuiltStep, NewLogStep
    <3>2. CASE ok = FALSE
      BY <2>1, <2>2, <3>2, NewDbNotDoneStep, TableNotBuiltStep, NewLogStep
    <3>3. QED
      BY <3>1, <3>2
  <2>3. CASE OpenLog \/ (IoErrors /\ OpenLogFails)
    BY <2>1, <2>3, OpenLogStep, OpenLogFailsStep
  <2>4. CASE ReadRecord \/ (BadRecords /\ (SkipRecord \/ InsertFails))
    BY <2>1, <2>4, ReadRecordStep, SkipRecordStep, InsertFailsStep
  <2>5. CASE ReuseLog \/ EndLog \/ RecoverReturns
    BY <2>1, <2>5, ReuseLogStep, EndLogStep, RecoverReturnsStep
  <2>6. ASSUME NEW outcome \in Outcomes, ApplyOpenEdit(outcome)
        PROVE  Ind'
    BY <2>1, <2>6, ApplyOpenEditStep
  <2>7. CASE \/ DeleteObsoleteFile \/ DeleteFileFails \/ GetChildrenFails
             \/ DeleteObsoleteFilesDone
    BY <2>1, <2>7, DeleteObsoleteFileStep, DeletionFaultStep, DeleteObsoleteFilesDoneStep
  <2>8. QED
    BY <1>3, <2>2, <2>3, <2>4, <2>5, <2>6, <2>7 DEF RecoverNext
<1>4. ASSUME Next, RunNext
      PROVE  Ind'
  <2>1. OtherType'
    BY <1>4, RunNextTyped, FaultsStep DEF Ind, OtherType, Typed
  <2>2. ASSUME NEW sync \in BOOLEAN, Write(sync)
        PROVE  Ind'
    BY <2>1, <2>2, WriteStep
  <2>3. CASE MakeRoomForWrite \/ CompactMemtable \/ StartCompaction
    BY <2>1, <2>3, MakeRoomForWriteStep, CompactMemtableStep, StartCompactionStep
  <2>4. ASSUME NEW ok \in BOOLEAN, FlushBuilt(ok) \/ CompactionBuilt(ok)
        PROVE  Ind'
    BY <2>1, <2>4, FlushBuiltStep, CompactionBuiltStep
  <2>5. ASSUME NEW outcome \in Outcomes,
               FlushInstalled(outcome) \/ CompactionInstalled(outcome)
        PROVE  Ind'
    BY <2>1, <2>5, FlushInstalledStep, CompactionInstalledStep
  <2>6. CASE Close \/ ProcessCrash \/ MachineCrash
    BY <2>1, <2>6, CloseStep, ProcessCrashStep, MachineCrashStep
  <2>7. QED
    BY <1>4, <2>2, <2>3, <2>4, <2>5, <2>6 DEF RunNext
<1>5. QED
  BY <1>1, <1>2, <1>3, <1>4, NextCases

(* It holds of an empty directory and of one with a new database.          *)
LEMMA InitInv ==
  ASSUME Init
  PROVE  Ind
<1>1. /\ db = NoDB /\ phase = "down" /\ opts \in Options /\ result = "none"
      /\ acked = {} /\ faults = 0
  BY DEF Init
<1>2. DbType
  BY <1>1 DEF DbType, NoDB, NewDbEdit, NoJob, Version, Job, Writes
<1>3. OtherType
  BY <1>1, RecoveryAssumption DEF OtherType, Phases
<1>4. /\ DownInv /\ OpeningInv /\ ReadingInv /\ JobInv /\ RunningInv
      /\ GarbageInv /\ ReplayInv /\ LoggedInv /\ HeldInv /\ DurableInv
  BY <1>1 DEF DownInv, OpeningInv, ReadingInv, JobInv, RunningInv, GarbageInv,
     ReplayInv, LoggedInv, HeldInv, DurableInv, Opening, Running, NoDB
<1>5. CASE Fresh
  <2>1. disk = EmptyDisk
    BY <1>5 DEF Init
  <2>2. DiskType
    BY <2>1 DEF DiskType, EmptyDisk
  <2>3. DirInv /\ UnsyncedInv /\ LogsInv
    BY <1>1, <1>5, <2>1 DEF DirInv, UnsyncedInv, LogsInv, EmptyDisk, HasCur, Running,
       Opening
  <2>4. QED
    BY <1>2, <1>3, <1>4, <2>2, <2>3 DEF Ind
<1>6. CASE ~Fresh
  <2> DEFINE v == [NewDbEdit EXCEPT !.next = 3]
  <2>1. v = [log |-> 0, prev |-> 0, next |-> 3, seq |-> 0, tables |-> {}]
    BY DEF NewDbEdit
  <2>2. v \in Version
    BY <2>1 DEF Version
  <2>3. /\ DOMAIN disk = DOMAIN EmptyDisk
        /\ disk.current = 1 /\ disk.manifests = With(<<>>, 1, v)
        /\ disk.unsynced = {} /\ disk.tables = <<>> /\ disk.partial = {}
        /\ disk.strays = {}
        /\ disk.logs = With(<<>>, 2, <<>>) /\ disk.synced = With(<<>>, 2, 0)
    BY <1>6 DEF Init, EmptyDisk
  <2> HIDE DEF v
  <2>4. /\ DOMAIN disk.manifests = {1} /\ disk.manifests[1] = v
        /\ disk.manifests \in [DOMAIN disk.manifests -> Version]
    BY <2>2, <2>3 DEF With
  <2>5. /\ DOMAIN disk.logs = {2} /\ disk.logs[2] = <<>>
        /\ disk.logs \in [DOMAIN disk.logs -> Seq(Writes)]
    BY <2>3 DEF With
  <2>6. /\ DOMAIN disk.synced = {2} /\ disk.synced[2] = 0
        /\ disk.synced \in [DOMAIN disk.logs -> Nat]
    BY <2>3 DEF With
  <2>7. DiskType
    BY <2>3, <2>4, <2>5, <2>6 DEF DiskType, EmptyDisk
  <2>8. HasCur /\ Cur = v
    BY <2>3, <2>4 DEF HasCur, Cur
  <2>9. DirInv /\ UnsyncedInv /\ LogsInv
    BY <1>1, <1>6, <2>1, <2>3, <2>4, <2>5, <2>8 DEF DirInv, UnsyncedInv, LogsInv, Trusted,
       Running, Opening
  <2>10. QED
    BY <1>2, <1>3, <1>4, <2>7, <2>9 DEF Ind
<1>7. QED
  BY <1>5, <1>6

(* The invariant that all theorems about DBRecovery follow from: at any    *)
(* point of DB::Open, of the background work and after any crash, the      *)
(* directory, the MANIFEST that CURRENT names and what the process has in  *)
(* memory agree as Ind says.                                               *)
THEOREM Inductive == Spec => []Ind
<1>1. Init => Ind
  BY InitInv
<1>2. Ind /\ [Next]_vars => Ind'
  BY NextStep
<1>3. QED
  BY <1>1, <1>2, PTL DEF Spec

-----------------------------------------------------------------------------
(* What Ind means for the properties of the model.                         *)
(* Every variable has the type it should have, and the files on disk that  *)
(* are still being written are not taken for complete ones.                *)
THEOREM TypeCorrect == Spec => []TypeOK
<1>1. Ind => TypeOK
  <2>1. ASSUME DiskType, NEW l \in DOMAIN disk.logs
        PROVE  disk.logs[l] \in Seq(1..MaxSeq) /\ disk.synced[l] \in 0..Len(disk.logs[l])
    BY <2>1 DEF DiskType, Writes
  <2>2. DiskType => \A t \in DOMAIN disk.tables : disk.tables[t] \subseteq 1..MaxSeq
    BY DEF DiskType, Writes
  <2>3. QED
    BY <2>1, <2>2 DEF Ind, DiskType, DbType, OtherType, TypeOK, Writes, Strays, Files
<1>2. QED
  BY <1>1, Inductive, PTL

(* LogAndApply, NewDb, DeleteObsoleteFiles and crashes in any order: every *)
(* table that the current MANIFEST names is there, complete.               *)
THEOREM ManifestAlwaysComplete == Spec => []ManifestComplete
<1>1. Ind => ManifestComplete
  BY DEF Ind, DirInv, HasCur, Cur, ManifestComplete
<1>2. QED
  BY <1>1, Inductive, PTL

(* The writes that an open database shows.                                 *)
LEMMA HeldIs ==
  ASSUME Ind, Running
  PROVE  Held = db.mem \cup db.imm \cup Tab(db.vs.tables)
<1>1. db.vs.tables \cap DOMAIN disk.tables = db.vs.tables
  BY DEF Ind, RunningInv
<1>2. QED
  BY <1>1 DEF Held, Tab

(* After DB::Open has replayed the logs (SetLastSequence of the largest    *)
(* number it has seen), no write in the database has a sequence number     *)
(* that is still to be given out: a new write hides older ones.            *)
THEOREM NewestOnTop == Spec => []NeverHidden
<1>1. Ind => NeverHidden
  <2>1. ASSUME Ind, phase = "running"
        PROVE  \A s \in Held : s <= db.vs.seq
    <3>1. Running
      BY <2>1 DEF Running
    <3>2. \A s \in db.mem \cup db.imm \cup Tab(db.vs.tables) : s <= db.vs.seq
      BY <2>1, <3>1 DEF Ind, RunningInv, Tab
    <3>3. QED
      BY <2>1, <3>1, <3>2, HeldIs
  <2>2. QED
    BY <2>1 DEF NeverHidden
<1>2. QED
  BY <1>1, Inductive, PTL

(* Nor does a write in a log that the next DB::Open would replay, as long  *)
(* as RecoverLogFile has not passed over a log that it could not open, or  *)
(* a record: no sequence number is given to two writes that meet there.    *)
THEOREM SequenceAlwaysFresh ==
  ASSUME Trusted
  PROVE  Spec => []FreshSequence
<1>1. Ind => FreshSequence
  <2>1. ASSUME Ind, phase = "running"
        PROVE  \A s \in Held \cup InNeededLogs : s <= db.vs.seq
    <3>1. Running
      BY <2>1 DEF Running
    <3>2. \A s \in db.mem \cup db.imm \cup Tab(db.vs.tables) : s <= db.vs.seq
      BY <2>1, <3>1 DEF Ind, RunningInv, Tab
    <3>3. ASSUME NEW s \in InNeededLogs
          PROVE  s \in db.mem \cup db.imm \cup Tab(db.vs.tables)
      <4>1. PICK l \in LogsOf(db.vs) : s \in Range(disk.logs[l])
        BY DEF InNeededLogs
      <4>2. l \in DOMAIN disk.logs
        BY DEF LogsOf, Listed
      <4>3. s \in InLog(l)
        BY <4>1 DEF InLog, Range
      <4>4. QED
        BY <2>1, <3>1, <4>2, <4>3 DEF Ind, HeldInv
    <3>4. QED
      BY <2>1, <3>1, <3>2, <3>3, HeldIs
  <2>2. QED
    BY <2>1 DEF FreshSequence
<1>2. QED
  BY <1>1, Inductive, PTL

(* With MarkFileNumberUsed and NewFileNumber as Recover and the background *)
(* work call them, the next file number is beyond every file in use: no    *)
(* log, table or MANIFEST is ever truncated by one that is created.        *)
THEOREM NumberAlwaysFresh == Spec => []FreshNumber
<1>1. Ind => FreshNumber
  <2>1. ASSUME Ind, phase = "running"
        PROVE  \A n \in db.vs.tables \cup LogsOf(db.vs) \cup db.pending_outputs_
                          \cup {db.active, db.manifest} : n < db.vs.next
    <3>1. Running
      BY <2>1 DEF Running
    <3>2. /\ \A n \in db.vs.tables : n < db.vs.next
          /\ db.active < db.vs.next /\ db.manifest < db.vs.next
          /\ \A l \in Listed(DOMAIN disk.logs) : l < db.vs.next
      BY <2>1, <3>1, RunningFacts
    <3>3. \A n \in db.pending_outputs_ : n < db.vs.next
      BY <2>1, <3>1 DEF Ind, JobInv
    <3>4. \A n \in LogsOf(db.vs) : n < db.vs.next
      BY <3>2 DEF LogsOf
    <3>5. QED
      BY <3>2, <3>3, <3>4
  <2>2. QED
    BY <2>1 DEF FreshNumber
<1>2. QED
  BY <1>1, Inductive, PTL

(* If the listing shows the files (the separator of filename.cpp is        *)
(* there), a pass of DeleteObsoleteFiles leaves no table, partial table,   *)
(* log, MANIFEST or temporary file that nothing refers to, except those    *)
(* whose DeleteFile failed, or all that were obsolete if GetChildren did;  *)
(* a later pass that is not refused them removes them too.                 *)
THEOREM GarbageCollected ==
  ASSUME SlashInName
  PROVE  Spec => []NoGarbage
<1>1. Ind => NoGarbage
  <2>1. ASSUME Ind, phase = "running", db.job = NoJob, ~db.bg_error_
        PROVE  NoGarbage
    <3>1. /\ DOMAIN disk.tables \cup disk.partial \subseteq db.vs.tables \cup Refused("table")
          /\ DOMAIN disk.manifests \subseteq {db.manifest} \cup Refused("manifest")
          /\ \A l \in DOMAIN disk.logs : l < db.vs.log => l \in Refused("log")
          /\ \A f \in disk.strays \ db.refused :
               IF f[1] = "temp" THEN f[2] \in db.vs.tables ELSE f[2] >= db.manifest
      BY <2>1 DEF Ind, GarbageInv
    <3>2. QED
      BY <3>1 DEF NoGarbage, Refused
  <2>2. QED
    BY <2>1 DEF NoGarbage
<1>2. QED
  BY <1>1, Inductive, PTL

(* Unless the machine may crash after NewDb, which does not sync its       *)
(* MANIFEST, CURRENT names a MANIFEST that exists, whatever fails and      *)
(* whenever the process dies.                                              *)
THEOREM CurrentAlwaysValid ==
  ASSUME Fresh => "machine" \notin CrashKinds
  PROVE  Spec => []CurrentValid
<1>1. Ind => CurrentValid
  BY DEF Ind, UnsyncedInv, CurrentValid, HasCur
<1>2. QED
  BY <1>1, Inductive, PTL

(* What has been synced of a log that the version needs will be recovered. *)
LEMMA LogOnDisk ==
  ASSUME NEW v, NEW l \in LogsOf(v), NEW i \in 1..disk.synced[l]
  PROVE  disk.logs[l][i] \in OnDisk(v)
  BY DEF OnDisk

(* A write that was acknowledged with sync is in what DB::Open would       *)
(* recover, through any number of crashes, failed operations, flushes,     *)
(* compactions and deletions of files.                                     *)
THEOREM AlwaysDurable ==
  ASSUME Trusted
  PROVE  Spec => []Durable
<1>1. Ind => Durable
  <2>1. ASSUME Ind, acked # {}
        PROVE  HasCur /\ acked \subseteq OnDisk(Cur)
    <3>1. HasCur /\ \A s \in acked :
            \/ s \in Tab(Cur.tables)
            \/ \E l \in DOMAIN disk.logs : l >= Cur.log /\ s \in InSynced(l)
      BY <2>1 DEF Ind, DurableInv
    <3>2. Cur.tables \cap DOMAIN disk.tables = Cur.tables
      BY <2>1, <3>1 DEF Ind, DirInv
    <3>3. \A l \in DOMAIN disk.logs : l >= Cur.log => l \in LogsOf(Cur)
      BY DEF Trusted, LogsOf, Listed
    <3>4. ASSUME NEW s \in acked
          PROVE  s \in OnDisk(Cur)
      <4>1. CASE s \in Tab(Cur.tables)
        BY <3>2, <4>1 DEF OnDisk, Tab
      <4>2. CASE \E l \in DOMAIN disk.logs : l >= Cur.log /\ s \in InSynced(l)
        <5>1. PICK l \in LogsOf(Cur) : s \in InSynced(l)
          BY <3>3, <4>2
        <5>2. PICK i \in 1..disk.synced[l] : s = disk.logs[l][i]
          BY <5>1 DEF InSynced
        <5>3. QED
          BY <5>1, <5>2, LogOnDisk
      <4>3. QED
        BY <3>1, <4>1, <4>2
    <3>5. QED
      BY <3>1, <3>4
  <2>2. QED
    BY <2>1 DEF Durable, HasCur, Cur
<1>2. QED
  BY <1>1, Inductive, PTL

(* A write that was acknowledged with sync is visible in every database    *)
(* that is opened later.                                                   *)
THEOREM AlwaysVisible ==
  ASSUME Trusted
  PROVE  Spec => []Visible
<1>1. Ind => Visible
  <2>1. ASSUME Ind, phase = "running", NEW s \in acked
        PROVE  s \in Held
    <3>1. Running
      BY <2>1 DEF Running
    <3>2. \/ s \in Tab(Cur.tables)
          \/ \E l \in DOMAIN disk.logs : s \in InSynced(l)
      BY <2>1 DEF Ind, DurableInv
    <3>3. \A l \in DOMAIN disk.logs : InSynced(l) \subseteq InLog(l)
      BY <2>1 DEF InSynced, InLog, Ind, DiskType
    <3>4. s \in db.mem \cup db.imm \cup Tab(db.vs.tables)
      BY <2>1, <3>1, <3>2, <3>3 DEF Ind, HeldInv
    <3>5. QED
      BY <2>1, <3>1, <3>4, HeldIs
  <2>2. QED
    BY <2>1 DEF Visible
<1>2. QED
  BY <1>1, Inductive, PTL

=============================================================================
