------------------------ MODULE DBRecoveryRefinement ------------------------
(***************************************************************************)
(* DBRecovery implements DurableStore, step by step: a step of DB::Open,   *)
(* of the background work or of DeleteObsoleteFiles stutters or leaves the *)
(* database closed with all that was acknowledged, the return of DB::Open  *)
(* opens it, and a write writes.                                           *)
(***************************************************************************)
EXTENDS DBRecoveryProofs

-----------------------------------------------------------------------------
(* Refinement.                                                             *)
(* What DB::Open would recover, in terms of tables and logs.               *)
RecoverableOk ==
  \A s : s \in Recoverable <=> HasCur /\ (s \in Tab(Cur.tables) \/ Logged(s))

(* The logs that the version does not ask for add nothing to its tables:   *)
(* what is in any log counts as recoverable.                               *)
LEMMA RecoverableIs == Ind /\ Trusted => RecoverableOk
<1>1. SUFFICES ASSUME Ind, Trusted PROVE RecoverableOk
  OBVIOUS
<1>2. CASE ~HasCur
  BY <1>2 DEF Recoverable, RecoverableOk, HasCur
<1>3. CASE HasCur
  <2>1. Cur.tables \cap DOMAIN disk.tables = Cur.tables
    BY <1>1, <1>3 DEF Ind, DirInv
  <2>2. \A l \in LogsOf(Cur) : l \in DOMAIN disk.logs /\ Range(disk.logs[l]) = InLog(l)
    BY <1>1 DEF Trusted, LogsOf, Listed, Range, InLog
  <2>3. \A l \in DOMAIN disk.logs : l \in LogsOf(Cur) \/ InLog(l) \subseteq Tab(Cur.tables)
    <3>1. Cur.log \in Nat /\ DOMAIN disk.logs \subseteq Nat
      BY <1>1, <1>3 DEF Ind, DiskType, HasCur, Cur, Version
    <3>2. \A l \in DOMAIN disk.logs : l >= Cur.log => l \in LogsOf(Cur)
      BY <1>1 DEF Trusted, LogsOf, Listed
    <3>3. \A l \in DOMAIN disk.logs : l < Cur.log \/ l >= Cur.log
      BY <3>1
    <3>4. \A l \in DOMAIN disk.logs : l < Cur.log => InLog(l) \subseteq Tab(Cur.tables)
      BY <1>1, <1>3 DEF Ind, LogsInv
    <3>5. QED
      BY <3>2, <3>3, <3>4
  <2>4. Recoverable = Tab(Cur.tables) \cup UNION {Range(disk.logs[l]) : l \in LogsOf(Cur)}
    BY <1>3, <2>1 DEF Recoverable, HasCur, Cur, Tab
  <2>5. ASSUME NEW s
        PROVE  s \in Recoverable <=> s \in Tab(Cur.tables) \/ Logged(s)
    <3>1. ASSUME s \in Recoverable
          PROVE  s \in Tab(Cur.tables) \/ Logged(s)
      BY <2>2, <2>4, <3>1 DEF Logged
    <3>2. ASSUME Logged(s)
          PROVE  s \in Recoverable
      <4>1. PICK l \in DOMAIN disk.logs : s \in InLog(l)
        BY <3>2 DEF Logged
      <4>2. QED
        BY <2>2, <2>3, <2>4, <4>1
    <3>3. QED
      BY <2>4, <3>1, <3>2
  <2>6. QED
    BY <1>3, <2>5 DEF RecoverableOk
<1>4. QED
  BY <1>2, <1>3

(* What an open database shows, in the terms of the invariant.             *)
HeldOk == Running => Held = db.mem \cup db.imm \cup Tab(db.vs.tables)

(* It shows its memtables and the tables of its version.                   *)
LEMMA HeldAlwaysIs == Ind => HeldOk
  BY HeldIs DEF HeldOk

(* Both after a step.                                                      *)
LEMMA NextOk ==
  ASSUME Trusted
  PROVE  Ind' => RecoverableOk' /\ HeldOk'
<1>1. Ind => RecoverableOk /\ HeldOk
  BY RecoverableIs, HeldAlwaysIs
<1>2. QED
  BY <1>1, PTL

(* What DB::Open would recover, an open database shows.                    *)
LEMMA RecoverableHeld ==
  ASSUME Ind, Trusted, Running
  PROVE  Recoverable \subseteq Held
<1>1. ASSUME NEW s \in Recoverable PROVE s \in Held
  <2>1. s \in Tab(Cur.tables) \/ Logged(s)
    BY RecoverableIs DEF RecoverableOk
  <2>2. s \in db.mem \cup db.imm \cup Tab(db.vs.tables)
    BY <2>1 DEF Ind, HeldInv, Logged
  <2>3. QED
    BY <2>2, HeldIs
<1>2. QED
  BY <1>1

(* And when DB::Open is about to return, it shows nothing else.            *)
LEMMA HeldRecoverable ==
  ASSUME Ind, Trusted, phase = "gc", result # "ok"
  PROVE  Held = Recoverable
<1>1. Running /\ Cur.tables = db.vs.tables
  BY GcFacts
<1>2. HasCur /\ db.active \in DOMAIN disk.logs /\ db.imm = {}
  BY <1>1 DEF Ind, RunningInv
<1>3. ASSUME NEW s \in Held PROVE s \in Recoverable
  <2>1. s \in db.mem \cup Tab(Cur.tables)
    BY <1>1, <1>2, HeldIs
  <2>2. s \in db.mem => Logged(s)
    BY <1>1, <1>2 DEF Ind, HeldInv, Logged
  <2>3. QED
    BY <1>2, <2>1, <2>2, RecoverableIs DEF RecoverableOk
<1>4. QED
  BY <1>1, <1>3, RecoverableHeld

(* What was acknowledged with sync is recovered.                           *)
LEMMA AckedRecoverable ==
  ASSUME Ind, Trusted
  PROVE  acked \subseteq Recoverable
<1>1. \A l \in DOMAIN disk.logs : InSynced(l) \subseteq InLog(l)
  BY DEF InSynced, InLog, Ind, DiskType
<1>2. ASSUME NEW s \in acked PROVE s \in Recoverable
  <2>1. HasCur /\ (s \in Tab(Cur.tables) \/ Logged(s))
    BY <1>1 DEF Ind, DurableInv, Logged
  <2>2. QED
    BY <2>1, RecoverableIs DEF RecoverableOk
<1>3. QED
  BY <1>2

(* The same after a step.                                                  *)
LEMMA AckedRecoverableNext ==
  ASSUME Trusted
  PROVE  Ind' => (acked \subseteq Recoverable)'
<1>1. Ind => acked \subseteq Recoverable
  BY AckedRecoverable
<1>2. QED
  BY <1>1, PTL

(* Steps after which the database is not open.                             *)
(* Nothing becomes recoverable that was not.                               *)
Shrinks ==
  HasCur' => \A s : s \in Tab(Cur.tables)' \/ Logged(s)' =>
                        HasCur /\ (s \in Tab(Cur.tables) \/ Logged(s))

(* Such a step is one of the abstract store's: the database is not open    *)
(* afterwards, and of what could be recovered the acknowledged writes      *)
(* stay.                                                                   *)
LEMMA StopImplemented ==
  ASSUME Ind, Ind', Trusted, ~IsOpen', acked' = acked, Shrinks
  PROVE  Store!Stop
<1>1. Recoverable' \subseteq Recoverable
  BY RecoverableIs, NextOk DEF RecoverableOk, Shrinks
<1>2. IsOpen => Running
  BY DEF IsOpen, Running
<1>3. Recoverable \subseteq IF IsOpen THEN Held ELSE Recoverable
  BY <1>2, RecoverableHeld
<1>4. acked \subseteq Recoverable'
  BY AckedRecoverableNext
<1>5. QED
  BY <1>1, <1>3, <1>4 DEF Store!Stop

(* If no file changes, neither does what is recoverable.                   *)
LEMMA SameFilesShrink ==
  ASSUME disk' = disk
  PROVE  Shrinks
  BY DEF Shrinks, HasCur, Cur, Tab, Logged, InLog

(* Nor does a table that no version knows of matter, or a new log.         *)
LEMMA SameCurShrink ==
  ASSUME Ind, SameCur
  PROVE  Shrinks
<1>1. HasCur' = HasCur /\ Cur' = Cur
  BY DEF SameCur, HasCur, Cur
<1>2. HasCur => Tab(Cur.tables)' = Tab(Cur.tables)
  BY <1>1 DEF SameCur, Tab
<1>3. \A l : InLog(l)' = InLog(l)
  BY DEF SameCur, InLog
<1>4. \A s : Logged(s)' = Logged(s)
  BY <1>3 DEF SameCur, Logged
<1>5. QED
  BY <1>1, <1>2, <1>4 DEF Shrinks

(* Nor do the files that a switch of CURRENT leaves behind.                *)
LEMMA SameUsedShrink ==
  ASSUME disk'.current = disk.current, disk'.manifests = disk.manifests,
         disk'.logs = disk.logs, disk'.tables = disk.tables
  PROVE  Shrinks
<1>1. HasCur' = HasCur /\ Cur' = Cur /\ Tab(Cur.tables)' = Tab(Cur.tables)
  BY DEF HasCur, Cur, Tab
<1>2. \A l : InLog(l)' = InLog(l)
  BY DEF InLog
<1>3. \A s : Logged(s)' = Logged(s)
  BY <1>2 DEF Logged
<1>4. QED
  BY <1>1, <1>3 DEF Shrinks

(* In particular when DB::Open fails or the process dies.                  *)
LEMMA LeftShrink ==
  ASSUME Ind, disk' \in LeftDisks
  PROVE  Shrinks /\ disk'.tables = disk.tables
  BY LeftFacts, SameUsedShrink DEF Ind

(* The first steps of DB::Open make nothing new recoverable.               *)
LEMMA OpenNextShrinks ==
  ASSUME Ind, NEW o \in Options, OpenNext(o)
  PROVE  Shrinks /\ ~IsOpen' /\ acked' = acked
<1>1. CASE OpenMissing(o)
  <2>1. /\ disk'.current = 0 /\ acked' = acked /\ phase' \in {"newdb", "down"}
        /\ DOMAIN disk'.manifests \subseteq DOMAIN disk.manifests \cup {1}
    BY <1>1 DEF OpenMissing, OpenReturns, Ind, DiskType, With
  <2>2. ~HasCur'
    BY <2>1 DEF HasCur, Ind, DiskType
  <2>3. QED
    BY <2>1, <2>2 DEF Shrinks, IsOpen
<1>2. CASE OpenExisting(o)
  <2>1. disk' = disk /\ acked' = acked /\ phase' \in {"down", "logs"}
    BY <1>2 DEF OpenExisting, OpenReturns
  <2>2. QED
    BY <2>1, SameFilesShrink DEF IsOpen
<1>3. CASE OpenFails(o)
  BY <1>3, SameFilesShrink DEF OpenFails, OpenReturns, IsOpen
<1>4. CASE NewDbFails(o)
  <2>1. /\ disk'.current = 0 /\ acked' = acked /\ phase' = "down"
        /\ DOMAIN disk'.manifests \subseteq DOMAIN disk.manifests
    <3>1. /\ disk.current = 0 /\ acked' = acked /\ phase' = "down"
          /\ \E opened \in SUBSET {1} :
               disk' = [disk EXCEPT !.manifests = Without(@, opened)]
      BY <1>4 DEF NewDbFails, OpenReturns
    <3>2. PICK opened \in SUBSET {1} :
            disk' = [disk EXCEPT !.manifests = Without(@, opened)]
      BY <3>1
    <3>3. disk'.current = 0 /\ disk'.manifests = Without(disk.manifests, opened)
      BY <3>1, <3>2 DEF Ind, DiskType
    <3>4. DOMAIN disk'.manifests \subseteq DOMAIN disk.manifests
      BY <3>3 DEF Without, Restrict
    <3>5. QED
      BY <3>1, <3>3, <3>4
  <2>2. ~HasCur'
    BY <2>1 DEF HasCur, Ind, DiskType
  <2>3. QED
    BY <2>1, <2>2 DEF Shrinks, IsOpen
<1>5. QED
  BY <1>1, <1>2, <1>3, <1>4 DEF OpenNext

(* NewDb leads to an empty database.                                       *)
LEMMA NewDbDoneShrinks ==
  ASSUME Ind, NEW ok \in BOOLEAN, NewDbDone(ok)
  PROVE  Shrinks /\ ~IsOpen' /\ acked' = acked
<1>1. /\ phase = "newdb" /\ phase' = "down" /\ acked' = acked
      /\ IF ok
         THEN disk' = [disk EXCEPT !.current = 1, !.strays = @ \ {<<"temp", 1>>}]
         ELSE disk' \in LeftDisks
  BY DEF NewDbDone, OpenReturns
<1>2. CASE ~ok
  BY <1>1, <1>2, LeftShrink DEF IsOpen
<1>3. CASE ok
  <2>1. /\ disk.current = 0 /\ disk.manifests[1] = NewDbEdit /\ DOMAIN disk.logs = {}
    BY <1>1 DEF Ind, DownInv, DirInv
  <2>2. /\ disk'.current = 1 /\ disk'.manifests = disk.manifests /\ disk'.logs = disk.logs
    BY <1>1, <1>3 DEF Ind, DiskType
  <2>3. \A s : ~Logged(s)'
    BY <2>1, <2>2 DEF Logged
  <2>4. Cur'.tables = {}
    BY <2>1, <2>2 DEF Cur, NewDbEdit
  <2>5. Tab(Cur.tables)' = {}
    BY <2>4 DEF Tab
  <2>6. acked' = acked /\ phase' = "down"
    BY <1>1
  <2>7. QED
    BY <2>1, <2>2, <2>3, <2>4, <2>5, <2>6 DEF Shrinks, IsOpen
<1>4. QED
  BY <1>2, <1>3

(* BuildTable starts a file: CURRENT does not lead to it.                  *)
LEMMA BeginBuildShrinks ==
  ASSUME Ind, phase = "read", NEW d, BeginBuild(d), d.vs.next = db.vs.next
  PROVE  Shrinks
<1>1. Opening
  BY DEF Opening
<1>2. /\ HasCur /\ db.vs.next >= Cur.next /\ db.vs.next \in Nat /\ Cur.next \in Nat
      /\ Cur.tables \subseteq Nat
  BY <1>1 DEF Ind, OpeningInv, DbType, DiskType, Version, HasCur, Cur
<1>3. /\ \A t \in Cur.tables : t < Cur.next /\ t \in DOMAIN disk.tables
      /\ disk.current # 0
  BY <1>2 DEF Ind, DirInv, DiskType, HasCur
<1>4. db.vs.next \notin Cur.tables
  BY <1>2, <1>3
<1>5. disk' = disk \/ disk' = NewTableFile(db.vs.next)
  BY DEF BeginBuild
<1>6. CASE disk' = disk
  BY <1>6, SameFilesShrink
<1>7. CASE disk' = NewTableFile(db.vs.next)
  <2>1. /\ disk'.current = disk.current /\ disk'.manifests = disk.manifests
        /\ disk'.logs = disk.logs
        /\ disk'.tables = Without(disk.tables, {db.vs.next})
    BY <1>7 DEF NewTableFile, Ind, DiskType
  <2>2. \A t \in Cur.tables : disk'.tables[t] = disk.tables[t]
    BY <1>3, <1>4, <2>1 DEF Without, Restrict
  <2>3. HasCur' = HasCur /\ Cur' = Cur
    BY <2>1 DEF HasCur, Cur
  <2>4. Tab(Cur.tables)' = Tab(Cur.tables)
    BY <2>2, <2>3 DEF Tab
  <2>5. \A l : InLog(l)' = InLog(l)
    BY <2>1 DEF InLog
  <2>6. \A s : Logged(s)' = Logged(s)
    BY <2>1, <2>5 DEF Logged
  <2>7. QED
    BY <2>3, <2>4, <2>6 DEF Shrinks
<1>8. QED
  BY <1>5, <1>6, <1>7

(* Reading a record, and a full memtable that is written out, change no    *)
(* file that CURRENT leads to.                                             *)
LEMMA InsertShrinks ==
  ASSUME Ind, HasRecord, NEW W, Insert(W)
  PROVE  Shrinks /\ ~IsOpen'
<1> DEFINE d == [db EXCEPT !.pos = @ + 1, !.hasRmem = TRUE, !.rmem = @ \cup W,
                           !.maxseq = Larger(@, disk.logs[db.log][db.pos + 1])]
           e == [d EXCEPT !.compactions = TRUE]
<1>1. \/ disk' = disk /\ phase' = phase
      \/ BeginBuild(e)
  BY DEF Insert
<1>2. e.vs.next = db.vs.next
  BY DEF Ind, DbType
<1> HIDE DEF e
<1>3. phase = "read"
  BY DEF HasRecord
<1>4. CASE BeginBuild(e)
  <2>1. phase' = "build"
    BY <1>4 DEF BeginBuild
  <2>2. QED
    BY <1>2, <1>3, <1>4, <2>1, BeginBuildShrinks DEF IsOpen
<1>5. CASE disk' = disk /\ phase' = phase
  BY <1>3, <1>5, SameFilesShrink DEF IsOpen
<1>6. QED
  BY <1>1, <1>4, <1>5

(* Nor does any other step of RecoverLogFile.                              *)
LEMMA ReadingShrinks ==
  ASSUME Ind, OpenLog \/ OpenLogFails \/ ReadRecord \/ SkipRecord \/ InsertFails
              \/ ReuseLog \/ EndLog \/ RecoverReturns
  PROVE  Shrinks /\ ~IsOpen' /\ acked' = acked
<1>1. CASE OpenLog \/ OpenLogFails
  BY <1>1, SameFilesShrink DEF OpenLog, OpenLogFails, OpenReturns, IsOpen
<1>2. CASE ReadRecord
  BY <1>2, InsertShrinks DEF ReadRecord
<1>3. CASE SkipRecord
  BY <1>3, SameFilesShrink DEF SkipRecord, HasRecord, IsOpen
<1>4. CASE InsertFails
  <2>1. HasRecord /\ acked' = acked
    BY <1>4 DEF InsertFails
  <2>2. \/ phase' = "down" /\ disk' = disk
        \/ \E W \in SUBSET {disk.logs[db.log][db.pos + 1]} : Insert(W)
    BY <1>4 DEF InsertFails, OpenReturns
  <2>3. QED
    BY <2>1, <2>2, InsertShrinks, SameFilesShrink DEF IsOpen
<1>5. CASE ReuseLog \/ RecoverReturns
  BY <1>5, SameFilesShrink DEF ReuseLog, RecoverReturns, IsOpen
<1>6. CASE EndLog
  <2>1. phase = "read" /\ acked' = acked
    BY <1>6 DEF EndLog, LogRead
  <2>2. CASE db.hasRmem
    <3> DEFINE e == [db EXCEPT !.final = TRUE]
    <3>1. BeginBuild(e)
      BY <1>6, <2>2 DEF EndLog
    <3>2. e.vs.next = db.vs.next
      BY DEF Ind, DbType
    <3> HIDE DEF e
    <3>3. phase' = "build"
      BY <3>1 DEF BeginBuild
    <3>4. QED
      BY <2>1, <3>1, <3>2, <3>3, BeginBuildShrinks DEF IsOpen
  <2>3. CASE ~db.hasRmem
    BY <1>6, <2>1, <2>3, SameFilesShrink DEF EndLog, IsOpen
  <2>4. QED
    BY <2>2, <2>3
<1>7. QED
  BY <1>1, <1>2, <1>3, <1>4, <1>5, <1>6

(* Nor a table that DB::Open has written but not committed.                *)
LEMMA TableBuiltShrinks ==
  ASSUME Ind, NEW ok \in BOOLEAN, TableBuilt(ok)
  PROVE  Shrinks /\ ~IsOpen' /\ acked' = acked
<1>1. /\ phase = "build" /\ phase' \in {"logs", "read", "down"} /\ acked' = acked
      /\ disk'.current = disk.current /\ disk'.manifests = disk.manifests
      /\ disk'.logs = disk.logs
      /\ disk'.tables = disk.tables \/ disk'.tables = With(disk.tables, db.num, db.rmem)
  BY DEF TableBuilt, OpenReturns, Ind, DiskType
<1>2. HasCur /\ \A t \in Cur.tables : t \in DOMAIN disk.tables /\ t # db.num
  <2>1. Opening
    BY <1>1 DEF Opening
  <2>2. HasCur /\ db.vs.tables = Cur.tables
    BY <2>1 DEF Ind, OpeningInv
  <2>3. \A t \in db.vs.tables : t < db.num
    BY <1>1 DEF Ind, ReadingInv
  <2>4. \A t \in db.vs.tables : t \in DOMAIN disk.tables
    BY <2>2 DEF Ind, DirInv
  <2>5. db.vs.tables \subseteq Nat /\ db.num \in Nat
    BY DEF Ind, DbType, Version
  <2>6. QED
    BY <2>2, <2>3, <2>4, <2>5
<1>3. HasCur' = HasCur /\ Cur' = Cur
  BY <1>1 DEF HasCur, Cur
<1>4. Tab(Cur.tables)' = Tab(Cur.tables)
  <2>1. \A t \in Cur.tables : disk'.tables[t] = disk.tables[t]
    BY <1>1, <1>2 DEF With
  <2>2. QED
    BY <1>3, <2>1 DEF Tab
<1>5. \A l : InLog(l)' = InLog(l)
  BY <1>1 DEF InLog
<1>6. \A s : Logged(s)' = Logged(s)
  BY <1>1, <1>5 DEF Logged
<1>7. QED
  BY <1>1, <1>3, <1>4, <1>6 DEF Shrinks, IsOpen

(* Nor a new log, which is empty.                                          *)
LEMMA NewLogShrinks ==
  ASSUME Ind, NEW ok \in BOOLEAN, NewLog(ok)
  PROVE  Shrinks /\ ~IsOpen' /\ acked' = acked
<1>1. /\ phase = "newlog" /\ acked' = acked
      /\ result' = result \/ phase' = "down"
      /\ \/ disk' = disk
         \/ disk' = [disk EXCEPT !.logs = With(@, db.vs.next, <<>>),
                                 !.synced = With(@, db.vs.next, 0)]
  BY DEF NewLog, OpenReturns
<1>2. ~IsOpen'
  <2>1. Opening /\ result = "none"
    BY <1>1 DEF Opening, Ind, OpeningInv
  <2>2. QED
    BY <1>1, <2>1 DEF IsOpen
<1>3. CASE disk' = disk
  BY <1>1, <1>2, <1>3, SameFilesShrink
<1>4. CASE disk' # disk
  <2>1. /\ disk'.current = disk.current /\ disk'.manifests = disk.manifests
        /\ disk'.tables = disk.tables
        /\ disk'.logs = With(disk.logs, db.vs.next, <<>>)
    BY <1>1, <1>4 DEF Ind, DiskType
  <2>2. /\ \A l \in DOMAIN disk'.logs : l \in DOMAIN disk.logs \/ l = db.vs.next
        /\ disk'.logs[db.vs.next] = <<>>
        /\ \A l \in DOMAIN disk.logs : l # db.vs.next => disk'.logs[l] = disk.logs[l]
    BY <2>1 DEF With
  <2>3. HasCur' = HasCur /\ Cur' = Cur
    BY <2>1 DEF HasCur, Cur
  <2>4. Tab(Cur.tables)' = Tab(Cur.tables)
    BY <2>1, <2>3 DEF Tab
  <2>5. \A l \in DOMAIN disk'.logs : InLog(l)' = {} \/ (l \in DOMAIN disk.logs /\ InLog(l)' = InLog(l))
    <3>1. ASSUME NEW l \in DOMAIN disk'.logs
          PROVE  InLog(l)' = {} \/ (l \in DOMAIN disk.logs /\ InLog(l)' = InLog(l))
      BY <2>2 DEF InLog
    <3>2. QED
      BY <3>1
  <2>6. \A s : Logged(s)' => Logged(s)
    BY <2>5 DEF Logged
  <2>7. QED
    BY <1>1, <1>2, <2>3, <2>4, <2>6 DEF Shrinks
<1>5. QED
  BY <1>3, <1>4

(* The tables that DB::Open adds hold what was in the logs.                *)
LEMMA ApplyOpenEditShrinks ==
  ASSUME Ind, Trusted, NEW outcome \in Outcomes, ApplyOpenEdit(outcome)
  PROVE  Shrinks /\ ~IsOpen' /\ acked' = acked
<1>1. /\ phase = "apply" /\ acked' = acked
      /\ result' = result \/ phase' = "down"
      /\ disk' \in LeftDisks \/ disk' = Committed(OpenEdit)
  BY DEF ApplyOpenEdit, OpenReturns, LogAndApply
<1>2. Opening /\ result = "none" /\ HasCur /\ db.vs.tables = Cur.tables
  BY <1>1 DEF Opening, Ind, OpeningInv
<1>3. ~IsOpen'
  BY <1>1, <1>2 DEF IsOpen
<1>4. CASE disk' \in LeftDisks
  BY <1>1, <1>3, <1>4, LeftShrink
<1>5. CASE disk' = Committed(OpenEdit)
  <2>1. /\ disk'.manifests = With(disk.manifests, db.manifest, OpenEdit)
        /\ disk'.current = db.manifest
        /\ disk'.logs = disk.logs /\ disk'.tables = disk.tables
    BY <1>5 DEF Committed, Ind, DiskType
  <2>2. Cur' = OpenEdit
    BY <2>1 DEF Cur, With
  <2>3. OpenEdit.tables = Cur.tables \cup db.added
    BY <1>1, <1>2, ApplyFacts
  <2>4. Tab(Cur.tables)' = Tab(Cur.tables \cup db.added)
    BY <2>1, <2>2, <2>3 DEF Tab
  <2>5. \A s \in Tab(Cur.tables \cup db.added) : s \in Tab(Cur.tables) \/ s \in Tab(db.added)
    BY DEF Tab
  <2>6. \A s \in Tab(db.added) : Logged(s)
    BY <1>2 DEF Ind, LoggedInv
  <2>7. \A l : InLog(l)' = InLog(l)
    BY <2>1 DEF InLog
  <2>8. \A s : Logged(s)' = Logged(s)
    BY <2>1, <2>7 DEF Logged
  <2>9. QED
    BY <1>1, <1>2, <1>3, <2>4, <2>5, <2>6, <2>8 DEF Shrinks
<1>6. QED
  BY <1>1, <1>4, <1>5

(* What DeleteObsoleteFiles removes is not needed: neither for recovery    *)
(* nor by the open database.                                               *)
DeleteSame ==
  /\ acked' = acked /\ db' = db
  /\ \A t \in db.vs.tables : disk'.tables[t] = disk.tables[t]
  /\ Shrinks

(* A step of DeleteObsoleteFiles leaves the open database, and its tables, *)
(* as they are.                                                            *)
LEMMA DeleteObsoleteFileKeeps ==
  ASSUME Ind, DeleteObsoleteFile
  PROVE  DeleteSame
<1>1. phase = "gc" /\ acked' = acked /\ db' = db
  BY DEF DeleteObsoleteFile
<1>2. Running /\ Cur.tables = db.vs.tables
  BY <1>1, GcFacts
<1>3. HasCur /\ disk.current = db.manifest
      /\ \A t \in db.vs.tables : t \in DOMAIN disk.tables
  BY <1>2, RunningFacts
<1>4. ASSUME NEW n \in ObsoleteLogs,
             disk' = [disk EXCEPT !.logs = Without(@, {n}), !.synced = Without(@, {n})]
      PROVE  DeleteSame
  <2>1. /\ disk'.current = disk.current /\ disk'.manifests = disk.manifests
        /\ disk'.tables = disk.tables /\ disk'.logs = Without(disk.logs, {n})
    BY <1>4 DEF Ind, DiskType
  <2>2. \A l \in DOMAIN disk'.logs : l \in DOMAIN disk.logs /\ disk'.logs[l] = disk.logs[l]
    BY <2>1 DEF Without, Restrict
  <2>3. HasCur' = HasCur /\ Cur' = Cur
    BY <2>1 DEF HasCur, Cur
  <2>4. Tab(Cur.tables)' = Tab(Cur.tables)
    BY <2>1, <2>3 DEF Tab
  <2>5. \A l \in DOMAIN disk'.logs : InLog(l)' = InLog(l)
    BY <2>2 DEF InLog
  <2>6. \A s : Logged(s)' => Logged(s)
    BY <2>2, <2>5 DEF Logged
  <2>7. QED
    BY <1>1, <2>1, <2>3, <2>4, <2>6 DEF DeleteSame, Shrinks
<1>5. ASSUME NEW n \in ObsoleteManifests,
             disk' = [disk EXCEPT !.manifests = Without(@, {n}), !.unsynced = @ \ {n}]
      PROVE  DeleteSame
  <2>1. /\ disk'.current = disk.current /\ disk'.manifests = Without(disk.manifests, {n})
        /\ disk'.tables = disk.tables /\ disk'.logs = disk.logs
    BY <1>5 DEF Ind, DiskType
  <2>2. disk.current # n
    <3>1. disk.current \in Nat
      BY DEF Ind, DiskType
    <3>2. QED
      BY <1>3, <3>1 DEF ObsoleteManifests
  <2>3. HasCur' = HasCur /\ Cur' = Cur
    BY <1>3, <2>1, <2>2 DEF HasCur, Cur, Without, Restrict
  <2>4. Tab(Cur.tables)' = Tab(Cur.tables)
    BY <2>1, <2>3 DEF Tab
  <2>5. \A l : InLog(l)' = InLog(l)
    BY <2>1 DEF InLog
  <2>6. \A s : Logged(s)' => Logged(s)
    BY <2>1, <2>5 DEF Logged
  <2>7. QED
    BY <1>1, <2>1, <2>3, <2>4, <2>6 DEF DeleteSame, Shrinks
<1>6. ASSUME NEW n \in ObsoleteTables,
             disk' = [disk EXCEPT !.tables = Without(@, {n}), !.partial = @ \ {n}]
      PROVE  DeleteSame
  <2>1. /\ disk'.current = disk.current /\ disk'.manifests = disk.manifests
        /\ disk'.tables = Without(disk.tables, {n}) /\ disk'.logs = disk.logs
    BY <1>6 DEF Ind, DiskType
  <2>2. n \notin db.vs.tables
    BY DEF ObsoleteTables, Live
  <2>3. \A t \in db.vs.tables : disk'.tables[t] = disk.tables[t]
    BY <1>3, <2>1, <2>2 DEF Without, Restrict
  <2>4. HasCur' = HasCur /\ Cur' = Cur
    BY <2>1 DEF HasCur, Cur
  <2>5. Tab(Cur.tables)' = Tab(Cur.tables)
    BY <1>2, <2>3, <2>4 DEF Tab
  <2>6. \A l : InLog(l)' = InLog(l)
    BY <2>1 DEF InLog
  <2>7. \A s : Logged(s)' => Logged(s)
    BY <2>1, <2>6 DEF Logged
  <2>8. QED
    BY <1>1, <2>3, <2>4, <2>5, <2>7 DEF DeleteSame, Shrinks
<1>7. ASSUME NEW f, disk' = [disk EXCEPT !.strays = @ \ {f}]
      PROVE  DeleteSame
  <2>1. /\ disk'.current = disk.current /\ disk'.manifests = disk.manifests
        /\ disk'.tables = disk.tables /\ disk'.logs = disk.logs
    BY <1>7 DEF Ind, DiskType
  <2>2. QED
    BY <1>1, <2>1, SameUsedShrink DEF DeleteSame
<1>8. QED
  BY <1>4, <1>5, <1>6, <1>7 DEF DeleteObsoleteFile

(* A crash loses what was not synced and adds nothing.                     *)
LEMMA CrashShrinks ==
  ASSUME Ind, ProcessCrash \/ MachineCrash
  PROVE  Shrinks /\ ~IsOpen' /\ acked' = acked
<1>1. CASE ProcessCrash
  BY <1>1, LeftShrink DEF ProcessCrash, IsOpen
<1>2. CASE MachineCrash
  <2>1. /\ phase' = "down" /\ acked' = acked
        /\ disk'.current = disk.current /\ disk'.tables = disk.tables
        /\ disk'.manifests = Without(disk.manifests, disk.unsynced)
        /\ disk'.logs = [l \in DOMAIN disk.logs |-> SubSeq(disk.logs[l], 1, disk.synced[l])]
    <3>1. PICK left \in LeftDisks :
            disk' = [left EXCEPT
                       !.logs = [l \in DOMAIN @ |-> SubSeq(@[l], 1, disk.synced[l])],
                       !.manifests = Without(@, disk.unsynced),
                       !.unsynced = {}]
      BY <1>2 DEF MachineCrash
    <3>2. /\ DOMAIN left = DOMAIN disk
          /\ left.current = disk.current /\ left.manifests = disk.manifests
          /\ left.logs = disk.logs /\ left.tables = disk.tables
      BY LeftFacts DEF Ind
    <3>3. DOMAIN left = {"current", "manifests", "unsynced", "logs", "synced",
                         "tables", "partial", "strays"}
      BY <3>2 DEF Ind, DiskType
    <3>4. /\ disk'.current = left.current /\ disk'.tables = left.tables
          /\ disk'.manifests = Without(left.manifests, disk.unsynced)
          /\ disk'.logs = [l \in DOMAIN left.logs |->
                             SubSeq(left.logs[l], 1, disk.synced[l])]
      BY <3>1, <3>3
    <3>5. phase' = "down" /\ acked' = acked
      BY <1>2 DEF MachineCrash
    <3>6. QED
      BY <3>2, <3>4, <3>5
  <2>2. HasCur' => HasCur /\ Cur' = Cur
    BY <2>1 DEF HasCur, Cur, Without, Restrict
  <2>3. HasCur' => Tab(Cur.tables)' = Tab(Cur.tables)
    BY <2>1, <2>2 DEF Tab
  <2>4. ASSUME NEW l \in DOMAIN disk.logs, NEW i \in DOMAIN disk'.logs[l]
        PROVE  i \in DOMAIN disk.logs[l] /\ disk'.logs[l][i] = disk.logs[l][i]
    <3>1. /\ disk.logs[l] \in Seq(Writes) /\ disk.synced[l] \in Nat
          /\ disk.synced[l] <= Len(disk.logs[l])
      BY DEF Ind, DiskType
    <3>2. disk'.logs[l] = SubSeq(disk.logs[l], 1, disk.synced[l])
      BY <2>1
    <3>3. QED
      BY <3>1, <3>2
  <2>5. \A l \in DOMAIN disk.logs : InLog(l)' \subseteq InLog(l)
    BY <2>4 DEF InLog
  <2>6. \A s : Logged(s)' => Logged(s)
    BY <2>1, <2>5 DEF Logged
  <2>7. QED
    BY <2>1, <2>2, <2>3, <2>6 DEF Shrinks, IsOpen
<1>3. QED
  BY <1>1, <1>2

(* Steps of the open database that leave its contents as they are.         *)
KeepsHeld == IsOpen /\ IsOpen' /\ acked' = acked /\ Held' = Held

(* What is said of memtables and tables is what the database shows.        *)
LEMMA SameHeld ==
  ASSUME Ind, Ind', Trusted, IsOpen, IsOpen', acked' = acked,
         \A s : s \in db.mem' \cup db.imm' \cup Tab(db.vs.tables)'
                  <=> s \in db.mem \cup db.imm \cup Tab(db.vs.tables)
  PROVE  KeepsHeld
<1>1. Running /\ Running'
  BY DEF IsOpen, Running
<1>2. Held' = (db.mem \cup db.imm \cup Tab(db.vs.tables))'
  BY <1>1, NextOk DEF HeldOk
<1>3. QED
  BY <1>1, <1>2, HeldIs DEF KeepsHeld

(* A step of an open database that does not end it.                        *)
LEMMA StillOpen ==
  ASSUME Ind, phase = "running", phase' \in {"running", "gc"}, result' = result
  PROVE  IsOpen /\ IsOpen' /\ Running
  BY DEF Ind, RunningInv, Running, IsOpen

(* The memtable becomes the immutable one: the database shows the same.    *)
LEMMA MakeRoomForWriteKeeps ==
  ASSUME Ind, Ind', Trusted, MakeRoomForWrite
  PROVE  KeepsHeld
<1>1. /\ phase = "running" /\ phase' = "running" /\ result' = result
      /\ acked' = acked /\ ~db.hasImm /\ disk'.tables = disk.tables
      /\ db'.imm = db.mem /\ db'.mem = {}
  BY DEF MakeRoomForWrite, Usable, StaysOpen, Ind, DiskType, DbType
<1>2. db'.vs.tables = db.vs.tables
  BY DEF MakeRoomForWrite, Ind, DbType, Version
<1>3. IsOpen /\ IsOpen' /\ Running
  BY <1>1, StillOpen
<1>4. db.imm = {}
  BY <1>1, <1>3 DEF Ind, RunningInv
<1>5. Tab(db.vs.tables)' = Tab(db.vs.tables)
  BY <1>1, <1>2 DEF Tab
<1>6. QED
  BY <1>1, <1>3, <1>4, <1>5, SameHeld

(* A table that is started is not in the version.                          *)
LEMMA StartJobKeeps ==
  ASSUME Ind, Ind', Trusted, NEW kind, NEW inputs, StartJob(kind, inputs)
  PROVE  KeepsHeld
<1>1. /\ phase = "running" /\ phase' = "running" /\ result' = result
      /\ acked' = acked
      /\ db'.imm = db.imm /\ db'.mem = db.mem
      /\ disk'.tables = disk.tables \/ disk'.tables = Without(disk.tables, {db.vs.next})
  BY DEF StartJob, Usable, StaysOpen, Ind, DiskType, DbType, NewTableFile
<1>2. db'.vs.tables = db.vs.tables
  BY DEF StartJob, Ind, DbType, Version
<1>3. IsOpen /\ IsOpen' /\ Running
  BY <1>1, StillOpen
<1>4. \A t \in db.vs.tables : t \in DOMAIN disk.tables /\ t # db.vs.next
  <2>1. \A t \in db.vs.tables : t < db.vs.next /\ t \in DOMAIN disk.tables
    BY <1>3, RunningFacts
  <2>2. db.vs.tables \subseteq Nat /\ db.vs.next \in Nat
    BY <1>3, RunningFacts
  <2>3. QED
    BY <2>1, <2>2
<1>5. \A t \in db.vs.tables : disk'.tables[t] = disk.tables[t]
  BY <1>1, <1>4 DEF Without, Restrict
<1>6. Tab(db.vs.tables)' = Tab(db.vs.tables)
  BY <1>2, <1>5 DEF Tab
<1>7. QED
  BY <1>1, <1>3, <1>6, SameHeld

(* Nor is one that is finished, until it is installed.                     *)
LEMMA BuiltKeeps ==
  ASSUME Ind, Ind', Trusted, NEW ok \in BOOLEAN, FlushBuilt(ok) \/ CompactionBuilt(ok)
  PROVE  KeepsHeld
<1>1. /\ phase = "running" /\ phase' = "running" /\ result' = result
      /\ acked' = acked /\ db.job # NoJob
  BY DEF FlushBuilt, CompactionBuilt, StaysOpen, NoJob
<1>2. /\ db'.imm = db.imm /\ db'.mem = db.mem /\ db'.vs = db.vs
      /\ \/ disk'.tables = disk.tables
         \/ disk'.tables = With(disk.tables, db.job.num, db.imm)
         \/ disk'.tables = With(disk.tables, db.job.num, Tab(db.job.inputs))
  <2>1. CASE FlushBuilt(ok)
    <3>1. db'.imm = db.imm /\ db'.mem = db.mem /\ db'.vs = db.vs
      BY <2>1 DEF FlushBuilt, JobFails, Ind, DbType
    <3>2. disk'.tables = IF ok /\ db.imm # {} THEN With(disk.tables, db.job.num, db.imm)
                         ELSE disk.tables
      BY <2>1 DEF FlushBuilt, Ind, DiskType
    <3>3. QED
      BY <3>1, <3>2
  <2>2. CASE CompactionBuilt(ok)
    <3>1. db'.imm = db.imm /\ db'.mem = db.mem /\ db'.vs = db.vs
      BY <2>2 DEF CompactionBuilt, JobFails, Ind, DbType
    <3>2. \/ disk' = disk
          \/ disk' = [disk EXCEPT !.partial = @ \ {db.job.num},
                                  !.tables = With(@, db.job.num, Tab(db.job.inputs))]
      BY <2>2 DEF CompactionBuilt, Tab
    <3>3. QED
      BY <3>1, <3>2 DEF Ind, DiskType
  <2>3. QED
    BY <2>1, <2>2
<1>3. IsOpen /\ IsOpen' /\ Running
  BY <1>1, StillOpen
<1>4. \A t \in db.vs.tables : t \in DOMAIN disk.tables /\ t # db.job.num
  BY <1>1, JobFacts
<1>5. \A t \in db.vs.tables : disk'.tables[t] = disk.tables[t]
  BY <1>2, <1>4 DEF With
<1>6. Tab(db.vs.tables)' = Tab(db.vs.tables)
  BY <1>2, <1>5 DEF Tab
<1>7. QED
  BY <1>1, <1>2, <1>3, <1>6, SameHeld

(* Installing a flushed memtable moves its writes to a table, installing a *)
(* compaction moves its inputs' writes to its output: the database shows   *)
(* the same.                                                               *)
LEMMA InstalledKeeps ==
  ASSUME Ind, Ind', Trusted, NEW outcome \in Outcomes,
         FlushInstalled(outcome) \/ CompactionInstalled(outcome)
  PROVE  KeepsHeld
<1> DEFINE n == db.job.num
<1>1. /\ phase = "running" /\ phase' \in {"running", "gc"} /\ result' = result
      /\ acked' = acked /\ db.job # NoJob
  BY DEF FlushInstalled, CompactionInstalled, NoJob
<1>2. IsOpen /\ IsOpen' /\ Running
  BY <1>1, StillOpen
<1>3. disk'.tables = disk.tables
  <2>1. \/ disk' \in LeftDisks \/ disk' = Committed(FlushEdit)
        \/ disk' = Committed(CompactionEdit)
    BY DEF FlushInstalled, CompactionInstalled, LogAndApply
  <2>2. QED
    BY <2>1, LeftShrink DEF Committed, Ind, DiskType
<1>4. CASE JobFails
  <2>1. db'.imm = db.imm /\ db'.mem = db.mem /\ db'.vs = db.vs
    BY <1>4 DEF JobFails, Ind, DbType
  <2>2. Tab(db.vs.tables)' = Tab(db.vs.tables)
    BY <1>3, <2>1 DEF Tab
  <2>3. QED
    BY <1>1, <1>2, <2>1, <2>2, SameHeld
<1>5. CASE ~JobFails /\ FlushInstalled(outcome)
  <2>1. /\ db' = [db EXCEPT !.vs = FlushEdit, !.imm = {}, !.hasImm = FALSE, !.job = NoJob,
                            !.refused = {}]
        /\ db.job.kind = "install"
    BY <1>5 DEF FlushInstalled
  <2>2. db'.vs = FlushEdit /\ db'.imm = {} /\ db'.mem = db.mem
    BY <2>1 DEF Ind, DbType
  <2>3. FlushEdit.tables = db.vs.tables \cup IF db.imm = {} THEN {} ELSE {n}
    BY DEF FlushEdit, Ind, DbType, Version
  <2>4. db.imm # {} => disk.tables[n] = db.imm
    BY <1>2, <2>1 DEF Ind, JobInv
  <2>5. Tab(db.vs.tables)' = Tab(db.vs.tables) \cup db.imm
    BY <1>3, <2>2, <2>3, <2>4 DEF Tab
  <2>6. QED
    BY <1>1, <1>2, <2>2, <2>5, SameHeld
<1>6. CASE ~JobFails /\ CompactionInstalled(outcome)
  <2>1. /\ db' = [db EXCEPT !.vs = CompactionEdit, !.job = NoJob, !.pending_outputs_ = @ \ {n},
                            !.refused = {}]
        /\ db.job.kind = "results"
    BY <1>6 DEF CompactionInstalled
  <2>2. db'.vs = CompactionEdit /\ db'.imm = db.imm /\ db'.mem = db.mem
    BY <2>1 DEF Ind, DbType
  <2>3. CompactionEdit.tables = (db.vs.tables \ db.job.inputs) \cup {n}
    BY DEF CompactionEdit, Ind, DbType, Version
  <2>4. disk.tables[n] = Tab(db.job.inputs) /\ db.job.inputs \subseteq db.vs.tables
    BY <1>2, <2>1 DEF Ind, JobInv
  <2>5. ASSUME NEW s
        PROVE  s \in Tab(db.vs.tables)' <=> s \in Tab(db.vs.tables)
    <3>1. s \in Tab(db.vs.tables)' <=>
            \/ \E t \in db.vs.tables \ db.job.inputs : s \in disk.tables[t]
            \/ s \in Tab(db.job.inputs)
      BY <1>3, <2>2, <2>3, <2>4 DEF Tab
    <3>2. s \in Tab(db.job.inputs) <=> \E t \in db.job.inputs : s \in disk.tables[t]
      BY DEF Tab
    <3>3. s \in Tab(db.vs.tables) <=> \E t \in db.vs.tables : s \in disk.tables[t]
      BY DEF Tab
    <3>4. QED
      BY <2>4, <3>1, <3>2, <3>3
  <2>6. QED
    BY <1>1, <1>2, <2>2, <2>5, SameHeld
<1>7. QED
  BY <1>4, <1>5, <1>6 DEF FlushInstalled, CompactionInstalled

(* A write adds itself to what the database shows, and nothing else.       *)
LEMMA WriteImplemented ==
  ASSUME Ind, Ind', Trusted, NEW sync \in BOOLEAN, Write(sync)
  PROVE  Store!Write
<1> DEFINE s == db.vs.seq + 1
<1>1. /\ phase = "running" /\ phase' = "running" /\ result' = result
      /\ acked' = IF sync THEN acked \cup {s} ELSE acked
      /\ db'.imm = db.imm /\ db'.mem = db.mem \cup {s}
      /\ disk'.tables = disk.tables
  BY DEF Write, Usable, StaysOpen, Ind, DiskType, DbType
<1>2. db'.vs.tables = db.vs.tables
  BY DEF Write, Ind, DbType, Version
<1>3. IsOpen /\ IsOpen' /\ Running /\ Running'
  BY <1>1, StillOpen DEF Running
<1>4. Tab(db.vs.tables)' = Tab(db.vs.tables)
  BY <1>1, <1>2 DEF Tab
<1>5. Held = db.mem \cup db.imm \cup Tab(db.vs.tables)
  BY <1>3, HeldIs
<1>6. Held' = (db.mem \cup db.imm \cup Tab(db.vs.tables))'
  BY <1>3, NextOk DEF HeldOk
<1>7. Held' = Held \cup {s}
  BY <1>1, <1>4, <1>5, <1>6
<1>8. \A x \in Held : x <= db.vs.seq /\ x \in Nat
  <2>1. \A x \in db.mem \cup db.imm \cup Tab(db.vs.tables) : x <= db.vs.seq
    BY <1>3 DEF Ind, RunningInv, Tab
  <2>2. \A t \in db.vs.tables : t \in DOMAIN disk.tables
    BY <1>3, RunningFacts
  <2>3. \A x \in db.mem \cup db.imm \cup Tab(db.vs.tables) : x \in Nat
    <3>1. db.mem \cup db.imm \subseteq Nat
      BY RecoveryAssumption DEF Ind, DbType, Writes
    <3>2. ASSUME NEW t \in db.vs.tables
          PROVE  disk.tables[t] \subseteq Nat
      BY <2>2, RecoveryAssumption DEF Ind, DiskType, Writes
    <3>3. QED
      BY <3>1, <3>2 DEF Tab
  <2>4. QED
    BY <1>5, <2>1, <2>3
<1>9. db.vs.seq \in Nat
  BY <1>3, RunningFacts
<1>10. s \notin Held /\ \A x \in Held : x < s
  BY <1>8, <1>9
<1> HIDE DEF s
<1>11. s \in Held' \ Held /\ acked' \in {acked, acked \cup {s}}
  BY <1>1, <1>7, <1>10
<1>12. QED
  BY <1>3, <1>7, <1>10, <1>11 DEF Store!Write

(* The destructor loses at most what was not synced.                       *)
LEMMA CloseImplemented ==
  ASSUME Ind, Ind', Trusted, Close
  PROVE  Store!Stop \/ KeepsHeld
<1>1. /\ phase = "running" /\ disk' = disk /\ result' = result /\ acked' = acked
  BY DEF Close
<1>2. CASE phase' = "down"
  BY <1>1, <1>2, SameFilesShrink, StopImplemented DEF IsOpen
<1>3. CASE phase' # "down"
  <2>1. db' = [db EXCEPT !.closing = TRUE] /\ phase' = "running"
    BY <1>1, <1>3 DEF Close
  <2>2. db'.mem = db.mem /\ db'.imm = db.imm /\ db'.vs = db.vs
    BY <2>1 DEF Ind, DbType
  <2>3. Tab(db.vs.tables)' = Tab(db.vs.tables)
    BY <1>1, <2>2 DEF Tab
  <2>4. IsOpen /\ IsOpen'
    BY <1>1, <2>1, StillOpen
  <2>5. QED
    BY <1>1, <2>2, <2>3, <2>4, SameHeld
<1>4. QED
  BY <1>2, <1>3

(* DeleteObsoleteFiles is invisible, before DB::Open returns and later.    *)
LEMMA DeleteObsoleteFileImplemented ==
  ASSUME Ind, Ind', Trusted, DeleteObsoleteFile
  PROVE  Store!Stop \/ KeepsHeld
<1>1. DeleteSame /\ phase = "gc" /\ phase' = phase /\ result' = result
  BY DeleteObsoleteFileKeeps DEF DeleteObsoleteFile
<1>2. CASE result = "ok"
  <2>1. IsOpen /\ IsOpen'
    BY <1>1, <1>2 DEF IsOpen
  <2>2. Tab(db.vs.tables)' = Tab(db.vs.tables)
    BY <1>1 DEF DeleteSame, Tab
  <2>3. QED
    BY <1>1, <2>1, <2>2, SameHeld DEF DeleteSame
<1>3. CASE result # "ok"
  <2>1. ~IsOpen'
    BY <1>1, <1>3 DEF IsOpen
  <2>2. QED
    BY <1>1, <2>1, StopImplemented DEF DeleteSame
<1>4. QED
  BY <1>2, <1>3

(* So is a deletion, or a listing, that fails.                             *)
LEMMA DeletionFaultImplemented ==
  ASSUME Ind, Ind', Trusted, DeleteFileFails \/ GetChildrenFails
  PROVE  Store!Stop \/ KeepsHeld
<1>1. /\ phase = "gc" /\ phase' = phase /\ result' = result /\ disk' = disk
      /\ acked' = acked
      /\ \E files : db' = [db EXCEPT !.refused = @ \cup files]
  BY DEF DeleteFileFails, GetChildrenFails, DeletionsFail
<1>2. db'.mem = db.mem /\ db'.imm = db.imm /\ db'.vs = db.vs
  BY <1>1 DEF Ind, DbType
<1>3. CASE result = "ok"
  <2>1. IsOpen /\ IsOpen'
    BY <1>1, <1>3 DEF IsOpen
  <2>2. Tab(db.vs.tables)' = Tab(db.vs.tables)
    BY <1>1, <1>2 DEF Tab
  <2>3. QED
    BY <1>1, <1>2, <2>1, <2>2, SameHeld
<1>4. CASE result # "ok"
  <2>1. ~IsOpen'
    BY <1>1, <1>4 DEF IsOpen
  <2>2. QED
    BY <1>1, <2>1, SameFilesShrink, StopImplemented
<1>5. QED
  BY <1>3, <1>4

(* DB::Open returns: the database holds what there was to recover.         *)
LEMMA OpenImplemented ==
  ASSUME Ind, Ind', Trusted, DeleteObsoleteFilesDone
  PROVE  Store!Open \/ KeepsHeld
<1>1. /\ phase = "gc" /\ phase' = "running" /\ result' = "ok"
      /\ disk' = disk /\ db' = db /\ acked' = acked
  BY DEF DeleteObsoleteFilesDone
<1>2. IsOpen' /\ Held' = Held
  BY <1>1 DEF IsOpen, Held
<1>3. CASE result = "ok"
  BY <1>1, <1>2, <1>3 DEF IsOpen, KeepsHeld
<1>4. CASE result # "ok"
  <2>1. ~IsOpen
    BY <1>4 DEF IsOpen
  <2>2. Held = Recoverable
    BY <1>1, <1>4, HeldRecoverable
  <2>3. QED
    BY <1>1, <1>2, <2>1, <2>2 DEF Store!Open
<1>5. QED
  BY <1>3, <1>4

(* Every step is a step of the abstract store or is invisible to it.       *)
LEMMA StepImplemented ==
  ASSUME Ind, Ind', Trusted, [Next]_vars
  PROVE  [Store!Next]_(Store!vars)
<1>1. KeepsHeld => UNCHANGED Store!vars
  BY DEF KeepsHeld, Store!vars
<1>2. CASE UNCHANGED vars
  BY <1>2 DEF vars, Store!vars, IsOpen, Held, Recoverable, LogsOf, Listed
<1>3. ASSUME NEW o \in Options, OpenNext(o)
      PROVE  Store!Next
  BY <1>3, OpenNextShrinks, StopImplemented DEF Store!Next
<1>4. ASSUME RecoverNext
      PROVE  Store!Next \/ KeepsHeld
  <2>1. ASSUME NEW ok \in BOOLEAN, NewDbDone(ok) \/ TableBuilt(ok) \/ NewLog(ok)
        PROVE  Store!Stop
    BY <2>1, NewDbDoneShrinks, TableBuiltShrinks, NewLogShrinks, StopImplemented
  <2>2. CASE \/ OpenLog \/ OpenLogFails \/ ReadRecord \/ SkipRecord \/ InsertFails
             \/ ReuseLog \/ EndLog \/ RecoverReturns
    BY <2>2, ReadingShrinks, StopImplemented DEF Store!Next
  <2>3. ASSUME NEW outcome \in Outcomes, ApplyOpenEdit(outcome)
        PROVE  Store!Stop
    BY <2>3, ApplyOpenEditShrinks, StopImplemented
  <2>4. CASE DeleteObsoleteFile
    BY <2>4, DeleteObsoleteFileImplemented DEF Store!Next
  <2>5. CASE DeleteObsoleteFilesDone
    BY <2>5, OpenImplemented DEF Store!Next
  <2>6. CASE DeleteFileFails \/ GetChildrenFails
    BY <2>6, DeletionFaultImplemented DEF Store!Next
  <2>7. QED
    BY <1>4, <2>1, <2>2, <2>3, <2>4, <2>5, <2>6 DEF RecoverNext, Store!Next
<1>5. ASSUME RunNext
      PROVE  Store!Next \/ KeepsHeld
  <2>1. ASSUME NEW sync \in BOOLEAN, Write(sync)
        PROVE  Store!Write
    BY <2>1, WriteImplemented
  <2>2. CASE MakeRoomForWrite
    BY <2>2, MakeRoomForWriteKeeps
  <2>3. CASE CompactMemtable \/ StartCompaction
    BY <2>3, StartJobKeeps DEF CompactMemtable, StartCompaction
  <2>4. ASSUME NEW ok \in BOOLEAN, FlushBuilt(ok) \/ CompactionBuilt(ok)
        PROVE  KeepsHeld
    BY <2>4, BuiltKeeps
  <2>5. ASSUME NEW outcome \in Outcomes,
               FlushInstalled(outcome) \/ CompactionInstalled(outcome)
        PROVE  KeepsHeld
    BY <2>5, InstalledKeeps
  <2>6. CASE Close
    BY <2>6, CloseImplemented DEF Store!Next
  <2>7. CASE ProcessCrash \/ MachineCrash
    BY <2>7, CrashShrinks, StopImplemented DEF Store!Next
  <2>8. QED
    BY <1>5, <2>1, <2>2, <2>3, <2>4, <2>5, <2>6, <2>7 DEF RunNext, Store!Next
<1>6. QED
  BY <1>1, <1>2, <1>3, <1>4, <1>5, NextCases

(* At first the store is closed and has acknowledged nothing.              *)
LEMMA InitImplemented ==
  ASSUME Init
  PROVE  Store!Init
<1>1. phase = "down" /\ acked = {}
  BY DEF Init
<1>2. CASE Fresh
  <2>1. disk = EmptyDisk
    BY <1>2 DEF Init
  <2>2. Recoverable = {}
    BY <2>1 DEF EmptyDisk, Recoverable
  <2>3. QED
    BY <1>1, <2>2 DEF Store!Init, IsOpen
<1>3. CASE ~Fresh
  <2> DEFINE v == [NewDbEdit EXCEPT !.next = 3]
  <2>1. /\ disk.current = 1 /\ disk.manifests = With(<<>>, 1, v)
        /\ disk.logs = With(<<>>, 2, <<>>)
    BY <1>3 DEF Init, EmptyDisk
  <2>2. v.tables = {}
    BY DEF NewDbEdit
  <2> HIDE DEF v
  <2>3. disk.manifests[1] = v /\ DOMAIN disk.logs = {2} /\ disk.logs[2] = <<>>
    BY <2>1 DEF With
  <2>4. \A l \in LogsOf(v) : Range(disk.logs[l]) = {}
    BY <2>3 DEF LogsOf, Listed, Range
  <2>5. Recoverable = {}
    BY <2>1, <2>2, <2>3, <2>4 DEF Recoverable
  <2>6. QED
    BY <1>1, <2>5 DEF Store!Init, IsOpen
<1>4. QED
  BY <1>2, <1>3

(* The files and memtables, their flushes, compactions, replayed logs,     *)
(* crashes and cleanups are a durable store: a set of writes that only     *)
(* writes extend while it is open, and that reopens with at least what was *)
(* acknowledged with sync and nothing that was never written.              *)
THEOREM StoreImplemented ==
  ASSUME Trusted
  PROVE  Spec => ImplementsStore
<1>1. Init => Store!Init
  BY InitImplemented
<1>2. Ind /\ Ind' /\ [Next]_vars => [Store!Next]_(Store!vars)
  BY StepImplemented
<1>3. QED
  BY <1>1, <1>2, Inductive, PTL DEF Spec, ImplementsStore, Store!Spec

=============================================================================
