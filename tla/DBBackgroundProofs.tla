------------------------- MODULE DBBackgroundProofs -------------------------
(***************************************************************************)
(* Proofs about DBBackground, for any number of callers and pool threads.  *)
(***************************************************************************)
EXTENDS DBBackground, TLAPS

(* The inductive strengthening, in three parts.  The scheduling part is    *)
(* inductive by itself.                                                    *)
SchedInv == OneBackgroundTask /\ NoForgottenWork /\ NoWorkAfterEnd

(* A posted request is not done and its frame is alive.  A request that is *)
(* being worked on is still posted and has pieces left, unless the         *)
(* database was closed under its caller, who then cancelled it.            *)
Posted ==
  \A c \in Caller : manual_compaction_ = c =>
    ~done[c] /\ pc[c] \in {"manual", "manualWait"}

RequestKept ==
  \A w \in Worker : bg[w] = "work" /\ taken[w] # NULL =>
    \/ manual_compaction_ = taken[w] /\ left[taken[w]] > 0
    \/ manual_compaction_ = NULL /\ shutting_down_ /\ CloseWhileBusy

QuietClose ==
  /\ shutting_down_ <=> dtor # "none"
  /\ ~CloseWhileBusy /\ dtor # "none" =>
       \A c \in Caller : pc[c] \in {"idle", "returned"}

ManualInv ==
  Posted /\ RequestKept /\ QuietClose /\ (~CloseWhileBusy => NoNullManual)

(* At most one memtable is waiting to be installed, the last one rotated,  *)
(* and a background thread that writes a memtable out has one to write.    *)
(* A caller that waits for its flush has had its memtable rotated.         *)
MemOrder ==
  /\ rotated = IF imm_ = 0 THEN flushed ELSE flushed + 1
  /\ imm_ # 0 => imm_ = rotated
  /\ \A w \in Worker : bg[w] \in {"build", "install"} => imm_ # 0

Targets ==
  \A c \in Caller :
    /\ target[c] <= rotated + 1
    /\ pc[c] = "idle" => target[c] = 0
    /\ WriteLeaves /\ pc[c] \in {"flush", "flushWait"} => target[c] <= rotated

MemInv == MemOrder /\ Targets /\ FlushedWhenOk

IndInv == TypeOK /\ SchedInv /\ ManualInv /\ MemInv

(* What SignalAll makes of a program counter is a program counter.         *)
LEMMA WokenType == \A p \in PcState : Woken(p) \in PcState
BY DEF Woken, PcState

(* MaybeScheduleCompaction keeps types.                                    *)
LEMMA ScheduleType ==
  ASSUME TypeOK, NEW s \in BOOLEAN, MaybeScheduleCompaction(s)
  PROVE  bg_compaction_scheduled_' \in BOOLEAN /\ queue' \in Nat
BY DEF TypeOK, MaybeScheduleCompaction, MaySchedule, HasWork

(* The end of BackgroundCall keeps types.                                  *)
LEMMA FinishType ==
  ASSUME TypeOK, NEW w \in Worker, Finish(w)
  PROVE  /\ bg_compaction_scheduled_' \in BOOLEAN
         /\ queue' \in Nat
         /\ bg' \in [Worker -> BgState]
         /\ pc' \in [Caller -> PcState]
         /\ dtor' \in {"none", "loop", "wait", "gone"}
         /\ shutting_down_' \in BOOLEAN
         /\ writers_' \in Seq(Caller)
         /\ levels' \in [Caller -> 0..MaxLevels]
         /\ target' \in [Caller -> Nat]
         /\ status' \in [Caller -> {"none", "ok", "error"}]
         /\ rotated' \in Nat
BY WokenType, ScheduleType DEF TypeOK, Finish, SignalAll, BgState

(* Entering the next level of CompactRange, or returning, keeps types.     *)
LEMMA NextLevelType ==
  ASSUME TypeOK, NEW c \in Caller, NextLevel(c)
  PROVE  /\ pc' \in [Caller -> PcState]
         /\ levels' \in [Caller -> 0..MaxLevels]
         /\ done' \in [Caller -> BOOLEAN]
         /\ left' \in [Caller -> 0..MaxChunks]
<1>1. CASE levels[c] = 0
  BY <1>1 DEF TypeOK, NextLevel, reqVars, PcState
<1>2. CASE levels[c] # 0
  <2>1. levels[c] - 1 \in 0..MaxLevels
    BY <1>2, BackgroundAssumption DEF TypeOK
  <2>2. PICK n \in 0..MaxChunks : EnterCompactRange(c, n)
    BY <1>2 DEF NextLevel
  <2> QED
    BY <1>2, <2>1, <2>2 DEF TypeOK, NextLevel, EnterCompactRange, PcState
<1> QED BY <1>1, <1>2

(* So does the end of Write.                                               *)
LEMMA LeaveWriteType ==
  ASSUME TypeOK, NEW c \in Caller, NEW st \in {"ok", "error"},
         writers_ # <<>>, LeaveWrite(c, st)
  PROVE  /\ writers_' \in Seq(Caller)
         /\ status' \in [Caller -> {"none", "ok", "error"}]
         /\ pc' \in [Caller -> PcState]
         /\ levels' \in [Caller -> 0..MaxLevels]
         /\ done' \in [Caller -> BOOLEAN]
         /\ left' \in [Caller -> 0..MaxChunks]
<1>1. writers_' \in Seq(Caller) /\ status' \in [Caller -> {"none", "ok", "error"}]
  <2>1. Tail(writers_) \in Seq(Caller)
    BY DEF TypeOK
  <2>2. CASE WriteLeaves
    BY <2>1, <2>2 DEF TypeOK, LeaveWrite
  <2>3. CASE ~WriteLeaves
    BY <2>3 DEF TypeOK, LeaveWrite
  <2> QED BY <2>2, <2>3
<1>2. CASE NextLevel(c)
  BY <1>1, <1>2, NextLevelType
<1>3. CASE ~NextLevel(c)
  BY <1>1, <1>3 DEF TypeOK, LeaveWrite, reqVars, PcState
<1> QED BY <1>2, <1>3

LEMMA TypeInit == Init => TypeOK
<1> SUFFICES ASSUME Init PROVE TypeOK
  OBVIOUS
<1>1. 0 \in 0..MaxLevels /\ 0 \in 0..MaxChunks
  BY BackgroundAssumption
<1>2. writers_ \in Seq(Caller) /\ queue \in Nat
  BY DEF Init
<1> QED
  BY <1>1, <1>2 DEF Init, TypeOK, BgState, PcState

LEMMA TypeNext == TypeOK /\ RequestKept /\ [Next]_vars => TypeOK'
<1> SUFFICES ASSUME TypeOK, RequestKept, [Next]_vars PROVE TypeOK'
  OBVIOUS
<1> USE BackgroundAssumption
<1>1. ASSUME NEW w \in Worker, RunBGWork(w) PROVE TypeOK'
  BY <1>1 DEF RunBGWork, TypeOK, BgState, reqVars, memVars
<1>2. ASSUME NEW w \in Worker, SkipWork(w) PROVE TypeOK'
  BY <1>2, FinishType DEF SkipWork, TypeOK
<1>3. ASSUME NEW w \in Worker, StartCompactMemtable(w) PROVE TypeOK'
  BY <1>3 DEF StartCompactMemtable, Goto, TypeOK, BgState, schedVars, memVars
<1>4. ASSUME NEW w \in Worker, PickNothing(w) PROVE TypeOK'
  BY <1>4, FinishType DEF PickNothing, TypeOK
<1>5. ASSUME NEW w \in Worker, StartTrivialMove(w) PROVE TypeOK'
  BY <1>5 DEF StartTrivialMove, Goto, TypeOK, BgState, schedVars, memVars
<1>6. ASSUME NEW w \in Worker, StartCompactionWork(w) PROVE TypeOK'
  BY <1>6 DEF StartCompactionWork, Goto, TypeOK, BgState, schedVars, memVars
<1>7. ASSUME NEW w \in Worker, NEW ok \in BOOLEAN, BuildDone(w, ok) PROVE TypeOK'
  <2>1. CASE ok /\ ~shutting_down_
    BY <1>7, <2>1 DEF BuildDone, Goto, TypeOK, BgState, schedVars, memVars
  <2>2. CASE ~(ok /\ ~shutting_down_)
    BY <1>7, <2>2, FinishType DEF BuildDone, RecordBackgroundError, TypeOK
  <2> QED BY <2>1, <2>2
<1>8. ASSUME NEW w \in Worker, NEW ok \in BOOLEAN, InstallDone(w, ok) PROVE TypeOK'
  BY <1>8, FinishType DEF InstallDone, RecordBackgroundError, TypeOK
<1>9. ASSUME NEW w \in Worker, NEW ok \in BOOLEAN, MoveDone(w, ok) PROVE TypeOK'
  BY <1>9, FinishType DEF MoveDone, RecordBackgroundError, TypeOK
<1>10. ASSUME NEW w \in Worker, NEW ok \in BOOLEAN, WorkDone(w, ok) PROVE TypeOK'
  <2>1. bg_error_' \in BOOLEAN /\ needs' \in BOOLEAN
    BY <1>10 DEF WorkDone, RecordBackgroundError, TypeOK
  <2>2. taken' \in [Worker -> Caller \cup {NULL}]
    BY <1>10 DEF WorkDone, TypeOK
  <2>3. /\ manual_compaction_' \in Caller \cup {NULL}
        /\ done' \in [Caller -> BOOLEAN]
        /\ left' \in [Caller -> 0..MaxChunks]
        /\ fault' \in BOOLEAN
    <3>1. CASE taken[w] = NULL \/ manual_compaction_ = NULL
      BY <1>10, <3>1 DEF WorkDone, EndManual, TypeOK
    <3>2. CASE taken[w] # NULL /\ manual_compaction_ # NULL
      <4>1. manual_compaction_ \in Caller /\ left[manual_compaction_] > 0
        BY <1>10, <3>2 DEF WorkDone, RequestKept, TypeOK
      <4>2. left[manual_compaction_] - 1 \in 0..MaxChunks
        BY <4>1 DEF TypeOK
      <4>3. /\ manual_compaction_' = NULL
            /\ done' = [done EXCEPT ![manual_compaction_] =
                          done[manual_compaction_] \/ ~ok]
            /\ left' = left
               \/ left' = [left EXCEPT ![manual_compaction_] = @ - 1]
            /\ fault' = fault
        BY <1>10, <3>2 DEF WorkDone, EndManual
      <4>4. done' \in [Caller -> BOOLEAN]
        BY <4>1, <4>3 DEF TypeOK
      <4>5. left' \in [Caller -> 0..MaxChunks]
        BY <4>1, <4>2, <4>3 DEF TypeOK
      <4> QED BY <4>3, <4>4, <4>5 DEF TypeOK
    <3> QED BY <3>1, <3>2
  <2> QED
    BY <1>10, <2>1, <2>2, <2>3, FinishType DEF WorkDone, TypeOK
<1>11. ASSUME NEW c \in Caller, Put(c) PROVE TypeOK'
  BY <1>11 DEF Put, EnterWrite, CallUnchanged, TypeOK, PcState, schedVars, memVars
<1>12. ASSUME NEW c \in Caller, CompactRange(c) PROVE TypeOK'
  BY <1>12 DEF CompactRange, EnterWrite, CallUnchanged, TypeOK, PcState,
               schedVars, memVars
<1>13. ASSUME NEW c \in Caller, TEST_CompactMemTable(c) PROVE TypeOK'
  BY <1>13 DEF TEST_CompactMemTable, EnterWrite, CallUnchanged, TypeOK, PcState,
               schedVars, memVars
<1>14. ASSUME NEW c \in Caller, TEST_CompactRange(c) PROVE TypeOK'
  BY <1>14 DEF TEST_CompactRange, EnterCompactRange, CallUnchanged, TypeOK,
               PcState, schedVars, memVars
<1>15. ASSUME NEW c \in Caller, WriteFails(c) PROVE TypeOK'
  BY <1>15, LeaveWriteType DEF WriteFails, AtHead, TypeOK, schedVars, memVars
<1>16. ASSUME NEW c \in Caller, WriteFits(c) PROVE TypeOK'
  BY <1>16, LeaveWriteType DEF WriteFits, AtHead, TypeOK, schedVars, memVars
<1>17. ASSUME NEW c \in Caller, WriteWaits(c) PROVE TypeOK'
  BY <1>17 DEF WriteWaits, TypeOK, PcState, schedVars, memVars, reqVars
<1>18. ASSUME NEW c \in Caller, WriteRotates(c) PROVE TypeOK'
  <2>1. imm_' \in Nat /\ rotated' \in Nat
    BY <1>18 DEF WriteRotates, TypeOK
  <2>2. bg_compaction_scheduled_' \in BOOLEAN /\ queue' \in Nat
    BY <1>18, ScheduleType DEF WriteRotates, TypeOK
  <2> QED
    BY <1>18, <2>1, <2>2, LeaveWriteType DEF WriteRotates, AtHead, TypeOK
<1>19. ASSUME NEW c \in Caller, FlushLoop(c) PROVE TypeOK'
  <2>1. CASE imm_ # 0 /\ ~bg_error_
    BY <1>19, <2>1 DEF FlushLoop, TypeOK, PcState, schedVars, memVars, reqVars
  <2>2. CASE ~(imm_ # 0 /\ ~bg_error_)
    BY <1>19, <2>2, NextLevelType DEF FlushLoop, TypeOK, schedVars, memVars
  <2> QED BY <2>1, <2>2
<1>20. ASSUME NEW c \in Caller, LeaveManual(c) PROVE TypeOK'
  BY <1>20, NextLevelType DEF LeaveManual, TypeOK, schedVars, memVars
<1>21. ASSUME NEW c \in Caller, ManualLoop(c) PROVE TypeOK'
  <2>1. bg_compaction_scheduled_' \in BOOLEAN /\ queue' \in Nat
    BY <1>21, ScheduleType DEF ManualLoop, TypeOK, schedVars
  <2> QED
    BY <1>21, <2>1 DEF ManualLoop, TypeOK, PcState, schedVars, memVars, reqVars
<1>22. ASSUME NEW c \in Caller, Spurious(c) PROVE TypeOK'
  BY <1>22, WokenType DEF Spurious, TypeOK, schedVars, memVars, reqVars
<1>23. CASE RecordReadSample
  BY <1>23, ScheduleType DEF RecordReadSample, TypeOK, memVars, reqVars
<1>24. CASE BeginClose \/ CloseLoop \/ SpuriousClose
  BY <1>24 DEF BeginClose, CloseLoop, SpuriousClose, DtorUnchanged, TypeOK,
               schedVars, memVars, reqVars
<1>25. CASE UNCHANGED vars
  BY <1>25 DEF TypeOK, vars, schedVars, memVars, reqVars
<1> QED
  BY <1>1, <1>2, <1>3, <1>4, <1>5, <1>6, <1>7, <1>8, <1>9, <1>10, <1>11, <1>12,
     <1>13, <1>14, <1>15, <1>16, <1>17, <1>18, <1>19, <1>20, <1>21, <1>22,
     <1>23, <1>24, <1>25
  DEF Next, WorkerStep, CallerStep, Terminated

-----------------------------------------------------------------------------
(* The scheduling invariant.                                               *)

(* The running thread is the only one, so the end of BackgroundCall        *)
(* establishes the invariant whatever the thread has done.                 *)
LEMMA FinishSched ==
  ASSUME TypeOK, SchedInv, NEW w \in Worker, bg[w] # "idle", Finish(w)
  PROVE  SchedInv'
<1>1. queue = 0 /\ \A v \in Worker : bg'[v] = "idle"
  BY DEF TypeOK, SchedInv, OneBackgroundTask, Finish, BgState
<1>2. dtor' # "gone"
  BY DEF SchedInv, NoWorkAfterEnd, Finish, SignalAll
<1>3. bg_compaction_scheduled_' <=> MaySchedule'
  BY DEF Finish, MaybeScheduleCompaction
<1>4. queue' = IF MaySchedule' THEN 1 ELSE 0
  BY <1>1 DEF Finish, MaybeScheduleCompaction
<1> QED
  BY <1>1, <1>2, <1>3, <1>4
  DEF SchedInv, OneBackgroundTask, NoForgottenWork, NoWorkAfterEnd

(* Moving on inside BackgroundCall, with no error recorded.                *)
LEMMA GotoSched ==
  ASSUME TypeOK, SchedInv, NEW w \in Worker, bg[w] # "idle", ~bg_error_,
         NEW state \in BgState \ {"idle"}, Goto(w, state)
  PROVE  SchedInv'
BY DEF TypeOK, SchedInv, OneBackgroundTask, NoForgottenWork, NoWorkAfterEnd,
       Goto, MaySchedule, HasWork, BgState, schedVars, memVars

(* A step that may create work and calls MaybeScheduleCompaction.          *)
LEMMA ScheduleSched ==
  ASSUME TypeOK, SchedInv, dtor # "gone", UNCHANGED <<bg, bg_error_, dtor>>,
         MaybeScheduleCompaction(bg_compaction_scheduled_)
  PROVE  SchedInv'
<1>1. CASE bg_compaction_scheduled_
  BY <1>1 DEF TypeOK, SchedInv, OneBackgroundTask, NoForgottenWork,
              NoWorkAfterEnd, MaybeScheduleCompaction
<1>2. CASE ~bg_compaction_scheduled_
  <2>1. queue = 0 /\ \A v \in Worker : bg[v] = "idle"
    BY <1>2 DEF SchedInv, OneBackgroundTask
  <2>2. bg_compaction_scheduled_' <=> MaySchedule'
    BY <1>2 DEF MaybeScheduleCompaction
  <2>3. queue' = IF MaySchedule' THEN 1 ELSE 0
    BY <1>2, <2>1 DEF MaybeScheduleCompaction
  <2> QED
    BY <2>1, <2>2, <2>3
    DEF SchedInv, OneBackgroundTask, NoForgottenWork, NoWorkAfterEnd
<1> QED BY <1>1, <1>2

(* A step that creates no work and leaves the background thread alone.     *)
LEMMA OtherSched ==
  ASSUME SchedInv, UNCHANGED <<bg, bg_error_, dtor, schedVars>>,
         MaySchedule' => MaySchedule
  PROVE  SchedInv'
BY DEF SchedInv, OneBackgroundTask, NoForgottenWork, NoWorkAfterEnd, schedVars

LEMMA SchedInit == Init => SchedInv
BY DEF Init, SchedInv, OneBackgroundTask, NoForgottenWork, NoWorkAfterEnd,
       MaySchedule, HasWork

LEMMA SchedNext == TypeOK /\ SchedInv /\ [Next]_vars => SchedInv'
<1> SUFFICES ASSUME TypeOK, SchedInv, [Next]_vars PROVE SchedInv'
  OBVIOUS
<1>1. ASSUME NEW w \in Worker, RunBGWork(w) PROVE SchedInv'
  BY <1>1 DEF RunBGWork, TypeOK, SchedInv, OneBackgroundTask, NoForgottenWork,
              NoWorkAfterEnd, MaySchedule, HasWork, BgState, memVars
<1>2. ASSUME NEW w \in Worker, WorkerStep(w) PROVE SchedInv'
  <2>1. CASE SkipWork(w) \/ PickNothing(w)
    BY <2>1, FinishSched DEF SkipWork, PickNothing, Working
  <2>2. CASE StartCompactMemtable(w) \/ StartTrivialMove(w) \/ StartCompactionWork(w)
    BY <2>2, GotoSched DEF StartCompactMemtable, StartTrivialMove,
                           StartCompactionWork, Working, BgState
  <2>3. ASSUME NEW ok \in BOOLEAN, BuildDone(w, ok) PROVE SchedInv'
    <3>1. bg[w] = "build" /\ ~bg_error_
      BY <2>3 DEF BuildDone, SchedInv, NoWorkAfterEnd
    <3>2. Goto(w, "install") \/ Finish(w)
      BY <2>3 DEF BuildDone
    <3> QED BY <3>1, <3>2, GotoSched, FinishSched DEF BgState
  <2>4. ASSUME NEW ok \in BOOLEAN,
               InstallDone(w, ok) \/ MoveDone(w, ok) \/ WorkDone(w, ok)
        PROVE  SchedInv'
    BY <2>4, FinishSched DEF InstallDone, MoveDone, WorkDone
  <2> QED
    BY <1>2, <2>1, <2>2, <2>3, <2>4 DEF WorkerStep
<1>3. ASSUME NEW c \in Caller,
             Put(c) \/ CompactRange(c) \/ TEST_CompactMemTable(c)
               \/ TEST_CompactRange(c) \/ Spurious(c)
      PROVE  SchedInv'
  <2>1. UNCHANGED <<bg, bg_error_, dtor, schedVars, shutting_down_, imm_,
                    manual_compaction_, needs>>
    BY <1>3 DEF Put, CompactRange, TEST_CompactMemTable, TEST_CompactRange,
                Spurious, CallUnchanged, memVars
  <2> QED
    BY <2>1, OtherSched DEF MaySchedule, HasWork
<1>4. ASSUME NEW c \in Caller, dtor # "gone", CallerStep(c) PROVE SchedInv'
  <2>1. CASE WriteFails(c) \/ WriteFits(c) \/ WriteWaits(c) \/ FlushLoop(c)
    BY <2>1, OtherSched DEF WriteFails, WriteFits, WriteWaits, FlushLoop,
                            MaySchedule, HasWork, memVars
  <2>2. CASE WriteRotates(c)
    BY <1>4, <2>2, ScheduleSched DEF WriteRotates
  <2>3. CASE LeaveManual(c)
    BY <2>3, OtherSched DEF LeaveManual, MaySchedule, HasWork, memVars
  <2>4. CASE ManualLoop(c)
    BY <1>4, <2>4, ScheduleSched, OtherSched
    DEF ManualLoop, MaySchedule, HasWork, memVars
  <2> QED
    BY <1>4, <2>1, <2>2, <2>3, <2>4 DEF CallerStep
<1>5. CASE dtor # "gone" /\ RecordReadSample
  BY <1>5, ScheduleSched DEF RecordReadSample
<1>6. CASE BeginClose
  BY <1>6 DEF BeginClose, DtorUnchanged, SchedInv, OneBackgroundTask,
              NoForgottenWork, NoWorkAfterEnd, MaySchedule, HasWork, schedVars
<1>7. CASE CloseLoop \/ SpuriousClose
  BY <1>7 DEF CloseLoop, SpuriousClose, DtorUnchanged, SchedInv,
              OneBackgroundTask, NoForgottenWork, NoWorkAfterEnd, MaySchedule,
              HasWork, schedVars, memVars
<1>8. CASE UNCHANGED vars
  BY <1>8, OtherSched DEF vars, MaySchedule, HasWork, memVars
<1> QED
  BY <1>1, <1>2, <1>3, <1>4, <1>5, <1>6, <1>7, <1>8 DEF Next, Terminated

-----------------------------------------------------------------------------
(* The invariant about manual requests.                                    *)

(* Waking everyone moves nobody out of the loop of TEST_CompactRange, and  *)
(* nobody who is outside a call into one.                                  *)
LEMMA SignalManual ==
  ASSUME TypeOK, SignalAll, NEW c \in Caller
  PROVE  /\ pc'[c] \in {"manual", "manualWait"} <=> pc[c] \in {"manual", "manualWait"}
         /\ pc'[c] \in {"idle", "returned"} <=> pc[c] \in {"idle", "returned"}
BY DEF TypeOK, SignalAll, Woken, PcState

(* The end of BackgroundCall by the only thread that runs.                 *)
LEMMA FinishManual ==
  ASSUME TypeOK, SchedInv, ManualInv, NEW w \in Worker, bg[w] # "idle",
         Finish(w), manual_compaction_' \in {manual_compaction_, NULL},
         manual_compaction_' # NULL => UNCHANGED done,
         ~CloseWhileBusy => ~fault'
  PROVE  ManualInv'
<1>1. \A v \in Worker : bg'[v] = "idle"
  BY DEF TypeOK, SchedInv, OneBackgroundTask, Finish, BgState
<1>2. RequestKept'
  BY <1>1 DEF RequestKept
<1>3. QuietClose'
  <2>1. dtor' # "none" <=> dtor # "none"
    BY DEF Finish, SignalAll
  <2> QED
    BY <2>1, SignalManual DEF ManualInv, QuietClose, Finish
<1>4. Posted'
  BY SignalManual, BackgroundAssumption DEF ManualInv, Posted, Finish
<1> QED
  BY <1>2, <1>3, <1>4 DEF ManualInv, NoNullManual

LEMMA ManualInit == Init => ManualInv
BY BackgroundAssumption
   DEF Init, ManualInv, Posted, RequestKept, QuietClose, NoNullManual

(* A caller that moves on to the next level or returns has no request      *)
(* posted, and no thread works for it unless the database was closed.      *)
LEMMA NextLevelManual ==
  ASSUME TypeOK, ManualInv, NEW c \in Caller, NextLevel(c),
         pc[c] \notin {"idle", "returned"},
         manual_compaction_' # c,
         manual_compaction_' \in {manual_compaction_, NULL},
         manual_compaction_' # manual_compaction_ =>
           \A w \in Worker : bg[w] # "work" \/ (shutting_down_ /\ CloseWhileBusy),
         UNCHANGED <<bg, taken, shutting_down_, dtor, fault>>
  PROVE  ManualInv'
<1> USE BackgroundAssumption
<1>1. ASSUME NEW d \in Caller, d # c
      PROVE  pc'[d] = pc[d] /\ done'[d] = done[d] /\ left'[d] = left[d]
  BY <1>1 DEF TypeOK, NextLevel, EnterCompactRange, reqVars
<1>2. Posted'
  BY <1>1 DEF ManualInv, Posted
<1>3. RequestKept'
  BY <1>1 DEF TypeOK, ManualInv, RequestKept
<1>4. QuietClose'
  BY DEF ManualInv, QuietClose
<1> QED
  BY <1>2, <1>3, <1>4 DEF ManualInv, NoNullManual

(* A step of c that leaves every request and every thread as it is.        *)
LEMMA OtherManual ==
  ASSUME TypeOK, ManualInv, NEW c \in Caller, dtor = "none" \/ CloseWhileBusy,
         manual_compaction_ # c \/ pc'[c] \in {"manual", "manualWait"},
         \A d \in Caller \ {c} : pc'[d] = pc[d],
         UNCHANGED <<manual_compaction_, done, left, bg, taken,
                     shutting_down_, dtor, fault>>
  PROVE  ManualInv'
<1>1. Posted'
  BY DEF ManualInv, Posted
<1>2. RequestKept'
  BY DEF ManualInv, RequestKept
<1>3. QuietClose'
  BY DEF ManualInv, QuietClose
<1> QED
  BY <1>1, <1>2, <1>3 DEF ManualInv, NoNullManual

LEMMA ManualNext ==
  TypeOK /\ SchedInv /\ ManualInv /\ [Next]_vars => ManualInv'
<1> SUFFICES ASSUME TypeOK, SchedInv, ManualInv, [Next]_vars PROVE ManualInv'
  OBVIOUS
<1> USE BackgroundAssumption
<1>1. ASSUME NEW w \in Worker, RunBGWork(w) PROVE ManualInv'
  BY <1>1 DEF RunBGWork, TypeOK, ManualInv, Posted, RequestKept, QuietClose,
              NoNullManual, reqVars
<1>2. ASSUME NEW w \in Worker, SkipWork(w) \/ PickNothing(w) PROVE ManualInv'
  <2>1. /\ bg[w] = "called" /\ Finish(w) /\ UNCHANGED fault
        /\ manual_compaction_' \in {manual_compaction_, NULL}
        /\ manual_compaction_' # NULL => UNCHANGED done
    BY <1>2 DEF SkipWork, PickNothing, Working
  <2> QED BY <2>1, FinishManual DEF ManualInv, NoNullManual
<1>3. ASSUME NEW w \in Worker, StartCompactMemtable(w) \/ StartTrivialMove(w)
      PROVE  ManualInv'
  BY <1>3 DEF StartCompactMemtable, StartTrivialMove, Goto, TypeOK, ManualInv,
              Posted, RequestKept, QuietClose, NoNullManual
<1>4. ASSUME NEW w \in Worker, StartCompactionWork(w) PROVE ManualInv'
  <2>1. bg[w] = "called" /\ Goto(w, "work")
    BY <1>4 DEF StartCompactionWork, Working
  <2>2. \A v \in Worker : v # w => bg'[v] = "idle"
    BY <2>1 DEF Goto, TypeOK, SchedInv, OneBackgroundTask
  <2>3. taken'[w] = manual_compaction_
    BY <1>4 DEF StartCompactionWork, TypeOK
  <2>4. manual_compaction_ # NULL => left[manual_compaction_] > 0
    BY <1>4 DEF StartCompactionWork
  <2>5. RequestKept'
    BY <2>1, <2>2, <2>3, <2>4 DEF RequestKept, Goto
  <2>6. Posted'
    BY <1>4, <2>1 DEF StartCompactionWork, Goto, TypeOK, ManualInv, Posted
  <2> QED
    BY <2>1, <2>5, <2>6 DEF Goto, ManualInv, QuietClose, NoNullManual
<1>5. ASSUME NEW w \in Worker, NEW ok \in BOOLEAN, BuildDone(w, ok) PROVE ManualInv'
  <2>1. CASE ok /\ ~shutting_down_
    BY <1>5, <2>1 DEF BuildDone, Goto, TypeOK, ManualInv, Posted, RequestKept,
                      QuietClose, NoNullManual
  <2>2. CASE ~(ok /\ ~shutting_down_)
    BY <1>5, <2>2, FinishManual DEF BuildDone, ManualInv, NoNullManual
  <2> QED BY <2>1, <2>2
<1>6. ASSUME NEW w \in Worker, NEW ok \in BOOLEAN,
             InstallDone(w, ok) \/ MoveDone(w, ok)
      PROVE  ManualInv'
  BY <1>6, FinishManual DEF InstallDone, MoveDone, ManualInv, NoNullManual
<1>7. ASSUME NEW w \in Worker, NEW ok \in BOOLEAN, WorkDone(w, ok) PROVE ManualInv'
  <2>1. bg[w] = "work" /\ Finish(w)
    BY <1>7 DEF WorkDone
  <2>2. ~CloseWhileBusy => ~fault'
    BY <1>7 DEF WorkDone, EndManual, ManualInv, RequestKept, NoNullManual
  <2>3. /\ manual_compaction_' \in {manual_compaction_, NULL}
        /\ manual_compaction_' # NULL => UNCHANGED done
    BY <1>7 DEF WorkDone, EndManual
  <2> QED
    BY <2>1, <2>2, <2>3, FinishManual
<1>8. ASSUME NEW c \in Caller, Put(c) \/ CompactRange(c) \/ TEST_CompactMemTable(c)
      PROVE  ManualInv'
  <2>1. /\ pc[c] = "idle" /\ dtor = "none"
        /\ \A d \in Caller \ {c} : pc'[d] = pc[d]
        /\ UNCHANGED <<manual_compaction_, done, left, bg, taken,
                       shutting_down_, dtor, fault>>
    BY <1>8 DEF Put, CompactRange, TEST_CompactMemTable, EnterWrite,
                CallUnchanged, TypeOK
  <2> QED BY <2>1, OtherManual DEF ManualInv, Posted
<1>9. ASSUME NEW c \in Caller, TEST_CompactRange(c) PROVE ManualInv'
  <2>1. /\ pc[c] = "idle" /\ dtor = "none"
        /\ UNCHANGED <<manual_compaction_, bg, taken, shutting_down_, dtor, fault>>
    BY <1>9 DEF TEST_CompactRange, CallUnchanged
  <2>2. ASSUME NEW d \in Caller, d # c
        PROVE  pc'[d] = pc[d] /\ done'[d] = done[d] /\ left'[d] = left[d]
    BY <1>9, <2>2 DEF TEST_CompactRange, EnterCompactRange, TypeOK
  <2>3. manual_compaction_ # c
    BY <2>1 DEF ManualInv, Posted
  <2>4. Posted'
    BY <2>1, <2>2, <2>3 DEF ManualInv, Posted
  <2>5. RequestKept'
    BY <2>1, <2>2, <2>3 DEF TypeOK, ManualInv, RequestKept
  <2> QED
    BY <2>1, <2>4, <2>5 DEF ManualInv, QuietClose, NoNullManual
<1>10. ASSUME NEW c \in Caller,
              WriteFails(c) \/ WriteFits(c) \/ WriteRotates(c) \/ FlushLoop(c)
       PROVE  ManualInv'
  <2>1. /\ pc[c] \in {"write", "flush"}
        /\ UNCHANGED <<manual_compaction_, bg, taken, shutting_down_, dtor, fault>>
    BY <1>10 DEF WriteFails, WriteFits, WriteRotates, FlushLoop, AtHead
  <2>2. manual_compaction_ # c
    BY <2>1 DEF ManualInv, Posted
  <2>3. CASE NextLevel(c)
    BY <2>1, <2>2, <2>3, NextLevelManual
  <2>4. CASE ~NextLevel(c)
    <3>1. UNCHANGED <<done, left>> /\ \A d \in Caller \ {c} : pc'[d] = pc[d]
      BY <1>10, <2>4 DEF WriteFails, WriteFits, WriteRotates, FlushLoop,
                         LeaveWrite, reqVars, TypeOK
    <3>2. dtor = "none" \/ CloseWhileBusy
      BY <2>1 DEF ManualInv, QuietClose, TypeOK
    <3> QED BY <2>1, <2>2, <3>1, <3>2, OtherManual
  <2> QED BY <2>3, <2>4
<1>11. ASSUME NEW c \in Caller, WriteWaits(c) \/ Spurious(c) PROVE ManualInv'
  <2>1. /\ UNCHANGED <<manual_compaction_, done, left, bg, taken,
                       shutting_down_, dtor, fault>>
        /\ \A d \in Caller \ {c} : pc'[d] = pc[d]
        /\ pc[c] \notin {"idle", "returned"}
        /\ pc[c] \notin {"manual", "manualWait"} \/ pc'[c] \in {"manual", "manualWait"}
    BY <1>11 DEF WriteWaits, AtHead, Spurious, Woken, reqVars, TypeOK
  <2>2. dtor = "none" \/ CloseWhileBusy
    BY <2>1 DEF ManualInv, QuietClose, TypeOK
  <2> QED BY <2>1, <2>2, OtherManual DEF ManualInv, Posted
<1>12. ASSUME NEW c \in Caller, LeaveManual(c) PROVE ManualInv'
  <2>1. /\ pc[c] = "manual" /\ NextLevel(c)
        /\ manual_compaction_' # c
        /\ manual_compaction_' \in {manual_compaction_, NULL}
        /\ manual_compaction_' # manual_compaction_ => manual_compaction_ = c
        /\ UNCHANGED <<bg, taken, shutting_down_, dtor, fault>>
    BY <1>12 DEF LeaveManual
  <2>2. ASSUME manual_compaction_ = c, NEW w \in Worker, bg[w] = "work"
        PROVE  shutting_down_ /\ CloseWhileBusy
    <3>1. ~done[c] /\ ~bg_error_
      BY <2>2 DEF ManualInv, Posted, SchedInv, NoWorkAfterEnd
    <3>2. shutting_down_
      BY <1>12, <3>1 DEF LeaveManual
    <3> QED
      BY <2>1, <3>2 DEF ManualInv, QuietClose
  <2> QED
    BY <2>1, <2>2, NextLevelManual
<1>13. ASSUME NEW c \in Caller, ManualLoop(c) PROVE ManualInv'
  <2>1. /\ pc[c] = "manual" /\ ~done[c] /\ ~shutting_down_
        /\ manual_compaction_' = IF manual_compaction_ = NULL THEN c
                                 ELSE manual_compaction_
        /\ pc' = [pc EXCEPT ![c] = "manualWait"]
        /\ UNCHANGED <<done, left, bg, taken, shutting_down_, dtor, fault>>
    BY <1>13 DEF ManualLoop, reqVars
  <2>2. Posted'
    BY <2>1 DEF TypeOK, ManualInv, Posted
  <2>3. RequestKept'
    BY <2>1 DEF TypeOK, ManualInv, RequestKept
  <2>4. QuietClose'
    BY <2>1 DEF TypeOK, ManualInv, QuietClose
  <2> QED
    BY <2>1, <2>2, <2>3, <2>4 DEF ManualInv, NoNullManual
<1>14. CASE RecordReadSample \/ UNCHANGED vars
  BY <1>14 DEF RecordReadSample, vars, reqVars, ManualInv, Posted, RequestKept,
               QuietClose, NoNullManual
<1>15. CASE BeginClose
  BY <1>15 DEF BeginClose, DtorUnchanged, reqVars, ManualInv, Posted,
               RequestKept, QuietClose, NoNullManual
<1>16. CASE CloseLoop \/ SpuriousClose
  BY <1>16 DEF CloseLoop, SpuriousClose, DtorUnchanged, reqVars,
               ManualInv, Posted, RequestKept, QuietClose, NoNullManual
<1> QED
  BY <1>1, <1>2, <1>3, <1>4, <1>5, <1>6, <1>7, <1>8, <1>9, <1>10, <1>11, <1>12,
     <1>13, <1>14, <1>15, <1>16
  DEF Next, WorkerStep, CallerStep, Terminated

-----------------------------------------------------------------------------
(* The invariant about memtables.                                          *)

LEMMA MemInit == Init => MemInv
BY DEF Init, MemInv, MemOrder, Targets, FlushedWhenOk

(* Waking everyone keeps what Targets and FlushedWhenOk say of a caller.   *)
LEMMA SignalMem ==
  ASSUME TypeOK, SignalAll, NEW c \in Caller
  PROVE  /\ pc'[c] = "idle" <=> pc[c] = "idle"
         /\ pc'[c] \in {"flush", "flushWait"} <=> pc[c] \in {"flush", "flushWait"}
         /\ pc'[c] \in {"manual", "manualWait", "returned"}
              <=> pc[c] \in {"manual", "manualWait", "returned"}
BY DEF TypeOK, SignalAll, Woken, PcState

(* The end of BackgroundCall, with the memtable installed or left alone.   *)
LEMMA FinishMem ==
  ASSUME TypeOK, SchedInv, MemInv, NEW w \in Worker, bg[w] # "idle", Finish(w),
         \/ UNCHANGED <<imm_, flushed>>
         \/ imm_ # 0 /\ imm_' = 0 /\ flushed' = imm_
  PROVE  MemInv'
<1>1. \A v \in Worker : bg'[v] = "idle"
  BY DEF TypeOK, SchedInv, OneBackgroundTask, Finish, BgState
<1>2. flushed' >= flushed /\ UNCHANGED <<rotated, target, status>>
  BY DEF TypeOK, MemInv, MemOrder, Finish
<1>3. MemOrder'
  BY <1>1, <1>2 DEF TypeOK, MemInv, MemOrder
<1>4. Targets'
  BY <1>2, SignalMem DEF TypeOK, MemInv, Targets, Finish
<1>5. FlushedWhenOk'
  BY <1>2, SignalMem DEF TypeOK, MemInv, FlushedWhenOk, Finish
<1> QED BY <1>3, <1>4, <1>5 DEF MemInv

(* A step of c alone, which leaves the memtables and the threads alone and *)
(* keeps what is claimed of c.                                             *)
LEMMA CallerMem ==
  ASSUME TypeOK, MemInv, NEW c \in Caller,
         UNCHANGED <<bg, imm_, rotated, flushed>>,
         \A d \in Caller \ {c} :
           pc'[d] = pc[d] /\ target'[d] = target[d] /\ status'[d] = status[d],
         target'[c] <= rotated + 1,
         pc'[c] = "idle" => target'[c] = 0,
         WriteLeaves /\ pc'[c] \in {"flush", "flushWait"} => target'[c] <= rotated,
         WriteLeaves /\ target'[c] # 0 /\ status'[c] = "ok"
           /\ pc'[c] \in {"manual", "manualWait", "returned"}
           => flushed >= target'[c]
  PROVE  MemInv'
<1>1. MemOrder'
  BY DEF MemInv, MemOrder
<1>2. Targets'
  BY DEF MemInv, Targets
<1>3. FlushedWhenOk'
  BY DEF MemInv, FlushedWhenOk
<1> QED BY <1>1, <1>2, <1>3 DEF MemInv

(* Where NextLevel leads, and that it is nobody else's business.           *)
LEMMA NextLevelMem ==
  ASSUME TypeOK, NEW c \in Caller, NextLevel(c)
  PROVE  /\ pc'[c] \in {"manual", "returned"}
         /\ \A d \in Caller \ {c} : pc'[d] = pc[d]
BY DEF TypeOK, NextLevel, EnterCompactRange

(* Where the end of Write leads.                                           *)
LEMMA LeaveWriteMem ==
  ASSUME TypeOK, NEW c \in Caller, NEW st \in {"ok", "error"}, LeaveWrite(c, st)
  PROVE  /\ \A d \in Caller \ {c} : pc'[d] = pc[d] /\ status'[d] = status[d]
         /\ WriteLeaves => status'[c] = st
         /\ pc'[c] \in {"flush", "manual", "returned"}
         /\ pc'[c] = "flush" => status'[c] = "ok"
         /\ target[c] # 0 /\ pc'[c] # "flush" => status'[c] # "ok"
<1>1. \A d \in Caller \ {c} : status'[d] = status[d]
  BY DEF TypeOK, LeaveWrite
<1>2. WriteLeaves => status'[c] = st
  BY DEF TypeOK, LeaveWrite
<1>3. CASE target[c] = 0
  BY <1>1, <1>2, <1>3 DEF TypeOK, LeaveWrite
<1>4. CASE target[c] # 0 /\ status'[c] = "ok"
  BY <1>1, <1>2, <1>4 DEF TypeOK, LeaveWrite
<1>5. CASE target[c] # 0 /\ status'[c] # "ok"
  BY <1>1, <1>2, <1>5, NextLevelMem DEF TypeOK, LeaveWrite
<1> QED BY <1>3, <1>4, <1>5

LEMMA MemNext ==
  TypeOK /\ SchedInv /\ MemInv /\ [Next]_vars => MemInv'
<1> SUFFICES ASSUME TypeOK, SchedInv, MemInv, [Next]_vars PROVE MemInv'
  OBVIOUS
<1>1. ASSUME NEW w \in Worker, RunBGWork(w) PROVE MemInv'
  BY <1>1 DEF RunBGWork, TypeOK, MemInv, MemOrder, Targets, FlushedWhenOk, memVars
<1>2. ASSUME NEW w \in Worker, SkipWork(w) \/ PickNothing(w) PROVE MemInv'
  BY <1>2, FinishMem DEF SkipWork, PickNothing, Working
<1>3. ASSUME NEW w \in Worker,
             StartCompactMemtable(w) \/ StartTrivialMove(w) \/ StartCompactionWork(w)
      PROVE  MemInv'
  BY <1>3 DEF StartCompactMemtable, StartTrivialMove, StartCompactionWork, Goto,
              TypeOK, MemInv, MemOrder, Targets, FlushedWhenOk, memVars
<1>4. ASSUME NEW w \in Worker, NEW ok \in BOOLEAN, BuildDone(w, ok) PROVE MemInv'
  <2>1. CASE ok /\ ~shutting_down_
    BY <1>4, <2>1 DEF BuildDone, Goto, TypeOK, MemInv, MemOrder, Targets,
                      FlushedWhenOk, memVars
  <2>2. CASE ~(ok /\ ~shutting_down_)
    BY <1>4, <2>2, FinishMem DEF BuildDone
  <2> QED BY <2>1, <2>2
<1>5. ASSUME NEW w \in Worker, NEW ok \in BOOLEAN, InstallDone(w, ok) PROVE MemInv'
  <2>1. bg[w] = "install" /\ Finish(w) /\ imm_ # 0
    BY <1>5 DEF InstallDone, MemInv, MemOrder
  <2>2. UNCHANGED <<imm_, flushed>> \/ (imm_' = 0 /\ flushed' = imm_)
    BY <1>5 DEF InstallDone
  <2> QED BY <2>1, <2>2, FinishMem
<1>6. ASSUME NEW w \in Worker, NEW ok \in BOOLEAN, MoveDone(w, ok) \/ WorkDone(w, ok)
      PROVE  MemInv'
  BY <1>6, FinishMem DEF MoveDone, WorkDone
<1>7. ASSUME NEW c \in Caller, Put(c) \/ CompactRange(c) \/ TEST_CompactMemTable(c)
      PROVE  MemInv'
  <2>1. /\ pc'[c] = "write" /\ target'[c] <= rotated + 1
        /\ \A d \in Caller \ {c} : pc'[d] = pc[d] /\ target'[d] = target[d]
        /\ UNCHANGED <<bg, imm_, rotated, flushed, status>>
    BY <1>7 DEF Put, CompactRange, TEST_CompactMemTable, EnterWrite,
                CallUnchanged, memVars, TypeOK
  <2> QED BY <2>1, CallerMem
<1>8. ASSUME NEW c \in Caller, TEST_CompactRange(c) PROVE MemInv'
  <2>1. /\ pc[c] = "idle" /\ pc'[c] = "manual"
        /\ \A d \in Caller \ {c} : pc'[d] = pc[d]
        /\ UNCHANGED <<bg, imm_, rotated, flushed, status, target>>
    BY <1>8 DEF TEST_CompactRange, EnterCompactRange, CallUnchanged, memVars, TypeOK
  <2>2. target[c] = 0 /\ target[c] <= rotated + 1
    BY <2>1 DEF MemInv, Targets
  <2> QED BY <2>1, <2>2, CallerMem
<1>9. ASSUME NEW c \in Caller, WriteFails(c) PROVE MemInv'
  <2>1. /\ LeaveWrite(c, "error")
        /\ UNCHANGED <<bg, imm_, rotated, flushed, target>>
    BY <1>9 DEF WriteFails, memVars
  <2>2. target[c] <= rotated + 1
    BY DEF MemInv, Targets
  <2> QED BY <2>1, <2>2, LeaveWriteMem, CallerMem
<1>10. ASSUME NEW c \in Caller, WriteFits(c) PROVE MemInv'
  <2>1. /\ LeaveWrite(c, "ok") /\ target[c] = 0
        /\ UNCHANGED <<bg, imm_, rotated, flushed, target>>
    BY <1>10 DEF WriteFits, memVars
  <2>2. target[c] <= rotated + 1 /\ 0 <= rotated
    BY DEF TypeOK, MemInv, Targets
  <2> QED BY <2>1, <2>2, LeaveWriteMem, CallerMem
<1>11. ASSUME NEW c \in Caller, WriteWaits(c) \/ Spurious(c) PROVE MemInv'
  <2>1. /\ UNCHANGED <<bg, imm_, rotated, flushed, target, status>>
        /\ \A d \in Caller \ {c} : pc'[d] = pc[d]
        /\ \/ pc'[c] \in {"write", "writeWait"}
           \/ pc'[c] = "flush" /\ pc[c] = "flushWait"
           \/ pc'[c] = "manual" /\ pc[c] = "manualWait"
    BY <1>11 DEF WriteWaits, AtHead, Spurious, Woken, memVars, TypeOK
  <2> QED BY <2>1, CallerMem DEF MemInv, Targets, FlushedWhenOk
<1>12. ASSUME NEW c \in Caller, WriteRotates(c) PROVE MemInv'
  <2>1. /\ LeaveWrite(c, "ok") /\ imm_ = 0
        /\ imm_' = rotated + 1 /\ rotated' = rotated + 1
        /\ UNCHANGED <<bg, flushed, target>>
    BY <1>12 DEF WriteRotates
  <2>2. MemOrder'
    BY <2>1 DEF TypeOK, MemInv, MemOrder
  <2>3. ASSUME NEW d \in Caller
        PROVE  /\ target'[d] <= rotated' /\ (pc'[d] = "idle" => target'[d] = 0)
               /\ WriteLeaves /\ target'[d] # 0 /\ status'[d] = "ok"
                    /\ pc'[d] \in {"manual", "manualWait", "returned"}
                    => flushed' >= target'[d]
    <3>1. CASE d = c
      BY <2>1, <3>1, LeaveWriteMem DEF TypeOK, MemInv, Targets
    <3>2. CASE d # c
      BY <2>1, <3>2, LeaveWriteMem DEF TypeOK, MemInv, Targets, FlushedWhenOk
    <3> QED BY <3>1, <3>2
  <2>4. Targets'
    BY <2>1, <2>3 DEF TypeOK, Targets
  <2>5. FlushedWhenOk'
    BY <2>3 DEF FlushedWhenOk
  <2> QED BY <2>2, <2>4, <2>5 DEF MemInv
<1>13. ASSUME NEW c \in Caller, FlushLoop(c) PROVE MemInv'
  <2>1. /\ pc[c] = "flush" /\ UNCHANGED <<bg, imm_, rotated, flushed, target>>
    BY <1>13 DEF FlushLoop, memVars
  <2>2. target[c] <= rotated + 1 /\ (WriteLeaves => target[c] <= rotated)
    BY <2>1 DEF MemInv, Targets
  <2>3. CASE imm_ # 0 /\ ~bg_error_
    <3>1. pc' = [pc EXCEPT ![c] = "flushWait"] /\ UNCHANGED status
      BY <1>13, <2>3 DEF FlushLoop
    <3> QED BY <2>1, <2>2, <3>1, CallerMem DEF TypeOK
  <2>4. CASE ~(imm_ # 0 /\ ~bg_error_)
    <3>1. /\ NextLevel(c)
          /\ status' = [status EXCEPT ![c] = IF imm_ # 0 THEN "error" ELSE "ok"]
      BY <1>13, <2>4 DEF FlushLoop
    <3>2. imm_ = 0 => flushed = rotated
      BY DEF MemInv, MemOrder
    <3>3. WriteLeaves /\ status'[c] = "ok" => flushed >= target[c]
      BY <2>2, <3>1, <3>2 DEF TypeOK
    <3>4. \A d \in Caller \ {c} : pc'[d] = pc[d] /\ status'[d] = status[d]
      BY <3>1, NextLevelMem DEF TypeOK
    <3>5. pc'[c] \in {"manual", "returned"}
      BY <3>1, NextLevelMem
    <3> QED BY <2>1, <2>2, <3>3, <3>4, <3>5, CallerMem
  <2> QED BY <2>3, <2>4
<1>14. ASSUME NEW c \in Caller, LeaveManual(c) PROVE MemInv'
  <2>1. /\ pc[c] = "manual" /\ NextLevel(c)
        /\ UNCHANGED <<bg, imm_, rotated, flushed, target, status>>
    BY <1>14 DEF LeaveManual, memVars
  <2> QED
    BY <2>1, NextLevelMem, CallerMem DEF MemInv, Targets, FlushedWhenOk
<1>15. ASSUME NEW c \in Caller, ManualLoop(c) PROVE MemInv'
  <2>1. /\ pc[c] = "manual" /\ pc' = [pc EXCEPT ![c] = "manualWait"]
        /\ UNCHANGED <<bg, imm_, rotated, flushed, target, status>>
    BY <1>15 DEF ManualLoop, memVars
  <2> QED
    BY <2>1, CallerMem DEF TypeOK, MemInv, Targets, FlushedWhenOk
<1>16. CASE \/ RecordReadSample \/ BeginClose \/ CloseLoop \/ SpuriousClose
           \/ UNCHANGED vars
  BY <1>16 DEF RecordReadSample, BeginClose, CloseLoop, SpuriousClose,
               DtorUnchanged, vars, memVars, MemInv, MemOrder, Targets, FlushedWhenOk
<1> QED
  BY <1>1, <1>2, <1>3, <1>4, <1>5, <1>6, <1>7, <1>8, <1>9, <1>10, <1>11, <1>12,
     <1>13, <1>14, <1>15, <1>16
  DEF Next, WorkerStep, CallerStep, Terminated

-----------------------------------------------------------------------------
(* The inductive invariant, and what follows from it.                      *)
THEOREM Invariance == Spec => []IndInv
<1>1. Init => IndInv
  BY TypeInit, SchedInit, ManualInit, MemInit DEF IndInv
<1>2. IndInv /\ [Next]_vars => IndInv'
  BY TypeNext, SchedNext, ManualNext, MemNext DEF IndInv, ManualInv
<1> QED
  BY <1>1, <1>2, PTL DEF Spec

(* Every reachable state of the background machinery is well typed; in     *)
(* particular the range of a manual compaction is never advanced past its  *)
(* end.                                                                    *)
THEOREM TypeCorrect == Spec => []TypeOK
<1>1. IndInv => TypeOK
  BY DEF IndInv
<1> QED BY <1>1, Invariance, PTL

(* bg_compaction_scheduled_ is exact, however many threads the pool has.   *)
THEOREM OneTask == Spec => []OneBackgroundTask
<1>1. IndInv => OneBackgroundTask
  BY DEF IndInv, SchedInv
<1> QED BY <1>1, Invariance, PTL

(* Every place that creates background work has it scheduled.              *)
THEOREM WorkScheduled == Spec => []NoForgottenWork
<1>1. IndInv => NoForgottenWork
  BY DEF IndInv, SchedInv
<1> QED BY <1>1, Invariance, PTL

(* ~DBImpl frees nothing while the background thread is at work, and a     *)
(* background error is the last thing that happens in the background.      *)
THEOREM EndIsFinal == Spec => []NoWorkAfterEnd
<1>1. IndInv => NoWorkAfterEnd
  BY DEF IndInv, SchedInv
<1> QED BY <1>1, Invariance, PTL

(* manual_compaction_ never points into a frame that is gone, even when    *)
(* the database is closed under a caller.                                  *)
THEOREM ManualAlive == Spec => []NoDanglingManual
<1>1. IndInv => NoDanglingManual
  BY DEF IndInv, ManualInv, Posted, NoDanglingManual, TypeOK
<1> QED BY <1>1, Invariance, PTL

(* If no database is deleted while calls are in progress, BackgroundCall   *)
(* never dereferences a NULL ManualCompaction*.                            *)
THEOREM ManualSafe ==
  ASSUME ~CloseWhileBusy
  PROVE  Spec => []NoNullManual
<1>1. IndInv => NoNullManual
  BY DEF IndInv, ManualInv
<1> QED BY <1>1, Invariance, PTL

(* An ok from TEST_CompactMemTable means that what was in the memtable is  *)
(* in a table, whatever other callers and the background thread do.        *)
THEOREM FlushCorrect == Spec => []FlushedWhenOk
<1>1. IndInv => FlushedWhenOk
  BY DEF IndInv, MemInv
<1> QED BY <1>1, Invariance, PTL

(* No memtable is lost or installed out of order.                          *)
THEOREM MemtablesInOrder == Spec => ImmInOrder
<1> DEFINE InOrder == /\ imm_' # imm_ => imm_ = 0 \/ (imm_' = 0 /\ flushed' = imm_)
                      /\ flushed' # flushed => flushed' = flushed + 1
<1>1. IndInv /\ [Next]_vars => [InOrder]_vars
  <2> SUFFICES ASSUME IndInv, Next PROVE InOrder
    BY DEF InOrder
  <2>1. ASSUME NEW w \in Worker, WorkerStep(w) PROVE InOrder
    <3>1. ASSUME NEW ok \in BOOLEAN, InstallDone(w, ok) PROVE InOrder
      <4>1. imm_ = flushed + 1
        BY <3>1 DEF InstallDone, IndInv, MemInv, MemOrder
      <4> QED BY <3>1, <4>1 DEF InstallDone
    <3>2. ASSUME NEW ok \in BOOLEAN,
                 BuildDone(w, ok) \/ MoveDone(w, ok) \/ WorkDone(w, ok)
          PROVE  InOrder
      BY <3>2 DEF BuildDone, MoveDone, WorkDone, Goto, memVars
    <3>3. CASE SkipWork(w) \/ StartCompactMemtable(w) \/ PickNothing(w)
                 \/ StartTrivialMove(w) \/ StartCompactionWork(w)
      BY <3>3 DEF SkipWork, StartCompactMemtable, PickNothing,
                  StartTrivialMove, StartCompactionWork, Goto, memVars
    <3> QED BY <2>1, <3>1, <3>2, <3>3 DEF WorkerStep
  <2>2. ASSUME NEW c \in Caller, CallerStep(c) PROVE InOrder
    BY <2>2 DEF CallerStep, WriteFails, WriteFits, WriteWaits, WriteRotates,
                FlushLoop, LeaveManual, ManualLoop, memVars
  <2>3. ASSUME NEW c \in Caller,
               Put(c) \/ CompactRange(c) \/ TEST_CompactMemTable(c)
                 \/ TEST_CompactRange(c) \/ Spurious(c)
        PROVE  InOrder
    BY <2>3 DEF Put, CompactRange, TEST_CompactMemTable, TEST_CompactRange,
                Spurious, CallUnchanged, memVars
  <2>4. ASSUME NEW w \in Worker, RunBGWork(w) PROVE InOrder
    BY <2>4 DEF RunBGWork, memVars
  <2>5. CASE \/ RecordReadSample \/ BeginClose \/ CloseLoop \/ SpuriousClose
            \/ Terminated
    BY <2>5 DEF RecordReadSample, BeginClose, CloseLoop, SpuriousClose,
                Terminated, DtorUnchanged, vars, memVars
  <2> QED BY <2>1, <2>2, <2>3, <2>4, <2>5 DEF Next
<1> QED
  BY <1>1, Invariance, PTL DEF Spec, ImmInOrder

=============================================================================
