---------------------------- MODULE DBBackground ----------------------------
(***************************************************************************)
(* The background side of DBImpl (db/dp_impl.cpp): how compactions are     *)
(* scheduled, run and waited for, how Write, CompactRange and the TEST_    *)
(* entry points meet them, and how the destructor waits for them.          *)
(*                                                                         *)
(* Every function modelled here runs under DBImpl::mutex_.  An action is   *)
(* one critical section: from taking the mutex (or returning from a Wait)  *)
(* to the next place where the code gives it up, which is the end of the   *)
(* function, a Wait, or one of the windows in which the background thread  *)
(* runs unlocked (BuildTable, LogAndApply, DoCompactionWork).  Between two *)
(* critical sections any thread may run.  What the same critical sections  *)
(* do to the files is the subject of DBRecovery.                           *)
(*                                                                         *)
(* Outside the repository, and modelled from how it is used: the thread    *)
(* pool behind Env::Schedule, MakeRoomForWrite, RecordReadSample, the      *)
(* VersionSet's answers (NeedsCompaction, PickCompaction, CompactRange,    *)
(* IsTrivialMove) and the end of Write.  The repository has Write up to    *)
(* BuildBatchGroup only: nothing takes the writer off writers_ and nothing *)
(* is returned.  WriteLeaves says whether that missing end is supplied.    *)
(***************************************************************************)
EXTENDS Naturals, Sequences

CONSTANTS
  Caller,         \* threads that use the database, one call each
  Worker,         \* threads of the pool behind Env::Schedule
  NULL,           \* no manual compaction
  MaxLevels,      \* bound: levels one CompactRange call compacts
  MaxChunks,      \* bound: pieces a manual range is compacted in
  WriteLeaves,    \* does Write pop writers_, signal the next and return?
  CloseWhileBusy  \* may the DB be deleted while calls are in progress?

ASSUME BackgroundAssumption ==
  /\ NULL \notin Caller
  /\ MaxLevels \in Nat \ {0}
  /\ MaxChunks \in Nat
  /\ WriteLeaves \in BOOLEAN
  /\ CloseWhileBusy \in BOOLEAN

VARIABLES
  (* DBImpl members, all guarded by mutex_ *)
  bg_compaction_scheduled_, shutting_down_,
  bg_error_,           \* TRUE iff bg_error_ is not ok()
  imm_,                \* number of the immutable memtable, 0 for NULL
  manual_compaction_,  \* the caller whose ManualCompaction it points to
  writers_,            \* the callers whose Writer is in the deque
  needs,               \* what versions_->NeedsCompaction() answers
  (* the thread pool and its threads *)
  queue,               \* BGWork items scheduled and not yet picked up
  bg,                  \* where each pool thread is in BackgroundCall
  taken,               \* caller whose request a pool thread took up, or NULL
  (* the calling threads *)
  pc,                  \* where each caller is
  levels,              \* TEST_CompactRange calls still to be made
  done,                \* ManualCompaction::done of the caller's request
  left,                \* pieces of the request's range not yet compacted
  target,              \* memtable the call must get flushed, 0 for Put
  status,              \* Status the caller's Write or flush has come to
  (* the destructor, and observations *)
  dtor,                \* where ~DBImpl is
  rotated,             \* memtables made immutable so far
  flushed,             \* last memtable installed as a table
  fault                \* a NULL ManualCompaction* was dereferenced

schedVars == <<bg_compaction_scheduled_, queue>>
memVars == <<imm_, rotated, flushed>>
reqVars == <<levels, done, left>>
vars == <<schedVars, shutting_down_, bg_error_, manual_compaction_, writers_,
          needs, bg, taken, pc, reqVars, target, status, dtor, memVars, fault>>

BgState == {"idle", "called", "build", "install", "move", "work"}
PcState == {"idle", "write", "writeWait", "flush", "flushWait", "manual",
            "manualWait", "returned"}

TypeOK ==
  /\ bg_compaction_scheduled_ \in BOOLEAN
  /\ shutting_down_ \in BOOLEAN
  /\ bg_error_ \in BOOLEAN
  /\ imm_ \in Nat
  /\ manual_compaction_ \in Caller \cup {NULL}
  /\ writers_ \in Seq(Caller)
  /\ needs \in BOOLEAN
  /\ queue \in Nat
  /\ bg \in [Worker -> BgState]
  /\ taken \in [Worker -> Caller \cup {NULL}]
  /\ pc \in [Caller -> PcState]
  /\ levels \in [Caller -> 0..MaxLevels]
  /\ done \in [Caller -> BOOLEAN]
  /\ left \in [Caller -> 0..MaxChunks]
  /\ target \in [Caller -> Nat]
  /\ status \in [Caller -> {"none", "ok", "error"}]
  /\ dtor \in {"none", "loop", "wait", "gone"}
  /\ rotated \in Nat
  /\ flushed \in Nat
  /\ fault \in BOOLEAN

-----------------------------------------------------------------------------
(* MaybeScheduleCompaction: the conditions under which it calls Schedule,  *)
(* and its effect given the value s that bg_compaction_scheduled_ has when *)
(* it is called.  It reads the state its caller has just produced.         *)
(* (HasWorkWithoutImm is a mutant.)                                        *)
HasWorkWithoutImm == manual_compaction_ # NULL \/ needs

HasWork == imm_ # 0 \/ manual_compaction_ # NULL \/ needs

MaySchedule == ~shutting_down_ /\ ~bg_error_ /\ HasWork

(* Mutant: bg_compaction_scheduled_ is not looked at.                      *)
MaybeScheduleCompactionAgain(s) ==
  /\ bg_compaction_scheduled_' = (s \/ MaySchedule')
  /\ queue' = IF MaySchedule' THEN queue + 1 ELSE queue

MaybeScheduleCompaction(s) ==
  /\ bg_compaction_scheduled_' = (s \/ MaySchedule')
  /\ queue' = IF ~s /\ MaySchedule' THEN queue + 1 ELSE queue

(* bg_cv_.SignalAll(): every waiting thread goes back to its loop test.    *)
Woken(p) == IF p = "writeWait" THEN "write"
            ELSE IF p = "flushWait" THEN "flush"
            ELSE IF p = "manualWait" THEN "manual"
            ELSE p

SignalAll ==
  /\ pc' = [c \in Caller |-> Woken(pc[c])]
  /\ dtor' = IF dtor = "wait" THEN "loop" ELSE dtor

(* DB::Open has just published the database and called                     *)
(* MaybeScheduleCompaction.                                                *)
Init ==
  /\ shutting_down_ = FALSE
  /\ bg_error_ = FALSE
  /\ imm_ = 0
  /\ manual_compaction_ = NULL
  /\ writers_ = <<>>
  /\ needs \in BOOLEAN
  /\ bg_compaction_scheduled_ = needs
  /\ queue = IF needs THEN 1 ELSE 0
  /\ bg = [w \in Worker |-> "idle"]
  /\ taken = [w \in Worker |-> NULL]
  /\ pc = [c \in Caller |-> "idle"]
  /\ levels = [c \in Caller |-> 0]
  /\ done = [c \in Caller |-> FALSE]
  /\ left = [c \in Caller |-> 0]
  /\ target = [c \in Caller |-> 0]
  /\ status = [c \in Caller |-> "none"]
  /\ dtor = "none"
  /\ rotated = 0
  /\ flushed = 0
  /\ fault = FALSE

-----------------------------------------------------------------------------
(* The pool thread w.                                                      *)

(* The pool picks up a BGWork item.                                        *)
RunBGWork(w) ==
  /\ queue > 0
  /\ bg[w] = "idle"
  /\ queue' = queue - 1
  /\ bg' = [bg EXCEPT ![w] = "called"]
  /\ UNCHANGED <<bg_compaction_scheduled_, shutting_down_, bg_error_,
                 manual_compaction_, writers_, needs, taken, pc, reqVars,
                 target, status, dtor, memVars, fault>>

(* Mutants: BackgroundCall does not look for more work; it wakes nobody.   *)
FinishWithoutReschedule(w) ==
  /\ bg' = [bg EXCEPT ![w] = "idle"]
  /\ SignalAll
  /\ UNCHANGED <<shutting_down_, writers_, levels, target, status, rotated>>
  /\ bg_compaction_scheduled_' = FALSE
  /\ UNCHANGED queue

FinishWithoutSignal(w) ==
  /\ bg' = [bg EXCEPT ![w] = "idle"]
  /\ UNCHANGED <<pc, dtor>>
  /\ UNCHANGED <<shutting_down_, writers_, levels, target, status, rotated>>
  /\ MaybeScheduleCompaction(FALSE)

(* The end of BackgroundCall: clear the flag, look for more work (the task *)
(* may have produced too many files), wake everyone.                       *)
Finish(w) ==
  /\ bg' = [bg EXCEPT ![w] = "idle"]
  /\ SignalAll
  /\ UNCHANGED <<shutting_down_, writers_, levels, target, status, rotated>>
  /\ MaybeScheduleCompaction(FALSE)

(* Mutant: BackgroundCall returns early and leaves the flag set.           *)
SkipWorkAndReturn(w) ==
  /\ bg[w] = "called"
  /\ shutting_down_ \/ bg_error_
  /\ bg' = [bg EXCEPT ![w] = "idle"]
  /\ SignalAll
  /\ UNCHANGED <<schedVars, shutting_down_, bg_error_, manual_compaction_,
                 writers_, needs, taken, reqVars, target, status, memVars,
                 fault>>

(* BackgroundCall finds the database shutting down or in error.            *)
SkipWork(w) ==
  /\ bg[w] = "called"
  /\ shutting_down_ \/ bg_error_
  /\ UNCHANGED <<bg_error_, manual_compaction_, needs, taken, done, left,
                 imm_, flushed, fault>>
  /\ Finish(w)

(* BackgroundCompaction decides what to do, in the order of the code: the  *)
(* immutable memtable, then a manual request, then an automatic one.       *)
Working(w) == bg[w] = "called" /\ ~shutting_down_ /\ ~bg_error_

Goto(w, state) ==
  /\ bg' = [bg EXCEPT ![w] = state]
  /\ UNCHANGED <<schedVars, shutting_down_, bg_error_, manual_compaction_,
                 writers_, needs, pc, levels, left, target, status, dtor,
                 memVars, fault>>

(* CompactMemtable begins, and unlocks in WriteLevel10Table.               *)
StartCompactMemtable(w) ==
  /\ Working(w)
  /\ imm_ # 0
  /\ Goto(w, "build")
  /\ UNCHANGED <<taken, done>>

(* versions_->CompactRange or PickCompaction answers NULL.  A manual       *)
(* request with nothing left is then done.                                 *)
PickNothing(w) ==
  /\ Working(w)
  /\ imm_ = 0
  /\ IF manual_compaction_ # NULL
     THEN /\ left[manual_compaction_] = 0
          /\ done' = [done EXCEPT ![manual_compaction_] = TRUE]
          /\ manual_compaction_' = NULL
     ELSE /\ ~needs
          /\ UNCHANGED <<done, manual_compaction_>>
  /\ UNCHANGED <<bg_error_, needs, taken, left, imm_, flushed, fault>>
  /\ Finish(w)

(* An automatic compaction that is a trivial move: LogAndApply unlocks.    *)
StartTrivialMove(w) ==
  /\ Working(w)
  /\ imm_ = 0
  /\ manual_compaction_ = NULL
  /\ needs
  /\ Goto(w, "move")
  /\ UNCHANGED <<taken, done>>

(* DoCompactionWork begins and unlocks.  For a manual request m->done has  *)
(* been set to FALSE, and is_manual is remembered.                         *)
StartCompactionWork(w) ==
  /\ Working(w)
  /\ imm_ = 0
  /\ IF manual_compaction_ # NULL
     THEN /\ left[manual_compaction_] > 0
          /\ done' = [done EXCEPT ![manual_compaction_] = FALSE]
     ELSE needs /\ UNCHANGED done
  /\ taken' = [taken EXCEPT ![w] = manual_compaction_]
  /\ Goto(w, "work")

(* What RecordBackgroundError leaves, given whether the step succeeded.    *)
(* Its SignalAll is subsumed by the one that ends BackgroundCall: both are *)
(* in the same critical section.                                           *)
RecordBackgroundError(ok) == bg_error_' = (bg_error_ \/ ~ok)

(* WriteLevel10Table has relocked.  A shutdown turns success into an       *)
(* error; otherwise LogAndApply is entered, which unlocks again.           *)
BuildDone(w, ok) ==
  /\ bg[w] = "build"
  /\ IF ok /\ ~shutting_down_
     THEN Goto(w, "install") /\ UNCHANGED <<taken, done>>
     ELSE /\ RecordBackgroundError(FALSE)
          /\ UNCHANGED <<manual_compaction_, needs, taken, done, left, imm_,
                         flushed, fault>>
          /\ Finish(w)

(* LogAndApply of CompactMemtable has relocked.  The new table may call    *)
(* for a compaction.                                                       *)
InstallDone(w, ok) ==
  /\ bg[w] = "install"
  /\ imm_' = IF ok THEN 0 ELSE imm_
  /\ flushed' = IF ok THEN imm_ ELSE flushed
  /\ needs' \in IF ok THEN BOOLEAN ELSE {needs}
  /\ RecordBackgroundError(ok)
  /\ UNCHANGED <<manual_compaction_, taken, done, left, fault>>
  /\ Finish(w)

(* LogAndApply of the trivial move has relocked.                           *)
MoveDone(w, ok) ==
  /\ bg[w] = "move"
  /\ needs' \in IF ok THEN BOOLEAN ELSE {needs}
  /\ RecordBackgroundError(ok)
  /\ UNCHANGED <<manual_compaction_, taken, done, left, imm_, flushed, fault>>
  /\ Finish(w)

(* The manual part of BackgroundCompaction's end: manual_compaction_ is    *)
(* read AGAIN, m->done set on failure, the range advanced otherwise.       *)
EndManual(ok) ==
  LET m == manual_compaction_ IN
  IF m = NULL
  THEN fault' = TRUE /\ UNCHANGED <<manual_compaction_, done, left>>
  ELSE /\ done' = [done EXCEPT ![m] = done[m] \/ ~ok]
       /\ left' = IF done'[m] THEN left ELSE [left EXCEPT ![m] = @ - 1]
       /\ manual_compaction_' = NULL
       /\ UNCHANGED fault

(* DoCompactionWork has relocked; CleanupCompaction and DeleteObsoleteFiles*)
(* follow in the same critical section.                                    *)
WorkDone(w, ok) ==
  /\ bg[w] = "work"
  /\ needs' \in IF ok THEN BOOLEAN ELSE {needs}
  /\ RecordBackgroundError(ok)
  /\ taken' = [taken EXCEPT ![w] = NULL]
  /\ IF taken[w] # NULL
     THEN EndManual(ok)
     ELSE UNCHANGED <<manual_compaction_, done, left, fault>>
  /\ UNCHANGED <<imm_, flushed>>
  /\ Finish(w)

WorkerStep(w) ==
  \/ SkipWork(w)
  \/ StartCompactMemtable(w)
  \/ PickNothing(w)
  \/ StartTrivialMove(w)
  \/ StartCompactionWork(w)
  \/ \E ok \in BOOLEAN : \/ BuildDone(w, ok)
                         \/ InstallDone(w, ok)
                         \/ MoveDone(w, ok)
                         \/ WorkDone(w, ok)

-----------------------------------------------------------------------------
(* The calling thread c.                                                   *)

(* A ManualCompaction is built on the stack and TEST_CompactRange entered; *)
(* n is how many pieces its range will turn out to have.                   *)
EnterCompactRange(c, n) ==
  /\ pc' = [pc EXCEPT ![c] = "manual"]
  /\ done' = [done EXCEPT ![c] = FALSE]
  /\ left' = [left EXCEPT ![c] = n]

(* Mutant: the loop over the levels runs once more.                        *)
NextLevelOnceMore(c) ==
  /\ levels' = [levels EXCEPT ![c] = @ - 1]
  /\ \E n \in 0..MaxChunks : EnterCompactRange(c, n)

(* CompactRange's loop over the levels, and the return from it.            *)
NextLevel(c) ==
  IF levels[c] = 0
  THEN pc' = [pc EXCEPT ![c] = "returned"] /\ UNCHANGED reqVars
  ELSE /\ levels' = [levels EXCEPT ![c] = @ - 1]
       /\ \E n \in 0..MaxChunks : EnterCompactRange(c, n)

(* The caller enters Write, with a batch (Put) or with NULL, and queues.   *)
(* k is the number of levels CompactRange found files in, 0 for the other  *)
(* two calls.                                                              *)
EnterWrite(c, batch, k) ==
  /\ pc' = [pc EXCEPT ![c] = "write"]
  /\ writers_' = Append(writers_, c)
  /\ target' = [target EXCEPT ![c] = IF batch THEN 0 ELSE rotated + 1]
  /\ levels' = [levels EXCEPT ![c] = k]
  /\ UNCHANGED <<done, left>>

CallUnchanged ==
  UNCHANGED <<schedVars, shutting_down_, bg_error_, manual_compaction_, needs,
              bg, taken, status, dtor, memVars, fault>>

Put(c) ==
  /\ pc[c] = "idle" /\ dtor = "none"
  /\ EnterWrite(c, TRUE, 0)
  /\ CallUnchanged

CompactRange(c) ==
  /\ pc[c] = "idle" /\ dtor = "none"
  /\ \E k \in 1..MaxLevels : EnterWrite(c, FALSE, k)
  /\ CallUnchanged

TEST_CompactMemTable(c) ==
  /\ pc[c] = "idle" /\ dtor = "none"
  /\ EnterWrite(c, FALSE, 0)
  /\ CallUnchanged

TEST_CompactRange(c) ==
  /\ pc[c] = "idle" /\ dtor = "none"
  /\ \E n \in 0..MaxChunks : EnterCompactRange(c, n)
  /\ UNCHANGED <<levels, target, writers_>>
  /\ CallUnchanged

(* The end of Write with MakeRoomForWrite's status st.  As the source      *)
(* stands c stays at the head of writers_ and the returned Status is       *)
(* undefined; otherwise c leaves and st is returned.                       *)
LeaveWrite(c, st) ==
  /\ IF WriteLeaves
     THEN writers_' = Tail(writers_) /\ status' = [status EXCEPT ![c] = st]
     ELSE /\ UNCHANGED writers_
          /\ \E r \in {"ok", "error"} : status' = [status EXCEPT ![c] = r]
  /\ IF target[c] = 0
     THEN pc' = [pc EXCEPT ![c] = "returned"] /\ UNCHANGED reqVars
     ELSE IF status'[c] = "ok"
     THEN pc' = [pc EXCEPT ![c] = "flush"] /\ UNCHANGED reqVars
     ELSE NextLevel(c)

(* c's turn in Write: MakeRoomForWrite reports a background error, finds   *)
(* room (unless the batch is NULL), waits for the previous memtable, or    *)
(* makes the memtable immutable and asks for a compaction.                 *)
AtHead(c) == pc[c] = "write" /\ writers_ # <<>> /\ Head(writers_) = c

WriteFails(c) ==
  /\ AtHead(c)
  /\ bg_error_
  /\ LeaveWrite(c, "error")
  /\ UNCHANGED <<schedVars, shutting_down_, bg_error_, manual_compaction_,
                 needs, bg, taken, target, dtor, memVars, fault>>

WriteFits(c) ==
  /\ AtHead(c)
  /\ ~bg_error_
  /\ target[c] = 0
  /\ LeaveWrite(c, "ok")
  /\ UNCHANGED <<schedVars, shutting_down_, bg_error_, manual_compaction_,
                 needs, bg, taken, target, dtor, memVars, fault>>

WriteWaits(c) ==
  /\ AtHead(c)
  /\ ~bg_error_
  /\ imm_ # 0
  /\ pc' = [pc EXCEPT ![c] = "writeWait"]
  /\ UNCHANGED <<schedVars, shutting_down_, bg_error_, manual_compaction_,
                 writers_, needs, bg, taken, reqVars, target, status, dtor,
                 memVars, fault>>

(* Mutant: the immutable memtable is overwritten.                          *)
WriteRotatesTwice(c) ==
  /\ AtHead(c)
  /\ ~bg_error_
  /\ imm_' = rotated + 1
  /\ rotated' = rotated + 1
  /\ LeaveWrite(c, "ok")
  /\ UNCHANGED <<shutting_down_, bg_error_, manual_compaction_, needs, bg,
                 taken, target, dtor, flushed, fault>>
  /\ MaybeScheduleCompaction(bg_compaction_scheduled_)

WriteRotates(c) ==
  /\ AtHead(c)
  /\ ~bg_error_
  /\ imm_ = 0
  /\ imm_' = rotated + 1
  /\ rotated' = rotated + 1
  /\ LeaveWrite(c, "ok")
  /\ UNCHANGED <<shutting_down_, bg_error_, manual_compaction_, needs, bg,
                 taken, target, dtor, flushed, fault>>
  /\ MaybeScheduleCompaction(bg_compaction_scheduled_)

(* Mutant: bg_error_ is not returned.                                      *)
FlushLoopReturnsOk(c) ==
  /\ pc[c] = "flush"
  /\ IF imm_ # 0 /\ ~bg_error_
     THEN /\ pc' = [pc EXCEPT ![c] = "flushWait"]
          /\ UNCHANGED <<reqVars, status>>
     ELSE /\ status' = [status EXCEPT ![c] = "ok"]
          /\ NextLevel(c)
  /\ UNCHANGED <<schedVars, shutting_down_, bg_error_, manual_compaction_,
                 writers_, needs, bg, taken, target, dtor, memVars, fault>>

(* The loop of TEST_CompactMemTable.                                       *)
FlushLoop(c) ==
  /\ pc[c] = "flush"
  /\ IF imm_ # 0 /\ ~bg_error_
     THEN /\ pc' = [pc EXCEPT ![c] = "flushWait"]
          /\ UNCHANGED <<reqVars, status>>
     ELSE /\ status' = [status EXCEPT ![c] = IF imm_ # 0 THEN "error" ELSE "ok"]
          /\ NextLevel(c)
  /\ UNCHANGED <<schedVars, shutting_down_, bg_error_, manual_compaction_,
                 writers_, needs, bg, taken, target, dtor, memVars, fault>>

(* Mutants: the request is not cancelled; whatever is pending is cancelled.*)
LeaveManualPosted(c) ==
  /\ pc[c] = "manual"
  /\ done[c] \/ shutting_down_ \/ bg_error_
  /\ NextLevel(c)
  /\ UNCHANGED <<schedVars, shutting_down_, bg_error_, manual_compaction_,
                 writers_, needs, bg, taken, target, status, dtor, memVars,
                 fault>>

LeaveManualCancelsAny(c) ==
  /\ pc[c] = "manual"
  /\ done[c] \/ shutting_down_ \/ bg_error_
  /\ manual_compaction_' = NULL
  /\ NextLevel(c)
  /\ UNCHANGED <<schedVars, shutting_down_, bg_error_, writers_, needs, bg,
                 taken, target, status, dtor, memVars, fault>>

(* The loop of TEST_CompactRange: leave it, cancelling a request that is   *)
(* still pending; or post the request if none is; then wait.               *)
LeaveManual(c) ==
  /\ pc[c] = "manual"
  /\ done[c] \/ shutting_down_ \/ bg_error_
  /\ manual_compaction_' =
       IF manual_compaction_ = c THEN NULL ELSE manual_compaction_
  /\ NextLevel(c)
  /\ UNCHANGED <<schedVars, shutting_down_, bg_error_, writers_, needs, bg,
                 taken, target, status, dtor, memVars, fault>>

ManualLoop(c) ==
  /\ pc[c] = "manual"
  /\ ~done[c] /\ ~shutting_down_ /\ ~bg_error_
  /\ pc' = [pc EXCEPT ![c] = "manualWait"]
  /\ UNCHANGED <<shutting_down_, bg_error_, writers_, needs, bg, taken,
                 reqVars, target, status, dtor, memVars, fault>>
  /\ IF manual_compaction_ = NULL
     THEN /\ manual_compaction_' = c
          /\ MaybeScheduleCompaction(bg_compaction_scheduled_)
     ELSE UNCHANGED <<schedVars, manual_compaction_>>

CallerStep(c) ==
  \/ WriteFails(c)
  \/ WriteFits(c)
  \/ WriteWaits(c)
  \/ WriteRotates(c)
  \/ FlushLoop(c)
  \/ LeaveManual(c)
  \/ ManualLoop(c)

(* bg_cv_.Wait returns with no signal (in the destructor: SpuriousClose).  *)
Spurious(c) ==
  /\ Woken(pc[c]) # pc[c]
  /\ pc' = [pc EXCEPT ![c] = Woken(@)]
  /\ UNCHANGED <<schedVars, shutting_down_, bg_error_, manual_compaction_,
                 writers_, needs, bg, taken, reqVars, target, status, dtor,
                 memVars, fault>>

(* A read charges a seek to a file and asks for a compaction.              *)
RecordReadSample ==
  /\ dtor = "none"
  /\ ~needs
  /\ needs' = TRUE
  /\ UNCHANGED <<shutting_down_, bg_error_, manual_compaction_, writers_, bg,
                 taken, pc, reqVars, target, status, dtor, memVars, fault>>
  /\ MaybeScheduleCompaction(bg_compaction_scheduled_)

-----------------------------------------------------------------------------
(* ~DBImpl: raise the flag, wait for the background task, free everything. *)
DtorUnchanged ==
  UNCHANGED <<schedVars, bg_error_, manual_compaction_, writers_, needs, bg,
              taken, pc, reqVars, target, status, memVars, fault>>

BeginClose ==
  /\ dtor = "none"
  /\ CloseWhileBusy \/ \A c \in Caller : pc[c] \in {"idle", "returned"}
  /\ shutting_down_' = TRUE
  /\ dtor' = "loop"
  /\ DtorUnchanged

(* Mutant: the destructor does not wait for the background task.           *)
CloseLoopAtOnce ==
  /\ dtor = "loop"
  /\ dtor' = "gone"
  /\ UNCHANGED shutting_down_
  /\ DtorUnchanged

CloseLoop ==
  /\ dtor = "loop"
  /\ dtor' = IF bg_compaction_scheduled_ THEN "wait" ELSE "gone"
  /\ UNCHANGED shutting_down_
  /\ DtorUnchanged

SpuriousClose ==
  /\ dtor = "wait"
  /\ dtor' = "loop"
  /\ UNCHANGED shutting_down_
  /\ DtorUnchanged

Terminated == dtor = "gone" /\ UNCHANGED vars

Next ==
  \/ /\ ~fault
     /\ dtor # "gone"
     /\ \/ \E w \in Worker : RunBGWork(w) \/ WorkerStep(w)
        \/ \E c \in Caller : \/ Put(c)
                             \/ CompactRange(c)
                             \/ TEST_CompactMemTable(c)
                             \/ TEST_CompactRange(c)
                             \/ CallerStep(c)
                             \/ Spurious(c)
        \/ RecordReadSample
        \/ BeginClose
        \/ CloseLoop
        \/ SpuriousClose
  \/ Terminated

(* Mutex and condition variables are fair enough to let every thread that  *)
(* can run do so: the pool starts what is queued, a background thread      *)
(* finishes what it has begun, and a caller or the destructor that has     *)
(* been woken looks at its condition.  Nobody is forced to make a call, to *)
(* read, to close the database, or to wake up spuriously.                  *)
Running == ~fault /\ dtor # "gone"

Fairness ==
  /\ WF_vars(Running /\ \E w \in Worker : RunBGWork(w))
  /\ \A w \in Worker : WF_vars(Running /\ WorkerStep(w))
  /\ \A c \in Caller : WF_vars(Running /\ CallerStep(c))
  /\ WF_vars(Running /\ CloseLoop)

Spec == Init /\ [][Next]_vars

FairSpec == Spec /\ Fairness

-----------------------------------------------------------------------------
(* bg_compaction_scheduled_ is exact: it is set if and only if one BGWork  *)
(* item is queued or one pool thread is inside BackgroundCall, and there   *)
(* is never a second one.  Env::Schedule does not serialize items, so this *)
(* flag alone keeps two compactions from running at once, and the          *)
(* assertion at the head of BackgroundCall relies on it.                   *)
OneBackgroundTask ==
  /\ bg_compaction_scheduled_ <=> queue = 1 \/ \E w \in Worker : bg[w] # "idle"
  /\ queue \in {0, 1}
  /\ queue = 1 => \A w \in Worker : bg[w] = "idle"
  /\ \A v, w \in Worker : bg[v] # "idle" /\ bg[w] # "idle" => v = w

(* No wakeup is lost: whenever MaybeScheduleCompaction would schedule,     *)
(* something is scheduled already.  Every place that creates work (a full  *)
(* memtable, a manual request, a compaction that leaves a level too big)   *)
(* must call it, BackgroundCall only after it has cleared the flag.        *)
NoForgottenWork == MaySchedule => bg_compaction_scheduled_

(* After a background error or once the database is destroyed no           *)
(* background thread is inside a compaction: the destructor has waited for *)
(* the task that was running, and the task that fails is the last one.     *)
NoWorkAfterEnd ==
  /\ bg_error_ => \A w \in Worker : bg[w] \in {"idle", "called"}
  /\ dtor = "gone" => queue = 0 /\ \A w \in Worker : bg[w] = "idle"

(* manual_compaction_ points into the stack frame of TEST_CompactRange:    *)
(* the frame it points into is always still there.                         *)
NoDanglingManual ==
  manual_compaction_ # NULL => pc[manual_compaction_] \in {"manual", "manualWait"}

(* BackgroundCompaction reads manual_compaction_ before and after it runs  *)
(* unlocked, and goes through the second pointer: a caller that leaves     *)
(* TEST_CompactRange in between must not have cleared it.                  *)
NoNullManual == ~fault

(* TEST_CompactMemTable returns ok only if the memtable that was active    *)
(* when it was called has been installed as a table.                       *)
FlushedWhenOk ==
  WriteLeaves =>
    \A c \in Caller :
      /\ target[c] # 0
      /\ status[c] = "ok"
      /\ pc[c] \in {"manual", "manualWait", "returned"}
      => flushed >= target[c]

(* An immutable memtable is never replaced before it is installed, and     *)
(* memtables are installed in the order in which they were filled.         *)
ImmInOrder ==
  [][/\ imm_' # imm_ => imm_ = 0 \/ (imm_' = 0 /\ flushed' = imm_)
     /\ flushed' # flushed => flushed' = flushed + 1]_vars

(* Every call returns, whatever fails in the background.                   *)
CallReturns == \A c \in Caller : pc[c] # "idle" ~> pc[c] = "returned"

(* The destructor, once begun, ends.                                       *)
CloseCompletes == shutting_down_ ~> dtor = "gone"

(* An immutable memtable is eventually written out, unless the database    *)
(* fails or is closed first.                                               *)
ImmDrains == imm_ # 0 ~> imm_ = 0 \/ bg_error_ \/ shutting_down_

=============================================================================
