------------------------------ MODULE FileLocks ------------------------------
(***************************************************************************)
(* Who may have a database open: the LOCK file, which DBImpl::Recover locks*)
(* and the destructor of DBImpl unlocks (db/dp_impl.cpp), with LockOrUnlock*)
(* and PosixLockTable of util/env_posix.cpp.                               *)
(*                                                                         *)
(* Every opener is a thread that opens, uses and closes the database, in a *)
(* process of its own or together with others.  fcntl keeps processes      *)
(* apart, not threads of one process: that is what the table is for.       *)
(*                                                                         *)
(* PosixEnv leaves out LockFile and UnlockFile.  They are taken to use the *)
(* two in the only order that works: the table first and the lock then,    *)
(* the lock released and the descriptor closed before the table forgets    *)
(* the name, since a process that closes any descriptor of a file gives up *)
(* its lock on it.                                                         *)
(*                                                                         *)
(* The names carry the component's, so that a module may extend several.   *)
(***************************************************************************)
EXTENDS Naturals

CONSTANTS
  Opener,      \* threads that open the database
  Process,     \* the processes they are in
  ProcessOf,   \* the process of each
  NoProcess    \* owner of a lock that nobody has

ASSUME LockAssumption ==
  /\ ProcessOf \in [Opener -> Process]
  /\ NoProcess \notin Process

VARIABLES
  locked_files_,  \* processes whose lock table has the name of the LOCK file
  owner,          \* the process that has the lock of the file
  opener          \* where each opener is

lockVars == <<locked_files_, owner, opener>>

LockTypeOK ==
  /\ locked_files_ \subseteq Process
  /\ owner \in Process \cup {NoProcess}
  /\ opener \in [Opener -> {"none", "locking", "open", "unlocked"}]

LockInit ==
  /\ locked_files_ = {}
  /\ owner = NoProcess
  /\ opener = [o \in Opener |-> "none"]

At(o, here, there) == opener[o] = here /\ opener' = [opener EXCEPT ![o] = there]

(* fcntl with F_SETLK.                                                     *)
Lockable(p) == owner \in {NoProcess, p}
Released(p) == IF owner = p THEN NoProcess ELSE owner

-----------------------------------------------------------------------------
(* PosixLockTable::Insert.                                                 *)
LockFile(o) ==
  /\ At(o, "none", "locking")
  /\ ProcessOf[o] \notin locked_files_
  /\ locked_files_' = locked_files_ \cup {ProcessOf[o]}
  /\ UNCHANGED owner

(* Mutant: the file has been opened before Insert, and is closed again.    *)
LockRefusedLate(o) ==
  /\ opener[o] = "none"
  /\ ProcessOf[o] \in locked_files_
  /\ owner' = Released(ProcessOf[o])
  /\ UNCHANGED <<locked_files_, opener>>

(* Insert returns false: DB::Open fails.                                   *)
LockRefused(o) ==
  /\ opener[o] = "none"
  /\ ProcessOf[o] \in locked_files_
  /\ UNCHANGED lockVars

(* LockOrUnlock(fd, true).                                                 *)
LockGranted(o) ==
  /\ At(o, "locking", "open")
  /\ Lockable(ProcessOf[o])
  /\ owner' = ProcessOf[o]
  /\ UNCHANGED locked_files_

(* Mutant: the name stays in the table.                                    *)
LockDeniedKept(o) ==
  /\ At(o, "locking", "none")
  /\ owner' = Released(ProcessOf[o])
  /\ UNCHANGED locked_files_

(* It fails, because another process has the lock or for another reason:   *)
(* the descriptor is closed, the name removed, and DB::Open fails.         *)
LockDenied(o) ==
  /\ At(o, "locking", "none")
  /\ owner' = Released(ProcessOf[o])
  /\ locked_files_' = locked_files_ \ {ProcessOf[o]}

(* The destructor calls UnlockFile: LockOrUnlock(fd, false) and close.     *)
Unlock(o) ==
  /\ At(o, "open", "unlocked")
  /\ owner' = Released(ProcessOf[o])
  /\ UNCHANGED locked_files_

(* PosixLockTable::Remove.                                                 *)
Forget(o) ==
  /\ At(o, "unlocked", "none")
  /\ locked_files_' = locked_files_ \ {ProcessOf[o]}
  /\ UNCHANGED owner

(* The kernel closes the descriptors of a process that ends.               *)
ProcessEnds(p) ==
  /\ owner' = Released(p)
  /\ locked_files_' = locked_files_ \ {p}
  /\ opener' = [o \in Opener |-> IF ProcessOf[o] = p THEN "none" ELSE opener[o]]

LockNext ==
  \/ \E o \in Opener : \/ LockFile(o) \/ LockRefused(o)
                       \/ LockGranted(o) \/ LockDenied(o)
                       \/ Unlock(o) \/ Forget(o)
  \/ \E p \in Process : ProcessEnds(p)

LockSpec == LockInit /\ [][LockNext]_lockVars

-----------------------------------------------------------------------------
(* One opener at a time has the database open, whichever processes the     *)
(* openers are in: what Recover relies on when it rewrites the files.      *)
LockExclusive ==
  \A o, q \in Opener : opener[o] = "open" /\ opener[q] = "open" => o = q

(* A failed, finished or crashed open leaves nothing behind that would     *)
(* keep the next one out.                                                  *)
NoStaleLock ==
  \A p \in Process :
    (\A o \in Opener : ProcessOf[o] = p => opener[o] = "none") =>
      p \notin locked_files_ /\ owner # p
=============================================================================
