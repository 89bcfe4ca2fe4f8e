-------------------------- MODULE RandomAccessFiles --------------------------
(***************************************************************************)
(* The random access files of PosixEnv (util/env_posix.cpp): how           *)
(* NewRandomAccessFile shares out mappings and file descriptors between    *)
(* objects with two Limiters, and how PosixRandomAccessFile reads.         *)
(*                                                                         *)
(* Each object is created, read and deleted by a thread of its own, and    *)
(* may be created again.  A step is a system call or an access to the      *)
(* shared counter of a Limiter; Limiter::Acquire takes two, a first look   *)
(* without the lock and a second one with it.  The kernel's descriptor     *)
(* table is modelled from how the code uses it: open returns the lowest    *)
(* free descriptor.                                                        *)
(*                                                                         *)
(* The names carry the component's, so that a module may extend several.   *)
(***************************************************************************)
EXTENDS Naturals, FiniteSets, FiniteSetsExt

CONSTANTS
  Object,      \* random access files, each one on a file of its own
  NoFile,      \* what a closed descriptor refers to
  MaxFd,       \* descriptors the process may have open
  MmapLimit,   \* initial allowed_ of mmap_limit_
  FdLimit,     \* initial allowed_ of fd_limit_
  ReadErrors   \* may pread fail on an open descriptor?

ASSUME FilesAssumption ==
  /\ IsFiniteSet(Object)
  /\ NoFile \notin Object
  /\ MaxFd \in Nat
  /\ MmapLimit \in Nat
  /\ FdLimit \in Nat
  /\ ReadErrors \in BOOLEAN

VARIABLES
  fds,     \* the file each descriptor is open on
  mmap,    \* allowed_ of mmap_limit_
  kept,    \* allowed_ of fd_limit_
  pc,      \* where the thread of each object is, and what the object is
  fd,      \* fd_ of the object, or the local fd of the call; 0 for none
  got,     \* the file the last successful Read of the object read from
  left     \* observed: descriptors that a Read which failed has left open

filesVars == <<fds, mmap, kept, pc, fd, got, left>>

Fds == 1..MaxFd

(* "mapped", "kept" and "temp" are the objects at rest: a mapping, a file  *)
(* with a descriptor of its own, a file that is opened for every read.     *)
PcState == {"none", "opened", "mmapLock", "mapping", "noMmap", "fdLock",
            "mapped", "kept", "temp", "keptRead", "tempRead"}

FilesTypeOK ==
  /\ fds \in [Fds -> Object \cup {NoFile}]
  /\ mmap \in Nat
  /\ kept \in Nat
  /\ pc \in [Object -> PcState]
  /\ fd \in [Object -> 0..MaxFd]
  /\ got \in [Object -> Object \cup {NoFile}]
  /\ left \subseteq Fds

FilesInit ==
  /\ fds = [d \in Fds |-> NoFile]
  /\ mmap = MmapLimit
  /\ kept = FdLimit
  /\ pc = [o \in Object |-> "none"]
  /\ fd = [o \in Object |-> 0]
  /\ got = [o \in Object |-> NoFile]
  /\ left = {}

Goto(o, state) == pc' = [pc EXCEPT ![o] = state]

-----------------------------------------------------------------------------
(* open(2) and close(2).  Closing a descriptor that is not open is an      *)
(* error nobody looks at.                                                  *)
FreeFds == {d \in Fds : fds[d] = NoFile}

OpenFd(o, state) ==
  /\ FreeFds # {}
  /\ LET d == Min(FreeFds) IN
       /\ fds' = [fds EXCEPT ![d] = o]
       /\ fd' = [fd EXCEPT ![o] = d]
       /\ left' = left \ {d}
  /\ Goto(o, state)

CloseFd(d) == fds' = IF d \in Fds THEN [fds EXCEPT ![d] = NoFile] ELSE fds

(* With no descriptor left, NewRandomAccessFile and the Read of a          *)
(* temporary file return an error.                                         *)
OpenFdFails(o) ==
  /\ pc[o] \in {"none", "temp"}
  /\ FreeFds = {}
  /\ UNCHANGED filesVars

NewRandomAccessFile(o) ==
  /\ pc[o] = "none"
  /\ OpenFd(o, "opened")
  /\ UNCHANGED <<mmap, kept, got>>

(* mmap_limit_.Acquire(), without and with the lock.                       *)
AcquireMmap(o) ==
  /\ pc[o] = "opened"
  /\ Goto(o, IF mmap = 0 THEN "noMmap" ELSE "mmapLock")
  /\ UNCHANGED <<fds, mmap, kept, fd, got, left>>

(* Mutant: allowed_ is not looked at again under the lock.                 *)
AcquireMmapUnchecked(o) ==
  /\ pc[o] = "mmapLock"
  /\ Goto(o, "mapping")
  /\ mmap' = mmap - 1
  /\ UNCHANGED <<fds, kept, fd, got, left>>

AcquireMmapLocked(o) ==
  /\ pc[o] = "mmapLock"
  /\ IF mmap = 0
     THEN Goto(o, "noMmap") /\ UNCHANGED mmap
     ELSE Goto(o, "mapping") /\ mmap' = mmap - 1
  /\ UNCHANGED <<fds, kept, fd, got, left>>

(* Mutant: a failed mapping is not released.                               *)
MapNotReleased(o, ok) ==
  /\ pc[o] = "mapping"
  /\ CloseFd(fd[o])
  /\ fd' = [fd EXCEPT ![o] = 0]
  /\ Goto(o, IF ok THEN "mapped" ELSE "none")
  /\ UNCHANGED <<mmap, kept, got, left>>

(* GetFileSize and mmap succeed or fail; the descriptor is closed.         *)
Map(o, ok) ==
  /\ pc[o] = "mapping"
  /\ CloseFd(fd[o])
  /\ fd' = [fd EXCEPT ![o] = 0]
  /\ Goto(o, IF ok THEN "mapped" ELSE "none")
  /\ mmap' = IF ok THEN mmap ELSE mmap + 1
  /\ UNCHANGED <<kept, got, left>>

(* The constructor of PosixRandomAccessFile: fd_limit_.Acquire().  Without *)
(* a descriptor to keep, the one at hand is closed.                        *)
BecomeTemporary(o) ==
  /\ Goto(o, "temp")
  /\ CloseFd(fd[o])
  /\ fd' = [fd EXCEPT ![o] = 0]

AcquireFd(o) ==
  /\ pc[o] = "noMmap"
  /\ IF kept = 0 THEN BecomeTemporary(o)
     ELSE Goto(o, "fdLock") /\ UNCHANGED <<fds, fd>>
  /\ UNCHANGED <<mmap, kept, got, left>>

AcquireFdLocked(o) ==
  /\ pc[o] = "fdLock"
  /\ IF kept = 0
     THEN BecomeTemporary(o) /\ UNCHANGED kept
     ELSE Goto(o, "kept") /\ kept' = kept - 1 /\ UNCHANGED <<fds, fd>>
  /\ UNCHANGED <<mmap, got, left>>

-----------------------------------------------------------------------------
(* PosixRandomAccessFile::Read finds its descriptor: fd_, or a new one.    *)
BeginRead(o) ==
  /\ \/ pc[o] = "kept" /\ Goto(o, "keptRead") /\ UNCHANGED <<fds, fd, left>>
     \/ pc[o] = "temp" /\ OpenFd(o, "tempRead")
  /\ UNCHANGED <<mmap, kept, got>>

(* The member fd_ of a temporary file stays -1; that of the others stays   *)
(* what it was, open or not.                                               *)
EndRead(o) ==
  /\ Goto(o, IF pc[o] = "keptRead" THEN "kept" ELSE "temp")
  /\ fd' = IF pc[o] = "keptRead" THEN fd ELSE [fd EXCEPT ![o] = 0]
  /\ UNCHANGED <<mmap, kept>>

(* Mutant: the descriptor stays open.                                      *)
PreadStaysOpen(o) ==
  /\ pc[o] \in {"keptRead", "tempRead"}
  /\ fds[fd[o]] # NoFile
  /\ got' = [got EXCEPT ![o] = fds[fd[o]]]
  /\ UNCHANGED <<fds, left>>
  /\ EndRead(o)

(* pread delivers data of the file behind the descriptor, which is closed. *)
Pread(o) ==
  /\ pc[o] \in {"keptRead", "tempRead"}
  /\ fds[fd[o]] # NoFile
  /\ got' = [got EXCEPT ![o] = fds[fd[o]]]
  /\ CloseFd(fd[o])
  /\ UNCHANGED left
  /\ EndRead(o)

(* pread fails: on a closed descriptor always, else on a read error.  The  *)
(* descriptor is not closed, not even one that was opened for this read.   *)
PreadFails(o) ==
  /\ pc[o] \in {"keptRead", "tempRead"}
  /\ ReadErrors \/ fds[fd[o]] = NoFile
  /\ EndRead(o)
  /\ left' = IF pc[o] = "tempRead" /\ fds[fd[o]] = o THEN left \cup {fd[o]} ELSE left
  /\ UNCHANGED <<fds, got>>

(* PosixMmapReadableFile::Read, within the bounds of the mapping.          *)
ReadMapped(o) ==
  /\ pc[o] = "mapped"
  /\ got' = [got EXCEPT ![o] = o]
  /\ UNCHANGED <<fds, mmap, kept, pc, fd, left>>

(* The destructors.  A temporary file has nothing to give back.            *)
Delete(o) ==
  /\ pc[o] \in {"mapped", "kept", "temp"}
  /\ mmap' = IF pc[o] = "mapped" THEN mmap + 1 ELSE mmap
  /\ kept' = IF pc[o] = "kept" THEN kept + 1 ELSE kept
  /\ IF pc[o] = "kept" THEN CloseFd(fd[o]) ELSE UNCHANGED fds
  /\ fd' = [fd EXCEPT ![o] = 0]
  /\ got' = [got EXCEPT ![o] = NoFile]
  /\ UNCHANGED left
  /\ Goto(o, "none")

FilesStep(o) ==
  \/ OpenFdFails(o)
  \/ NewRandomAccessFile(o)
  \/ AcquireMmap(o)
  \/ AcquireMmapLocked(o)
  \/ Map(o, TRUE)
  \/ Map(o, FALSE)
  \/ AcquireFd(o)
  \/ AcquireFdLocked(o)
  \/ BeginRead(o)
  \/ Pread(o)
  \/ PreadFails(o)
  \/ ReadMapped(o)
  \/ Delete(o)

FilesNext == \E o \in Object : FilesStep(o)

FilesSpec == FilesInit /\ [][FilesNext]_filesVars

-----------------------------------------------------------------------------
MmapHolders == {o \in Object : pc[o] \in {"mapping", "mapped"}}
FdHolders == {o \in Object : pc[o] \in {"kept", "keptRead"}}

(* The Limiters' books balance: what is allowed and what is held add up to *)
(* the limit, so that it is never exceeded and never leaks away, although  *)
(* Acquire looks at allowed_ before it takes the lock and a failed mapping *)
(* gives its share back.                                                   *)
LimitsHold ==
  /\ mmap + Cardinality(MmapHolders) = MmapLimit
  /\ kept + Cardinality(FdHolders) = FdLimit

(* Read never delivers data of another file.                               *)
ReadsOwnFile == \A o \in Object : got[o] \in {o, NoFile}

(* Where an object has no descriptor: before NewRandomAccessFile has opened*)
(* one, and when it is a mapping or a temporary file with no call under    *)
(* way.                                                                    *)
AtRest == {"none", "mapped", "temp"}

(* Every open descriptor is the fd_, or the local fd, of the object it is  *)
(* open for, which keeps it or is in the middle of a call, unless a Read   *)
(* that failed has left it open: a mapping, made or failed, a constructor  *)
(* that finds fd_limit_ used up, a Read that succeeds and a destructor all *)
(* close theirs, also when a Read has closed one of another object before. *)
FdsAccounted ==
  \A d \in Fds \ left :
    fds[d] # NoFile => fd[fds[d]] = d /\ pc[fds[d]] \notin AtRest

(* An object that keeps no descriptor has none open when no call is in     *)
(* progress: Read closes "the temporary file descriptor opened earlier".   *)
NoFdLeak == \A d \in Fds : fds[d] # NoFile => pc[fds[d]] \notin AtRest

=============================================================================
