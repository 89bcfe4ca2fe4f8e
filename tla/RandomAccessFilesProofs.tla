----------------------- MODULE RandomAccessFilesProofs -----------------------
(***************************************************************************)
(* The Limiters' accounting and what becomes of descriptors, for any       *)
(* number of objects and any limits.                                       *)
(***************************************************************************)
EXTENDS RandomAccessFiles, FiniteSetTheorems, WellFoundedInduction, TLAPS

(* The only types the accounting needs.                                    *)
Counters == mmap \in Nat /\ kept \in Nat /\ pc \in [Object -> PcState]

Inv == Counters /\ LimitsHold

(* A set of objects that gains or loses one object.                        *)
LEMMA Gain ==
  ASSUME NEW S, NEW T, S \subseteq Object, NEW o \in Object, o \notin S,
         T = S \cup {o}
  PROVE  Cardinality(T) = Cardinality(S) + 1
BY FS_Subset, FS_AddElement, FilesAssumption

LEMMA Lose ==
  ASSUME NEW S, NEW T, S \subseteq Object, NEW o \in Object, o \in S,
         T = S \ {o}
  PROVE  Cardinality(S) = Cardinality(T) + 1
<1>1. T \subseteq Object /\ o \notin T /\ S = T \cup {o}
  OBVIOUS
<1> QED BY <1>1, Gain

(* The sizes of the two sets of holders are natural numbers.               *)
LEMMA HolderCounts ==
  Cardinality(MmapHolders) \in Nat /\ Cardinality(FdHolders) \in Nat
BY FS_Subset, FS_CardinalityType, FilesAssumption DEF MmapHolders, FdHolders

LEMMA InvInit == FilesInit => Inv
<1> SUFFICES ASSUME FilesInit PROVE Inv
  OBVIOUS
<1>1. MmapHolders = {} /\ FdHolders = {}
  BY DEF FilesInit, MmapHolders, FdHolders
<1>2. Cardinality(MmapHolders) = 0 /\ Cardinality(FdHolders) = 0
  BY <1>1, FS_EmptySet
<1> QED
  BY <1>2, FilesAssumption DEF FilesInit, Inv, Counters, LimitsHold, PcState

(* The thread of o goes from one place to another: neither set of holders  *)
(* loses or gains an object other than o.                                  *)
LEMMA Moves ==
  ASSUME Counters, NEW o \in Object, NEW state \in PcState, Goto(o, state)
  PROVE  /\ pc' \in [Object -> PcState]
         /\ MmapHolders' = IF state \in {"mapping", "mapped"}
                           THEN MmapHolders \cup {o} ELSE MmapHolders \ {o}
         /\ FdHolders' = IF state \in {"kept", "keptRead"}
                         THEN FdHolders \cup {o} ELSE FdHolders \ {o}
BY DEF Counters, Goto, MmapHolders, FdHolders

LEMMA InvStep ==
  ASSUME Inv, NEW o \in Object, FilesStep(o)
  PROVE  Inv'
<1> USE DEF Inv
<1>0. /\ o \in MmapHolders <=> pc[o] \in {"mapping", "mapped"}
      /\ o \in FdHolders <=> pc[o] \in {"kept", "keptRead"}
      /\ MmapHolders \subseteq Object /\ FdHolders \subseteq Object
  BY DEF MmapHolders, FdHolders
(* A move that changes neither set, and neither counter.                   *)
<1>1. ASSUME NEW state \in PcState, Goto(o, state), UNCHANGED <<mmap, kept>>,
             pc[o] \in {"mapping", "mapped"} <=> state \in {"mapping", "mapped"},
             pc[o] \in {"kept", "keptRead"} <=> state \in {"kept", "keptRead"}
      PROVE  Inv'
  <2>1. MmapHolders' = MmapHolders /\ FdHolders' = FdHolders
    BY <1>0, <1>1, Moves
  <2> QED
    BY <1>1, <2>1, Moves DEF Counters, LimitsHold
<1>2. CASE NewRandomAccessFile(o)
  BY <1>1, <1>2 DEF NewRandomAccessFile, OpenFd, PcState
<1>3. CASE AcquireMmap(o)
  BY <1>1, <1>3 DEF AcquireMmap, PcState
<1>4. CASE AcquireMmapLocked(o)
  <2>1. CASE mmap = 0
    BY <1>1, <1>4, <2>1 DEF AcquireMmapLocked, PcState
  <2>2. CASE mmap # 0
    <3>1. /\ Goto(o, "mapping") /\ mmap' = mmap - 1 /\ UNCHANGED kept
          /\ pc[o] = "mmapLock"
      BY <1>4, <2>2 DEF AcquireMmapLocked
    <3>2. MmapHolders' = MmapHolders \cup {o} /\ FdHolders' = FdHolders
      BY <1>0, <3>1, Moves DEF PcState
    <3>3. Cardinality(MmapHolders') = Cardinality(MmapHolders) + 1
      BY <1>0, <3>1, <3>2, Gain
    <3> QED
      BY <2>2, <3>1, <3>2, <3>3, Moves, HolderCounts, FilesAssumption
      DEF Counters, LimitsHold, PcState
  <2> QED BY <2>1, <2>2
<1>5. CASE Map(o, TRUE)
  BY <1>1, <1>5 DEF Map, PcState
<1>6. CASE Map(o, FALSE)
  <2>1. /\ Goto(o, "none") /\ mmap' = mmap + 1 /\ UNCHANGED kept
        /\ pc[o] = "mapping"
    BY <1>6 DEF Map
  <2>2. MmapHolders' = MmapHolders \ {o} /\ FdHolders' = FdHolders
    BY <1>0, <2>1, Moves DEF PcState
  <2>3. Cardinality(MmapHolders) = Cardinality(MmapHolders') + 1
    BY <1>0, <2>1, <2>2, Lose
  <2>4. Cardinality(MmapHolders') \in Nat
    BY <1>0, <2>2, FS_Subset, FS_CardinalityType, FilesAssumption
  <2> QED
    BY <2>1, <2>2, <2>3, <2>4, Moves, HolderCounts, FilesAssumption
    DEF Counters, LimitsHold, PcState
<1>7. CASE AcquireFd(o)
  BY <1>1, <1>7 DEF AcquireFd, BecomeTemporary, PcState
<1>8. CASE AcquireFdLocked(o)
  <2>1. CASE kept = 0
    BY <1>1, <1>8, <2>1 DEF AcquireFdLocked, BecomeTemporary, PcState
  <2>2. CASE kept # 0
    <3>1. /\ Goto(o, "kept") /\ kept' = kept - 1 /\ UNCHANGED mmap
          /\ pc[o] = "fdLock"
      BY <1>8, <2>2 DEF AcquireFdLocked
    <3>2. FdHolders' = FdHolders \cup {o} /\ MmapHolders' = MmapHolders
      BY <1>0, <3>1, Moves DEF PcState
    <3>3. Cardinality(FdHolders') = Cardinality(FdHolders) + 1
      BY <1>0, <3>1, <3>2, Gain
    <3> QED
      BY <2>2, <3>1, <3>2, <3>3, Moves, HolderCounts, FilesAssumption
      DEF Counters, LimitsHold, PcState
  <2> QED BY <2>1, <2>2
<1>9. CASE BeginRead(o)
  BY <1>1, <1>9 DEF BeginRead, OpenFd, PcState
<1>10. CASE Pread(o) \/ PreadFails(o)
  BY <1>1, <1>10 DEF Pread, PreadFails, EndRead, PcState
<1>11. CASE ReadMapped(o) \/ OpenFdFails(o)
  BY <1>11 DEF ReadMapped, OpenFdFails, filesVars, Counters, LimitsHold, MmapHolders,
               FdHolders
<1>12. CASE Delete(o)
  <2>0. Goto(o, "none")
    BY <1>12 DEF Delete
  <2>1. CASE pc[o] = "mapped"
    <3>1. mmap' = mmap + 1 /\ UNCHANGED kept
      BY <1>12, <2>1 DEF Delete
    <3>2. MmapHolders' = MmapHolders \ {o} /\ FdHolders' = FdHolders
      BY <1>0, <2>0, <2>1, Moves DEF PcState
    <3>3. Cardinality(MmapHolders) = Cardinality(MmapHolders') + 1
      BY <1>0, <2>1, <3>2, Lose
    <3>4. Cardinality(MmapHolders') \in Nat
      BY <1>0, <3>2, FS_Subset, FS_CardinalityType, FilesAssumption
    <3> QED
      BY <2>0, <3>1, <3>2, <3>3, <3>4, Moves, HolderCounts, FilesAssumption
      DEF Counters, LimitsHold, PcState
  <2>2. CASE pc[o] = "kept"
    <3>1. kept' = kept + 1 /\ UNCHANGED mmap
      BY <1>12, <2>2 DEF Delete
    <3>2. FdHolders' = FdHolders \ {o} /\ MmapHolders' = MmapHolders
      BY <1>0, <2>0, <2>2, Moves DEF PcState
    <3>3. Cardinality(FdHolders) = Cardinality(FdHolders') + 1
      BY <1>0, <2>2, <3>2, Lose
    <3>4. Cardinality(FdHolders') \in Nat
      BY <1>0, <3>2, FS_Subset, FS_CardinalityType, FilesAssumption
    <3> QED
      BY <2>0, <3>1, <3>2, <3>3, <3>4, Moves, HolderCounts, FilesAssumption
      DEF Counters, LimitsHold, PcState
  <2>3. CASE pc[o] = "temp"
    BY <1>1, <1>12, <2>3 DEF Delete, PcState
  <2> QED
    BY <1>12, <2>1, <2>2, <2>3 DEF Delete
<1> QED
  BY <1>2, <1>3, <1>4, <1>5, <1>6, <1>7, <1>8, <1>9, <1>10, <1>11, <1>12 DEF FilesStep

(* The Limiters never hand out more than their limit and never lose a      *)
(* share, however the threads interleave.                                  *)
THEOREM LimitersBalance == FilesSpec => []LimitsHold
<1>1. Inv /\ UNCHANGED filesVars => Inv'
  BY DEF Inv, Counters, LimitsHold, MmapHolders, FdHolders, filesVars
<1>2. Inv /\ [FilesNext]_filesVars => Inv'
  BY <1>1, InvStep DEF FilesNext
<1>3. Inv => LimitsHold
  BY DEF Inv
<1> QED
  BY InvInit, <1>2, <1>3, PTL DEF FilesSpec

-----------------------------------------------------------------------------
(* fd_ is a descriptor wherever the code uses it.                          *)
FdInv == \A o \in Object : pc[o] \notin AtRest => fd[o] \in Fds

TypeInv == FilesTypeOK /\ FdInv

(* A set of numbers that is not empty has a smallest one.                  *)
LEMMA MinIn ==
  ASSUME NEW S \in SUBSET Nat, S # {}
  PROVE  Min(S) \in S
<1>1. OpToRel(<, Nat) = {p \in Nat \X Nat : p[1] < p[2]}
  BY Zenon DEF OpToRel
<1>2. PICK d \in S : \A e \in S : ~(<<e, d>> \in {p \in Nat \X Nat : p[1] < p[2]})
  BY NatLessThanWellFounded, WFMin, <1>1
<1>3. ASSUME NEW e \in S PROVE d =< e
  <2>1. d \in Nat /\ e \in Nat
    OBVIOUS
  <2>2. e < d => <<e, d>> \in {p \in Nat \X Nat : p[1] < p[2]}
    BY <2>1
  <2>3. ~(e < d)
    BY <1>2, <2>2
  <2> QED
    BY <2>1, <2>3
<1> QED
  BY <1>3 DEF Min

(* The lowest free descriptor, which open(2) returns, is a free one.       *)
LEMMA LowestFree ==
  ASSUME FreeFds # {}
  PROVE  Min(FreeFds) \in FreeFds /\ Min(FreeFds) \in Fds
<1>1. FreeFds \in SUBSET Nat
  BY FilesAssumption DEF FreeFds, Fds
<1>2. Min(FreeFds) \in FreeFds
  BY <1>1, MinIn
<1> QED
  BY <1>2 DEF FreeFds

(* The thread of o goes from one place to another, and fd_ with it.        *)
LEMMA PlaceTyped ==
  ASSUME TypeInv, NEW o \in Object, NEW state \in PcState, Goto(o, state),
         \/ fd' = fd /\ (pc[o] \in AtRest => state \in AtRest)
         \/ \E d \in Fds : fd' = [fd EXCEPT ![o] = d]
         \/ fd' = [fd EXCEPT ![o] = 0] /\ state \in AtRest
  PROVE  pc' \in [Object -> PcState] /\ fd' \in [Object -> 0..MaxFd] /\ FdInv'
BY FilesAssumption DEF TypeInv, FilesTypeOK, FdInv, Goto, AtRest, Fds

(* Closing a descriptor, open or not, keeps the table's type.              *)
LEMMA CloseTyped ==
  ASSUME TypeInv, NEW d, CloseFd(d)
  PROVE  fds' \in [Fds -> Object \cup {NoFile}]
BY DEF TypeInv, FilesTypeOK, CloseFd

LEMMA OpenTyped ==
  ASSUME TypeInv, NEW o \in Object, NEW state \in PcState, OpenFd(o, state)
  PROVE  /\ fds' \in [Fds -> Object \cup {NoFile}]
         /\ pc' \in [Object -> PcState] /\ fd' \in [Object -> 0..MaxFd] /\ FdInv'
<1>1. /\ Min(FreeFds) \in Fds /\ Goto(o, state)
      /\ fds' = [fds EXCEPT ![Min(FreeFds)] = o]
      /\ fd' = [fd EXCEPT ![o] = Min(FreeFds)]
  BY LowestFree DEF OpenFd
<1>2. fds' \in [Fds -> Object \cup {NoFile}]
  BY <1>1 DEF TypeInv, FilesTypeOK
<1> QED
  BY <1>1, <1>2, PlaceTyped

(* Only descriptors are left behind.                                       *)
LEMMA LeftTyped ==
  ASSUME TypeInv, NEW o \in Object, FilesStep(o)
  PROVE  left' \subseteq Fds
<1>1. left \subseteq Fds
  BY DEF TypeInv, FilesTypeOK
<1>2. CASE PreadFails(o)
  <2>1. fd[o] \in Fds /\ left' \subseteq left \cup {fd[o]}
    BY <1>2 DEF PreadFails, TypeInv, FdInv, AtRest
  <2> QED
    BY <1>1, <2>1
<1>3. CASE NewRandomAccessFile(o) \/ BeginRead(o)
  <2>1. left' \subseteq left
    BY <1>3 DEF NewRandomAccessFile, BeginRead, OpenFd
  <2> QED
    BY <1>1, <2>1
<1>4. CASE UNCHANGED left
  BY <1>1, <1>4
<1> QED
  BY <1>2, <1>3, <1>4 DEF FilesStep, OpenFdFails, AcquireMmap, AcquireMmapLocked,
     Map, AcquireFd, AcquireFdLocked, Pread, ReadMapped, Delete, filesVars

(* Every step keeps the types: what Acquire, mmap, open, close, pread and  *)
(* the destructors leave in fd_ and in the descriptor table.               *)
LEMMA TypeStep ==
  ASSUME TypeInv, mmap' \in Nat, kept' \in Nat, left' \subseteq Fds,
         NEW o \in Object, FilesStep(o)
  PROVE  TypeInv'
<1>1. CASE NewRandomAccessFile(o)
  BY <1>1, OpenTyped DEF NewRandomAccessFile, PcState, TypeInv, FilesTypeOK
<1>2. CASE AcquireMmap(o) \/ AcquireMmapLocked(o)
  <2>1. /\ \E state \in {"noMmap", "mmapLock", "mapping"} : Goto(o, state)
        /\ UNCHANGED <<fds, fd, got>> /\ pc[o] \notin AtRest
    BY <1>2 DEF AcquireMmap, AcquireMmapLocked, AtRest
  <2>2. pc' \in [Object -> PcState] /\ fd' \in [Object -> 0..MaxFd] /\ FdInv'
    BY <2>1, PlaceTyped DEF PcState
  <2> QED
    BY <2>1, <2>2 DEF TypeInv, FilesTypeOK
<1>3. CASE \E ok \in BOOLEAN : Map(o, ok)
  <2>1. /\ \E state \in {"mapped", "none"} : Goto(o, state)
        /\ CloseFd(fd[o]) /\ fd' = [fd EXCEPT ![o] = 0] /\ UNCHANGED got
    BY <1>3 DEF Map
  <2>2. pc' \in [Object -> PcState] /\ fd' \in [Object -> 0..MaxFd] /\ FdInv'
    BY <2>1, PlaceTyped DEF PcState, AtRest
  <2> QED
    BY <2>1, <2>2, CloseTyped DEF TypeInv, FilesTypeOK
<1>4. CASE AcquireFd(o) \/ AcquireFdLocked(o)
  <2>1. CASE BecomeTemporary(o) /\ UNCHANGED got
    <3>1. pc' \in [Object -> PcState] /\ fd' \in [Object -> 0..MaxFd] /\ FdInv'
      BY <2>1, PlaceTyped DEF BecomeTemporary, PcState, AtRest
    <3> QED
      BY <2>1, <3>1, CloseTyped DEF BecomeTemporary, TypeInv, FilesTypeOK
  <2>2. CASE /\ \E state \in {"fdLock", "kept"} : Goto(o, state)
             /\ UNCHANGED <<fds, fd, got>> /\ pc[o] \notin AtRest
    <3>1. pc' \in [Object -> PcState] /\ fd' \in [Object -> 0..MaxFd] /\ FdInv'
      BY <2>2, PlaceTyped DEF PcState
    <3> QED
      BY <2>2, <3>1 DEF TypeInv, FilesTypeOK
  <2> QED
    BY <1>4, <2>1, <2>2 DEF AcquireFd, AcquireFdLocked, AtRest
<1>5. CASE BeginRead(o)
  <2>1. CASE OpenFd(o, "tempRead") /\ UNCHANGED got
    BY <2>1, OpenTyped DEF PcState, TypeInv, FilesTypeOK
  <2>2. CASE pc[o] = "kept" /\ Goto(o, "keptRead") /\ UNCHANGED <<fds, fd, got>>
    <3>1. pc' \in [Object -> PcState] /\ fd' \in [Object -> 0..MaxFd] /\ FdInv'
      BY <2>2, PlaceTyped DEF PcState, AtRest
    <3> QED
      BY <2>2, <3>1 DEF TypeInv, FilesTypeOK
  <2> QED
    BY <1>5, <2>1, <2>2 DEF BeginRead
<1>6. CASE Pread(o) \/ PreadFails(o)
  <2>1. /\ pc[o] \in {"keptRead", "tempRead"} /\ EndRead(o)
        /\ (CloseFd(fd[o]) \/ UNCHANGED fds)
        /\ UNCHANGED got \/ got' = [got EXCEPT ![o] = fds[fd[o]]]
    BY <1>6 DEF Pread, PreadFails
  <2>2. fds[fd[o]] \in Object \cup {NoFile}
    BY <2>1 DEF TypeInv, FilesTypeOK, FdInv, AtRest
  <2>3. pc' \in [Object -> PcState] /\ fd' \in [Object -> 0..MaxFd] /\ FdInv'
    BY <2>1, PlaceTyped DEF EndRead, PcState, AtRest
  <2> QED
    BY <2>1, <2>2, <2>3, CloseTyped DEF TypeInv, FilesTypeOK
<1>7. CASE ReadMapped(o) \/ OpenFdFails(o)
  BY <1>7 DEF ReadMapped, OpenFdFails, filesVars, TypeInv, FilesTypeOK, FdInv
<1>8. CASE Delete(o)
  <2>1. /\ Goto(o, "none") /\ (CloseFd(fd[o]) \/ UNCHANGED fds)
        /\ fd' = [fd EXCEPT ![o] = 0] /\ got' = [got EXCEPT ![o] = NoFile]
    BY <1>8 DEF Delete
  <2>2. pc' \in [Object -> PcState] /\ fd' \in [Object -> 0..MaxFd] /\ FdInv'
    BY <2>1, PlaceTyped DEF PcState, AtRest
  <2> QED
    BY <2>1, <2>2, CloseTyped DEF TypeInv, FilesTypeOK
<1> QED
  BY <1>1, <1>2, <1>3, <1>4, <1>5, <1>6, <1>7, <1>8 DEF FilesStep

(* And in every behaviour, together with the accounts of the Limiters.     *)
LEMMA TypeInvariant == FilesSpec => [](Inv /\ TypeInv)
<1>1. FilesInit => Inv /\ TypeInv
  BY InvInit, FilesAssumption
  DEF FilesInit, TypeInv, FilesTypeOK, FdInv, AtRest, Inv, Counters
<1>2. Inv /\ TypeInv /\ [FilesNext]_filesVars => Inv' /\ TypeInv'
  <2> SUFFICES ASSUME Inv, TypeInv, [FilesNext]_filesVars PROVE Inv' /\ TypeInv'
    OBVIOUS
  <2>1. CASE UNCHANGED filesVars
    BY <2>1 DEF filesVars, Inv, Counters, LimitsHold, MmapHolders, FdHolders,
                TypeInv, FilesTypeOK, FdInv
  <2>2. ASSUME NEW o \in Object, FilesStep(o)
        PROVE  Inv' /\ TypeInv'
    <3>1. Inv'
      BY <2>2, InvStep
    <3>2. mmap' \in Nat /\ kept' \in Nat
      BY <3>1 DEF Inv, Counters
    <3> QED
      BY <2>2, <3>1, <3>2, LeftTyped, TypeStep
  <2> QED
    BY <2>1, <2>2 DEF FilesNext
<1> QED
  BY <1>1, <1>2, PTL DEF FilesSpec

(* The variables keep their types; above all, fd_ is a descriptor of the   *)
(* table wherever a call passes it to the kernel, although Read leaves the *)
(* number of a closed descriptor in it.                                    *)
THEOREM TypeCorrect == FilesSpec => []FilesTypeOK
<1>1. TypeInv => FilesTypeOK
  BY DEF TypeInv
<1> QED
  BY <1>1, TypeInvariant, PTL

(* An object that has none open when it comes to rest leaves none behind.  *)
LEMMA RestsClosed ==
  ASSUME TypeInv, FdsAccounted, NEW o \in Object, NEW state \in PcState, Goto(o, state),
         CloseFd(fd[o]), UNCHANGED left, \A p \in Object \ {o} : fd'[p] = fd[p]
  PROVE  FdsAccounted'
<1>1. ASSUME NEW d \in Fds \ left, fds'[d] # NoFile
      PROVE  fds[d] = fds'[d] /\ d # fd[o]
  BY <1>1 DEF CloseFd, TypeInv, FilesTypeOK
<1>2. ASSUME NEW d \in Fds \ left, fds'[d] # NoFile
      PROVE  fds'[d] \in Object \ {o}
  BY <1>1, <1>2 DEF FdsAccounted, TypeInv, FilesTypeOK
<1>3. \A p \in Object \ {o} : pc'[p] = pc[p]
  BY DEF Goto, TypeInv, FilesTypeOK
<1> QED
  BY <1>1, <1>2, <1>3 DEF FdsAccounted

(* A descriptor stays with its object.                                     *)
LEMMA KeepsFd ==
  ASSUME TypeInv, FdsAccounted, NEW o \in Object, NEW state \in PcState, Goto(o, state),
         pc[o] \in AtRest \/ state \notin AtRest \/ fds[fd[o]] = NoFile,
         UNCHANGED <<fds, left>>,
         \/ UNCHANGED fd
         \/ /\ pc[o] \in AtRest \/ fds[fd[o]] = NoFile
            /\ \A p \in Object \ {o} : fd'[p] = fd[p]
  PROVE  FdsAccounted'
<1>1. \A p \in Object \ {o} : pc'[p] = pc[p] /\ fd'[p] = fd[p]
  BY DEF Goto, TypeInv, FilesTypeOK
<1>2. pc'[o] = state
  BY DEF Goto, TypeInv, FilesTypeOK
<1>3. ASSUME NEW d \in Fds \ left, fds[d] # NoFile
      PROVE  fd'[fds[d]] = d /\ pc'[fds[d]] \notin AtRest
  <2>1. fds[d] \in Object /\ fd[fds[d]] = d /\ pc[fds[d]] \notin AtRest
    BY <1>3 DEF FdsAccounted, TypeInv, FilesTypeOK
  <2> QED
    BY <1>1, <1>2, <1>3, <2>1
<1> QED
  BY <1>3 DEF FdsAccounted

(* open(2) gives a descriptor to an object that has none.                  *)
LEMMA OpensOne ==
  ASSUME TypeInv, FdsAccounted, NEW o \in Object, NEW state \in PcState \ AtRest,
         pc[o] \in AtRest, OpenFd(o, state)
  PROVE  FdsAccounted'
<1>1. PICK n \in Fds : /\ fds' = [fds EXCEPT ![n] = o] /\ fd' = [fd EXCEPT ![o] = n]
                     /\ left' = left \ {n}
  BY LowestFree DEF OpenFd
<1>2. /\ fd'[o] = n /\ pc'[o] \notin AtRest
      /\ \A p \in Object \ {o} : pc'[p] = pc[p] /\ fd'[p] = fd[p]
  BY <1>1 DEF OpenFd, Goto, TypeInv, FilesTypeOK
<1>3. ASSUME NEW d \in Fds \ left, d # n, fds[d] # NoFile
      PROVE  fd[fds[d]] = d /\ pc[fds[d]] \notin AtRest /\ fds[d] \in Object \ {o}
  BY <1>3 DEF FdsAccounted, TypeInv, FilesTypeOK
<1>4. fds'[n] = o /\ \A d \in Fds \ {n} : fds'[d] = fds[d]
  BY <1>1 DEF TypeInv, FilesTypeOK
<1> QED
  BY <1>1, <1>2, <1>3, <1>4 DEF FdsAccounted

(* What every step does to the descriptors.                                *)
LEMMA OwnStep ==
  ASSUME TypeInv, FdsAccounted, NEW o \in Object, FilesStep(o)
  PROVE  FdsAccounted'
<1>1. CASE NewRandomAccessFile(o)
  BY <1>1, OpensOne DEF NewRandomAccessFile, PcState, AtRest
<1>2. CASE AcquireMmap(o) \/ AcquireMmapLocked(o)
  BY <1>2, KeepsFd DEF AcquireMmap, AcquireMmapLocked, PcState, AtRest
<1>3. CASE \E ok \in BOOLEAN : Map(o, ok)
  <2>1. /\ \E state \in {"mapped", "none"} : Goto(o, state)
        /\ CloseFd(fd[o]) /\ fd' = [fd EXCEPT ![o] = 0] /\ UNCHANGED left
    BY <1>3 DEF Map
  <2> QED
    BY <2>1, RestsClosed DEF PcState, TypeInv, FilesTypeOK
<1>4. CASE AcquireFd(o) \/ AcquireFdLocked(o)
  <2>1. CASE BecomeTemporary(o) /\ UNCHANGED left
    BY <2>1, RestsClosed DEF BecomeTemporary, PcState, TypeInv, FilesTypeOK
  <2>2. CASE /\ \E state \in {"fdLock", "kept"} : Goto(o, state)
             /\ UNCHANGED <<fds, fd, left>>
    BY <2>2, KeepsFd DEF PcState, AtRest
  <2> QED
    BY <1>4, <2>1, <2>2 DEF AcquireFd, AcquireFdLocked
<1>5. CASE BeginRead(o)
  BY <1>5, OpensOne, KeepsFd DEF BeginRead, PcState, AtRest
<1>6. CASE Pread(o)
  BY <1>6, RestsClosed DEF Pread, EndRead, PcState, TypeInv, FilesTypeOK
<1>7. CASE PreadFails(o)
  <2>1. /\ \E state \in {"kept", "temp"} : Goto(o, state)
        /\ UNCHANGED fds
    BY <1>7 DEF PreadFails, EndRead
  <2>2. CASE pc[o] = "keptRead"
    <3>1. Goto(o, "kept") /\ UNCHANGED <<fds, fd, left>>
      BY <1>7, <2>2 DEF PreadFails, EndRead
    <3> QED
      BY <2>2, <3>1, KeepsFd DEF PcState, AtRest
  (* A descriptor opened for this read stays behind, if still its own.     *)
  <2>3. CASE pc[o] = "tempRead"
    <3>1. /\ Goto(o, "temp") /\ UNCHANGED fds /\ fd' = [fd EXCEPT ![o] = 0]
          /\ left \subseteq left' /\ (fds[fd[o]] = o => fd[o] \in left')
      BY <1>7, <2>3 DEF PreadFails, EndRead
    <3>2. \A p \in Object \ {o} : pc'[p] = pc[p] /\ fd'[p] = fd[p]
      BY <3>1 DEF Goto, TypeInv, FilesTypeOK
    <3>3. ASSUME NEW d \in Fds \ left', fds[d] # NoFile
          PROVE  fd[fds[d]] = d /\ pc[fds[d]] \notin AtRest /\ fds[d] \in Object \ {o}
      <4>1. fd[fds[d]] = d /\ pc[fds[d]] \notin AtRest /\ fds[d] \in Object
        BY <3>1, <3>3 DEF FdsAccounted, TypeInv, FilesTypeOK
      <4>2. fds[d] # o
        BY <3>1, <3>3, <4>1
      <4> QED
        BY <4>1, <4>2
    <3> QED
      BY <3>1, <3>2, <3>3 DEF FdsAccounted
  <2> QED
    BY <1>7, <2>2, <2>3 DEF PreadFails
<1>8. CASE ReadMapped(o) \/ OpenFdFails(o)
  BY <1>8 DEF ReadMapped, OpenFdFails, filesVars, FdsAccounted
<1>9. CASE Delete(o)
  <2>1. Goto(o, "none") /\ fd' = [fd EXCEPT ![o] = 0]
    BY <1>9 DEF Delete
  <2>2. CASE pc[o] = "kept"
    BY <1>9, <2>1, <2>2, RestsClosed DEF Delete, PcState, TypeInv, FilesTypeOK
  <2>3. CASE pc[o] # "kept"
    BY <1>9, <2>1, <2>3, KeepsFd DEF Delete, PcState, AtRest, TypeInv, FilesTypeOK
  <2> QED
    BY <2>2, <2>3
<1> QED
  BY <1>1, <1>2, <1>3, <1>4, <1>5, <1>6, <1>7, <1>8, <1>9 DEF FilesStep

(* Whatever fails, only a Read that fails leaves a descriptor behind: not  *)
(* a mapping, not a constructor that finds fd_limit_ used up, and not a    *)
(* Read that closes the descriptor another object was to keep.             *)
THEOREM DescriptorsAccounted == FilesSpec => []FdsAccounted
<1>1. FilesInit => FdsAccounted
  BY DEF FilesInit, FdsAccounted
<1>2. TypeInv /\ FdsAccounted /\ [FilesNext]_filesVars => FdsAccounted'
  BY OwnStep DEF FilesNext, filesVars, FdsAccounted
<1> QED
  BY <1>1, <1>2, TypeInvariant, PTL DEF FilesSpec

=============================================================================
