----------------------------- MODULE PartsProofs -----------------------------
(***************************************************************************)
(* Proofs about the small parts of the environment and of the database.    *)
(* File locks: one opener at a time has the database open, for any openers *)
(* in any processes.  Sequential files: an error is never taken for the    *)
(* end, for files of any size.  Write batches: what has been put into a    *)
(* batch is what is iterated, for any number of batches and entries, and   *)
(* replaying the log gives back what has been written to it.               *)
(* String buffers: memory has one owner, for any sizes.  File names: a     *)
(* name is parsed as what it was made for, for any numbers, radix and      *)
(* width.  Random numbers: the generator has the full period, for any      *)
(* prime and any primitive root of it.                                     *)
(***************************************************************************)
EXTENDS FileLocks, SequentialFiles, WriteBatches, Buffers, FileNames,
        RandomNumbers, FiniteSetTheorems, TLAPS

-----------------------------------------------------------------------------
(* Sets of numbers, and loops.                                             *)

(* A set of numbers has a least one.  Everything here that takes an        *)
(* induction rests on this: a set of counterexamples would have a least one.*)
LEMMA LeastIn ==
  ASSUME NEW S, S \subseteq Nat, S # {}
  PROVE  \E d \in S : \A e \in S : d <= e
<1>1. OpToRel(<, Nat) = {p \in Nat \X Nat : p[1] < p[2]}
  BY Zenon DEF OpToRel
<1>2. PICK d \in S : \A e \in S : ~(<<e, d>> \in {p \in Nat \X Nat : p[1] < p[2]})
  BY NatLessThanWellFounded, WFMin, <1>1
<1>3. ASSUME NEW e \in S PROVE d <= e
  <2>1. d \in Nat /\ e \in Nat
    OBVIOUS
  <2>2. e < d => <<e, d>> \in {p \in Nat \X Nat : p[1] < p[2]}
    BY <2>1
  <2>3. QED
    BY <1>2, <2>1, <2>2
<1>4. QED
  BY <1>3

(* Induction, for the set P of the numbers that have a property.           *)
LEMMA SetInduction ==
  ASSUME NEW N \in Nat, NEW P, 0 \in P, \A n \in 0..N : n # N /\ n \in P => n + 1 \in P
  PROVE  \A n \in 0..N : n \in P
<1> DEFINE S == {n \in 0..N : n \notin P}
<1> SUFFICES ASSUME S # {} PROVE FALSE
  OBVIOUS
<1>1. S \subseteq Nat
  OBVIOUS
<1>2. PICK d \in S : \A e \in S : d <= e
  <2> HIDE DEF S
  <2>1. QED
    BY <1>1, LeastIn
<1>3. d \in 0..N /\ d \notin P /\ d # 0
  OBVIOUS
<1>4. d - 1 \in 0..N /\ d - 1 # N /\ (d - 1) + 1 = d /\ ~(d <= d - 1)
  BY <1>3
<1>5. d - 1 \in P
  BY <1>2, <1>4
<1>6. QED
  BY <1>3, <1>4, <1>5

(* The values f of a variable in a loop of N turns that begins with b and  *)
(* makes g[i] of it in turn i.                                             *)
Runs(f, N, b, g) == f[0] = b /\ \A i \in 1..N : f[i] = g[i][f[i - 1]]

(* Such a loop can be run: what a recursive function of the turns is there *)
(* for.                                                                    *)
LEMMA LoopExists ==
  ASSUME NEW N \in Nat, NEW T, NEW b \in T, NEW g \in [1..N -> [T -> T]]
  PROVE  \E f \in [0..N -> T] : Runs(f, N, b, g)
<1> DEFINE Good(n, f) == f[0] = b /\ \A i \in 1..n : f[i] = g[i][f[i - 1]]
           P == {n \in 0..N : \E f \in [0..N -> T] : Good(n, f)}
<1>1. 0 \in P
  <2>1. PICK f : f = [i \in 0..N |-> b]
    OBVIOUS
  <2>2. f \in [0..N -> T] /\ Good(0, f)
    BY <2>1
  <2>3. QED
    BY <2>2
<1>2. ASSUME NEW n \in 0..N, n # N, n \in P PROVE n + 1 \in P
  <2>1. PICK f \in [0..N -> T] : Good(n, f)
    BY <1>2
  <2>2. n + 1 \in 1..N /\ n \in 0..N /\ (n + 1) - 1 = n
    BY <1>2
  <2>3. PICK h : h = [f EXCEPT ![n + 1] = g[n + 1][f[n]]]
    OBVIOUS
  <2>4. g[n + 1][f[n]] \in T
    BY <2>1, <2>2
  <2>5. /\ h \in [0..N -> T] /\ h[n + 1] = g[n + 1][f[n]]
        /\ \A i \in 0..n : h[i] = f[i]
    BY <2>1, <2>2, <2>3, <2>4
  <2>6. Good(n + 1, h)
    <3>1. h[0] = b
      BY <2>1, <2>5
    <3>2. ASSUME NEW i \in 1..n + 1 PROVE h[i] = g[i][h[i - 1]]
      <4>1. CASE i = n + 1
        BY <2>2, <2>5, <4>1
      <4>2. CASE i # n + 1
        <5>1. i \in 1..n /\ i \in 0..n /\ i - 1 \in 0..n
          BY <4>2
        <5>2. QED
          BY <2>1, <2>5, <5>1
      <4>3. QED
        BY <4>1, <4>2
    <3>3. QED
      BY <3>1, <3>2
  <2>7. QED
    BY <2>2, <2>5, <2>6
<1>3. N \in P
  <2>1. \A n \in 0..N : n # N /\ n \in P => n + 1 \in P
    BY <1>2
  <2> HIDE DEF P
  <2>2. \A n \in 0..N : n \in P
    BY <1>1, <2>1, SetInduction
  <2>3. QED
    BY <2>2
<1>4. QED
  BY <1>3 DEF Runs

(* Induction from all smaller numbers.                                     *)
LEMMA StrongInduction ==
  ASSUME NEW N \in Nat, NEW P,
         \A n \in 0..N : (\A m \in 0..N : m < n => m \in P) => n \in P
  PROVE  \A n \in 0..N : n \in P
<1> DEFINE S == {n \in 0..N : n \notin P}
<1> SUFFICES ASSUME S # {} PROVE FALSE
  OBVIOUS
<1>1. S \subseteq Nat
  OBVIOUS
<1>2. PICK d \in S : \A e \in S : d <= e
  <2> HIDE DEF S
  <2>1. QED
    BY <1>1, LeastIn
<1>3. d \in 0..N /\ d \notin P
  OBVIOUS
<1>4. \A m \in 0..N : m < d => m \in P
  BY <1>2, <1>3
<1>5. QED
  BY <1>3, <1>4

(* One turn of a loop that reads a number.                                 *)
LEMMA TimesPlus == \A x, y, z \in Nat : x * y + z \in Nat
OBVIOUS

(* A sequence over a set is one over a larger set.                         *)
LEMMA SeqOfMore ==
  ASSUME NEW T, NEW S \in SUBSET T, NEW s \in Seq(S)
  PROVE  s \in Seq(T)
OBVIOUS

-----------------------------------------------------------------------------
(* File locks.                                                             *)
Busy(o) == opener[o] # "none"

(* The table has one opener of each process under way.                     *)
TableInv ==
  /\ \A o \in Opener : Busy(o) => ProcessOf[o] \in locked_files_
  /\ \A o, q \in Opener :
       Busy(o) /\ Busy(q) /\ ProcessOf[o] = ProcessOf[q] => o = q

(* The lock is with the process of whoever has the database open, and has  *)
(* left it by the time its name is removed from the table.                 *)
OwnerInv ==
  \A o \in Opener : /\ opener[o] = "open" => owner = ProcessOf[o]
                    /\ opener[o] = "unlocked" => owner # ProcessOf[o]

(* LockExclusive does not say why a second opener of the same process is   *)
(* refused, nor why one of another process is.                             *)
LockIndInv == LockTypeOK /\ TableInv /\ OwnerInv /\ NoStaleLock

-----------------------------------------------------------------------------
LEMMA LockInitially == LockInit => LockIndInv
  BY LockAssumption
  DEF LockInit, LockIndInv, LockTypeOK, TableInv, OwnerInv, NoStaleLock, Busy

(* Only openers of a process that is not in the table may begin.           *)
LEMMA LockStep == LockIndInv /\ [LockNext]_lockVars => LockIndInv'
<1> SUFFICES ASSUME LockIndInv, [LockNext]_lockVars PROVE LockIndInv'
  OBVIOUS
<1> USE LockAssumption DEF LockIndInv, LockTypeOK, TableInv, OwnerInv,
                           NoStaleLock, Busy
<1>1. ASSUME NEW o \in Opener, LockFile(o) PROVE LockIndInv'
  BY <1>1 DEF LockFile, At
<1>2. ASSUME NEW o \in Opener, LockRefused(o) PROVE LockIndInv'
  BY <1>2 DEF LockRefused, lockVars
<1>3. ASSUME NEW o \in Opener, LockGranted(o) PROVE LockIndInv'
  BY <1>3 DEF LockGranted, At, Lockable
<1>4. ASSUME NEW o \in Opener, LockDenied(o) PROVE LockIndInv'
  BY <1>4 DEF LockDenied, At, Released
<1>5. ASSUME NEW o \in Opener, Unlock(o) PROVE LockIndInv'
  BY <1>5 DEF Unlock, At, Released
<1>6. ASSUME NEW o \in Opener, Forget(o) PROVE LockIndInv'
  BY <1>6 DEF Forget, At
<1>7. ASSUME NEW p \in Process, ProcessEnds(p) PROVE LockIndInv'
  BY <1>7 DEF ProcessEnds, Released
<1>8. CASE UNCHANGED lockVars
  BY <1>8 DEF lockVars
<1>9. QED
  BY <1>1, <1>2, <1>3, <1>4, <1>5, <1>6, <1>7, <1>8 DEF LockNext

LEMMA LockAlways == LockSpec => []LockIndInv
  BY LockInitially, LockStep, PTL DEF LockSpec

-----------------------------------------------------------------------------
(* Two threads never have the database open together: LockFile refuses a   *)
(* name that the table of PosixLockTable has, and fcntl the lock of        *)
(* another process.                                                        *)
THEOREM OneOwner == LockSpec => []LockExclusive
<1>1. LockIndInv => LockExclusive
  BY LockAssumption DEF LockIndInv, LockTypeOK, TableInv, OwnerInv, Busy,
                        LockExclusive
<1>2. QED
  BY <1>1, LockAlways, PTL

(* A DB::Open that fails, a close or the end of a process leaves neither   *)
(* the lock nor the entry in the table of PosixLockTable behind.           *)
THEOREM NothingStale == LockSpec => []NoStaleLock
<1>1. LockIndInv => NoStaleLock
  BY DEF LockIndInv
<1>2. QED
  BY <1>1, LockAlways, PTL

-----------------------------------------------------------------------------
(* Sequential files.                                                       *)

(* Every byte before the position has been delivered or skipped.  The end  *)
(* of the file is behind a position that has set the indicator, and behind *)
(* one at which a reader has been told of the end.                         *)
SequentialInv ==
  /\ position \in Nat /\ eof \in BOOLEAN
  /\ reader \in {"none", "reading", "failed", "ended"}
  /\ delivered \cup skipped = {p \in Nat : p < position}
  /\ delivered \cap skipped = {}
  /\ \A p \in delivered : p < FileSize
  /\ eof \/ reader = "ended" => position >= FileSize

(* The shorter of what is asked for and what is left.                      *)
LEMMA MinPair ==
  ASSUME NEW m \in Nat, NEW n \in Nat
  PROVE  Min({m, n}) = IF m <= n THEN m ELSE n
<1>1. CASE m <= n
  <2>1. m \in {m, n} /\ \A y \in {m, n} : m =< y
    BY <1>1
  <2>2. \A x \in {m, n} : (\A y \in {m, n} : x =< y) => x = m
    BY <1>1
  <2>3. QED
    BY <1>1, <2>1, <2>2 DEF Min
<1>2. CASE ~(m <= n)
  <2>1. n \in {m, n} /\ \A y \in {m, n} : n =< y
    BY <1>2
  <2>2. \A x \in {m, n} : (\A y \in {m, n} : x =< y) => x = n
    BY <1>2
  <2>3. QED
    BY <1>2, <2>1, <2>2 DEF Min
<1>3. QED
  BY <1>1, <1>2

(* fread_unlocked and its status: a short read without an error is at the  *)
(* end of the file.                                                        *)
LEMMA ReadStep ==
  ASSUME SequentialInv, NEW n \in Wanted, Read(n)
  PROVE  SequentialInv'
<1>1. n \in Nat /\ n > 0 /\ FileSize \in Nat /\ position \in Nat
  BY SequentialAssumption DEF SequentialInv
<1>2. Left \in Nat /\ Left = IF position < FileSize THEN FileSize - position ELSE 0
  BY <1>1 DEF Left
<1>3. Min({n, Left}) = IF n <= Left THEN n ELSE Left
  BY <1>1, <1>2, MinPair
<1>4. Min({n, Left}) \in Nat /\ Min({n, Left}) <= n /\ Min({n, Left}) <= Left
  BY <1>1, <1>2, <1>3
<1>5. PICK r \in 0..Min({n, Left}), error \in BOOLEAN :
         /\ reader = "reading"
         /\ IF error THEN r < n ELSE r = Min({n, Left})
         /\ position' = position + r
         /\ eof' = (eof \/ (r < n /\ ~error))
         /\ delivered' = delivered \cup From(position, r)
         /\ IF ~StatusOk(r, n, eof \/ (r < n /\ ~error)) THEN reader' = "failed"
            ELSE \/ r > 0 /\ reader' = "reading"
                 \/ r < n /\ reader' = "ended"
         /\ UNCHANGED skipped
  BY DEF Read
<1>6. r \in Nat /\ r <= n /\ r <= Left /\ position' \in Nat
  BY <1>1, <1>2, <1>4, <1>5
<1>7. From(position, r) = {p \in Nat : position <= p /\ p < position + r}
  BY <1>1, <1>6 DEF From
<1>8. \A p \in From(position, r) : p < FileSize
  BY <1>1, <1>2, <1>6, <1>7
<1>9. /\ delivered' \cup skipped' = {p \in Nat : p < position'}
      /\ delivered' \cap skipped' = {}
      /\ \A p \in delivered' : p < FileSize
  <2>1. {p \in Nat : p < position + r}
          = {p \in Nat : p < position} \cup {p \in Nat : position <= p /\ p < position + r}
    BY <1>1, <1>6
  <2>2. \A p \in skipped : p < position
    BY DEF SequentialInv
  <2>3. From(position, r) \cap skipped = {}
    BY <1>1, <1>7, <2>2
  <2>4. QED
    BY <1>5, <1>7, <1>8, <2>1, <2>3 DEF SequentialInv
<1>10. r < n /\ ~error => position' >= FileSize
  BY <1>1, <1>2, <1>3, <1>5, <1>6
<1>11. eof => position' >= FileSize
  BY <1>1, <1>5, <1>6 DEF SequentialInv
<1>12. reader' = "ended" => eof'
  <2>1. CASE eof \/ (r < n /\ ~error)
    BY <1>5, <2>1
  <2>2. CASE ~(eof \/ (r < n /\ ~error)) /\ r = n
    BY <1>1, <1>5, <2>2
  <2>3. CASE ~(eof \/ (r < n /\ ~error)) /\ r # n
    <3>1. ~StatusOk(r, n, eof \/ (r < n /\ ~error))
      BY <2>3 DEF StatusOk
    <3>2. QED
      BY <1>5, <3>1
  <2>4. QED
    BY <2>1, <2>2, <2>3
<1>13. QED
  BY <1>5, <1>6, <1>9, <1>10, <1>11, <1>12 DEF SequentialInv

(* fseek, which clears the indicator.                                      *)
LEMMA SkipStep ==
  ASSUME SequentialInv, NEW n \in Wanted, Skip(n)
  PROVE  SequentialInv'
<1>1. n \in Nat /\ FileSize \in Nat /\ position \in Nat /\ position + n \in Nat
  BY SequentialAssumption DEF SequentialInv
<1>2. From(position, n) = {p \in Nat : position <= p /\ p < position + n}
  BY <1>1 DEF From
<1>3. {p \in Nat : p < position + n}
        = {p \in Nat : p < position} \cup {p \in Nat : position <= p /\ p < position + n}
  BY <1>1
<1>4. From(position, n) \cap delivered = {}
  BY <1>1, <1>2 DEF SequentialInv
<1>5. QED
  BY <1>1, <1>2, <1>3, <1>4 DEF Skip, SequentialInv

(* A reader that is told that the file ends has got all of it that it has  *)
(* not skipped: the check of feof in PosixSequentialFile::Read tells an    *)
(* error from the end, also with an indicator left by an earlier call.     *)
THEOREM NothingCutShort == SequentialSpec => []NotCutShort
<1>1. SequentialInit => SequentialInv
  <2> SUFFICES ASSUME SequentialInit PROVE SequentialInv
    OBVIOUS
  <2>1. delivered \cup skipped = {p \in Nat : p < position}
    BY DEF SequentialInit
  <2>2. ~(eof \/ reader = "ended")
    BY Zenon DEF SequentialInit
  <2>3. position \in Nat /\ eof \in BOOLEAN /\ delivered = {} /\ reader = "none"
    BY DEF SequentialInit
  <2>4. QED
    BY <2>1, <2>2, <2>3 DEF SequentialInv
<1>2. SequentialInv /\ [SequentialNext]_sequentialVars => SequentialInv'
  <2> SUFFICES ASSUME SequentialInv, [SequentialNext]_sequentialVars
               PROVE  SequentialInv'
    OBVIOUS
  <2>1. CASE NewSequentialFile
    BY <2>1 DEF NewSequentialFile, SequentialInv
  <2>2. CASE SkipFails
    BY <2>2 DEF SkipFails, SequentialInv
  <2>3. CASE UNCHANGED sequentialVars
    BY <2>3 DEF sequentialVars, SequentialInv
  <2>4. QED
    BY <2>1, <2>2, <2>3, ReadStep, SkipStep DEF SequentialNext
<1>3. SequentialInv => NotCutShort
  <2> SUFFICES ASSUME SequentialInv, reader = "ended"
               PROVE  delivered = From(0, FileSize) \ skipped
    BY DEF NotCutShort
  <2>1. From(0, FileSize) = {p \in Nat : p < FileSize}
    BY SequentialAssumption DEF From
  <2>2. \A p \in Nat : p < FileSize => p \in delivered \cup skipped
    BY SequentialAssumption DEF SequentialInv
  <2>3. QED
    BY <2>1, <2>2 DEF SequentialInv
<1>4. QED
  BY <1>1, <1>2, <1>3, PTL DEF SequentialSpec

-----------------------------------------------------------------------------
(* Write batches.                                                          *)

(* The count in the header is the number of the entries, and these are     *)
(* the ones the application has asked for; a batch within the bounds has   *)
(* too few entries for the count to wrap.                                  *)
BatchInv ==
  /\ meant \in [Batch -> Seq(Op)]
  /\ DOMAIN batch = Batch
  /\ \A b \in Batch : /\ {"seq", "count", "ops"} \subseteq DOMAIN batch[b]
                      /\ batch[b].ops = meant[b]
                      /\ batch[b].count = Len(meant[b])
                      /\ Len(meant[b]) <= MaxOps

(* Fewer entries than a group may have are counted without a wrap.         *)
LEMMA CountFits ==
  /\ MaxOps < CountMod /\ CountMod \in Nat \ {0} /\ MaxOps \in Nat
  /\ \A k \in 0..MaxGroup : k * MaxOps \in Nat /\ k * MaxOps < CountMod
<1>1. \A a, b, k \in Nat : k <= a => k * b \in Nat /\ k * b <= a * b
  OBVIOUS
<1>2. \A a, b \in Nat : a * b \in Nat
  OBVIOUS
<1>3. \A b \in Nat : 1 * b = b
  OBVIOUS
<1>4. /\ MaxGroup \in Nat /\ 1 \in Nat /\ 1 <= MaxGroup /\ MaxOps \in Nat
      /\ CountMod \in Nat /\ MaxGroup * MaxOps < CountMod
  BY BatchAssumption
<1>5. PICK t \in Nat : t = MaxGroup * MaxOps
  BY <1>2, <1>4
<1>6. ASSUME NEW k \in 0..MaxGroup
      PROVE  k * MaxOps \in Nat /\ k * MaxOps < CountMod
  <2>1. k \in Nat /\ k <= MaxGroup
    BY <1>4
  <2>2. k * MaxOps \in Nat /\ k * MaxOps <= MaxGroup * MaxOps
    BY <1>1, <1>4, <2>1, Zenon
  <2>3. QED
    BY <1>4, <1>5, <2>2
<1>7. MaxOps < CountMod
  <2>1. 1 * MaxOps < CountMod
    BY <1>4, <1>6
  <2>2. QED
    BY <1>3, <1>4, <2>1
<1>8. QED
  BY <1>4, <1>6, <1>7

(* A group is a sequence of batches.                                       *)
LEMMA GroupParts ==
  ASSUME NEW g \in Groups
  PROVE  /\ Len(g) \in 1..MaxGroup
         /\ \A i \in 1..Len(g) : g[i] \in Batch
<1>1. PICK k \in 1..MaxGroup : g \in [1..k -> Batch]
  BY DEF Groups, Injection
<1>2. k \in Nat /\ g \in Seq(Batch) /\ Len(g) = k
  BY <1>1
<1>3. QED
  BY <1>1, <1>2

(* Put and Delete keep the count in step with the entries.                 *)
LEMMA PutOrDeleteStep ==
  ASSUME BatchInv, NEW b \in Batch, NEW op \in Op, PutOrDelete(b, op)
  PROVE  BatchInv'
<1>1. /\ meant[b] \in Seq(Op) /\ batch[b].ops = meant[b]
      /\ Len(meant[b]) \in Nat /\ Len(meant[b]) < MaxOps
  BY CountFits DEF BatchInv, PutOrDelete
<1>2. /\ Append(meant[b], op) \in Seq(Op)
      /\ Len(Append(meant[b], op)) = Len(meant[b]) + 1
  BY <1>1
<1>3. (Len(meant[b]) + 1) % CountMod = Len(meant[b]) + 1
  <2>1. \A m, n \in Nat : m < n => m % n = m
    OBVIOUS
  <2>2. /\ Len(meant[b]) + 1 \in Nat /\ CountMod \in Nat
        /\ Len(meant[b]) + 1 < CountMod
    BY <1>1, CountFits
  <2>3. QED
    BY <2>1, <2>2
<1>4. /\ meant' \in [Batch -> Seq(Op)] /\ meant'[b] = Append(meant[b], op)
      /\ \A c \in Batch \ {b} : meant'[c] = meant[c]
  BY <1>2 DEF BatchInv, PutOrDelete
<1>5. /\ DOMAIN batch' = Batch /\ batch'[b] = WithOp(batch[b], op)
      /\ \A c \in Batch \ {b} : batch'[c] = batch[c]
  BY DEF BatchInv, PutOrDelete
<1>6. /\ {"seq", "count", "ops"} \subseteq DOMAIN WithOp(batch[b], op)
      /\ WithOp(batch[b], op).ops = Append(meant[b], op)
      /\ WithOp(batch[b], op).count = Len(meant[b]) + 1
  <2>1. {"seq", "count", "ops"} \subseteq DOMAIN batch[b]
    BY DEF BatchInv
  <2>2. batch[b].count = Len(meant[b])
    BY DEF BatchInv
  <2>3. DOMAIN WithOp(batch[b], op) = DOMAIN batch[b]
    BY DEF WithOp
  <2>4. WithOp(batch[b], op).ops = Append(batch[b].ops, op)
    BY <2>1 DEF WithOp
  <2>5. WithOp(batch[b], op).count = (batch[b].count + 1) % CountMod
    BY <2>1 DEF WithOp
  <2>6. QED
    BY <1>1, <1>3, <2>1, <2>2, <2>3, <2>4, <2>5
<1>7. QED
  <2>1. ASSUME NEW c \in Batch
        PROVE  /\ {"seq", "count", "ops"} \subseteq DOMAIN batch'[c]
               /\ batch'[c].ops = meant'[c]
               /\ batch'[c].count = Len(meant'[c])
               /\ Len(meant'[c]) <= MaxOps
    <3>1. CASE c = b
      <4>1. Len(meant[b]) + 1 <= MaxOps
        BY <1>1, CountFits
      <4>2. batch'[c] = WithOp(batch[b], op) /\ meant'[c] = Append(meant[b], op)
        BY <1>4, <1>5, <3>1
      <4>3. QED
        BY <1>2, <1>6, <4>1, <4>2
    <3>2. CASE c # b
      BY <1>4, <1>5, <3>2 DEF BatchInv
    <3>3. QED
      BY <3>1, <3>2
  <2>2. QED
    BY <1>4, <1>5, <2>1 DEF BatchInv

(* The invariant holds for new batches.                                    *)
LEMMA BatchInitially == BatchInit => BatchInv
  BY BatchAssumption DEF BatchInit, BatchInv, EmptyRep

(* No other call takes a batch away from what was asked for.               *)
LEMMA BatchStep == BatchInv /\ [BatchNext]_batchVars => BatchInv'
<1> SUFFICES ASSUME BatchInv, [BatchNext]_batchVars PROVE BatchInv'
  OBVIOUS
<1>1. ASSUME NEW b \in Batch, Clear(b) PROVE BatchInv'
  BY <1>1, BatchAssumption DEF Clear, BatchInv, EmptyRep
<1>2. ASSUME NEW b \in Batch, NEW op \in Op, PutOrDelete(b, op) PROVE BatchInv'
  BY <1>2, PutOrDeleteStep
<1>3. ASSUME NEW g \in Groups, WriteGroup(g) PROVE BatchInv'
  <2>1. CASE Len(g) = 1
    <3>1. PICK b \in Batch : b = g[1]
      BY <2>1, GroupParts
    <3>2. batch' = [batch EXCEPT ![b] = [batch[b] EXCEPT !.seq = LastSequence + 1]]
      BY <1>3, <2>1, <3>1 DEF WriteGroup, Grouped
    <3>3. /\ DOMAIN batch' = Batch /\ meant' = meant
          /\ \A c \in Batch \ {b} : batch'[c] = batch[c]
          /\ batch'[b] = [batch[b] EXCEPT !.seq = LastSequence + 1]
      BY <1>3, <3>2 DEF WriteGroup, BatchInv
    <3>4. \A c \in Batch : /\ DOMAIN batch'[c] = DOMAIN batch[c]
                           /\ batch'[c].ops = batch[c].ops
                           /\ batch'[c].count = batch[c].count
      BY <3>3 DEF BatchInv
    <3>5. QED
      BY <3>3, <3>4 DEF BatchInv
  <2>2. CASE Len(g) # 1
    BY <1>3, <2>2 DEF WriteGroup, BatchInv
  <2>3. QED
    BY <2>1, <2>2
<1>4. CASE UNCHANGED batchVars
  BY <1>4 DEF batchVars, BatchInv
<1>5. QED
  BY <1>1, <1>2, <1>3, <1>4 DEF BatchNext

(* Whatever has been put into a batch, and however often it has been       *)
(* written (which leaves its sequence number in the header), Iterate hands *)
(* over what was put in, in order, and finds the count right.              *)
THEOREM BatchesFaithful == BatchSpec => []BatchFaithful
<1>1. BatchInv => BatchFaithful
  <2> SUFFICES ASSUME BatchInv, NEW b \in Batch
               PROVE  LET it == Iterated(batch[b], Len(batch[b].ops)) IN
                      it.ok /\ it.ops = meant[b]
    BY DEF BatchFaithful
  <2>1. meant[b] \in Seq(Op) /\ batch[b].ops = meant[b] /\ batch[b].count = Len(meant[b])
    BY DEF BatchInv
  <2>2. SubSeq(meant[b], 1, Len(meant[b])) = meant[b]
    BY <2>1
  <2>3. QED
    BY <2>1, <2>2 DEF Iterated
<1>2. QED
  BY <1>1, BatchInitially, BatchStep, PTL DEF BatchSpec

-----------------------------------------------------------------------------
(* The log and what is recovered from it.                                  *)

(* All that record i puts into the memtable.                               *)
Entries(i) == Inserted(log[i], Len(log[i].ops))

(* The records of the log take the sequence numbers up to LastSequence one *)
(* after the other, as many as their counts say, and these are right.      *)
LogInv ==
  /\ log \in Seq({log[i] : i \in DOMAIN log})
  /\ LastSequence \in Nat
  /\ \A i \in DOMAIN log :
       /\ log[i].seq \in Nat \ {0} /\ log[i].ops \in Seq(Op)
       /\ log[i].count = Len(log[i].ops)
       /\ LastSeq(log[i]) <= LastSequence
  /\ \A i, j \in DOMAIN log : i < j => LastSeq(log[i]) < log[j].seq
  /\ log = <<>> => LastSequence = 0
  /\ log # <<>> => LastSeq(log[Len(log)]) = LastSequence
  /\ memtable = UNION {Entries(i) : i \in DOMAIN log}

(* WriteBatchInternal::Append, field by field.                             *)
LEMMA AppendedParts ==
  ASSUME NEW dst, NEW src, {"seq", "count", "ops"} \subseteq DOMAIN dst
  PROVE  /\ {"seq", "count", "ops"} \subseteq DOMAIN Appended(dst, src)
         /\ Appended(dst, src).ops = dst.ops \o src.ops
         /\ Appended(dst, src).count = (dst.count + src.count) % CountMod
<1>1. DOMAIN Appended(dst, src) = DOMAIN dst
  BY DEF Appended
<1>2. Appended(dst, src).ops = dst.ops \o src.ops
  BY DEF Appended
<1>3. Appended(dst, src).count = (dst.count + src.count) % CountMod
  BY DEF Appended
<1>4. QED
  BY <1>1, <1>2, <1>3

(* The turns of the loop that joins the batches of a group.                *)
JoinOf(f, g) ==
  /\ f[0] = EmptyRep
  /\ \A i \in 1..Len(g) : f[i] = Appended(f[i - 1], batch[g[i]])

(* Joined is what this loop gives.                                         *)
LEMMA JoinedIs ==
  ASSUME BatchInv, NEW g \in Groups
  PROVE  \E f : JoinOf(f, g) /\ Joined(g) = f[Len(g)]
<1> DEFINE T == [seq : {0}, count : Nat, ops : Seq(Op)]
           h == [i \in 1..Len(g) |-> [r \in T |-> Appended(r, batch[g[i]])]]
           joined == CHOOSE f : f = [i \in 0..Len(g) |->
                       IF i = 0 THEN EmptyRep ELSE Appended(f[i - 1], batch[g[i]])]
<1>1. Len(g) \in Nat /\ \A i \in 1..Len(g) : g[i] \in Batch
  BY GroupParts, BatchAssumption
<1>2. EmptyRep \in T
  BY DEF EmptyRep
<1>3. ASSUME NEW i \in 1..Len(g), NEW r \in T
      PROVE  Appended(r, batch[g[i]]) \in T
  <2>1. batch[g[i]].ops \in Seq(Op) /\ batch[g[i]].count \in Nat
    BY <1>1 DEF BatchInv
  <2>2. r.ops \in Seq(Op) /\ r.count \in Nat
    OBVIOUS
  <2>3. r.ops \o batch[g[i]].ops \in Seq(Op)
    BY <2>1, <2>2
  <2>4. (r.count + batch[g[i]].count) % CountMod \in Nat
    <3>1. \A a, b \in Nat, m \in Nat \ {0} : (a + b) % m \in Nat
      OBVIOUS
    <3>2. QED
      BY <2>1, <2>2, <3>1, CountFits, Zenon
  <2>5. QED
    BY <2>3, <2>4 DEF Appended
<1>4. h \in [1..Len(g) -> [T -> T]]
  BY <1>3
<1>5. \A i \in 1..Len(g), r \in T : h[i][r] = Appended(r, batch[g[i]])
  OBVIOUS
<1> HIDE DEF T, h
<1>6. PICK f \in [0..Len(g) -> T] : Runs(f, Len(g), EmptyRep, h)
  BY <1>1, <1>2, <1>4, LoopExists
<1>7. f = [i \in 0..Len(g) |->
             IF i = 0 THEN EmptyRep ELSE Appended(f[i - 1], batch[g[i]])]
  <2>1. ASSUME NEW i \in 0..Len(g)
        PROVE  f[i] = IF i = 0 THEN EmptyRep ELSE Appended(f[i - 1], batch[g[i]])
    <3>1. CASE i = 0
      BY <1>6, <3>1 DEF Runs
    <3>2. CASE i # 0
      <4>1. i \in 1..Len(g) /\ i - 1 \in 0..Len(g)
        BY <1>1, <3>2
      <4>2. f[i] = h[i][f[i - 1]] /\ f[i - 1] \in T
        BY <1>6, <4>1 DEF Runs
      <4>3. QED
        BY <1>5, <3>2, <4>1, <4>2, Zenon
    <3>3. QED
      BY <3>1, <3>2
  <2>2. QED
    BY <2>1
<1>8. joined = [i \in 0..Len(g) |->
                  IF i = 0 THEN EmptyRep ELSE Appended(joined[i - 1], batch[g[i]])]
  BY <1>7
<1>9. Joined(g) = joined[Len(g)]
  BY DEF Joined
<1> HIDE DEF joined
<1>10. JoinOf(joined, g)
  <2>1. ASSUME NEW i \in 1..Len(g)
        PROVE  joined[i] = Appended(joined[i - 1], batch[g[i]])
    <3>1. i \in 0..Len(g) /\ i # 0
      BY <1>1
    <3>2. joined[i] = IF i = 0 THEN EmptyRep ELSE Appended(joined[i - 1], batch[g[i]])
      BY <1>8, <3>1, Zenon
    <3>3. QED
      BY <3>1, <3>2, Zenon
  <2>2. joined[0] = EmptyRep
    BY <1>1, <1>8
  <2>3. QED
    BY <2>1, <2>2 DEF JoinOf
<1>11. QED
  BY <1>9, <1>10

(* So far: the entries of i batches, with the count of them.               *)
CountedRep(rep, i) ==
  /\ {"seq", "count", "ops"} \subseteq DOMAIN rep
  /\ rep.ops \in Seq(Op) /\ rep.count = Len(rep.ops)
  /\ rep.count <= i * MaxOps

(* Each batch adds as many to the count as entries: it does not wrap.      *)
LEMMA JoinStep ==
  ASSUME BatchInv, NEW i \in Nat, i < MaxGroup, NEW b \in Batch,
         NEW rep, CountedRep(rep, i)
  PROVE  CountedRep(Appended(rep, batch[b]), i + 1)
<1> PICK next : next = Appended(rep, batch[b])
  OBVIOUS
<1> PICK x : x = batch[b].ops
  OBVIOUS
<1>1. x \in Seq(Op) /\ Len(x) \in Nat /\ batch[b].count = Len(x) /\ Len(x) <= MaxOps
  BY DEF BatchInv
<1>2. /\ {"seq", "count", "ops"} \subseteq DOMAIN next
      /\ next.ops = rep.ops \o x
      /\ next.count = (rep.count + Len(x)) % CountMod
  <2>1. {"seq", "count", "ops"} \subseteq DOMAIN rep
    BY DEF CountedRep
  <2>2. /\ {"seq", "count", "ops"} \subseteq DOMAIN next
        /\ next.ops = rep.ops \o batch[b].ops
        /\ next.count = (rep.count + batch[b].count) % CountMod
    BY <2>1, AppendedParts, Zenon
  <2>3. QED
    BY <1>1, <2>2, Zenon
<1>3. rep.ops \in Seq(Op) /\ rep.count = Len(rep.ops) /\ rep.count \in Nat
  BY DEF CountedRep
<1>4. next.ops \in Seq(Op) /\ Len(next.ops) = rep.count + Len(x)
  BY <1>1, <1>2, <1>3
<1>5. PICK s, t \in Nat : s = i * MaxOps /\ t = (i + 1) * MaxOps
  <2>1. \A a, c \in Nat : a * c \in Nat
    OBVIOUS
  <2>2. i + 1 \in Nat /\ MaxOps \in Nat
    BY CountFits
  <2>3. QED
    BY <2>1, <2>2
<1>6. t = s + MaxOps /\ t < CountMod
  <2>1. \A a, c \in Nat : (a + 1) * c = a * c + c
    OBVIOUS
  <2>2. (i + 1) * MaxOps = i * MaxOps + MaxOps
    BY <2>1, CountFits, Zenon
  <2>3. i + 1 \in 0..MaxGroup
    BY BatchAssumption
  <2>4. (i + 1) * MaxOps < CountMod
    BY <2>3, CountFits, Zenon
  <2>5. QED
    BY <1>5, <2>2, <2>4
<1>7. PICK c, l \in Nat : c = rep.count /\ l = Len(x)
  BY <1>1, <1>3, Zenon
<1>8. PICK n \in Nat : n = c + l
  OBVIOUS
<1>9. n <= t /\ n < CountMod
  <2>1. c <= s
    BY <1>5, <1>7, Zenon DEF CountedRep
  <2>2. l <= MaxOps /\ MaxOps \in Nat /\ CountMod \in Nat
    BY <1>1, <1>7, CountFits
  <2>3. QED
    BY <1>6, <1>8, <2>1, <2>2
<1>10. next.count = n
  <2>1. \A a, m \in Nat : a < m => a % m = a
    OBVIOUS
  <2>2. n % CountMod = n
    BY <1>9, <2>1, CountFits
  <2>3. QED
    BY <1>2, <1>7, <1>8, <2>2
<1>11. next.count = Len(next.ops) /\ next.count <= (i + 1) * MaxOps
  BY <1>4, <1>5, <1>7, <1>8, <1>9, <1>10
<1>12. QED
  BY <1>2, <1>4, <1>11, Zenon DEF CountedRep

(* What is logged for a group has the count of its entries.                *)
LEMMA GroupedCount ==
  ASSUME BatchInv, NEW g \in Groups
  PROVE  /\ {"seq", "count", "ops"} \subseteq DOMAIN Grouped(g)
         /\ Grouped(g).ops \in Seq(Op) /\ Grouped(g).count = Len(Grouped(g).ops)
<1>1. Len(g) \in 1..MaxGroup /\ \A i \in 1..Len(g) : g[i] \in Batch
  BY GroupParts
<1>2. CASE Len(g) = 1
  <2>1. g[1] \in Batch /\ Grouped(g) = batch[g[1]]
    BY <1>1, <1>2 DEF Grouped
  <2>2. QED
    BY <2>1 DEF BatchInv
<1>3. CASE Len(g) # 1
  <2>1. PICK f : JoinOf(f, g) /\ Joined(g) = f[Len(g)]
    BY JoinedIs
  <2> DEFINE P == {i \in 0..Len(g) : CountedRep(f[i], i)}
  <2>2. Len(g) \in Nat /\ MaxGroup \in Nat
    BY <1>1, BatchAssumption
  <2>3. 0 \in P
    <3>1. 0 * MaxOps = 0
      BY CountFits
    <3>2. f[0] = EmptyRep
      BY <2>1 DEF JoinOf
    <3>3. CountedRep(EmptyRep, 0)
      BY <3>1 DEF CountedRep, EmptyRep
    <3>4. QED
      BY <2>2, <3>2, <3>3
  <2>4. \A i \in 0..Len(g) : i # Len(g) /\ i \in P => i + 1 \in P
    <3> SUFFICES ASSUME NEW i \in 0..Len(g), i # Len(g), i \in P PROVE i + 1 \in P
      OBVIOUS
    <3>1. /\ i \in Nat /\ i < MaxGroup /\ i + 1 \in 1..Len(g) /\ i + 1 \in 0..Len(g)
          /\ (i + 1) - 1 = i
      BY <1>1, <2>2
    <3>2. f[i + 1] = Appended(f[i], batch[g[i + 1]])
      BY <2>1, <3>1, Zenon DEF JoinOf
    <3>3. CountedRep(f[i], i) /\ g[i + 1] \in Batch
      BY <1>1, <3>1
    <3>4. CountedRep(Appended(f[i], batch[g[i + 1]]), i + 1)
      BY <3>1, <3>3, JoinStep, Zenon
    <3>5. QED
      BY <3>1, <3>2, <3>4
  <2>5. CountedRep(f[Len(g)], Len(g))
    <3> HIDE DEF P
    <3>1. \A i \in 0..Len(g) : i \in P
      BY <2>2, <2>3, <2>4, SetInduction
    <3>2. Len(g) \in P
      BY <2>2, <3>1
    <3>3. QED
      BY <3>2 DEF P
  <2>6. Grouped(g) = f[Len(g)]
    BY <1>3, <2>1 DEF Grouped
  <2>7. QED
    BY <2>5, <2>6 DEF CountedRep
<1>4. QED
  BY <1>2, <1>3

(* The next record takes the numbers after LastSequence.                   *)
LEMMA WriteGroupStep ==
  ASSUME BatchInv, LogInv, NEW g \in Groups, WriteGroup(g)
  PROVE  LogInv'
<1> DEFINE rep == [Grouped(g) EXCEPT !.seq = LastSequence + 1]
<1>1. /\ log' = Append(log, rep) /\ LastSequence' = LastSequence + rep.count
      /\ memtable' = memtable \cup Inserted(rep, Len(rep.ops))
  BY DEF WriteGroup
<1>2. /\ rep.seq = LastSequence + 1 /\ rep.ops \in Seq(Op)
      /\ rep.count = Len(rep.ops) /\ rep.count \in Nat
  BY GroupedCount
<1> HIDE DEF rep
<1>3. LastSequence \in Nat /\ Len(log) \in Nat /\ DOMAIN log = 1..Len(log)
  BY DEF LogInv
<1> PICK n \in Nat : n = Len(log) + 1
  BY <1>3
<1>4. /\ DOMAIN log' = DOMAIN log \cup {n} /\ n \notin DOMAIN log /\ Len(log') = n
      /\ log'[n] = rep /\ \A i \in DOMAIN log : log'[i] = log[i]
      /\ log' \in Seq({log'[i] : i \in DOMAIN log'})
  <2>1. log \in Seq({log[i] : i \in DOMAIN log} \cup {rep})
    BY <1>3 DEF LogInv
  <2>2. QED
    BY <1>1, <1>3, <2>1
<1>5. LastSeq(rep) = LastSequence' /\ LastSequence' \in Nat /\ LastSequence <= LastSequence'
  <2>1. \A a, b \in Nat : (a + 1) + b - 1 = a + b /\ a + b \in Nat /\ a <= a + b
    OBVIOUS
  <2>2. LastSeq(rep) = (LastSequence + 1) + rep.count - 1
    BY <1>2 DEF LastSeq
  <2>3. QED
    BY <1>1, <1>2, <1>3, <2>1, <2>2, Zenon
<1>6. ASSUME NEW i \in DOMAIN log'
      PROVE  /\ log'[i].seq \in Nat \ {0} /\ log'[i].ops \in Seq(Op)
             /\ log'[i].count = Len(log'[i].ops)
             /\ LastSeq(log'[i]) <= LastSequence'
  <2>1. CASE i = n
    BY <1>2, <1>3, <1>4, <1>5, <2>1
  <2>2. CASE i # n
    <3>1. i \in DOMAIN log /\ log'[i] = log[i]
      BY <1>4, <2>2
    <3>2. /\ log[i].seq \in Nat /\ log[i].count \in Nat /\ LastSeq(log[i]) <= LastSequence
      BY <3>1 DEF LogInv
    <3>3. LastSeq(log[i]) <= LastSequence'
      BY <1>3, <1>5, <3>2 DEF LastSeq
    <3>4. QED
      BY <3>1, <3>3 DEF LogInv
  <2>3. QED
    BY <2>1, <2>2
<1>7. ASSUME NEW i \in DOMAIN log', NEW j \in DOMAIN log', i < j
      PROVE  LastSeq(log'[i]) < log'[j].seq
  <2>1. i \in DOMAIN log /\ log'[i] = log[i]
    BY <1>3, <1>4, <1>7
  <2>2. LastSeq(log[i]) <= LastSequence /\ log[i].seq \in Nat /\ log[i].count \in Nat
    BY <2>1 DEF LogInv
  <2>3. CASE j = n
    BY <1>2, <1>3, <1>4, <2>1, <2>2, <2>3 DEF LastSeq
  <2>4. CASE j # n
    BY <1>4, <1>7, <2>1, <2>4 DEF LogInv
  <2>5. QED
    BY <2>3, <2>4
<1>8. log' # <<>> /\ LastSeq(log'[Len(log')]) = LastSequence'
  <2>1. log' # <<>>
    BY <1>4
  <2>2. QED
    BY <1>4, <1>5, <2>1
<1>9. memtable' = UNION {Entries(i)' : i \in DOMAIN log'}
  <2>1. \A i \in DOMAIN log : Entries(i)' = Entries(i)
    BY <1>4 DEF Entries
  <2>2. Entries(n)' = Inserted(rep, Len(rep.ops))
    BY <1>4 DEF Entries
  <2>3. memtable = UNION {Entries(i) : i \in DOMAIN log}
    BY DEF LogInv
  <2>4. QED
    BY <1>1, <1>4, <2>1, <2>2, <2>3
<1>10. QED
  BY <1>4, <1>5, <1>6, <1>7, <1>8, <1>9 DEF LogInv

(* The numbers of the entries that a replay inserts.                       *)
LEMMA EntriesNumbered ==
  ASSUME LogInv, NEW i \in DOMAIN log, NEW r \in Nat, r <= Len(log[i].ops)
  PROVE  /\ Inserted(log[i], r) \subseteq Entries(i)
         /\ \A e \in Inserted(log[i], r) :
              e.seq \in Nat /\ log[i].seq <= e.seq /\ e.seq <= LastSeq(log[i])
<1> DEFINE ops == log[i].ops
           s == log[i].seq
           Part(k) == {[seq |-> s + j - 1, op |-> ops[j]] : j \in 1..k}
<1>1. s \in Nat \ {0} /\ ops \in Seq(Op) /\ log[i].count = Len(ops) /\ Len(ops) \in Nat
  BY DEF LogInv
<1>2. ASSUME NEW k \in Nat, k <= Len(ops)
      PROVE  Inserted(log[i], k) = Part(k)
  <2>1. /\ DOMAIN SubSeq(ops, 1, k) = 1..k
        /\ \A j \in 1..k : SubSeq(ops, 1, k)[j] = ops[j]
    BY <1>1, <1>2
  <2>2. QED
    BY <2>1 DEF Inserted, Iterated
<1>3. Entries(i) = Part(Len(ops)) /\ Inserted(log[i], r) = Part(r)
  BY <1>1, <1>2 DEF Entries
<1>4. \A j \in 1..r : j \in 1..Len(ops)
  BY <1>1
<1>5. Part(r) \subseteq Part(Len(ops))
  BY <1>4
<1>6. ASSUME NEW j \in 1..r
      PROVE  s + j - 1 \in Nat /\ s <= s + j - 1 /\ s + j - 1 <= LastSeq(log[i])
  BY <1>1, <1>6 DEF LastSeq
<1>7. QED
  BY <1>3, <1>5, <1>6

(* A set of numbers that is bounded has a largest one.                     *)
LEMMA MaxIn ==
  ASSUME NEW N \in Nat, NEW S, S \subseteq 0..N, S # {}
  PROVE  Max(S) \in S /\ \A x \in S : x <= Max(S)
<1> DEFINE T == {d \in Nat : d <= N /\ N - d \in S}
<1>1. T \in SUBSET Nat /\ T # {}
  <2>1. PICK x \in S : TRUE
    OBVIOUS
  <2>2. N - x \in Nat /\ N - x <= N /\ N - (N - x) = x
    OBVIOUS
  <2>3. N - x \in T
    BY <2>2
  <2>4. QED
    BY <2>3
<1>2. PICK d \in T : \A e \in T : d <= e
  <2> HIDE DEF T
  <2>1. QED
    BY <1>1, LeastIn
<1>3. N - d \in S /\ d \in Nat
  OBVIOUS
<1>4. ASSUME NEW x \in S PROVE x <= N - d
  <2>1. x \in Nat /\ x <= N /\ N - x \in Nat /\ N - x <= N /\ N - (N - x) = x
    OBVIOUS
  <2>2. N - x \in T
    BY <2>1
  <2>3. d <= N - x
    BY <1>2, <2>2
  <2>4. QED
    BY <1>3, <2>1, <2>3
<1>5. QED
  BY <1>3, <1>4 DEF Max

(* LogInv says all that ReplayFaithful asks: no two records share a number.*)
LEMMA LogReplays ==
  ASSUME LogInv
  PROVE  ReplayFaithful
<1> SUFFICES ASSUME NEW kept \in SUBSET DOMAIN log
             PROVE  LET whole == [i \in kept |-> Len(log[i].ops)]
                        passed_over == UNION {Inserted(log[i], Len(log[i].ops)) : i \in DOMAIN log \ kept}
                    IN /\ Replay(whole).mem = memtable \ passed_over
                       /\ kept = DOMAIN log => Replay(whole).max = LastSequence
                       /\ \A readable \in [kept -> 0..MaxGroup * MaxOps] :
                            (\A i \in kept : readable[i] <= whole[i]) =>
                              /\ Replay(readable).mem \subseteq memtable
                              /\ \A e \in Replay(readable).mem : e.seq <= Replay(readable).max
  BY DEF ReplayFaithful
<1> DEFINE whole == [i \in kept |-> Len(log[i].ops)]
           passed_over == UNION {Entries(i) : i \in DOMAIN log \ kept}
           Highest == {0} \cup {LastSeq(log[i]) : i \in kept}
<1>1. /\ LastSequence \in Nat /\ Len(log) \in Nat /\ DOMAIN log = 1..Len(log)
      /\ memtable = UNION {Entries(i) : i \in DOMAIN log}
      /\ kept \subseteq DOMAIN log
  BY DEF LogInv
<1>2. ASSUME NEW i \in DOMAIN log
      PROVE  /\ Len(log[i].ops) \in Nat /\ LastSeq(log[i]) \in Nat
             /\ LastSeq(log[i]) <= LastSequence
             /\ \A e \in Entries(i) :
                  e.seq \in Nat /\ log[i].seq <= e.seq /\ e.seq <= LastSeq(log[i])
  <2>1. /\ log[i].seq \in Nat \ {0} /\ log[i].count = Len(log[i].ops)
        /\ Len(log[i].ops) \in Nat /\ LastSeq(log[i]) <= LastSequence
    BY DEF LogInv
  <2>2. LastSeq(log[i]) \in Nat
    BY <2>1 DEF LastSeq
  <2>3. QED
    BY <2>1, <2>2, EntriesNumbered DEF Entries
<1>3. ASSUME NEW i \in DOMAIN log, NEW j \in DOMAIN log, i # j
      PROVE  Entries(i) \cap Entries(j) = {}
  <2>1. ASSUME NEW e, e \in Entries(i), e \in Entries(j) PROVE FALSE
    <3>1. /\ e.seq \in Nat /\ log[i].seq <= e.seq /\ e.seq <= LastSeq(log[i])
          /\ log[j].seq <= e.seq /\ e.seq <= LastSeq(log[j])
      BY <1>2, <2>1
    <3>2. /\ LastSeq(log[i]) \in Nat /\ LastSeq(log[j]) \in Nat
          /\ log[i].seq \in Nat /\ log[j].seq \in Nat
      BY <1>2 DEF LogInv
    <3>3. LastSeq(log[i]) < log[j].seq \/ LastSeq(log[j]) < log[i].seq
      BY <1>1, <1>3 DEF LogInv
    <3>4. QED
      BY <3>1, <3>2, <3>3
  <2>2. QED
    BY <2>1
<1>4. Highest \subseteq 0..LastSequence /\ Highest # {}
  BY <1>1, <1>2
<1>5. Max(Highest) \in Highest /\ \A x \in Highest : x <= Max(Highest)
  <2> HIDE DEF Highest
  <2>1. QED
    BY <1>1, <1>4, MaxIn
<1>6. Replay(whole).mem = memtable \ passed_over
  <2>1. Replay(whole).mem = UNION {Entries(i) : i \in kept}
    BY DEF Replay, Entries
  <2>2. QED
    BY <1>1, <1>3, <2>1
<1>7. ASSUME kept = DOMAIN log PROVE Replay(whole).max = LastSequence
  <2>1. Replay(whole).max = Max(Highest)
    BY DEF Replay
  <2>2. LastSequence \in Highest
    <3>1. CASE log = <<>>
      BY <3>1 DEF LogInv
    <3>2. CASE log # <<>>
      <4>1. Len(log) \in DOMAIN log
        BY <1>1, <3>2 DEF LogInv
      <4>2. QED
        BY <1>7, <3>2, <4>1 DEF LogInv
    <3>3. QED
      BY <3>1, <3>2
  <2>3. LastSequence <= Max(Highest) /\ Max(Highest) <= LastSequence /\ Max(Highest) \in Nat
    BY <1>4, <1>5, <2>2
  <2> HIDE DEF Highest
  <2>4. QED
    BY <1>1, <2>1, <2>3
<1>8. ASSUME NEW readable \in [kept -> 0..MaxGroup * MaxOps],
             \A i \in kept : readable[i] <= whole[i]
      PROVE  /\ Replay(readable).mem \subseteq memtable
             /\ \A e \in Replay(readable).mem : e.seq <= Replay(readable).max
  <2>1. /\ Replay(readable).mem = UNION {Inserted(log[i], readable[i]) : i \in kept}
        /\ Replay(readable).max = Max(Highest)
    BY DEF Replay
  <2>2. ASSUME NEW i \in kept
        PROVE  /\ Inserted(log[i], readable[i]) \subseteq Entries(i)
               /\ \A e \in Inserted(log[i], readable[i]) :
                    e.seq \in Nat /\ e.seq <= LastSeq(log[i])
    <3>1. readable[i] \in Nat /\ readable[i] <= Len(log[i].ops) /\ i \in DOMAIN log
      <4>1. MaxGroup * MaxOps \in Nat
        BY BatchAssumption, CountFits
      <4>2. QED
        BY <1>8, <4>1
    <3>2. QED
      BY <3>1, EntriesNumbered
  <2>3. \A i \in kept : LastSeq(log[i]) \in Nat /\ LastSeq(log[i]) <= Max(Highest)
    BY <1>2, <1>5
  <2>4. Max(Highest) \in Nat
    BY <1>4, <1>5
  <2> HIDE DEF Highest
  <2>5. Replay(readable).mem \subseteq memtable
    BY <1>1, <2>1, <2>2
  <2>6. ASSUME NEW e \in Replay(readable).mem PROVE e.seq <= Replay(readable).max
    <3>1. PICK i \in kept : e \in Inserted(log[i], readable[i])
      BY <2>1
    <3>2. QED
      BY <2>1, <2>2, <2>3, <2>4, <3>1
  <2>7. QED
    BY <2>5, <2>6
<1>9. QED
  BY <1>6, <1>7, <1>8 DEF Entries

(* Replaying the log gives back what the writers put into the memtable,    *)
(* less what skipped records held, and the sequence number that DB::Open   *)
(* goes on from covers whatever it has recovered, also where a record      *)
(* breaks off (dp_impl.cpp:446-475).                                       *)
THEOREM ReplaysFaithful == BatchSpec => []ReplayFaithful
<1>1. BatchInit => BatchInv /\ LogInv
  <2> SUFFICES ASSUME BatchInit PROVE LogInv
    BY BatchInitially
  <2>1. log = <<>> /\ memtable = {} /\ LastSequence = 0 /\ DOMAIN log = {}
    BY DEF BatchInit
  <2>2. QED
    BY <2>1 DEF LogInv
<1>2. BatchInv /\ LogInv /\ [BatchNext]_batchVars => BatchInv' /\ LogInv'
  <2> SUFFICES ASSUME BatchInv, LogInv, [BatchNext]_batchVars PROVE LogInv'
    BY BatchStep
  <2>1. ASSUME UNCHANGED <<log, memtable, LastSequence>> PROVE LogInv'
    BY <2>1 DEF LogInv, Entries
  <2>2. ASSUME NEW g \in Groups, WriteGroup(g) PROVE LogInv'
    BY <2>2, WriteGroupStep
  <2>3. QED
    BY <2>1, <2>2 DEF BatchNext, batchVars, Clear, PutOrDelete
<1>3. BatchInv /\ LogInv => ReplayFaithful
  BY LogReplays
<1>4. QED
  BY <1>1, <1>2, <1>3, PTL DEF BatchSpec

-----------------------------------------------------------------------------
(* String buffers.                                                         *)
(* What a buffer records of its memory.                                    *)
Memory == [ptr : Nat, size : Nat, used : Nat]

(* Buffers and blocks know each other.                                     *)
BufferInv ==
  /\ buffer \in [DOMAIN buffer -> Memory] /\ DOMAIN buffer \subseteq BufferName
  /\ heap \in [DOMAIN heap -> Nat] /\ DOMAIN heap \subseteq Nat \ {NULL}
  /\ IsFiniteSet(DOMAIN heap)
  /\ \A n \in DOMAIN buffer :
       /\ buffer[n].used <= buffer[n].size
       /\ buffer[n].ptr # NULL => /\ buffer[n].ptr \in DOMAIN heap
                                  /\ heap[buffer[n].ptr] = buffer[n].size
  /\ \A p \in DOMAIN heap : \E n \in DOMAIN buffer : buffer[n].ptr = p
  /\ \A n, m \in DOMAIN buffer :
       buffer[n].ptr = buffer[m].ptr /\ buffer[n].ptr # NULL => n = m

(* An empty string still has its zero.                                     *)
LEMMA MaxPair ==
  ASSUME NEW m \in Nat, NEW n \in Nat
  PROVE  Max({m, n}) \in {m, n}
<1>1. CASE m <= n
  BY <1>1 DEF Max
<1>2. CASE ~(m <= n)
  BY <1>2 DEF Max
<1>3. QED
  BY <1>1, <1>2

(* A set of numbers that is not empty has a smallest one.                  *)
LEMMA MinIn ==
  ASSUME NEW S \in SUBSET Nat, S # {}
  PROVE  Min(S) \in S
<1>1. PICK d \in S : \A e \in S : d <= e
  BY LeastIn
<1>2. QED
  BY <1>1 DEF Min

(* malloc finds memory that nobody has.                                    *)
LEMMA UnusedFree ==
  ASSUME NEW memory, IsFiniteSet(DOMAIN memory)
  PROVE  Unused(memory) \in Nat \ {NULL} /\ Unused(memory) \notin DOMAIN memory
<1> DEFINE k == Cardinality(DOMAIN memory)
           free == (1..k + 1) \ DOMAIN memory
<1>1. k \in Nat
  BY FS_CardinalityType
<1>2. IsFiniteSet(1..k + 1) /\ Cardinality(1..k + 1) = k + 1
  <2>1. 1 \in Int /\ k + 1 \in Int /\ 1 <= k + 1 /\ (k + 1) - 1 + 1 = k + 1
    BY <1>1
  <2> HIDE DEF k
  <2>2. QED
    BY <2>1, FS_Interval
<1>3. ~(1..k + 1 \subseteq DOMAIN memory)
  <2>1. 1..k + 1 \subseteq DOMAIN memory => k + 1 <= k
    BY <1>2, FS_Subset
  <2>2. QED
    BY <1>1, <2>1
<1>4. free \in SUBSET Nat /\ free # {}
  BY <1>1, <1>3
<1>5. Min(free) \in free
  BY <1>4, MinIn
<1>6. QED
  BY <1>1, <1>5 DEF Unused, NULL

(* free takes away a block and leaves the others.                          *)
LEMMA FreedFacts ==
  ASSUME NEW memory, NEW p
  PROVE  /\ DOMAIN Freed(memory, p) = DOMAIN memory \ {p}
         /\ \A q \in DOMAIN memory \ {p} : Freed(memory, p)[q] = memory[q]
BY DEF Freed, Restrict

(* buffer_align_size never makes a size smaller, even where it wraps.      *)
LEMMA AlignedEnough ==
  ASSUME NEW size \in Nat, size < SizeMod
  PROVE  AlignSize(size) \in Nat /\ AlignSize(size) >= size
<1> DEFINE aligned == (size + (Piece - (size % Piece))) % SizeMod
<1>1. \A a \in Nat, b \in Nat \ {0} : a % b \in Nat /\ a % b < b
  OBVIOUS
<1>2. size % Piece \in Nat /\ size % Piece < Piece
  BY <1>1, BufferAssumption
<1>3. size + (Piece - (size % Piece)) \in Nat
  BY <1>2, BufferAssumption
<1>4. SizeMod \in Nat \ {0}
  BY BufferAssumption
<1>5. aligned \in Nat
  BY <1>1, <1>3, <1>4
<1> HIDE DEF aligned
<1>6. AlignSize(size) = IF aligned < size THEN size ELSE aligned
  BY DEF AlignSize, aligned
<1>7. QED
  BY <1>5, <1>6

(* The memory that is left when a buffer gives up its block: it is what    *)
(* the other buffers have.                                                 *)
Rest(n) == Freed(heap, buffer[n].ptr)

HeldByOthers(rest, n) ==
  /\ DOMAIN rest = DOMAIN heap \ {buffer[n].ptr}
  /\ rest \in [DOMAIN rest -> Nat] /\ IsFiniteSet(DOMAIN rest)
  /\ \A m \in DOMAIN buffer \ {n} : buffer[m].ptr # NULL =>
       /\ buffer[m].ptr \in DOMAIN rest
       /\ rest[buffer[m].ptr] = buffer[m].size
  /\ \A p \in DOMAIN rest : \E m \in DOMAIN buffer \ {n} : buffer[m].ptr = p

LEMMA ReplaceBlock ==
  ASSUME BufferInv, NEW n \in DOMAIN buffer
  PROVE  HeldByOthers(Rest(n), n)
<1>1. /\ DOMAIN Rest(n) = DOMAIN heap \ {buffer[n].ptr}
      /\ \A q \in DOMAIN Rest(n) : Rest(n)[q] = heap[q]
  BY FreedFacts DEF Rest
<1>2. Rest(n) \in [DOMAIN Rest(n) -> Nat]
  BY <1>1, FreedFacts DEF BufferInv, Rest, Freed, Restrict
<1>3. IsFiniteSet(DOMAIN Rest(n))
  BY <1>1, FS_Subset DEF BufferInv
<1>4. QED
  BY <1>1, <1>2, <1>3 DEF BufferInv, HeldByOthers

(* buffer_alloc and buffer_realloc: a buffer gives up its block and gets a *)
(* new one, which is large enough.                                         *)
LEMMA AllocatedStep ==
  ASSUME BufferInv, NEW n \in DOMAIN buffer, NEW size \in Nat, NEW used \in Nat,
         used <= size, Allocated(n, size, used)
  PROVE  BufferInv'
<1> DEFINE rest == Rest(n)
           p == Unused(rest)
<1>0. rest = Rest(n) /\ p = Unused(rest)
  OBVIOUS
<1>00. Allocated(n, size, used) <=>
        /\ heap' = [q \in DOMAIN rest \cup {p} |-> IF q = p THEN size ELSE rest[q]]
        /\ buffer' = [buffer EXCEPT ![n] = [ptr |-> p, size |-> size, used |-> used]]
  BY DEF Allocated, Rest
<1> HIDE DEF rest, p
<1>1. /\ DOMAIN rest = DOMAIN heap \ {buffer[n].ptr}
      /\ rest \in [DOMAIN rest -> Nat] /\ IsFiniteSet(DOMAIN rest)
      /\ \A m \in DOMAIN buffer \ {n} : buffer[m].ptr # NULL =>
           /\ buffer[m].ptr \in DOMAIN rest
           /\ rest[buffer[m].ptr] = buffer[m].size
      /\ \A q \in DOMAIN rest : \E m \in DOMAIN buffer \ {n} : buffer[m].ptr = q
  <2>1. HeldByOthers(rest, n)
    BY <1>0, ReplaceBlock
  <2>2. QED
    BY <2>1 DEF HeldByOthers
<1>2. p \in Nat \ {NULL} /\ p \notin DOMAIN rest
  BY <1>0, <1>1, UnusedFree
<1>3. /\ heap' = [q \in DOMAIN rest \cup {p} |-> IF q = p THEN size ELSE rest[q]]
      /\ buffer' = [buffer EXCEPT ![n] = [ptr |-> p, size |-> size, used |-> used]]
  BY <1>00
<1>4. /\ DOMAIN heap' = DOMAIN rest \cup {p} /\ heap'[p] = size
      /\ \A q \in DOMAIN rest : heap'[q] = rest[q]
      /\ heap' \in [DOMAIN heap' -> Nat]
  BY <1>1, <1>2, <1>3
<1>5. IsFiniteSet(DOMAIN heap')
  BY <1>1, <1>4, FS_AddElement
<1>6. /\ DOMAIN buffer' = DOMAIN buffer
      /\ buffer'[n] = [ptr |-> p, size |-> size, used |-> used]
      /\ \A m \in DOMAIN buffer \ {n} : buffer'[m] = buffer[m]
  BY <1>3
<1>7. /\ buffer' \in [DOMAIN buffer' -> Memory] /\ DOMAIN buffer' \subseteq BufferName
      /\ DOMAIN heap' \subseteq Nat \ {NULL}
  BY <1>1, <1>2, <1>3, <1>4, <1>6 DEF BufferInv, Memory
<1>8. \A m \in DOMAIN buffer' :
        /\ buffer'[m].used <= buffer'[m].size
        /\ buffer'[m].ptr # NULL => /\ buffer'[m].ptr \in DOMAIN heap'
                                    /\ heap'[buffer'[m].ptr] = buffer'[m].size
  <2>1. ASSUME NEW m \in DOMAIN buffer \ {n}
        PROVE  /\ buffer'[m].used <= buffer'[m].size
               /\ buffer'[m].ptr # NULL => /\ buffer'[m].ptr \in DOMAIN heap'
                                           /\ heap'[buffer'[m].ptr] = buffer'[m].size
    BY <1>1, <1>4, <1>6 DEF BufferInv
  <2>2. /\ buffer'[n].used <= buffer'[n].size
        /\ buffer'[n].ptr \in DOMAIN heap' /\ heap'[buffer'[n].ptr] = buffer'[n].size
    BY <1>4, <1>6
  <2>3. QED
    BY <1>6, <2>1, <2>2
<1>9. \A q \in DOMAIN heap' : \E m \in DOMAIN buffer' : buffer'[m].ptr = q
  <2>1. buffer'[n].ptr = p
    BY <1>6
  <2>2. QED
    BY <1>1, <1>4, <1>6, <2>1
<1>10. \A m, l \in DOMAIN buffer' :
         buffer'[m].ptr = buffer'[l].ptr /\ buffer'[m].ptr # NULL => m = l
  <2>1. \A m \in DOMAIN buffer \ {n} : buffer'[m].ptr # p
    BY <1>1, <1>2, <1>6
  <2>2. buffer'[n].ptr = p
    BY <1>6
  <2>3. \A m, l \in DOMAIN buffer \ {n} :
          buffer'[m].ptr = buffer'[l].ptr /\ buffer'[m].ptr # NULL => m = l
    BY <1>6 DEF BufferInv
  <2>4. QED
    BY <1>6, <2>1, <2>2, <2>3
<1>11. QED
  BY <1>4, <1>5, <1>7, <1>8, <1>9, <1>10 DEF BufferInv

(* buffer_reset of a buffer leaves a block that is small enough, or none.  *)
LEMMA ResetFacts ==
  ASSUME BufferInv, NEW n \in DOMAIN buffer, NEW r, r = Reset(buffer[n])
  PROVE  /\ r.buffer \in Memory /\ r.buffer.used = 0
         /\ \/ r.buffer = NoMemory /\ r.heap = Freed(heap, buffer[n].ptr)
            \/ r.buffer.ptr = buffer[n].ptr /\ r.buffer.size = buffer[n].size
                 /\ r.heap = heap
<1>1. buffer[n] \in Memory
  BY DEF BufferInv
<1>2. CASE buffer[n].size > MaxReuse
  BY <1>2 DEF Reset, NoMemory, Memory, NULL
<1>3. CASE ~(buffer[n].size > MaxReuse)
  BY <1>1, <1>3 DEF Reset, Memory
<1>4. QED
  BY <1>2, <1>3

(* The names of two buffers, and what they hold, before and after a step   *)
(* that moves blocks between them and may free the one that n had.         *)
LEMMA MovedStep ==
  ASSUME BufferInv, NEW n \in DOMAIN buffer, NEW src \in DOMAIN buffer,
         MoveBuffer(n, src) \/ (n = src /\ ResetBuffer(n))
  PROVE  BufferInv'
<1> DEFINE r == Reset(buffer[n])
<1>1. /\ r.buffer \in Memory /\ r.buffer.used = 0
      /\ \/ r.buffer = NoMemory /\ r.heap = Freed(heap, buffer[n].ptr)
         \/ r.buffer.ptr = buffer[n].ptr /\ r.buffer.size = buffer[n].size
              /\ r.heap = heap
  BY ResetFacts
<1>2. /\ heap' = r.heap
      /\ buffer' = IF n = src THEN [buffer EXCEPT ![n] = r.buffer]
                   ELSE [buffer EXCEPT ![n] = buffer[src], ![src] = r.buffer]
  BY DEF MoveBuffer, ResetBuffer
<1> HIDE DEF r
<1>3. PICK got, given :
        /\ got = r.buffer /\ given = buffer[src]
        /\ DOMAIN buffer' = DOMAIN buffer
        /\ buffer'[src] = got /\ (n # src => buffer'[n] = given)
        /\ \A m \in DOMAIN buffer \ {n, src} : buffer'[m] = buffer[m]
  BY <1>2
<1>4. buffer' \in [DOMAIN buffer' -> Memory] /\ DOMAIN buffer' \subseteq BufferName
  BY <1>1, <1>2 DEF BufferInv
<1>5. \A m \in DOMAIN buffer' : buffer'[m].used <= buffer'[m].size
  <2>1. got.used <= got.size
    BY <1>1, <1>3 DEF Memory
  <2>2. QED
    BY <1>3, <2>1 DEF BufferInv
<1>6. CASE r.buffer = NoMemory /\ r.heap = Freed(heap, buffer[n].ptr)
  <2>1. /\ DOMAIN heap' = DOMAIN heap \ {buffer[n].ptr}
        /\ heap' \in [DOMAIN heap' -> Nat] /\ IsFiniteSet(DOMAIN heap')
        /\ \A m \in DOMAIN buffer \ {n} : buffer[m].ptr # NULL =>
             /\ buffer[m].ptr \in DOMAIN heap'
             /\ heap'[buffer[m].ptr] = buffer[m].size
        /\ \A p \in DOMAIN heap' : \E m \in DOMAIN buffer \ {n} : buffer[m].ptr = p
    <3>1. heap' = Rest(n)
      BY <1>2, <1>6 DEF Rest
    <3>2. HeldByOthers(heap', n)
      BY <3>1, ReplaceBlock
    <3>3. QED
      BY <3>2 DEF HeldByOthers
  <2>2. buffer'[src].ptr = NULL
    BY <1>3, <1>6 DEF NoMemory
  <2>3. \A m \in DOMAIN buffer' :
          buffer'[m].ptr # NULL => /\ buffer'[m].ptr \in DOMAIN heap'
                                   /\ heap'[buffer'[m].ptr] = buffer'[m].size
    BY <1>3, <2>1, <2>2
  <2>4. \A p \in DOMAIN heap' : \E m \in DOMAIN buffer' : buffer'[m].ptr = p
    <3>1. ASSUME NEW p \in DOMAIN heap'
          PROVE  \E m \in DOMAIN buffer' : buffer'[m].ptr = p
      <4>1. PICK m \in DOMAIN buffer \ {n} : buffer[m].ptr = p
        BY <2>1
      <4>2. CASE m = src
        BY <1>3, <4>1, <4>2
      <4>3. CASE m # src
        BY <1>3, <4>1, <4>3
      <4>4. QED
        BY <4>2, <4>3
    <3>2. QED
      BY <3>1
  <2>5. \A m, l \in DOMAIN buffer' :
          buffer'[m].ptr = buffer'[l].ptr /\ buffer'[m].ptr # NULL => m = l
    BY <1>3, <2>2 DEF BufferInv
  <2>6. DOMAIN heap' \subseteq Nat \ {NULL}
    BY <2>1 DEF BufferInv
  <2>7. QED
    BY <1>4, <1>5, <2>1, <2>3, <2>4, <2>5, <2>6 DEF BufferInv
<1>7. CASE /\ r.buffer.ptr = buffer[n].ptr /\ r.buffer.size = buffer[n].size
           /\ r.heap = heap
  <2>1. heap' = heap
    BY <1>2, <1>7
  <2>2. got.ptr = buffer[n].ptr /\ got.size = buffer[n].size
    BY <1>3, <1>7
  <2>3. \A m \in DOMAIN buffer' :
          buffer'[m].ptr # NULL => /\ buffer'[m].ptr \in DOMAIN heap'
                                   /\ heap'[buffer'[m].ptr] = buffer'[m].size
    BY <1>3, <2>1, <2>2 DEF BufferInv
  <2>4. \A p \in DOMAIN heap' : \E m \in DOMAIN buffer' : buffer'[m].ptr = p
    BY <1>3, <2>1, <2>2 DEF BufferInv
  <2>5. \A m, l \in DOMAIN buffer' :
          buffer'[m].ptr = buffer'[l].ptr /\ buffer'[m].ptr # NULL => m = l
    BY <1>3, <2>2 DEF BufferInv
  <2>6. QED
    BY <1>4, <1>5, <2>1, <2>3, <2>4, <2>5 DEF BufferInv
<1>8. QED
  BY <1>1, <1>6, <1>7

(* PrepareCopy and AppendString: room for what is written, in the block    *)
(* there is or in a new one.                                               *)
LEMMA WrittenStep ==
  ASSUME BufferInv, NEW n \in DOMAIN buffer, NEW len \in Lengths,
         PrepareCopy(n, len) \/ AppendString(n, len)
  PROVE  BufferInv'
<1>1. buffer[n] \in Memory /\ len \in Nat
  BY BufferAssumption DEF BufferInv
<1>2. ASSUME NEW used \in Nat, used <= buffer[n].size,
             buffer' = [buffer EXCEPT ![n].used = used], UNCHANGED heap
      PROVE  BufferInv'
  <2>1. buffer'[n] \in Memory /\ buffer'[n].used = used
        /\ buffer'[n].ptr = buffer[n].ptr /\ buffer'[n].size = buffer[n].size
    BY <1>1, <1>2 DEF Memory
  <2>2. /\ DOMAIN buffer' = DOMAIN buffer
        /\ \A m \in DOMAIN buffer \ {n} : buffer'[m] = buffer[m]
    BY <1>2
  <2>3. buffer' \in [DOMAIN buffer' -> Memory]
    BY <1>2, <2>1, <2>2 DEF BufferInv
  <2>4. /\ \A m \in DOMAIN buffer' : buffer'[m].ptr = buffer[m].ptr
                                     /\ buffer'[m].size = buffer[m].size
                                     /\ buffer'[m].used <= buffer'[m].size
    BY <1>2, <2>1, <2>2 DEF BufferInv
  <2>5. QED
    BY <1>2, <2>2, <2>3, <2>4 DEF BufferInv
<1>3. CASE PrepareCopy(n, len)
  <2>1. len + 1 \in Nat /\ len + 1 < SizeMod
    BY <1>1, <1>3 DEF PrepareCopy
  <2>2. CASE len + 1 <= buffer[n].size
    <3>1. 1 \in Nat /\ 1 <= buffer[n].size
      BY <1>1, <2>2 DEF Memory
    <3>2. QED
      BY <1>2, <1>3, <2>2, <3>1 DEF PrepareCopy
  <2>3. CASE ~(len + 1 <= buffer[n].size)
    <3>1. Allocated(n, AlignSize(len + 1), 1)
      BY <1>3, <2>3 DEF PrepareCopy
    <3>2. AlignSize(len + 1) \in Nat /\ 1 <= AlignSize(len + 1)
      BY <1>1, <2>1, AlignedEnough
    <3>3. QED
      BY <3>1, <3>2, AllocatedStep
  <2>4. QED
    BY <2>2, <2>3
<1>4. CASE AppendString(n, len)
  <2> DEFINE used == Max({buffer[n].used, 1}) + len
  <2>1. Max({buffer[n].used, 1}) \in Nat
    BY <1>1, MaxPair DEF Memory
  <2>2. used \in Nat /\ used < SizeMod
    BY <1>1, <1>4, <2>1 DEF AppendString
  <2>3. \/ /\ used < buffer[n].size
           /\ buffer' = [buffer EXCEPT ![n].used = used] /\ UNCHANGED heap
        \/ Allocated(n, AlignSize(used), used)
    BY <1>4 DEF AppendString
  <2> HIDE DEF used
  <2>4. CASE Allocated(n, AlignSize(used), used)
    BY <2>2, <2>4, AlignedEnough, AllocatedStep
  <2>5. CASE /\ used < buffer[n].size
             /\ buffer' = [buffer EXCEPT ![n].used = used] /\ UNCHANGED heap
    <3>1. used <= buffer[n].size
      BY <1>1, <2>2, <2>5 DEF Memory
    <3>2. QED
      BY <1>2, <2>2, <2>5, <3>1
  <2>6. QED
    BY <2>3, <2>4, <2>5
<1>5. QED
  BY <1>3, <1>4

(* Whatever has been copied, appended, moved and reset, in any number of   *)
(* buffers, every block belongs to exactly one: nothing is freed twice,    *)
(* leaked or written beyond, even where buffer_align_size wraps.           *)
THEOREM EveryBlockOwned == BufferSpec => []BuffersOwn
<1>1. BufferInit => BufferInv
  BY FS_EmptySet DEF BufferInit, BufferInv
<1>2. BufferInv /\ [BufferNext]_bufferVars => BufferInv'
  <2> SUFFICES ASSUME BufferInv, [BufferNext]_bufferVars PROVE BufferInv'
    OBVIOUS
  <2>1. ASSUME NEW n \in BufferName, NewBuffer(n) PROVE BufferInv'
    <3>1. /\ DOMAIN buffer' = DOMAIN buffer \cup {n} /\ buffer'[n] = NoMemory
          /\ n \notin DOMAIN buffer /\ heap' = heap
          /\ \A m \in DOMAIN buffer : buffer'[m] = buffer[m]
          /\ buffer' \in [DOMAIN buffer' -> Memory]
      BY <2>1 DEF NewBuffer, BufferInv, NoMemory, Memory, NULL
    <3>2. NoMemory.ptr = NULL /\ NoMemory.used <= NoMemory.size
      BY DEF NoMemory
    <3>3. QED
      BY <3>1, <3>2 DEF BufferInv
  <2>2. ASSUME NEW n \in DOMAIN buffer, FreeBuffer(n) PROVE BufferInv'
    <3>1. /\ DOMAIN buffer' = DOMAIN buffer \ {n}
          /\ \A m \in DOMAIN buffer' : buffer'[m] = buffer[m]
          /\ buffer' \in [DOMAIN buffer' -> Memory]
          /\ heap' = Freed(heap, buffer[n].ptr)
      BY <2>2 DEF FreeBuffer, Restrict, BufferInv
    <3>2. /\ DOMAIN heap' = DOMAIN heap \ {buffer[n].ptr}
          /\ heap' \in [DOMAIN heap' -> Nat] /\ IsFiniteSet(DOMAIN heap')
          /\ \A m \in DOMAIN buffer \ {n} : buffer[m].ptr # NULL =>
               /\ buffer[m].ptr \in DOMAIN heap'
               /\ heap'[buffer[m].ptr] = buffer[m].size
          /\ \A p \in DOMAIN heap' : \E m \in DOMAIN buffer \ {n} : buffer[m].ptr = p
      <4>1. heap' = Rest(n)
        BY <3>1 DEF Rest
      <4>2. HeldByOthers(heap', n)
        BY <4>1, ReplaceBlock
      <4>3. QED
        BY <4>2 DEF HeldByOthers
    <3>3. QED
      BY <3>1, <3>2 DEF BufferInv
  <2>3. CASE UNCHANGED bufferVars
    BY <2>3 DEF bufferVars, BufferInv
  <2>4. QED
    BY <2>1, <2>2, <2>3, MovedStep, WrittenStep DEF BufferNext
<1>3. BufferInv => BuffersOwn
  <2> SUFFICES ASSUME BufferInv PROVE BuffersOwn
    OBVIOUS
  <2> DEFINE held == {n \in DOMAIN buffer : buffer[n].ptr # NULL}
  <2>1. DOMAIN heap = {buffer[n].ptr : n \in held}
    <3>1. \A p \in DOMAIN heap : p # NULL /\ \E n \in DOMAIN buffer : buffer[n].ptr = p
      BY DEF BufferInv
    <3>2. \A n \in held : buffer[n].ptr \in DOMAIN heap
      BY DEF BufferInv
    <3>3. QED
      BY <3>1, <3>2
  <2>2. QED
    BY <2>1 DEF BufferInv, BuffersOwn
<1>4. QED
  BY <1>1, <1>2, <1>3, PTL DEF BufferSpec

-----------------------------------------------------------------------------
(* File names.                                                             *)

(* The turns of a loop that reads digits.                                  *)
LoopOf(w, s) ==
  w[0] = 0 /\ \A i \in 1..Len(s) : w[i] = w[i - 1] * Radix + s[i]

(* The loop of ConsumeDecimalNumber can be run.                            *)
LEMMA ValueLoop ==
  ASSUME NEW s \in Seq(Nat)
  PROVE  \E w \in [0..Len(s) -> Nat] : LoopOf(w, s)
<1> DEFINE g == [i \in 1..Len(s) |-> [x \in Nat |-> x * Radix + s[i]]]
<1>1. Radix \in Nat /\ Len(s) \in Nat /\ \A i \in 1..Len(s) : s[i] \in Nat
  BY NameAssumption
<1>2. \A i \in 1..Len(s), x \in Nat : x * Radix + s[i] \in Nat
  BY <1>1, TimesPlus, Zenon
<1>3. g \in [1..Len(s) -> [Nat -> Nat]]
  BY <1>2
<1>4. \A i \in 1..Len(s), x \in Nat : g[i][x] = x * Radix + s[i]
  OBVIOUS
<1> HIDE DEF g
<1>5. PICK w \in [0..Len(s) -> Nat] : Runs(w, Len(s), 0, g)
  BY <1>1, <1>3, LoopExists
<1>6. w[0] = 0 /\ \A i \in 1..Len(s) : w[i] = g[i][w[i - 1]]
  BY <1>5 DEF Runs
<1>7. \A i \in 1..Len(s) : w[i - 1] \in Nat
  BY <1>1
<1>8. \A i \in 1..Len(s) : w[i] = w[i - 1] * Radix + s[i]
  BY <1>4, <1>6, <1>7, Zenon
<1>9. LoopOf(w, s)
  BY <1>6, <1>8, Zenon DEF LoopOf
<1>10. QED
  BY <1>9

(* A loop that reads the same digits goes through the same values.         *)
LEMMA ValueLoopOnly ==
  ASSUME NEW s \in Seq(Nat), NEW v, NEW w \in [0..Len(s) -> Nat],
         LoopOf(v, s), LoopOf(w, s)
  PROVE  \A i \in 0..Len(s) : v[i] = w[i]
<1> DEFINE P == {i \in 0..Len(s) : v[i] = w[i]}
<1>1. Len(s) \in Nat /\ 0 \in P
  BY DEF LoopOf
<1>2. \A i \in 0..Len(s) : i # Len(s) /\ i \in P => i + 1 \in P
  <2> SUFFICES ASSUME NEW i \in 0..Len(s), i # Len(s), i \in P PROVE i + 1 \in P
    OBVIOUS
  <2>1. i + 1 \in 1..Len(s) /\ (i + 1) - 1 = i
    BY <1>1
  <2>2. v[i + 1] = v[i] * Radix + s[i + 1] /\ w[i + 1] = w[i] * Radix + s[i + 1]
    BY <2>1 DEF LoopOf
  <2>3. QED
    BY <2>1, <2>2
<1>3. \A i \in 0..Len(s) : i \in P
  <2> HIDE DEF P
  <2>1. QED
    BY <1>1, <1>2, SetInduction
<1>4. QED
  BY <1>3

(* Value is what the loop gives.                                           *)
LEMMA ValueIs ==
  ASSUME NEW s \in Seq(Nat), NEW w \in [0..Len(s) -> Nat], LoopOf(w, s)
  PROVE  Value(s) = w[Len(s)]
<1> DEFINE v == CHOOSE v : v = [i \in 0..Len(s) |->
                                  IF i = 0 THEN 0 ELSE v[i - 1] * Radix + s[i]]
<1>1. Len(s) \in Nat
  OBVIOUS
<1>2. w = [i \in 0..Len(s) |-> IF i = 0 THEN 0 ELSE w[i - 1] * Radix + s[i]]
  <2>1. ASSUME NEW i \in 0..Len(s)
        PROVE  w[i] = IF i = 0 THEN 0 ELSE w[i - 1] * Radix + s[i]
    BY <1>1 DEF LoopOf
  <2>2. QED
    BY <2>1
<1>3. v = [i \in 0..Len(s) |-> IF i = 0 THEN 0 ELSE v[i - 1] * Radix + s[i]]
  BY <1>2
<1>4. Value(s) = v[Len(s)]
  BY DEF Value
<1> HIDE DEF v
<1>5. LoopOf(v, s)
  <2>1. v[0] = 0
    BY <1>1, <1>3
  <2>2. ASSUME NEW i \in 1..Len(s) PROVE v[i] = v[i - 1] * Radix + s[i]
    <3>1. i \in 0..Len(s) /\ i # 0
      BY <1>1
    <3>2. v[i] = IF i = 0 THEN 0 ELSE v[i - 1] * Radix + s[i]
      BY <1>3, <3>1, Zenon
    <3>3. QED
      BY <3>1, <3>2, Zenon
  <2>3. QED
    BY <2>1, <2>2 DEF LoopOf
<1>6. QED
  BY <1>1, <1>4, <1>5, ValueLoopOnly

(* One more digit.                                                         *)
LEMMA ValueAppend ==
  ASSUME NEW s \in Seq(Nat), NEW d \in Nat
  PROVE  Value(s) \in Nat /\ Value(Append(s, d)) = Value(s) * Radix + d
<1> PICK t : t = Append(s, d)
  OBVIOUS
<1>1. /\ t \in Seq(Nat) /\ Len(t) = Len(s) + 1 /\ Len(s) \in Nat
      /\ t[Len(t)] = d /\ \A i \in 1..Len(s) : t[i] = s[i]
  OBVIOUS
<1>2. PICK w \in [0..Len(t) -> Nat] : LoopOf(w, t)
  BY <1>1, ValueLoop
<1>3. Value(t) = w[Len(t)]
  BY <1>1, <1>2, ValueIs
<1> PICK u : u = [i \in 0..Len(s) |-> w[i]]
  OBVIOUS
<1>4. u \in [0..Len(s) -> Nat] /\ \A i \in 0..Len(s) : u[i] = w[i]
  BY <1>1, <1>2
<1>5. LoopOf(u, s)
  <2>1. u[0] = 0
    BY <1>1, <1>2, <1>4 DEF LoopOf
  <2>2. ASSUME NEW i \in 1..Len(s) PROVE u[i] = u[i - 1] * Radix + s[i]
    <3>1. i \in 0..Len(s) /\ i - 1 \in 0..Len(s) /\ i \in 1..Len(t)
      BY <1>1
    <3>2. w[i] = w[i - 1] * Radix + t[i]
      BY <1>2, <3>1 DEF LoopOf
    <3>3. QED
      BY <1>1, <1>4, <3>1, <3>2
  <2>3. QED
    BY <2>1, <2>2 DEF LoopOf
<1>6. Value(s) = w[Len(s)] /\ w[Len(s)] \in Nat
  <2>1. Value(s) = u[Len(s)]
    BY <1>4, <1>5, ValueIs
  <2>2. Len(s) \in 0..Len(s) /\ Len(s) \in 0..Len(t)
    BY <1>1
  <2>3. QED
    BY <1>2, <1>4, <2>1, <2>2
<1>7. w[Len(t)] = w[Len(s)] * Radix + d
  <2>1. Len(t) \in 1..Len(t) /\ Len(t) - 1 = Len(s)
    BY <1>1
  <2>2. QED
    BY <1>1, <1>2, <2>1 DEF LoopOf
<1>8. QED
  BY <1>3, <1>6, <1>7

(* Taking off the last digit of a number, and putting it back.             *)
LEMMA LastDigit ==
  ASSUME NEW n \in Nat
  PROVE  \E m \in Nat, d \in Digit :
           /\ m = n \div Radix /\ d = n % Radix
           /\ n = m * Radix + d /\ (~(n < Radix) => m < n)
<1>1. \A R \in Nat \ {0, 1} : /\ n % R \in 0..R - 1 /\ n \div R \in Nat
                              /\ ~(n < R) => n \div R < n
  OBVIOUS
<1>2. \A R \in Nat \ {0, 1} : n = ((n \div R) * R) + (n % R)
  OBVIOUS
<1>3. /\ n % Radix \in Digit /\ n \div Radix \in Nat
      /\ ~(n < Radix) => n \div Radix < n
  BY <1>1, NameAssumption, Zenon DEF Digit
<1>4. n = (n \div Radix) * Radix + (n % Radix)
  BY <1>2, NameAssumption, Zenon
<1>5. QED
  BY <1>3, <1>4, Zenon

(* What Digits says of the digits of one number.                           *)
DigitOf(f, n) ==
  IF n < Radix THEN <<n>> ELSE Append(f[n \div Radix], n % Radix)

(* They are digits when those of the numbers up to N are.                  *)
LEMMA DigitsStep ==
  ASSUME NEW N \in 0..MaxNumber, NEW f \in [0..N -> Seq(Digit)], NEW n \in Nat,
         n <= N + 1
  PROVE  DigitOf(f, n) \in Seq(Digit)
<1>1. Radix \in Nat /\ N \in Nat
  BY NameAssumption
<1>2. CASE n < Radix
  <2>1. n \in Digit
    BY <1>1, <1>2 DEF Digit
  <2>2. QED
    BY <1>2, <2>1 DEF DigitOf
<1>3. CASE ~(n < Radix)
  <2>1. PICK m \in Nat, d \in Digit :
          m = n \div Radix /\ d = n % Radix /\ (~(n < Radix) => m < n)
    BY LastDigit, Zenon
  <2>2. m \in 0..N
    BY <1>1, <1>3, <2>1
  <2>3. f[m] \in Seq(Digit)
    BY <2>2
  <2>4. DigitOf(f, n) = Append(f[m], d)
    BY <1>3, <2>1 DEF DigitOf
  <2>5. QED
    BY <2>3, <2>4
<1>4. QED
  BY <1>2, <1>3

(* There is a function that does what Digits says, one number after the    *)
(* other.                                                                  *)
LEMMA DigitsExist ==
  \E f \in [0..MaxNumber -> Seq(Digit)] :
    \A n \in 0..MaxNumber : f[n] = DigitOf(f, n)
<1> DEFINE Good(f, N) == \A n \in 0..N : f[n] = DigitOf(f, n)
           P == {N \in 0..MaxNumber : \E f \in [0..N -> Seq(Digit)] : Good(f, N)}
<1>1. MaxNumber \in Nat /\ Radix \in Nat /\ 0 < Radix
  BY NameAssumption
<1>2. 0 \in P
  <2>1. PICK f : f = [n \in 0..0 |-> <<0>>]
    OBVIOUS
  <2>2. 0 \in Digit
    BY <1>1 DEF Digit
  <2>3. f \in [0..0 -> Seq(Digit)] /\ f[0] = <<0>>
    BY <2>1, <2>2
  <2>4. Good(f, 0)
    <3>1. f[0] = DigitOf(f, 0)
      BY <1>1, <2>3 DEF DigitOf
    <3>2. 0..0 = {0}
      OBVIOUS
    <3>3. QED
      BY <3>1, <3>2
  <2>5. QED
    BY <1>1, <2>3, <2>4
<1>3. \A N \in 0..MaxNumber : N # MaxNumber /\ N \in P => N + 1 \in P
  <2> SUFFICES ASSUME NEW N \in 0..MaxNumber, N # MaxNumber, N \in P
               PROVE  N + 1 \in P
    OBVIOUS
  <2>1. PICK f \in [0..N -> Seq(Digit)] : Good(f, N)
    OBVIOUS
  <2>2. N \in Nat /\ N + 1 \in 0..MaxNumber
    BY <1>1
  <2>3. PICK h : h = [n \in 0..N + 1 |-> IF n = N + 1 THEN DigitOf(f, n) ELSE f[n]]
    OBVIOUS
  <2>4. DigitOf(f, N + 1) \in Seq(Digit)
    <3>1. N + 1 \in Nat /\ N + 1 <= N + 1
      BY <2>2
    <3>2. QED
      BY <3>1, DigitsStep, Zenon
  <2>5. /\ h \in [0..N + 1 -> Seq(Digit)] /\ h[N + 1] = DigitOf(f, N + 1)
        /\ \A n \in 0..N : h[n] = f[n]
    BY <2>2, <2>3, <2>4
  <2>6. ASSUME NEW n \in 0..N + 1 PROVE h[n] = DigitOf(h, n)
    <3>1. DigitOf(h, n) = DigitOf(f, n)
      <4>1. CASE n < Radix
        BY <4>1 DEF DigitOf
      <4>2. CASE ~(n < Radix)
        <5>1. n \in Nat
          BY <2>2
        <5>2. PICK m \in Nat : m = n \div Radix /\ m < n
          BY <4>2, <5>1, LastDigit, Zenon
        <5>3. m \in 0..N
          BY <2>2, <5>2
        <5>4. QED
          BY <2>5, <4>2, <5>2, <5>3 DEF DigitOf
      <4>3. QED
        BY <4>1, <4>2
    <3>2. h[n] = DigitOf(f, n)
      BY <2>1, <2>2, <2>5
    <3>3. QED
      BY <3>1, <3>2
  <2>7. QED
    BY <2>2, <2>5, <2>6
<1>4. MaxNumber \in P
  <2> HIDE DEF P
  <2>1. \A N \in 0..MaxNumber : N \in P
    BY <1>1, <1>2, <1>3, SetInduction
  <2>2. QED
    BY <1>1, <2>1
<1>5. QED
  BY <1>4

(* So Digits is one.                                                       *)
LEMMA DigitsAre ==
  ASSUME NEW n \in 0..MaxNumber
  PROVE  Digits[n] = DigitOf(Digits, n)
<1>1. PICK f \in [0..MaxNumber -> Seq(Digit)] :
        \A m \in 0..MaxNumber : f[m] = DigitOf(f, m)
  BY DigitsExist
<1>2. f = [m \in 0..MaxNumber |-> IF m < Radix THEN <<m>>
                                  ELSE Append(f[m \div Radix], m % Radix)]
  BY <1>1 DEF DigitOf
<1>3. Digits = [m \in 0..MaxNumber |-> IF m < Radix THEN <<m>>
                                  ELSE Append(Digits[m \div Radix], m % Radix)]
  BY <1>2 DEF Digits
<1>4. QED
  BY <1>3 DEF DigitOf

(* What "%06llu" puts before a number that is too short.                   *)
Zeros(k) == [i \in 1..k |-> 0]

(* Leading zeros are read as nothing.                                      *)
LEMMA ZerosWorthNothing ==
  ASSUME NEW k \in Nat
  PROVE  Zeros(k) \in Seq(Nat) /\ Value(Zeros(k)) = 0
<1> PICK w : w = [i \in 0..k |-> 0]
  OBVIOUS
<1>1. Zeros(k) \in Seq(Nat) /\ Len(Zeros(k)) = k /\ \A i \in 1..k : Zeros(k)[i] = 0
  BY DEF Zeros
<1>2. w \in [0..k -> Nat] /\ \A i \in 0..k : w[i] = 0
  OBVIOUS
<1>3. LoopOf(w, Zeros(k))
  <2>1. Radix \in Nat
    BY NameAssumption
  <2>2. QED
    BY <1>1, <1>2, <2>1 DEF LoopOf
<1>4. QED
  BY <1>1, <1>2, <1>3, ValueIs

(* A digit appended to what has zeros before it.                           *)
LEMMA AppendLast ==
  ASSUME NEW z \in Seq(Nat), NEW s \in Seq(Digit), NEW d \in Digit, Digit \subseteq Nat
  PROVE  /\ Append(s, d) \in Seq(Digit) /\ Append(s, d) # <<>>
         /\ z \o s \in Seq(Nat) /\ d \in Nat
         /\ z \o Append(s, d) = Append(z \o s, d)
<1>1. s \in Seq(Nat) /\ d \in Nat
  BY SeqOfMore
<1>2. Append(s, d) \in Seq(Digit) /\ Append(s, d) # <<>>
  OBVIOUS
<1>3. z \o s \in Seq(Nat)
  BY <1>1
<1>4. z \o Append(s, d) = Append(z \o s, d)
  BY <1>1
<1>5. QED
  BY <1>1, <1>2, <1>3, <1>4

(* The digits of a number, with any zeros before them, are read as the     *)
(* number: by induction from what is left when the last digit is off.      *)
LEMMA DigitsRead ==
  ASSUME NEW n \in 0..MaxNumber, NEW k \in Nat
  PROVE  /\ Digits[n] \in Seq(Digit) /\ Digits[n] # <<>>
         /\ Zeros(k) \o Digits[n] \in Seq(Nat)
         /\ Value(Zeros(k) \o Digits[n]) = n
<1> DEFINE z == Zeros(k)
           P == {m \in 0..MaxNumber : /\ Digits[m] \in Seq(Digit) /\ Digits[m] # <<>>
                                      /\ Value(z \o Digits[m]) = m}
<1>1. /\ MaxNumber \in Nat /\ Radix \in Nat /\ Digit \subseteq Nat
      /\ z \in Seq(Nat) /\ Value(z) = 0
  BY NameAssumption, ZerosWorthNothing DEF Digit
<1> HIDE DEF z
<1>2. \A m \in 0..MaxNumber : (\A l \in 0..MaxNumber : l < m => l \in P) => m \in P
  <2> SUFFICES ASSUME NEW m \in 0..MaxNumber,
                      \A l \in 0..MaxNumber : l < m => l \in P
               PROVE  m \in P
    OBVIOUS
  <2>1. m \in Nat /\ Digits[m] = DigitOf(Digits, m)
    BY <1>1, DigitsAre
  <2>2. CASE m < Radix
    <3>1. Digits[m] = <<m>> /\ m \in Digit
      BY <1>1, <2>1, <2>2 DEF DigitOf, Digit
    <3>2. z \o Digits[m] = Append(z, m)
      BY <1>1, <2>1, <3>1
    <3>3. Value(Append(z, m)) = Value(z) * Radix + m
      BY <1>1, <2>1, ValueAppend
    <3>4. 0 * Radix + m = m
      BY <1>1, <2>1
    <3>5. Digits[m] \in Seq(Digit) /\ Digits[m] # <<>>
      BY <3>1
    <3>6. Value(z \o Digits[m]) = m
      BY <1>1, <3>2, <3>3, <3>4
    <3>7. QED
      BY <3>5, <3>6
  <2>3. CASE ~(m < Radix)
    <3>1. PICK l \in Nat, d \in Digit : /\ l = m \div Radix /\ d = m % Radix
                                      /\ m = l * Radix + d /\ l < m
      BY <2>1, <2>3, LastDigit, Zenon
    <3>2. l \in P
      BY <1>1, <2>1, <3>1
    <3>3. Digits[l] \in Seq(Digit) /\ Value(z \o Digits[l]) = l
      BY <3>2
    <3>4. Digits[m] = Append(Digits[l], d)
      BY <2>1, <2>3, <3>1 DEF DigitOf
    <3>5. /\ Append(Digits[l], d) \in Seq(Digit) /\ Append(Digits[l], d) # <<>>
          /\ z \o Digits[l] \in Seq(Nat) /\ d \in Nat
          /\ z \o Append(Digits[l], d) = Append(z \o Digits[l], d)
      BY <1>1, <3>3, AppendLast, Zenon
    <3>6. Value(z \o Digits[m]) = Value(z \o Digits[l]) * Radix + d
      BY <3>4, <3>5, ValueAppend, Zenon
    <3>7. Value(z \o Digits[m]) = m
      BY <3>1, <3>3, <3>6, Zenon
    <3>8. QED
      BY <3>4, <3>5, <3>7
  <2>4. QED
    BY <2>2, <2>3
<1>3. n \in P
  <2> HIDE DEF P
  <2>1. QED
    BY <1>1, <1>2, StrongInduction
<1>4. z \o Digits[n] \in Seq(Nat)
  <2>1. Digits[n] \in Seq(Nat)
    BY <1>1, <1>3, SeqOfMore
  <2>2. QED
    BY <1>1, <2>1
<1>5. QED
  BY <1>3, <1>4 DEF z

(* A number that has been printed is read back, also one of more digits than*)
(* Width.                                                                  *)
LEMMA FormattedRead ==
  ASSUME NEW n \in 0..MaxNumber
  PROVE  IsNumber(Formatted(n)) /\ Value(Formatted(n)) = n
<1>1. Width \in Nat /\ Digits[n] \in Seq(Digit) /\ MaxNumber \in Nat
  BY NameAssumption, DigitsRead
<1>2. PICK k \in Nat : Formatted(n) = Zeros(k) \o Digits[n]
  <2>1. Len(Digits[n]) \in Nat
    BY <1>1
  <2>2. CASE Len(Digits[n]) <= Width
    <3>1. Width - Len(Digits[n]) \in Nat
      BY <1>1, <2>1, <2>2
    <3>2. QED
      BY <3>1 DEF Formatted, Zeros
  <2>3. CASE ~(Len(Digits[n]) <= Width)
    <3>1. 1..Width - Len(Digits[n]) = 1..0
      BY <1>1, <2>1, <2>3
    <3>2. Formatted(n) = Zeros(0) \o Digits[n]
      BY <3>1 DEF Formatted, Zeros
    <3>3. QED
      BY <3>2
  <2>4. QED
    BY <2>2, <2>3
<1>3. Value(Formatted(n)) = n /\ n <= MaxNumber
  BY <1>1, <1>2, DigitsRead
<1>4. Formatted(n) # <<>>
  <2>1. Digits[n] # <<>> /\ Zeros(k) \in Seq(Nat) /\ Digits[n] \in Seq(Nat)
    BY <1>1, DigitsRead, ZerosWorthNothing, NameAssumption DEF Digit
  <2>2. Zeros(k) \o Digits[n] # <<>>
    BY <2>1
  <2>3. QED
    BY <1>2, <2>2
<1>5. QED
  BY <1>3, <1>4 DEF IsNumber

(* The names that carry a number.                                          *)
LEMMA NumberedParsed ==
  ASSUME NEW d, IsNumber(d), NEW t \in {".log", ".sst", ".ldb", ".dbtmp"}
  PROVE  /\ ParseFileName(Named("", d, t)) = Meant(TypeOfTail[t], Value(d))
         /\ ParseFileName(Named("MANIFEST-", d, "")) = Meant("descriptor", Value(d))
<1>1. DOMAIN TypeOfHead = {"CURRENT", "LOCK", "LOG", "LOG.old"}
  BY DEF TypeOfHead
<1>2. DOMAIN TypeOfTail = {".log", ".sst", ".ldb", ".dbtmp"}
  BY DEF TypeOfTail
<1>3. ParseFileName(Named("", d, t)) = Meant(TypeOfTail[t], Value(d))
  <2>1. PICK n : n = Named("", d, t)
    OBVIOUS
  <2>2. n.head = "" /\ n.digits = d /\ n.tail = t
    BY <2>1 DEF Named
  <2>3. QED
    BY <1>1, <1>2, <2>1, <2>2 DEF ParseFileName
<1>4. ParseFileName(Named("MANIFEST-", d, "")) = Meant("descriptor", Value(d))
  <2>1. PICK n : n = Named("MANIFEST-", d, "")
    OBVIOUS
  <2>2. n.head = "MANIFEST-" /\ n.digits = d /\ n.tail = ""
    BY <2>1 DEF Named
  <2>3. QED
    BY <1>1, <1>2, <2>1, <2>2 DEF ParseFileName
<1>5. QED
  BY <1>3, <1>4

(* What LogFileName and the other functions of a number return is parsed as*)
(* what it was made for.                                                   *)
LEMMA NumberedUnderstood ==
  ASSUME NEW n \in 0..MaxNumber, NEW m \in Numbered(n)
  PROVE  ParseFileName(m[2]) = m[1]
<1> PICK d : d = Formatted(n)
  OBVIOUS
<1>1. IsNumber(d) /\ Value(d) = n
  BY FormattedRead
<1>2. /\ TypeOfTail[".log"] = "log" /\ TypeOfTail[".ldb"] = "table"
      /\ TypeOfTail[".sst"] = "table" /\ TypeOfTail[".dbtmp"] = "temp"
  BY DEF TypeOfTail
<1>3. \/ m = <<Meant("log", n), Named("", d, ".log")>>
      \/ m = <<Meant("table", n), Named("", d, ".ldb")>>
      \/ m = <<Meant("table", n), Named("", d, ".sst")>>
      \/ m = <<Meant("temp", n), Named("", d, ".dbtmp")>>
      \/ m = <<Meant("descriptor", n), Named("MANIFEST-", d, "")>>
  BY DEF Numbered
<1>4. /\ ParseFileName(Named("", d, ".log")) = Meant("log", n)
      /\ ParseFileName(Named("", d, ".ldb")) = Meant("table", n)
      /\ ParseFileName(Named("", d, ".sst")) = Meant("table", n)
      /\ ParseFileName(Named("", d, ".dbtmp")) = Meant("temp", n)
      /\ ParseFileName(Named("MANIFEST-", d, "")) = Meant("descriptor", n)
  BY <1>1, <1>2, NumberedParsed
<1>5. ASSUME NEW x, NEW y, m = <<x, y>>, ParseFileName(y) = x
      PROVE  ParseFileName(m[2]) = m[1]
  BY <1>5
<1>6. QED
  BY <1>3, <1>4, <1>5, Zenon

(* So are CURRENT, LOCK and the two names of the info log.                 *)
LEMMA UnnumberedUnderstood ==
  ASSUME NEW m \in Unnumbered
  PROVE  ParseFileName(m[2]) = m[1]
<1>1. DOMAIN TypeOfHead = {"CURRENT", "LOCK", "LOG", "LOG.old"}
  BY DEF TypeOfHead
<1>2. /\ TypeOfHead["CURRENT"] = "current" /\ TypeOfHead["LOCK"] = "lock"
      /\ TypeOfHead["LOG"] = "infolog" /\ TypeOfHead["LOG.old"] = "infolog"
  BY DEF TypeOfHead
<1>3. ASSUME NEW h \in DOMAIN TypeOfHead
      PROVE  ParseFileName(Named(h, <<>>, "")) = Meant(TypeOfHead[h], 0)
  <2>1. PICK n : n = Named(h, <<>>, "")
    OBVIOUS
  <2>2. n.head = h /\ n.digits = <<>> /\ n.tail = ""
    BY <2>1 DEF Named
  <2>3. ~(n.head = "MANIFEST-") /\ ~(n.head = "")
    BY <1>1, <2>2
  <2>4. QED
    BY <1>1, <2>1, <2>2, <2>3 DEF ParseFileName
<1>4. /\ ParseFileName(Named("CURRENT", <<>>, "")) = Meant("current", 0)
      /\ ParseFileName(Named("LOCK", <<>>, "")) = Meant("lock", 0)
      /\ ParseFileName(Named("LOG", <<>>, "")) = Meant("infolog", 0)
      /\ ParseFileName(Named("LOG.old", <<>>, "")) = Meant("infolog", 0)
  BY <1>1, <1>2, <1>3
<1>5. \/ m = <<Meant("current", 0), Named("CURRENT", <<>>, "")>>
      \/ m = <<Meant("lock", 0), Named("LOCK", <<>>, "")>>
      \/ m = <<Meant("infolog", 0), Named("LOG", <<>>, "")>>
      \/ m = <<Meant("infolog", 0), Named("LOG.old", <<>>, "")>>
  BY DEF Unnumbered
<1>6. ASSUME NEW x, NEW y, m = <<x, y>>, ParseFileName(y) = x
      PROVE  ParseFileName(m[2]) = m[1]
  BY <1>6
<1>7. QED
  BY <1>4, <1>5, <1>6, Zenon

(* The names the database makes, with what they are made for.              *)
OurNames == Unnumbered \cup (UNION {Numbered(n) : n \in 1..MaxNumber})

(* ParseFileName undoes all of the functions before it.                    *)
LEMMA OursUnderstood ==
  ASSUME NEW m \in OurNames
  PROVE  ParseFileName(m[2]) = m[1]
<1>1. CASE m \in Unnumbered
  BY <1>1, UnnumberedUnderstood
<1>2. ASSUME NEW n \in 1..MaxNumber, m \in Numbered(n)
      PROVE  ParseFileName(m[2]) = m[1]
  <2>1. n \in 0..MaxNumber
    BY NameAssumption
  <2>2. QED
    BY <1>2, <2>1, NumberedUnderstood
<1>3. QED
  BY <1>1, <1>2 DEF OurNames

(* What is taken for a file of ours has one of the forms.                  *)
LEMMA OnlyOwned ==
  ASSUME NEW n, ParseFileName(n) # NotOurs
  PROVE  Owned(n)
<1>1. DOMAIN TypeOfTail = {".log", ".sst", ".ldb", ".dbtmp"}
  BY DEF TypeOfTail
<1>2. QED
  BY <1>1 DEF ParseFileName, Owned, IsNumber

(* Whatever name the functions of filename.cpp make, for any number that a *)
(* uint64_t holds, ParseFileName finds its type and number again; and a file*)
(* somebody else has put into the directory is taken for one of ours only if*)
(* it has one of the forms of the comment before ParseFileName             *)
(* (filename.cpp:16-115).                                                  *)
THEOREM NamesAlwaysUnderstood == NameSpec => []NamesUnderstood
<1>1. NameInit => NamesUnderstood
  <2> SUFFICES ASSUME NameInit PROVE NamesUnderstood
    OBVIOUS
  <2>1. <<made, name>> \in Unnumbered
    BY DEF NameInit, Unnumbered
  <2>2. ParseFileName(name) = made
    BY <2>1, UnnumberedUnderstood
  <2>3. QED
    BY <2>2, OnlyOwned DEF NamesUnderstood
<1>2. NamesUnderstood /\ [NameNext]_nameVars => NamesUnderstood'
  <2> SUFFICES ASSUME NamesUnderstood, [NameNext]_nameVars
               PROVE  (made # NotOurs => ParseFileName(name) = made)'
    BY OnlyOwned DEF NamesUnderstood
  <2>1. CASE MakeName
    <3>1. PICK m \in OurNames : made' = m[1] /\ name' = m[2]
      BY <2>1 DEF MakeName, OurNames
    <3>2. ParseFileName(m[2]) = m[1]
      BY OursUnderstood
    <3>3. QED
      BY <3>1, <3>2 DEF ParseFileName
  <2>2. CASE StrangeFile
    BY <2>2 DEF StrangeFile
  <2>3. CASE UNCHANGED nameVars
    BY <2>3 DEF nameVars, NamesUnderstood, ParseFileName
  <2>4. QED
    BY <2>1, <2>2, <2>3 DEF NameNext
<1>3. QED
  BY <1>1, <1>2, PTL DEF NameSpec

(* Two files of different numbers never share a name, and neither do files *)
(* of different types: DeleteObsoleteFiles, which sees only names, decides *)
(* by what the file was made for (filename.cpp:16-115).                    *)
THEOREM NamesTellApart ==
  ASSUME NEW m \in OurNames, NEW l \in OurNames, m[2] = l[2]
  PROVE  m[1] = l[1]
<1>1. ParseFileName(m[2]) = m[1] /\ ParseFileName(l[2]) = l[1]
  BY OursUnderstood
<1>2. QED
  BY <1>1

-----------------------------------------------------------------------------
(* Random numbers.                                                         *)

(* Remainders by M, of numbers given by a multiple of M and a rest.        *)
LEMMA ModDrop ==
  ASSUME NEW m \in Nat \ {0}, NEW k \in Nat, NEW t \in Nat
  PROVE  (k * m + t) % m = t % m
<1>1. PICK u, v : u = t \div m /\ v = t % m
  OBVIOUS
<1>2. u \in Nat /\ v \in Nat /\ v < m
  BY <1>1
<1>3. t = u * m + v
  BY <1>1
<1>4. \A x, y \in Nat : y < m => (x * m + y) % m = y
  OBVIOUS
<1>5. k * m + t = (k + u) * m + v /\ k + u \in Nat
  BY <1>2, <1>3
<1>6. (k * m + t) % m = v
  BY <1>2, <1>4, <1>5, Zenon
<1>7. QED
  BY <1>1, <1>6

(* A product may be reduced before the next factor is put to it.           *)
LEMMA ModTimes ==
  ASSUME NEW m \in Nat \ {0}, NEW a \in Nat, NEW c \in Nat
  PROVE  ((a % m) * c) % m = (a * c) % m
<1>1. PICK q, r : q = a \div m /\ r = a % m
  OBVIOUS
<1>2. q \in Nat /\ r \in Nat /\ m \in Nat
  BY <1>1
<1>3. a = q * m + r
  BY <1>1
<1>4. \A x, y, w \in Nat : (x * y) * w = (x * w) * y
  OBVIOUS
<1>5. a * c = (q * c) * m + r * c /\ q * c \in Nat /\ r * c \in Nat
  <2>1. c \in Nat
    OBVIOUS
  <2>2. \A x, y \in Nat : x * y \in Nat
    OBVIOUS
  <2>3. (q * m + r) * c = (q * c) * m + r * c
    <3>1. \A x, y, z \in Nat : (x + y) * z = x * z + y * z
      OBVIOUS
    <3>2. q * m \in Nat
      BY <1>2, <2>2, Zenon
    <3>3. (q * m) * c = (q * c) * m
      BY <1>2, <1>4, <2>1, ZenonT(30)
    <3>4. (q * m + r) * c = (q * m) * c + r * c
      BY <1>2, <2>1, <3>1, <3>2, ZenonT(30)
    <3>5. QED
      BY <3>3, <3>4, Zenon
  <2>4. q * c \in Nat /\ r * c \in Nat
    BY <1>2, <2>1, <2>2, Zenon
  <2>5. QED
    BY <1>3, <2>3, <2>4, Zenon
<1>6. (a * c) % m = (r * c) % m
  <2>1. m \in Nat \ {0}
    OBVIOUS
  <2>2. ((q * c) * m + r * c) % m = (r * c) % m
    BY <1>5, <2>1, ModDrop, Zenon
  <2>3. QED
    BY <1>5, <2>2, Zenon
<1>7. QED
  BY <1>1, <1>6

(* What is known of the constants of the generator.                        *)
LEMMA RandomConstants ==
  /\ M \in Nat \ {0} /\ A \in Nat /\ A \in 1..M - 1 /\ M - 1 \in Nat \ {0}
  /\ HighBit = M + 1 /\ Word = 2 * M + 2 /\ 0 \in 0..M - 1 /\ 1 \in 1..M - 1
BY RandomAssumption DEF M, Word

(* There are M - 1 numbers to draw.                                        *)
LEMMA DrawnSize ==
  IsFiniteSet(1..M - 1) /\ Cardinality(1..M - 1) = M - 1 /\ 0 < M - 1
<1>1. 1 \in Int /\ M - 1 \in Int /\ ~(1 > M - 1) /\ (M - 1) - 1 + 1 = M - 1
  BY RandomConstants
<1>2. QED
  BY <1>1, FS_Interval

(* Factors from 1 to M - 1 have a product of that kind, because M is prime.*)
LEMMA Units ==
  ASSUME NEW x \in 1..M - 1, NEW y \in 1..M - 1
  PROVE  (x * y) % M \in 1..M - 1
<1>1. (x * y) % M # 0
  BY PrimitiveRoot
<1>2. x * y \in Nat
  <2>1. \A a, b \in Nat : a * b \in Nat
    OBVIOUS
  <2>2. QED
    BY <2>1
<1>3. PICK z \in Nat : z = x * y
  BY <1>2
<1>4. z % M \in 0..M - 1
  BY <1>3, RandomConstants
<1>5. QED
  BY <1>1, <1>3, <1>4, RandomConstants

(* Next, with its shift and mask, multiplies modulo M (random.hpp:31-42).  *)
LEMMA NextSeedTimes ==
  ASSUME NEW seed \in 1..M - 1
  PROVE  NextSeed(seed) = (seed * A) % M
<1>1. PICK p : p = seed * A
  OBVIOUS
<1>2. p \in Nat /\ p <= (M - 1) * (M - 1)
  <2>1. \A a, b, n \in Nat : a <= n /\ b <= n => a * b \in Nat /\ a * b <= n * n
    OBVIOUS
  <2>2. seed \in Nat /\ seed <= M - 1 /\ A <= M - 1 /\ A \in Nat /\ M - 1 \in Nat
    BY RandomConstants
  <2>3. QED
    BY <1>1, <2>1, <2>2, Zenon
<1>3. PICK hi, lo : hi = p \div HighBit /\ lo = p % HighBit
  OBVIOUS
<1>4. /\ hi \in Nat /\ lo \in 0..M /\ p = hi * (M + 1) + lo
  <2>1. \A a \in Nat, b \in Nat \ {0} :
          a \div b \in Nat /\ a % b \in 0..b - 1
    OBVIOUS
  <2>2. \A a \in Nat, b \in Nat \ {0} : a = (a \div b) * b + (a % b)
    OBVIOUS
  <2>3. HighBit \in Nat \ {0} /\ HighBit - 1 = M /\ HighBit = M + 1
    BY RandomConstants
  <2>4. hi \in Nat /\ lo \in 0..HighBit - 1
    BY <1>2, <1>3, <2>1, <2>3, Zenon
  <2>5. p = hi * HighBit + lo
    BY <1>2, <1>3, <2>2, <2>3, Zenon
  <2>6. QED
    BY <2>3, <2>4, <2>5
<1>5. hi < M - 1
  <2>1. \A h, n \in Nat : h >= n => h * (n + 2) >= n * (n + 2)
    OBVIOUS
  <2>2. \A n \in Nat \ {0} : n * (n + 2) > n * n
    OBVIOUS
  <2>3. PICK n \in Nat \ {0} : n = M - 1
    BY RandomConstants
  <2>4. M + 1 = n + 2 /\ p <= n * n
    BY <1>2, <2>3, RandomConstants
  <2>5. SUFFICES ASSUME hi >= n PROVE FALSE
    BY <1>4, <2>3
  <2>6. hi * (n + 2) >= n * (n + 2) /\ n * (n + 2) > n * n
    BY <1>4, <2>1, <2>2, <2>5, Zenon
  <2>7. p = hi * (n + 2) + lo /\ lo >= 0
    BY <1>4, <2>4
  <2>8. QED
    BY <1>2, <1>4, <2>4, <2>6, <2>7
<1>6. PICK r : r = hi + lo
  OBVIOUS
<1>7. r \in Nat /\ r < 2 * M /\ r % Word = r
  <2>1. r \in Nat /\ r < 2 * M
    BY <1>4, <1>5, <1>6, RandomConstants
  <2>2. \A a, b \in Nat : a < b => a % b = a
    OBVIOUS
  <2>3. Word \in Nat /\ r < Word
    BY <2>1, RandomConstants
  <2>4. QED
    BY <2>1, <2>2, <2>3, Zenon
<1>8. NextSeed(seed) = IF r > M THEN r - M ELSE r
  BY <1>1, <1>3, <1>6, <1>7 DEF NextSeed
<1>9. p = hi * M + r
  BY <1>4, <1>6, RandomConstants
<1>10. p % M = r % M
  <2>1. M \in Nat \ {0}
    BY RandomConstants
  <2>2. (hi * M + r) % M = r % M
    BY <1>4, <1>7, <2>1, ModDrop, Zenon
  <2>3. QED
    BY <1>9, <2>2
<1>11. p % M \in 1..M - 1
  BY <1>1, Units, RandomConstants
<1>12. CASE r < M
  BY <1>7, <1>8, <1>10, <1>12, <1>1, RandomConstants
<1>13. CASE r = M
  <2>1. r % M = 0
    BY <1>13, RandomConstants
  <2>2. QED
    BY <1>10, <1>11, <2>1
<1>14. CASE r > M
  <2>1. PICK t \in Nat : r = 1 * M + t /\ t < M /\ t = r - M
    BY <1>7, <1>14, RandomConstants
  <2>2. r % M = t % M
    BY <2>1, ModDrop, RandomConstants
  <2>3. t % M = t
    BY <2>1, RandomConstants
  <2>4. QED
    BY <1>1, <1>8, <1>10, <1>14, <2>1, <2>2, <2>3
<1>15. QED
  BY <1>7, <1>12, <1>13, <1>14, RandomConstants

(* Powers of A are numbers from 1 to M - 1, each A times the one before.   *)
LEMMA PowerIs ==
  /\ Power[0] = 1
  /\ \A n \in 1..M - 1 : Power[n] = (Power[n - 1] * A) % M
<1> DEFINE g == [n \in 1..M - 1 |-> [x \in Nat |-> (x * A) % M]]
<1>1. M - 1 \in Nat /\ 1 \in Nat
  BY RandomConstants
<1>2. \A x \in Nat : (x * A) % M \in Nat
  <2>1. \A x, a \in Nat, m \in Nat \ {0} : (x * a) % m \in Nat
    <3>1. \A x, a \in Nat : x * a \in Nat
      OBVIOUS
    <3>2. \A y \in Nat, m \in Nat \ {0} : y % m \in Nat
      OBVIOUS
    <3>3. QED
      BY <3>1, <3>2, Zenon
  <2>2. A \in Nat /\ M \in Nat \ {0}
    BY RandomConstants
  <2>3. QED
    BY <2>1, <2>2, Zenon
<1>3. g \in [1..M - 1 -> [Nat -> Nat]]
  BY <1>2
<1>4. \A n \in 1..M - 1, x \in Nat : g[n][x] = (x * A) % M
  OBVIOUS
<1> HIDE DEF g
<1>5. PICK w \in [0..M - 1 -> Nat] : Runs(w, M - 1, 1, g)
  BY <1>1, <1>3, LoopExists
<1>6. w = [n \in 0..M - 1 |-> IF n = 0 THEN 1 ELSE (w[n - 1] * A) % M]
  <2>1. ASSUME NEW n \in 0..M - 1
        PROVE  w[n] = IF n = 0 THEN 1 ELSE (w[n - 1] * A) % M
    <3>1. CASE n = 0
      BY <1>5, <3>1 DEF Runs
    <3>2. CASE n # 0
      <4>1. n \in 1..M - 1 /\ n - 1 \in 0..M - 1
        BY <1>1, <3>2
      <4>2. w[n] = g[n][w[n - 1]] /\ w[n - 1] \in Nat
        BY <1>5, <4>1 DEF Runs
      <4>3. QED
        BY <1>4, <3>2, <4>1, <4>2, Zenon
    <3>3. QED
      BY <3>1, <3>2
  <2>2. QED
    BY <2>1
<1>7. Power = [n \in 0..M - 1 |-> IF n = 0 THEN 1 ELSE (Power[n - 1] * A) % M]
  BY <1>6, Zenon DEF Power
<1>8. Power[0] = 1
  <2>1. 0 \in 0..M - 1
    BY RandomConstants
  <2>2. QED
    BY <1>7, <2>1, Zenon
<1>9. ASSUME NEW n \in 1..M - 1 PROVE Power[n] = (Power[n - 1] * A) % M
  <2>1. n \in 0..M - 1 /\ n # 0
    OBVIOUS
  <2>2. QED
    BY <1>7, <2>1, Zenon
<1>10. QED
  BY <1>8, <1>9

(* No power of A is 0 modulo M.                                            *)
LEMMA PowerUnit ==
  ASSUME NEW n \in 0..M - 1
  PROVE  Power[n] \in 1..M - 1
<1> DEFINE P == {k \in 0..M - 1 : Power[k] \in 1..M - 1}
<1>1. 0 \in P /\ M - 1 \in Nat
  BY PowerIs, RandomConstants
<1>2. \A k \in 0..M - 1 : k # M - 1 /\ k \in P => k + 1 \in P
  <2> SUFFICES ASSUME NEW k \in 0..M - 1, k # M - 1, k \in P PROVE k + 1 \in P
    OBVIOUS
  <2>1. k + 1 \in 1..M - 1 /\ (k + 1) - 1 = k /\ k + 1 \in 0..M - 1
    BY <1>1
  <2>2. Power[k + 1] = (Power[k] * A) % M
    BY <2>1, PowerIs, Zenon
  <2>3. (Power[k] * A) % M \in 1..M - 1
    BY Units, RandomConstants
  <2>4. QED
    BY <2>1, <2>2, <2>3
<1>3. \A k \in 0..M - 1 : k \in P
  <2> HIDE DEF P
  <2>1. QED
    BY <1>1, <1>2, SetInduction
<1>4. QED
  BY <1>3

(* The number that comes i draws after s.                                  *)
Drawn(s, i) == (s * Power[i]) % M

(* It is a number from 1 to M - 1 again.                                   *)
LEMMA DrawnUnit ==
  ASSUME NEW s \in 1..M - 1, NEW i \in 0..M - 1
  PROVE  Drawn(s, i) \in 1..M - 1
BY PowerUnit, Units DEF Drawn

(* No draw leaves the seed.                                                *)
LEMMA DrawnFirst ==
  ASSUME NEW s \in 1..M - 1
  PROVE  Drawn(s, 0) = s
<1>1. \A a, m \in Nat : a < m => (a * 1) % m = a
  OBVIOUS
<1>2. s \in Nat /\ M \in Nat /\ s < M
  BY RandomConstants
<1>3. (s * 1) % M = s
  BY <1>1, <1>2, Zenon
<1>4. QED
  BY <1>3, PowerIs DEF Drawn

(* Each draw multiplies by A once more.                                    *)
LEMMA DrawnNext ==
  ASSUME NEW s \in 1..M - 1, NEW i \in 0..M - 1, i # M - 1
  PROVE  Drawn(s, i + 1) = (Drawn(s, i) * A) % M
<1>1. i + 1 \in 1..M - 1 /\ (i + 1) - 1 = i
  BY RandomConstants
<1>2. PICK p : p = Power[i]
  OBVIOUS
<1>3. p \in Nat /\ s \in Nat /\ A \in Nat /\ M \in Nat \ {0}
  BY <1>2, PowerUnit, RandomConstants
<1>4. Power[i + 1] = (p * A) % M
  BY <1>1, <1>2, PowerIs, Zenon
<1>5. \A x, y, z \in Nat : x * y \in Nat /\ x * y = y * x /\ (x * y) * z = (y * z) * x
  OBVIOUS
<1>6. Drawn(s, i + 1) = ((p * A) * s) % M
  <2>1. \A y \in Nat, m \in Nat \ {0} : y % m \in Nat
    OBVIOUS
  <2>2. p * A \in Nat /\ (p * A) % M \in Nat
    BY <1>3, <1>5, <2>1, Zenon
  <2>3. s * ((p * A) % M) = ((p * A) % M) * s
    BY <1>3, <1>5, <2>2, Zenon
  <2>4. (((p * A) % M) * s) % M = ((p * A) * s) % M
    BY <1>3, <2>2, ModTimes, Zenon
  <2>5. QED
    BY <1>4, <2>3, <2>4 DEF Drawn
<1>7. (Drawn(s, i) * A) % M = ((s * p) * A) % M
  <2>1. s * p \in Nat
    BY <1>3, <1>5, Zenon
  <2>2. QED
    BY <1>2, <1>3, <2>1, ModTimes, Zenon DEF Drawn
<1>8. (s * p) * A = (p * A) * s
  BY <1>3, <1>5, ZenonT(30)
<1>9. QED
  BY <1>6, <1>7, <1>8, Zenon

(* Draws may be counted from any number that has been drawn.               *)
LEMMA DrawnFrom ==
  ASSUME NEW s \in 1..M - 1, NEW i \in 0..M - 1, NEW k \in 0..M - 1, i + k <= M - 1
  PROVE  Drawn(Drawn(s, i), k) = Drawn(s, i + k)
<1> PICK y : y = Drawn(s, i)
  OBVIOUS
<1>1. y \in 1..M - 1 /\ M - 1 \in Nat
  BY DrawnUnit, RandomConstants
<1> PICK n \in Nat : n = M - 1 - i
  BY <1>1
<1> DEFINE P == {j \in 0..n : Drawn(y, j) = Drawn(s, i + j)}
<1>2. 0 \in P
  BY <1>1, DrawnFirst
<1>3. \A j \in 0..n : j # n /\ j \in P => j + 1 \in P
  <2> SUFFICES ASSUME NEW j \in 0..n, j # n, j \in P PROVE j + 1 \in P
    OBVIOUS
  <2>1. /\ j \in 0..M - 1 /\ j # M - 1 /\ i + j \in 0..M - 1 /\ i + j # M - 1
        /\ (i + j) + 1 = i + (j + 1) /\ j + 1 \in 0..n
    BY <1>1
  <2>2. Drawn(y, j + 1) = (Drawn(y, j) * A) % M
    BY <1>1, <2>1, DrawnNext
  <2>3. Drawn(s, i + (j + 1)) = (Drawn(s, i + j) * A) % M
    BY <1>1, <2>1, DrawnNext, Zenon
  <2>4. QED
    BY <2>1, <2>2, <2>3
<1>4. k \in 0..n
  BY <1>1
<1>5. k \in P
  <2> HIDE DEF P
  <2>1. QED
    BY <1>2, <1>3, <1>4, SetInduction
<1>6. QED
  BY <1>5

(* No number comes back before all powers of A have been through: it would *)
(* have been multiplied by a power other than 1.                           *)
LEMMA DrawnApart ==
  ASSUME NEW s \in 1..M - 1, NEW i \in 0..M - 1, NEW j \in 0..M - 1,
         i < j, j - i # M - 1
  PROVE  Drawn(s, i) # Drawn(s, j)
<1> PICK k \in 1..M - 2 : k = j - i
  BY RandomConstants
<1> PICK y \in 1..M - 1 : y = Drawn(s, i)
  BY DrawnUnit
<1> SUFFICES ASSUME Drawn(s, j) = y PROVE FALSE
  OBVIOUS
<1>1. k \in 0..M - 1 /\ i + k = j /\ i + k <= M - 1
  BY RandomConstants
<1>2. Drawn(y, k) = y
  BY <1>1, DrawnFrom
<1>3. PICK p \in 1..M - 1 : p = Power[k]
  BY <1>1, PowerUnit
<1>4. p - 1 \in 1..M - 1
  <2>1. p # 1
    BY <1>3, PrimitiveRoot
  <2>2. QED
    BY <2>1, RandomConstants
<1>5. (y * p) % M = y
  BY <1>2, <1>3 DEF Drawn
<1>6. PICK q : q = (y * p) \div M
  OBVIOUS
<1>7. q \in Nat /\ y * p = q * M + y
  <2>1. \A a \in Nat, b \in Nat \ {0} : a \div b \in Nat
    OBVIOUS
  <2>2. \A a \in Nat, b \in Nat \ {0} : a = (a \div b) * b + (a % b)
    OBVIOUS
  <2>3. \A a, b \in Nat : a * b \in Nat
    OBVIOUS
  <2>4. y \in Nat /\ p \in Nat /\ M \in Nat \ {0}
    BY RandomConstants
  <2>5. QED
    BY <1>5, <1>6, <2>1, <2>2, <2>3, <2>4, Zenon
<1>8. y * (p - 1) = q * M + 0
  <2>1. \A a, b \in Nat : a * (b - 1) = a * b - a
    OBVIOUS
  <2>2. \A a, b \in Nat : a * b \in Int
    OBVIOUS
  <2>3. y \in Nat /\ p \in Nat /\ M \in Nat
    BY RandomConstants
  <2>4. q * M \in Int
    BY <1>7, <2>2, <2>3, Zenon
  <2>5. \A a \in Nat, c \in Int : (c + a) - a = c + 0
    OBVIOUS
  <2>6. y * (p - 1) = (q * M + y) - y
    BY <1>7, <2>1, <2>3, Zenon
  <2>7. QED
    BY <2>3, <2>4, <2>5, <2>6, Zenon
<1>9. (y * (p - 1)) % M = 0
  <2>1. M \in Nat \ {0} /\ 0 \in Nat /\ 0 % M = 0
    BY RandomConstants
  <2>2. (q * M + 0) % M = 0 % M
    BY <1>7, <2>1, ModDrop, Zenon
  <2>3. QED
    BY <1>8, <2>1, <2>2, Zenon
<1>10. QED
  BY <1>4, <1>9, PrimitiveRoot

(* The state after n draws: dr has been drawn and seed is the last number. *)
(* Up to M - 1 draws they are all different; after that nothing is new.    *)
DrawState(seed, dr, n) ==
  /\ seed \in 1..M - 1
  /\ n \in Nat
  /\ n < M - 1 => \E s \in 1..M - 1 : /\ seed = Drawn(s, n)
                                      /\ dr = {Drawn(s, i) : i \in 1..n}
                                      /\ IsFiniteSet(dr) /\ Cardinality(dr) = n
  /\ ~(n < M - 1) => dr = 1..M - 1

(* The constructor has not run, or some numbers have been drawn since.     *)
RandomInv ==
  \/ seed_ = 0 /\ drawn = {} /\ draws = 0
  \/ DrawState(seed_, drawn, draws)

(* Drawing one more number.                                                *)
LEMMA DrawStep ==
  ASSUME NEW seed, NEW dr, NEW n, DrawState(seed, dr, n)
  PROVE  DrawState(NextSeed(seed), dr \cup {NextSeed(seed)}, n + 1)
<1> PICK next : next = NextSeed(seed)
  OBVIOUS
<1>1. seed \in 1..M - 1 /\ n \in Nat /\ M - 1 \in Nat \ {0}
  BY RandomConstants DEF DrawState
<1>2. next = (seed * A) % M /\ next \in 1..M - 1
  BY <1>1, NextSeedTimes, Units, RandomConstants
<1>3. CASE n < M - 1
  <2>1. PICK s \in 1..M - 1 : /\ seed = Drawn(s, n) /\ dr = {Drawn(s, i) : i \in 1..n}
                              /\ IsFiniteSet(dr) /\ Cardinality(dr) = n
    BY <1>3 DEF DrawState
  <2>2. n \in 0..M - 1 /\ n # M - 1 /\ n + 1 \in 0..M - 1
    BY <1>1, <1>3
  <2>3. next = Drawn(s, n + 1)
    BY <1>2, <2>1, <2>2, DrawnNext
  <2>4. dr \cup {next} = {Drawn(s, i) : i \in 1..n + 1}
    <3>1. 1..n + 1 = 1..n \cup {n + 1}
      BY <1>1
    <3>2. QED
      BY <2>1, <2>3, <3>1
  <2>5. ASSUME NEW i \in 1..n PROVE Drawn(s, i) # next
    <3>1. i \in 0..M - 1 /\ i < n + 1 /\ (n + 1) - i # M - 1
      BY <1>1, <2>2
    <3>2. QED
      BY <2>2, <2>3, <3>1, DrawnApart
  <2>6. next \notin dr
    BY <2>1, <2>5
  <2>7. IsFiniteSet(dr \cup {next}) /\ Cardinality(dr \cup {next}) = n + 1
    BY <2>1, <2>6, FS_AddElement
  <2>8. dr \cup {next} \subseteq 1..M - 1
    <3>1. ASSUME NEW i \in 1..n PROVE Drawn(s, i) \in 1..M - 1
      <4>1. i \in 0..M - 1
        BY <1>1, <2>2
      <4>2. QED
        BY <4>1, DrawnUnit
    <3>2. QED
      BY <1>2, <2>1, <3>1
  <2>9. ASSUME ~(n + 1 < M - 1) PROVE dr \cup {next} = 1..M - 1
    <3>1. n + 1 = M - 1
      BY <1>1, <1>3, <2>9
    <3>2. QED
      BY <2>7, <2>8, <3>1, DrawnSize, FS_Subset
  <2>10. n + 1 \in Nat
    BY <1>1
  <2>11. \E t \in 1..M - 1 :
           /\ next = Drawn(t, n + 1)
           /\ dr \cup {next} = {Drawn(t, i) : i \in 1..n + 1}
           /\ IsFiniteSet(dr \cup {next}) /\ Cardinality(dr \cup {next}) = n + 1
    BY <2>1, <2>3, <2>4, <2>7, Zenon
  <2>12. QED
    BY <1>2, <2>9, <2>10, <2>11, Zenon DEF DrawState
<1>4. CASE ~(n < M - 1)
  <2>1. dr = 1..M - 1
    BY <1>4 DEF DrawState
  <2>2. n + 1 \in Nat /\ ~(n + 1 < M - 1)
    BY <1>1, <1>4
  <2>3. dr \cup {next} = 1..M - 1
    BY <1>2, <2>1
  <2>4. QED
    BY <1>2, <2>2, <2>3 DEF DrawState
<1>5. QED
  BY <1>3, <1>4

(* The constructor avoids the seeds that stay where they are.              *)
LEMMA GoodSeeds ==
  ASSUME NEW s \in Nat
  PROVE  DrawState(GoodSeed(s), {}, 0)
<1> PICK g : g = GoodSeed(s)
  OBVIOUS
<1>1. g \in 1..M - 1
  <2>1. s % HighBit \in 0..M
    BY RandomConstants
  <2>2. QED
    BY <2>1, RandomConstants DEF GoodSeed
<1>2. g = Drawn(g, 0)
  BY <1>1, DrawnFirst
<1>3. {} = {Drawn(g, i) : i \in 1..0}
  OBVIOUS
<1>4. 0 \in Nat /\ 0 < M - 1
  BY RandomConstants
<1>5. QED
  BY <1>1, <1>2, <1>3, <1>4, FS_EmptySet DEF DrawState

(* The generator cycles through all numbers in [1, M - 1], whatever the    *)
(* seed, by Next, Uniform and Skewed in any order (random.hpp:24-56).      *)
THEOREM CyclesThroughAll == RandomSpec => []FullPeriod
<1>1. RandomInit => RandomInv
  BY DEF RandomInit, RandomInv
<1>2. RandomInv /\ [RandomNext]_randomVars => RandomInv'
  <2> SUFFICES ASSUME RandomInv, [RandomNext]_randomVars PROVE RandomInv'
    OBVIOUS
  <2>1. ASSUME NEW s \in 0..Word - 1, NewRandom(s) PROVE RandomInv'
    <3>1. s \in Nat
      BY RandomConstants
    <3>2. drawn = {} /\ draws = 0
      <4>1. ~(0 \in 1..M - 1)
        OBVIOUS
      <4>2. QED
        BY <2>1, <4>1 DEF NewRandom, RandomInv, DrawState
    <3>3. seed_' = GoodSeed(s) /\ drawn' = {} /\ draws' = 0
      BY <2>1, <3>2 DEF NewRandom
    <3>4. QED
      BY <3>1, <3>3, GoodSeeds DEF RandomInv
  <2>2. CASE NextNumber
    <3>1. DrawState(seed_, drawn, draws)
      BY <2>2 DEF NextNumber, RandomInv
    <3>2. /\ seed_' = NextSeed(seed_) /\ drawn' = drawn \cup {NextSeed(seed_)}
          /\ draws' = draws + 1
      BY <2>2 DEF NextNumber
    <3>3. QED
      BY <3>1, <3>2, DrawStep DEF RandomInv
  <2>3. CASE Skewed
    <3>1. DrawState(seed_, drawn, draws)
      BY <2>3 DEF Skewed, RandomInv
    <3>2. PICK one, two : one = NextSeed(seed_) /\ two = NextSeed(one)
      OBVIOUS
    <3>3. seed_' = two /\ drawn' = (drawn \cup {one}) \cup {two} /\ draws' = draws + 2
      BY <2>3, <3>2 DEF Skewed
    <3>4. DrawState(one, drawn \cup {one}, draws + 1)
      BY <3>1, <3>2, DrawStep
    <3>5. DrawState(two, (drawn \cup {one}) \cup {two}, (draws + 1) + 1)
      BY <3>2, <3>4, DrawStep
    <3>6. (draws + 1) + 1 = draws + 2
      BY <3>1 DEF DrawState
    <3>7. QED
      BY <3>3, <3>5, <3>6 DEF RandomInv
  <2>4. CASE UNCHANGED randomVars
    BY <2>4 DEF randomVars, RandomInv, DrawState
  <2>5. QED
    BY <2>1, <2>2, <2>3, <2>4 DEF RandomNext
<1>3. RandomInv => FullPeriod
  <2> SUFFICES ASSUME RandomInv PROVE FullPeriod
    OBVIOUS
  <2>1. M - 1 \in Nat \ {0}
    BY RandomConstants
  <2>2. CASE seed_ = 0 /\ drawn = {} /\ draws = 0
    BY <2>2, DrawnSize, FS_EmptySet DEF FullPeriod
  <2>3. CASE DrawState(seed_, drawn, draws)
    <3>1. CASE draws < M - 1
      <4>1. PICK s \in 1..M - 1 : /\ drawn = {Drawn(s, i) : i \in 1..draws}
                                  /\ Cardinality(drawn) = draws
        BY <2>3, <3>1 DEF DrawState
      <4>2. ASSUME NEW i \in 1..draws PROVE Drawn(s, i) \in 1..M - 1
        <5>1. i \in 0..M - 1
          BY <2>1, <2>3, <3>1 DEF DrawState
        <5>2. QED
          BY <5>1, DrawnUnit
      <4>3. drawn \subseteq 1..M - 1
        BY <4>1, <4>2
      <4>4. QED
        BY <3>1, <4>1, <4>3 DEF FullPeriod
    <3>2. CASE ~(draws < M - 1)
      <4>1. drawn = 1..M - 1
        BY <2>3, <3>2 DEF DrawState
      <4>2. QED
        BY <3>2, <4>1, DrawnSize DEF FullPeriod
    <3>3. QED
      BY <3>1, <3>2
  <2>4. QED
    BY <2>2, <2>3 DEF RandomInv
<1>4. QED
  BY <1>1, <1>2, <1>3, PTL DEF RandomSpec

=============================================================================
