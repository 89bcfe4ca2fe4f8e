---------------------------- MODULE ArenaProofs ----------------------------
(***************************************************************************)
(* Proofs about Arena, for every block size, alignment and set of sizes.   *)
(***************************************************************************)
EXTENDS Arena, TLAPS

(* What alloc_ptr_ and alloc_bytes_remaining_ mean: the rest of the current*)
(* block, behind every region that was cut from it.                        *)
PointerInv ==
  /\ block \in 0..Len(blocks)
  /\ block = 0 => remaining = 0
  /\ block # 0 => offset + remaining = blocks[block]
  /\ \A i \in 1..Len(regions) :
       regions[i].block = block => regions[i].off + regions[i].len <= offset

(* memory_usage_ pays for what was asked for and for the rest of the block.*)
UsageInv == bytes + remaining <= usage

IndInv == TypeOK /\ PointerInv /\ Contained /\ Disjoint /\ UsageInv

-----------------------------------------------------------------------------
(* The padding is a natural number, and so is the size of a small object.  *)
LEMMA SlopType ==
  ASSUME TypeOK
  PROVE  Slop \in Nat /\ Slop < Align
  BY ArenaAssumption DEF TypeOK, Slop

LEMMA QuarterFits ==
  ASSUME NEW n \in Nat, ~IsLarge(n)
  PROVE  n <= kBlockSize
  BY ArenaAssumption DEF IsLarge

(* What Append does to a sequence, position by position.                   *)
LEMMA AppendFacts ==
  ASSUME NEW S, NEW s \in Seq(S), NEW e \in S
  PROVE  /\ Append(s, e) \in Seq(S)
         /\ Len(Append(s, e)) = Len(s) + 1
         /\ \A i \in 1..Len(s) : Append(s, e)[i] = s[i]
         /\ Append(s, e)[Len(s) + 1] = e
  OBVIOUS

(* The fields of a region are numbers.                                     *)
LEMMA RegionFields ==
  ASSUME TypeOK, NEW i \in 1..Len(regions)
  PROVE  /\ regions[i].block \in Nat
         /\ regions[i].off \in Nat
         /\ regions[i].len \in Nat
<1>1. regions[i] \in Region
  BY DEF TypeOK
<1> QED BY <1>1 DEF Region

(* A region of the current block ends below the bump pointer, and still    *)
(* does when the pointer has moved on.                                     *)
LEMMA OldEnd ==
  ASSUME IndInv, NEW i \in 1..Len(regions), regions[i].block = block,
         NEW d \in Nat
  PROVE  regions[i].off + regions[i].len <= offset + d
<1>1. regions[i].off + regions[i].len <= offset
  BY DEF IndInv, PointerInv
<1>2. regions[i].off \in Nat /\ regions[i].len \in Nat
  BY RegionFields DEF IndInv
<1>3. offset \in Nat
  BY DEF IndInv, TypeOK
<1>4. ASSUME NEW x \in Nat, NEW y \in Nat, x <= y
      PROVE  x <= y + d
  BY <1>4
<1>5. regions[i].off + regions[i].len \in Nat
  BY <1>2
<1> QED BY <1>1, <1>3, <1>4, <1>5

(* The two ways in which memory is set aside.                              *)
LEMMA BumpStep ==
  ASSUME IndInv, NEW skip \in Nat, NEW n \in Nat \ {0}, NEW a \in BOOLEAN,
         skip + n <= remaining, Bump(skip, n, a)
  PROVE  IndInv'
<1> DEFINE r == [block |-> block, off |-> offset + skip, len |-> n, aligned |-> a]
<1>1. r \in Region /\ regions' = Append(regions, r)
  BY DEF Bump, SetAside, IndInv, TypeOK, Region
<1>2. /\ regions' \in Seq(Region)
      /\ Len(regions') = Len(regions) + 1
      /\ \A i \in 1..Len(regions) : regions'[i] = regions[i]
      /\ regions'[Len(regions) + 1] = r
  BY <1>1, AppendFacts DEF IndInv, TypeOK
<1>3. /\ r.block = block /\ r.off = offset + skip /\ r.len = n
  OBVIOUS
<1> HIDE DEF r
<1>4. TypeOK'
  BY <1>2 DEF Bump, SetAside, IndInv, TypeOK
<1>5. \A i \in 1..Len(regions') : i \in 1..Len(regions) \/ i = Len(regions) + 1
  BY <1>2 DEF IndInv, TypeOK
<1>6. block # 0
  BY DEF IndInv, PointerInv, TypeOK
<1>7. /\ offset \in Nat /\ remaining \in Nat /\ block \in 1..Len(blocks)
      /\ Len(regions) \in Nat /\ Len(blocks) \in Nat
      /\ offset + remaining = blocks[block]
      /\ offset' = offset + skip + n /\ remaining' = remaining - (skip + n)
      /\ block' = block /\ blocks' = blocks
  <2>1. /\ offset \in Nat /\ remaining \in Nat
        /\ Len(regions) \in Nat /\ Len(blocks) \in Nat
    BY DEF IndInv, TypeOK
  <2>2. block \in 1..Len(blocks) /\ offset + remaining = blocks[block]
    BY <1>6, <2>1 DEF IndInv, PointerInv
  <2>3. /\ offset' = offset + skip + n /\ remaining' = remaining - (skip + n)
        /\ block' = block /\ blocks' = blocks
    BY DEF Bump
  <2> QED BY <2>1, <2>2, <2>3
<1>8. PointerInv'
  <2>1. ASSUME NEW i \in 1..Len(regions'), regions'[i].block = block'
        PROVE  regions'[i].off + regions'[i].len <= offset'
    <3>1. CASE i \in 1..Len(regions)
      <4>1. regions'[i] = regions[i]
        BY <3>1, <1>2
      <4>2. regions[i].block = block
        BY <2>1, <4>1, <1>7
      <4>3. regions[i].off + regions[i].len <= offset + (skip + n)
        BY <3>1, <4>2, OldEnd
      <4>4. offset' = offset + (skip + n)
        BY <1>7
      <4> QED BY <4>1, <4>3, <4>4
    <3>2. CASE i = Len(regions) + 1
      <4>1. regions'[i].off = offset + skip /\ regions'[i].len = n
        BY <3>2, <1>2, <1>3
      <4> QED BY <4>1, <1>7
    <3> QED BY <3>1, <3>2, <1>5
  <2>2. block' \in 0..Len(blocks') /\ offset' + remaining' = blocks'[block']
    BY <1>7
  <2> QED BY <1>6, <1>7, <2>1, <2>2 DEF PointerInv
<1>9. Contained'
  <2>1. ASSUME NEW i \in 1..Len(regions')
        PROVE  /\ regions'[i].block \in 1..Len(blocks')
               /\ regions'[i].off + regions'[i].len <= blocks'[regions'[i].block]
    <3>1. CASE i \in 1..Len(regions)
      <4>1. regions'[i] = regions[i]
        BY <3>1, <1>2
      <4> QED BY <3>1, <4>1, <1>7 DEF IndInv, Contained
    <3>2. CASE i = Len(regions) + 1
      <4>1. regions'[i] = r
        BY <3>2, <1>2
      <4>2. regions'[i].block = block /\ block \in 1..Len(blocks')
        BY <4>1, <1>3, <1>7
      <4>3. regions'[i].off + regions'[i].len = offset + skip + n
        BY <4>1, <1>3
      <4>4. offset + skip + n <= offset + remaining
        BY <1>7
      <4>5. blocks'[block] = offset + remaining
        BY <1>7
      <4> QED BY <4>2, <4>3, <4>4, <4>5
    <3> QED BY <3>1, <3>2, <1>5
  <2> QED BY <2>1 DEF Contained
<1>10. Disjoint'
  <2> SUFFICES ASSUME NEW i \in 1..Len(regions'), NEW j \in 1..Len(regions'),
                      i # j, regions'[i].block = regions'[j].block
               PROVE  \/ regions'[i].off + regions'[i].len <= regions'[j].off
                      \/ regions'[j].off + regions'[j].len <= regions'[i].off
    BY DEF Disjoint
  <2>1. CASE i \in 1..Len(regions) /\ j \in 1..Len(regions)
    <3>1. regions'[i] = regions[i] /\ regions'[j] = regions[j]
      BY <2>1, <1>2
    <3> QED BY <2>1, <3>1 DEF IndInv, Disjoint
  <2>2. CASE i \in 1..Len(regions) /\ j = Len(regions) + 1
    <3>1. regions'[j] = r /\ regions'[i] = regions[i] /\ regions[i].block = block
      BY <2>2, <1>2, <1>3
    <3>2. regions[i].off + regions[i].len <= offset + skip
      BY <2>2, <3>1, OldEnd
    <3> QED BY <3>1, <3>2, <1>3
  <2>3. CASE i = Len(regions) + 1 /\ j \in 1..Len(regions)
    <3>1. regions'[i] = r /\ regions'[j] = regions[j] /\ regions[j].block = block
      BY <2>3, <1>2, <1>3
    <3>2. regions[j].off + regions[j].len <= offset + skip
      BY <2>3, <3>1, OldEnd
    <3> QED BY <3>1, <3>2, <1>3
  <2> QED BY <1>5, <2>1, <2>2, <2>3
<1>11. UsageInv'
  BY DEF Bump, SetAside, IndInv, UsageInv, TypeOK
<1> QED BY <1>4, <1>8, <1>9, <1>10, <1>11 DEF IndInv

LEMMA FallbackStep ==
  ASSUME IndInv, NEW n \in Nat \ {0}, NEW a \in BOOLEAN,
         AllocateFallback(n, a)
  PROVE  IndInv'
<1> DEFINE b == Len(blocks) + 1
           size == IF IsLarge(n) THEN n ELSE kBlockSize
           r == [block |-> b, off |-> 0, len |-> n, aligned |-> a]
<1>1. /\ r \in Region /\ regions' = Append(regions, r)
      /\ size \in Nat /\ blocks' = Append(blocks, size)
      /\ n <= size
      /\ usage' = usage + size + PtrSize
  BY ArenaAssumption, QuarterFits
     DEF AllocateFallback, AllocateNewBlock, SetAside, IndInv, TypeOK, Region
<1>2. /\ regions' \in Seq(Region)
      /\ Len(regions') = Len(regions) + 1
      /\ \A i \in 1..Len(regions) : regions'[i] = regions[i]
      /\ regions'[Len(regions) + 1] = r
  BY <1>1, AppendFacts DEF IndInv, TypeOK
<1>3. /\ blocks' \in Seq(Nat)
      /\ Len(blocks') = b
      /\ \A i \in 1..Len(blocks) : blocks'[i] = blocks[i]
      /\ blocks'[b] = size
  BY <1>1, AppendFacts DEF IndInv, TypeOK
<1>4. /\ r.block = b /\ r.off = 0 /\ r.len = n
  OBVIOUS
<1>5. /\ \/ /\ IsLarge(n)
            /\ UNCHANGED <<block, offset, remaining>>
         \/ /\ ~IsLarge(n)
            /\ size = kBlockSize
            /\ block' = b /\ offset' = n /\ remaining' = kBlockSize - n
      /\ b \in Nat /\ b = Len(blocks) + 1 /\ bytes' = bytes + n
  BY DEF AllocateFallback, SetAside, IndInv, TypeOK
<1> HIDE DEF r, size, b
<1>6. TypeOK'
  BY <1>1, <1>2, <1>3, <1>5, ArenaAssumption DEF IndInv, TypeOK
<1>7. \A i \in 1..Len(regions') : i \in 1..Len(regions) \/ i = Len(regions) + 1
  BY <1>2 DEF IndInv, TypeOK
<1>8. \A i \in 1..Len(regions) :
        /\ regions[i].block \in Nat /\ regions[i].off \in Nat
        /\ regions[i].len \in Nat /\ regions[i].block # b
  <2> SUFFICES ASSUME NEW i \in 1..Len(regions)
               PROVE  /\ regions[i].block \in Nat /\ regions[i].off \in Nat
                      /\ regions[i].len \in Nat /\ regions[i].block # b
    OBVIOUS
  <2>1. TypeOK /\ Contained
    BY DEF IndInv
  <2>2. /\ regions[i].block \in Nat /\ regions[i].off \in Nat
        /\ regions[i].len \in Nat
    BY <2>1, RegionFields
  <2>3. regions[i].block \in 1..Len(blocks)
    BY <2>1 DEF Contained
  <2>4. Len(blocks) \in Nat
    BY <2>1 DEF TypeOK
  <2> QED BY <2>2, <2>3, <2>4, <1>5
<1>9. PointerInv'
  <2>1. CASE IsLarge(n)
    <3>1. /\ UNCHANGED <<block, offset, remaining>>
          /\ block \in 0..Len(blocks) /\ Len(blocks) \in Nat
      BY <2>1, <1>5 DEF IndInv, PointerInv, TypeOK
    <3>2. /\ block' \in 0..Len(blocks')
          /\ block' = 0 => remaining' = 0
          /\ block' # 0 => offset' + remaining' = blocks'[block']
      BY <3>1, <1>3, <1>5 DEF IndInv, PointerInv
    <3>3. ASSUME NEW i \in 1..Len(regions'), regions'[i].block = block'
          PROVE  regions'[i].off + regions'[i].len <= offset'
      <4>1. i \in 1..Len(regions)
        BY <3>1, <3>3, <1>2, <1>4, <1>5, <1>7
      <4> QED BY <3>1, <3>3, <4>1, <1>2 DEF IndInv, PointerInv
    <3> QED BY <3>2, <3>3 DEF PointerInv
  <2>2. CASE ~IsLarge(n)
    <3>1. /\ block' = b /\ offset' = n /\ remaining' = kBlockSize - n
          /\ blocks'[b] = kBlockSize /\ b \in Nat /\ b # 0
      BY <2>2, <1>3, <1>5 DEF IndInv, TypeOK
    <3>2. /\ block' \in 0..Len(blocks')
          /\ block' # 0
          /\ offset' + remaining' = blocks'[block']
      BY <3>1, <1>3, ArenaAssumption
    <3>3. ASSUME NEW i \in 1..Len(regions'), regions'[i].block = block'
          PROVE  regions'[i].off + regions'[i].len <= offset'
      <4>1. i = Len(regions) + 1
        BY <3>1, <3>3, <1>2, <1>7, <1>8
      <4>2. regions'[i].off = 0 /\ regions'[i].len = n
        BY <4>1, <1>2, <1>4
      <4> QED BY <3>1, <4>2
    <3> QED BY <3>2, <3>3 DEF PointerInv
  <2> QED BY <2>1, <2>2
<1>10. Contained'
  <2>1. ASSUME NEW i \in 1..Len(regions')
        PROVE  /\ regions'[i].block \in 1..Len(blocks')
               /\ regions'[i].off + regions'[i].len <= blocks'[regions'[i].block]
    <3>1. CASE i \in 1..Len(regions)
      <4>1. regions'[i] = regions[i]
        BY <3>1, <1>2
      <4>2. Len(blocks) \in Nat /\ Len(blocks') = Len(blocks) + 1
        BY <1>3, <1>5 DEF IndInv, TypeOK
      <4> QED BY <3>1, <4>1, <4>2, <1>3 DEF IndInv, Contained
    <3>2. CASE i = Len(regions) + 1
      <4>1. regions'[i] = r
        BY <3>2, <1>2
      <4>2. b \in 1..Len(blocks')
        BY <1>3, <1>5 DEF IndInv, TypeOK
      <4>3. regions'[i].block = b /\ regions'[i].off + regions'[i].len = n
        BY <4>1, <1>4
      <4>4. blocks'[b] = size /\ n <= size
        BY <1>1, <1>3
      <4> QED BY <4>2, <4>3, <4>4
    <3> QED BY <3>1, <3>2, <1>7
  <2> QED BY <2>1 DEF Contained
<1>11. Disjoint'
  <2> SUFFICES ASSUME NEW i \in 1..Len(regions'), NEW j \in 1..Len(regions'),
                      i # j, regions'[i].block = regions'[j].block
               PROVE  \/ regions'[i].off + regions'[i].len <= regions'[j].off
                      \/ regions'[j].off + regions'[j].len <= regions'[i].off
    BY DEF Disjoint
  <2>1. i \in 1..Len(regions) /\ j \in 1..Len(regions)
    BY <1>2, <1>4, <1>7, <1>8
  <2> QED BY <2>1, <1>2 DEF IndInv, Disjoint
<1>12. UsageInv'
  BY <1>1, <1>5, ArenaAssumption DEF IndInv, UsageInv, TypeOK
<1> QED BY <1>6, <1>9, <1>10, <1>11, <1>12 DEF IndInv

(* Every call keeps the invariant.                                         *)
THEOREM ArenaInvariance == Spec => []IndInv
<1>1. Init => IndInv
  BY DEF Init, IndInv, TypeOK, PointerInv, Contained, Disjoint, UsageInv
<1>2. IndInv /\ [Next]_vars => IndInv'
  <2> SUFFICES ASSUME IndInv, [Next]_vars PROVE IndInv'
    OBVIOUS
  <2>1. ASSUME NEW n \in Sizes, Allocate(n) PROVE IndInv'
    <3>1. n \in Nat \ {0}
      BY <2>1, ArenaAssumption DEF Allocate
    <3>2. CASE n <= remaining
      <4>1. Bump(0, n, FALSE)
        BY <2>1, <3>2 DEF Allocate
      <4>2. 0 + n <= remaining
        BY <3>1, <3>2
      <4> QED BY <3>1, <4>1, <4>2, BumpStep
    <3>3. CASE ~(n <= remaining)
      BY <2>1, <3>1, <3>3, FallbackStep DEF Allocate
    <3> QED BY <3>2, <3>3
  <2>2. ASSUME NEW n \in Sizes, AllocateAlignement(n) PROVE IndInv'
    <3>1. n \in Nat \ {0} /\ Slop \in Nat
      BY <2>2, ArenaAssumption, SlopType DEF AllocateAlignement, IndInv
    <3>2. CASE n + Slop <= remaining
      <4>1. Bump(Slop, n, TRUE)
        BY <2>2, <3>2 DEF AllocateAlignement
      <4>2. Slop + n <= remaining
        BY <3>1, <3>2
      <4> QED BY <3>1, <4>1, <4>2, BumpStep
    <3>3. CASE ~(n + Slop <= remaining)
      BY <2>2, <3>1, <3>3, FallbackStep DEF AllocateAlignement
    <3> QED BY <3>2, <3>3
  <2>3. CASE UNCHANGED vars
    BY <2>3 DEF vars, IndInv, TypeOK, PointerInv, Contained, Disjoint, UsageInv
  <2> QED BY <2>1, <2>2, <2>3 DEF Next, Stopped
<1> QED BY <1>1, <1>2, PTL DEF Spec

(* alloc_bytes_remaining_ never wraps: every difference stays natural.     *)
THEOREM ArenaTypes == Spec => []TypeOK
<1>1. IndInv => TypeOK BY DEF IndInv
<1> QED BY <1>1, ArenaInvariance, PTL

(* Allocate and AllocateAlignement never set aside memory outside a block. *)
THEOREM RegionsContained == Spec => []Contained
<1>1. IndInv => Contained BY DEF IndInv
<1> QED BY <1>1, ArenaInvariance, PTL

(* No two calls share a byte, for any sequence of calls.                   *)
THEOREM RegionsDisjoint == Spec => []Disjoint
<1>1. IndInv => Disjoint BY DEF IndInv
<1> QED BY <1>1, ArenaInvariance, PTL

(* MemoryUsage() covers every byte that was asked for.                     *)
THEOREM UsageSound == Spec => []UsageCovers
<1>1. IndInv => UsageCovers BY DEF IndInv, TypeOK, UsageInv, UsageCovers
<1> QED BY <1>1, ArenaInvariance, PTL

(* A pointer moved on by the padding is aligned.                           *)
LEMMA SlopAligns ==
  ASSUME TypeOK
  PROVE  (offset + Slop) % Align = 0
<1>1. /\ offset \in Nat /\ Align \in Nat \ {0}
      /\ offset = Align * (offset \div Align) + (offset % Align)
      /\ offset \div Align \in Nat
  BY ArenaAssumption DEF TypeOK
<1>2. \A k \in Nat : (Align * k) % Align = 0
  BY <1>1
<1>3. CASE offset % Align = 0
  BY <1>1, <1>3 DEF Slop
<1>4. CASE offset % Align # 0
  <2>1. offset + Slop = Align * ((offset \div Align) + 1)
    BY <1>1, <1>4 DEF Slop
  <2> QED BY <1>1, <1>2, <2>1
<1> QED BY <1>3, <1>4

(* What AllocateAlignement sets aside is aligned: the padding completes    *)
(* the current pointer, and a fresh block needs none.                      *)
THEOREM AlwaysAligned == Spec => []IsAligned
<1>1. Init => IsAligned
  BY DEF Init, IsAligned
<1>2. ASSUME IndInv, IsAligned, NEW b, NEW o \in Nat, NEW n, NEW a \in BOOLEAN,
             SetAside(b, o, n, a), a => o % Align = 0
      PROVE  IsAligned'
  <2> DEFINE r == [block |-> b, off |-> o, len |-> n, aligned |-> a]
  <2>1. regions' = Append(regions, r) /\ regions \in Seq(Region)
    BY <1>2 DEF SetAside, IndInv, TypeOK
  <2>2. /\ Len(regions') = Len(regions) + 1 /\ Len(regions) \in Nat
        /\ \A i \in 1..Len(regions) : regions'[i] = regions[i]
        /\ regions'[Len(regions) + 1] = r
    BY <2>1
  <2>3. r.aligned = a /\ r.off = o
    OBVIOUS
  <2> HIDE DEF r
  <2> QED BY <1>2, <2>2, <2>3 DEF IsAligned
<1>3. 0 % Align = 0
  BY ArenaAssumption
<1>4. IndInv /\ IsAligned /\ [Next]_vars => IsAligned'
  <2> SUFFICES ASSUME IndInv, IsAligned, [Next]_vars PROVE IsAligned'
    OBVIOUS
  <2>1. ASSUME NEW n \in Sizes, Allocate(n) PROVE IsAligned'
    <3>1. \E b : \E o \in Nat : SetAside(b, o, n, FALSE)
      <4>1. offset + 0 \in Nat
        BY DEF IndInv, TypeOK
      <4> QED BY <2>1, <4>1 DEF Allocate, Bump, AllocateFallback
    <3> QED BY <1>2, <3>1
  <2>2. ASSUME NEW n \in Sizes, AllocateAlignement(n) PROVE IsAligned'
    <3>1. offset + Slop \in Nat /\ (offset + Slop) % Align = 0
      BY SlopAligns, SlopType DEF IndInv, TypeOK
    <3>2. \/ SetAside(block, offset + Slop, n, TRUE)
          \/ SetAside(Len(blocks) + 1, 0, n, TRUE)
      BY <2>2 DEF AllocateAlignement, Bump, AllocateFallback
    <3>3. CASE SetAside(block, offset + Slop, n, TRUE)
      BY <3>1, <3>3, <1>2
    <3>4. CASE SetAside(Len(blocks) + 1, 0, n, TRUE)
      BY <3>4, <1>2, <1>3
    <3> QED BY <3>2, <3>3, <3>4
  <2>3. CASE UNCHANGED vars
    BY <2>3 DEF vars, IsAligned
  <2> QED BY <2>1, <2>2, <2>3 DEF Next, Stopped
<1> QED BY <1>1, <1>4, ArenaInvariance, PTL DEF Spec

(* AllocateFallback gives up little: the quarter-block rule bounds the     *)
(* waste for every block size and alignment.                               *)
THEOREM WasteBounded == Spec => LittleWaste
<1> DEFINE W == block' # block => remaining < kBlockSize \div 4 + Align
<1>1. IndInv /\ [Next]_vars => [W]_vars
  <2> SUFFICES ASSUME IndInv, Next, block' # block
               PROVE  remaining < kBlockSize \div 4 + Align
    BY DEF vars
  <2>1. PICK n \in Sizes : Allocate(n) \/ AllocateAlignement(n)
    BY DEF Next, Stopped, vars
  <2>2. n \in Nat /\ Slop \in Nat /\ Slop < Align /\ remaining \in Nat
    BY ArenaAssumption, SlopType DEF IndInv, TypeOK
  <2>3. ~IsLarge(n) /\ remaining < n + Slop
    <3>1. CASE Allocate(n)
      <4>1. ~(n <= remaining) /\ AllocateFallback(n, FALSE)
        BY <3>1 DEF Allocate, Bump
      <4>2. ~IsLarge(n)
        BY <4>1 DEF AllocateFallback
      <4> QED BY <2>2, <4>1, <4>2
    <3>2. CASE AllocateAlignement(n)
      <4>1. ~(n + Slop <= remaining) /\ AllocateFallback(n, TRUE)
        BY <3>2 DEF AllocateAlignement, Bump
      <4>2. ~IsLarge(n)
        BY <4>1 DEF AllocateFallback
      <4> QED BY <2>2, <4>1, <4>2
    <3> QED BY <2>1, <3>1, <3>2
  <2>4. n <= kBlockSize \div 4
    BY <2>2, <2>3, ArenaAssumption DEF IsLarge
  <2> QED BY <2>2, <2>3, <2>4, ArenaAssumption
<1> QED BY <1>1, ArenaInvariance, PTL DEF Spec, LittleWaste

=============================================================================
