------------------------------- MODULE Arena -------------------------------
(***************************************************************************)
(* The bump allocator behind the memtable (util/arena.hpp, util/arena.cpp).*)
(*                                                                         *)
(* A pointer is a block and an offset in it.  Blocks come from new[], which*)
(* returns memory that overlaps no other block and is aligned for every    *)
(* type, so that the alignment of a pointer is that of its offset.         *)
(***************************************************************************)
EXTENDS Naturals, Sequences

CONSTANTS
  kBlockSize,
  Align,      \* align of AllocateAlignement
  PtrSize,    \* sizeof(char*)
  Sizes,      \* sizes that may be asked for
  MaxCalls    \* bound: allocations

ASSUME ArenaAssumption ==
  /\ kBlockSize \in Nat \ {0}
  /\ Align \in Nat \ {0}
  /\ PtrSize \in Nat
  /\ Sizes \subseteq Nat \ {0}
  /\ MaxCalls \in Nat

VARIABLES
  blocks,     \* sizes of the blocks in blocks_
  block,      \* the block alloc_ptr_ points into, 0 for NULL
  offset,     \* and where
  remaining,  \* alloc_bytes_remaining_
  usage,      \* memory_usage_
  regions,    \* the memory set aside for each call, in order
  bytes       \* bytes asked for so far

vars == <<blocks, block, offset, remaining, usage, regions, bytes>>

Region == [block : Nat, off : Nat, len : Nat, aligned : BOOLEAN]

TypeOK ==
  /\ blocks \in Seq(Nat)
  /\ block \in Nat
  /\ offset \in Nat
  /\ remaining \in Nat
  /\ usage \in Nat
  /\ regions \in Seq(Region)
  /\ bytes \in Nat

Init ==
  /\ blocks = <<>>
  /\ block = 0
  /\ offset = 0
  /\ remaining = 0
  /\ usage = 0
  /\ regions = <<>>
  /\ bytes = 0

-----------------------------------------------------------------------------
(* What a call for n bytes sets aside.                                     *)
SetAside(b, o, n, aligned) ==
  /\ regions' = Append(regions, [block |-> b, off |-> o, len |-> n,
                                 aligned |-> aligned])
  /\ bytes' = bytes + n

(* Mutant: the block is not charged to memory_usage_.                      *)
AllocateNewBlockUncounted(n) ==
  /\ blocks' = Append(blocks, n)
  /\ UNCHANGED usage

AllocateNewBlock(n) ==
  /\ blocks' = Append(blocks, n)
  /\ usage' = usage + n + PtrSize

(* Mutant: alloc_ptr_ is not moved on.                                     *)
BumpForgotten(skip, n, aligned) ==
  /\ SetAside(block, offset + skip, n, aligned)
  /\ remaining' = remaining - (skip + n)
  /\ UNCHANGED <<blocks, block, offset, usage>>

(* The current block has room for n bytes after skipping some.             *)
Bump(skip, n, aligned) ==
  /\ SetAside(block, offset + skip, n, aligned)
  /\ offset' = offset + skip + n
  /\ remaining' = remaining - (skip + n)
  /\ UNCHANGED <<blocks, block, usage>>

(* Mutant: only what does not fit into a block gets one of its own.        *)
IsLargeLate(n) == n > kBlockSize

IsLarge(n) == n > kBlockSize \div 4

(* Mutant: the bytes returned are not taken off alloc_bytes_remaining_.    *)
AllocateFallbackUncut(n, aligned) ==
  /\ SetAside(Len(blocks) + 1, 0, n, aligned)
  /\ IF IsLarge(n)
     THEN /\ AllocateNewBlock(n)
          /\ UNCHANGED <<block, offset, remaining>>
     ELSE /\ AllocateNewBlock(kBlockSize)
          /\ block' = Len(blocks) + 1
          /\ offset' = n
          /\ remaining' = kBlockSize

(* A large object gets a block of its own; for a small one the rest of the *)
(* current block is wasted and a new one begun.                            *)
AllocateFallback(n, aligned) ==
  /\ SetAside(Len(blocks) + 1, 0, n, aligned)
  /\ IF IsLarge(n)
     THEN /\ AllocateNewBlock(n)
          /\ UNCHANGED <<block, offset, remaining>>
     ELSE /\ AllocateNewBlock(kBlockSize)
          /\ block' = Len(blocks) + 1
          /\ offset' = n
          /\ remaining' = kBlockSize - n

Allocate(n) ==
  IF n <= remaining THEN Bump(0, n, FALSE) ELSE AllocateFallback(n, FALSE)

(* Mutant: the padding is as long as what it should complete.              *)
SlopReversed == offset % Align

(* The padding that AllocateAlignement puts in front.                      *)
Slop == IF offset % Align = 0 THEN 0 ELSE Align - (offset % Align)

(* Mutant: the padding is not looked at when the room is.                  *)
AllocateAlignementUnpadded(n) ==
  IF n <= remaining THEN Bump(Slop, n, TRUE) ELSE AllocateFallback(n, TRUE)

(* The function has no return statement: what the caller is given is       *)
(* undefined.  The region is the memory it has set aside.                  *)
AllocateAlignement(n) ==
  IF n + Slop <= remaining
  THEN Bump(Slop, n, TRUE)
  ELSE AllocateFallback(n, TRUE)

(* The model stops after MaxCalls calls.                                   *)
Stopped == Len(regions) = MaxCalls /\ UNCHANGED vars

Next ==
  \/ /\ Len(regions) < MaxCalls
     /\ \E n \in Sizes : Allocate(n) \/ AllocateAlignement(n)
  \/ Stopped

Spec == Init /\ [][Next]_vars

-----------------------------------------------------------------------------
(* Every region lies inside its block.                                     *)
Contained ==
  \A i \in 1..Len(regions) :
    /\ regions[i].block \in 1..Len(blocks)
    /\ regions[i].off + regions[i].len <= blocks[regions[i].block]

(* No two calls are given overlapping memory, whatever the sequence of     *)
(* aligned and plain, small and large requests.                            *)
Disjoint ==
  \A i, j \in 1..Len(regions) :
    i = j \/ regions[i].block # regions[j].block
          \/ regions[i].off + regions[i].len <= regions[j].off
          \/ regions[j].off + regions[j].len <= regions[i].off

(* What AllocateAlignement asserts before it ends, of every region it ever *)
(* set aside: also of one that comes from AllocateFallback.                *)
IsAligned ==
  \A i \in 1..Len(regions) : regions[i].aligned => regions[i].off % Align = 0

(* MemoryUsage() never falls below what has been asked for.                *)
UsageCovers == bytes <= usage

(* Little is wasted: a block is given up only when less than a quarter of  *)
(* a block, and the padding of one aligned request, is left in it.         *)
LittleWaste ==
  [][block' # block => remaining < kBlockSize \div 4 + Align]_vars

=============================================================================
