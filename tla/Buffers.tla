------------------------------- MODULE Buffers -------------------------------
(***************************************************************************)
(* The string buffers of other/buffer.cpp and other/buffer.hpp, a fragment *)
(* of another program that the database does not use: memory that is kept, *)
(* exchanged and given back by hand.                                       *)
(*                                                                         *)
(* The sources break off in buffer_string_prepare_copy, which is taken to  *)
(* do what buffer.hpp says of it, and leave out buffer_commit and          *)
(* buffer_string_prepare_append, of which buffer.hpp says nothing.  What   *)
(* AppendString assumes of these two is external.                          *)
(*                                                                         *)
(* The names carry the component's, so that a module may extend several.   *)
(***************************************************************************)
EXTENDS Naturals, FiniteSetsExt, Functions

CONSTANTS
  BufferName,  \* the buffers of the program
  Piece,       \* BUFFER_PRICE_SIZE, 64 in the code
  MaxReuse,    \* BUFFER_MAX_REUSE_SIZE
  SizeMod,     \* what a size_t wraps at
  Lengths      \* lengths of strings

ASSUME BufferAssumption ==
  /\ Piece \in Nat \ {0} /\ MaxReuse \in Nat /\ SizeMod \in Nat
  /\ Lengths \subseteq 0..SizeMod - 1

VARIABLES
  buffer,      \* the buffers there are, by name
  heap         \* the memory behind them: the size of each block

bufferVars == <<buffer, heap>>

NULL == 0
NoMemory == [ptr |-> NULL, size |-> 0, used |-> 0]

-----------------------------------------------------------------------------
(* Mutant: a size that is a multiple already is kept, and 0 with it.       *)
AlignSizeDown(size) == size - (size % Piece)

(* buffer_align_size: up to the next multiple of a piece, unless that wraps*)
AlignSize(size) ==
  LET aligned == (size + (Piece - (size % Piece))) % SizeMod IN
  IF aligned < size THEN size ELSE aligned

(* free of NULL does nothing.                                              *)
Freed(memory, p) == Restrict(memory, DOMAIN memory \ {p})

Unused(memory) == Min((1..Cardinality(DOMAIN memory) + 1) \ DOMAIN memory)

(* Buffer n gets a block of this size in the place of the one it has.      *)
Allocated(n, size, used) ==
  LET memory == Freed(heap, buffer[n].ptr)
      p == Unused(memory) IN
  /\ heap' = [q \in DOMAIN memory \cup {p} |-> IF q = p THEN size ELSE memory[q]]
  /\ buffer' = [buffer EXCEPT ![n] = [ptr |-> p, size |-> size, used |-> used]]

BufferInit == buffer = <<>> /\ heap = <<>>

(* buffer_init.                                                            *)
NewBuffer(n) ==
  /\ n \notin DOMAIN buffer
  /\ buffer' = [m \in DOMAIN buffer \cup {n} |-> IF m = n THEN NoMemory ELSE buffer[m]]
  /\ UNCHANGED heap

FreeBuffer(n) ==
  /\ heap' = Freed(heap, buffer[n].ptr)
  /\ buffer' = Restrict(buffer, DOMAIN buffer \ {n})

(* Mutant: a large block is dropped, not freed.                            *)
ResetDropped(b) ==
  [buffer |-> IF b.size > MaxReuse THEN NoMemory ELSE [b EXCEPT !.used = 0],
   heap |-> heap]

(* buffer_reset: large memory is given back, small memory kept.            *)
Reset(b) ==
  IF b.size > MaxReuse
  THEN [buffer |-> NoMemory, heap |-> Freed(heap, b.ptr)]
  ELSE [buffer |-> [b EXCEPT !.used = 0], heap |-> heap]

ResetBuffer(n) ==
  /\ heap' = Reset(buffer[n]).heap
  /\ buffer' = [buffer EXCEPT ![n] = Reset(buffer[n]).buffer]

(* buffer_move(b, src) of two buffers; either may be the other, or NULL,   *)
(* which is a ResetBuffer of the one that is not.                          *)
MoveBuffer(b, src) ==
  LET reset == Reset(buffer[b]) IN
  /\ heap' = reset.heap
  /\ buffer' = IF b = src THEN [buffer EXCEPT ![b] = reset.buffer]
               ELSE [buffer EXCEPT ![b] = buffer[src], ![src] = reset.buffer]

(* buffer_string_prepare_copy: buffer_alloc of room for the string and a   *)
(* zero.  The sum is asserted not to wrap.                                 *)
PrepareCopy(n, len) ==
  LET size == len + 1 IN
  /\ size < SizeMod
  /\ IF size <= buffer[n].size
     THEN buffer' = [buffer EXCEPT ![n].used = 1] /\ UNCHANGED heap
     ELSE Allocated(n, AlignSize(size), 1)

(* buffer_append_string_len.  buffer_string_prepare_append makes an empty  *)
(* string where there is none (used is 1, its zero), and room, by          *)
(* buffer_realloc, for the string there is and the one to come; the sum is *)
(* asserted not to wrap.  buffer_commit, called with s for b               *)
(* (buffer.cpp:120), adds the length.  For an empty string the code returns*)
(* before that: len is 0, and used stays.                                  *)
AppendString(n, len) ==
  LET size == Max({buffer[n].used, 1}) + len IN
  /\ size < SizeMod
  /\ IF size < buffer[n].size
     THEN buffer' = [buffer EXCEPT ![n].used = size] /\ UNCHANGED heap
     ELSE Allocated(n, AlignSize(size), size)

BufferNext ==
  \/ \E n \in BufferName : NewBuffer(n)
  \/ \E n \in DOMAIN buffer : \/ FreeBuffer(n) \/ ResetBuffer(n)
                              \/ \E m \in DOMAIN buffer : MoveBuffer(n, m)
                              \/ \E len \in Lengths : \/ PrepareCopy(n, len)
                                                      \/ AppendString(n, len)

BufferSpec == BufferInit /\ [][BufferNext]_bufferVars

-----------------------------------------------------------------------------
(* Whatever has been copied, appended, moved and reset, every block of     *)
(* memory belongs to exactly one buffer, which knows its size and has used *)
(* no more of it: nothing is freed twice, leaked, or written beyond.       *)
BuffersOwn ==
  LET held == {n \in DOMAIN buffer : buffer[n].ptr # NULL} IN
  /\ DOMAIN heap = {buffer[n].ptr : n \in held}
  /\ \A n, m \in held : buffer[n].ptr = buffer[m].ptr => n = m
  /\ \A n \in held : heap[buffer[n].ptr] = buffer[n].size
  /\ \A n \in DOMAIN buffer : buffer[n].used <= buffer[n].size
=============================================================================
