------------------------------- MODULE Heap ---------------------------------
(***************************************************************************)
(* The heap of core/memory.c: a mark that moves up.  free does nothing, so *)
(* what is handed out stays so.  Interrupt handlers do not allocate.       *)
(***************************************************************************)
EXTENDS Integers

CONSTANTS HEAP_START,   \* 0x1000000
          Alignments,   \* those that memalign is called with: 4, 16, 4096
          Sizes,        \* those that are asked for
          HeapEnd       \* Bound: no call goes past it

VARIABLES free_memory_start,
          blocks        \* what is handed out: records of start, size and alignment

vars == <<free_memory_start, blocks>>

PowersOfTwo == {a \in Nat \ {0} : \E k \in Nat : a = 2 ^ k}

\* memalign: the block, and where it leaves the mark.  The mask of the code is
\* the remainder for a power of two only, and no other alignment is asked for.
MemalignFrom(mark, alignment, size) ==
  LET diff == mark % alignment
      waste == IF diff = 0 THEN 0 ELSE alignment - diff
  IN [start |-> mark + waste, next |-> mark + waste + size]

-----------------------------------------------------------------------------

Init == free_memory_start = HEAP_START /\ blocks = {}

Malloc(size) ==
  /\ free_memory_start + size <= HeapEnd
  /\ free_memory_start' = free_memory_start + size
  /\ blocks' = blocks \cup {[start |-> free_memory_start, size |-> size, alignment |-> 1]}

Memalign(alignment, size) ==
  LET got == MemalignFrom(free_memory_start, alignment, size)
  IN /\ got.next <= HeapEnd
     /\ free_memory_start' = got.next
     /\ blocks' = blocks \cup {[start |-> got.start, size |-> size, alignment |-> alignment]}

Next == \E size \in Sizes : \/ Malloc(size)
                            \/ \E alignment \in Alignments : Memalign(alignment, size)

Spec == Init /\ [][Next]_vars

-----------------------------------------------------------------------------

Apart(a, b) == a.start + a.size <= b.start \/ b.start + b.size <= a.start

\* No two blocks share a byte, and each is aligned as the caller of memalign
\* needs it: a pointer to a descriptor has its flags in its low four bits.
BlocksApart == /\ \A a, b \in blocks : a = b \/ Apart(a, b)
               /\ \A a \in blocks : a.start % a.alignment = 0
=============================================================================
