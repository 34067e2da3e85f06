-------------------------------- MODULE Arena --------------------------------
(***************************************************************************)
(* tf::arena and tf::linear_allocator                                      *)
(* (fastpath/utils/fast_linear_allocator.h), the memory of a message's     *)
(* fields: a list of slabs, each handed out from its head upwards and      *)
(* taken back when the last block or all of them return.                   *)
(*                                                                         *)
(* A pointer is a slab and an offset in it.  live holds the blocks that    *)
(* have been handed out and not been returned; the code keeps no such set. *)
(***************************************************************************)
EXTENDS Integers, Sequences, FiniteSets, SequencesExt

slab(size) == [size |-> size, allocated |-> 0, head |-> 0]

free(s) == s.size - s.head

pointer_in_buffer(s, offset) == 0 <= offset /\ offset <= s.head

arena(initial_size) ==
  [initial_size |-> initial_size, slabs |-> <<slab(initial_size)>>, live |-> {}]

\* 0 when there is none
find_slab_with_space(a, size) == SelectInSeq(a.slabs, LAMBDA s : free(s) >= size)

find_slab_containing(a, p) ==
  IF pointer_in_buffer(a.slabs[p.slab], p.offset) THEN p.slab ELSE 0

\* slab::allocate in the i-th slab; the pointer is returned in ptr
AllocateIn(a, i, size) ==
  LET p == [slab |-> i, offset |-> a.slabs[i].head]
  IN [a EXCEPT !.slabs[i].head = @ + size,
               !.slabs[i].allocated = @ + size,
               !.live = @ \cup {[ptr |-> p, size |-> size]}]

Grown(a, size) ==
  [a EXCEPT !.slabs = Append(@, slab(Max({size, a.initial_size})))]

\* Where the next block of this size will be, and the arena with it.
NextPtr(a, size) ==
  LET i == find_slab_with_space(a, size)
  IN IF i = 0 THEN [slab |-> Len(a.slabs) + 1, offset |-> 0]
              ELSE [slab |-> i, offset |-> a.slabs[i].head]

allocate(a, size) ==
  LET i == find_slab_with_space(a, size)
  IN IF i = 0 THEN AllocateIn(Grown(a, size), Len(a.slabs) + 1, size)
              ELSE AllocateIn(a, i, size)

\* Mutant: every block returned moves the head back.
NewHeadAlways(s, p, size) == IF s.allocated = size THEN 0 ELSE p.offset

NewHead(s, p, size) ==
  IF s.allocated = size THEN 0
  ELSE IF p.offset + size = s.head THEN p.offset
  ELSE s.head

deallocate(a, p, size) ==
  LET i == find_slab_containing(a, p)
  IN IF i = 0 THEN a
     ELSE [a EXCEPT !.slabs[i].allocated = @ - size,
                    !.slabs[i].head = NewHead(a.slabs[i], p, size),
                    !.live = @ \ {[ptr |-> p, size |-> size]}]
=============================================================================
