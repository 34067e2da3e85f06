-------------------------------- MODULE Pool --------------------------------
(***************************************************************************)
(* tf::pool (fastpath/utils/tfpool.h): objects made ahead and handed out   *)
(* again.  Both operations run under the pool's spin lock.                 *)
(***************************************************************************)
EXTENDS Naturals, Sequences

\* Objects are numbered in the order in which they are made.
pool(n) == [size |-> n, free |-> [i \in 1 .. n |-> i]]

Grown(p) ==
  IF p.free # <<>> THEN p
  ELSE [size |-> 2 * p.size, free |-> [i \in 1 .. p.size |-> p.size + i]]

\* allocate() hands out the last one.
Allocated(p) == Grown(p).free[Len(Grown(p).free)]
Taken(p) == [Grown(p) EXCEPT !.free = SubSeq(@, 1, Len(@) - 1)]

release(p, object) == [p EXCEPT !.free = Append(@, object)]
=============================================================================
