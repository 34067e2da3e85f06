----------------------------- MODULE ByteStorage -----------------------------
(***************************************************************************)
(* fp::ByteStorage and fp::MutableByteStorage (fastpath/ByteStorage.h,     *)
(* MutableByteStorage.h): a block of memory, the stored length and a read  *)
(* pointer.                                                                *)
(*                                                                         *)
(* data is the stored part; bytes that were made room for and not written  *)
(* are Raw.  block numbers the allocations, so that a pointer kept across  *)
(* a reallocation is known to be stale.  A byte is a number or a model     *)
(* value that stands for one.                                              *)
(***************************************************************************)
EXTENDS Integers, Sequences, FiniteSetsExt

CONSTANT Raw

\* allocateStorage rounds a capacity up to a power of two; 0 stays 0.
RoundUp(n) == IF n = 0 THEN 0 ELSE Min({2 ^ i : i \in {i \in 0 .. 12 : 2 ^ i >= n}})

\* The constructors: empty with room, and a view of bytes kept elsewhere.
MutableByteStorage(n) ==
  [block |-> 0, capacity |-> RoundUp(n), data |-> <<>>, read |-> 0]

View(bytes) ==
  [block |-> 0, capacity |-> 0, data |-> bytes, read |-> 0]
-----------------------------------------------------------------------------
(* Reading as a stream.                                                    *)

length(st) == Len(st.data)
bytesRead(st) == st.read
remainingReadLength(st) == Len(st.data) - st.read
advanceRead(st, n) == [st EXCEPT !.read = @ + n]

\* The n bytes at the read pointer, and at an offset from it.
readBytes(st, n) == SubSeq(st.data, st.read + 1, st.read + n)
PeekScalar(st, offset) == st.data[st.read + offset + 1]

\* A scalar of w bytes, lowest byte first; the values here fit in one.
Scalar(v, w) == [i \in 1 .. w |-> IF i = 1 THEN v ELSE 0]
-----------------------------------------------------------------------------
(* Writing.                                                                *)

\* Room for more bytes, which are written; the memory moves when they do not fit.
append(st, bytes) ==
  IF Len(st.data) + Len(bytes) <= st.capacity THEN [st EXCEPT !.data = @ \o bytes]
  ELSE [st EXCEPT !.data = @ \o bytes, !.block = @ + 1,
                  !.capacity = RoundUp(@ + Len(bytes))]

\* Room for n bytes that are written later, or never.
allocate(st, n) == append(st, [i \in 1 .. n |-> Raw])

\* A write through a pointer taken when the storage had this block.
WriteAt(st, block, offset, bytes) ==
  IF block # st.block THEN st
  ELSE [st EXCEPT !.data =
          [i \in DOMAIN @ |-> IF i - offset \in DOMAIN bytes THEN bytes[i - offset] ELSE @[i]]]

appendScalar(st, v, w) == append(st, Scalar(v, w))

truncate(st, n) == [st EXCEPT !.data = SubSeq(@, 1, n)]
Emptied(st) == [st EXCEPT !.data = <<>>, !.read = 0]
=============================================================================
