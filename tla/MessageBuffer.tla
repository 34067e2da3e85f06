---------------------------- MODULE MessageBuffer ----------------------------
(***************************************************************************)
(* fp::MessageBuffer (fastpath/MessageBuffer.h): a MutableByteStorage the  *)
(* first m_startIndex bytes of which have been consumed; they are          *)
(* reclaimed when room is needed.                                          *)
(***************************************************************************)
EXTENDS ByteStorage

MessageBuffer(n) == [start |-> 0, storage |-> MutableByteStorage(n)]

visible_length(b) == Len(b.storage.data) - b.start
Visible(b) == SubSeq(b.storage.data, b.start + 1, Len(b.storage.data))

byteStorage(b) == View(Visible(b))

\* Mutant: the consumed bytes are cut off the end.
CompactedAtEnd(b) ==
  [start |-> 0, storage |-> truncate(b.storage, visible_length(b))]

\* allocate() moves the visible bytes to the front of a block that is too full
Compacted(b) ==
  [start |-> 0, storage |-> [b.storage EXCEPT !.data = Visible(b)]]

MakeRoom(b, n) ==
  LET full == b.start # 0 /\ length(b.storage) + n > b.storage.capacity
      c == IF full THEN Compacted(b) ELSE b
  IN [c EXCEPT !.storage = allocate(@, n)]

erase_back(b, n) == [b EXCEPT !.storage = truncate(@, length(@) - n)]

erase_front(b, n) ==
  IF n + b.start >= length(b.storage)
    THEN [start |-> 0, storage |-> Emptied(b.storage)]
    ELSE [b EXCEPT !.start = @ + n]

\* What a read of up to n bytes leaves: room for all, less what did not come.
Filled(b, bytes, n) ==
  LET room == MakeRoom(b, n)
      at == length(room.storage) - n
      written == WriteAt(room.storage, room.storage.block, at, bytes)
  IN erase_back([room EXCEPT !.storage = written], n - Len(bytes))
=============================================================================
