------------------------------ MODULE Buffers -------------------------------
(***************************************************************************)
(* fp::MessageBuffer, fp::ByteStorage and                                  *)
(* SharedMemoryManager::getInterprocessBuffer under any sequence of calls  *)
(* (fastpath/MessageBuffer.h, ByteStorage.h, MutableByteStorage.h,         *)
(* transport/sm/SharedMemoryManager.h): who has which block of memory, and *)
(* what is in it.                                                          *)
(*                                                                         *)
(* A buffer is not appended to itself, a buffer whose block was handed on  *)
(* is only destroyed, and a view is used until its buffer changes; views   *)
(* are taken while there is one buffer, since they touch no other.         *)
(***************************************************************************)
EXTENDS MessageBuffer

CONSTANTS Names,        \* the variables that may hold a buffer
          BufferRoom,   \* their first allocation
          Chunks,       \* what is appended
          Amounts,      \* bytes added without a value, erased or passed over in one call
          MaxBuffered,  \* bound on the bytes in a buffer
          MaxBlocks     \* bound on the allocations made

VARIABLES slot,      \* of each name, the buffer
          bytesIn,   \* what each should hold
          live,      \* the blocks allocated and not freed, numbered
          made,      \* blocks allocated so far
          misfreed,  \* a block was freed that had been before
          shared,    \* the blocks a shared_ptr_type has
          view       \* a ByteStorage over the bytes of a buffer

bufferVars == <<slot, bytesIn, live, made, misfreed, shared, view>>
memory == <<live, made, misfreed, shared>>

Null == 0
Gone == [state |-> "gone", buffer |-> MessageBuffer(0), block |-> Null, owns |-> FALSE]
NoView == [of |-> "none", storage |-> View(<<>>), mark |-> 0, bytes |-> <<>>]

BuffersInit ==
  /\ slot = [o \in Names |-> Gone] /\ bytesIn = [o \in Names |-> <<>>]
  /\ live = {} /\ made = 0 /\ misfreed = FALSE /\ shared = {} /\ view = NoView

InUse(o) == slot[o].state = "used"
Room(n) == n <= MaxBuffered /\ made < MaxBlocks
Only(o) == \A p \in Names \ {o} : slot[p] = Gone
\* What changes a buffer ends the use of a view of it.
ViewEnds == view' = NoView

\* One block more, and the given ones less.
Blocks(new, gone) ==
  /\ made' = made + new
  /\ live' = (live \cup (made + 1 .. made + new)) \ gone
  /\ misfreed' = (misfreed \/ ~(gone \subseteq live))
-----------------------------------------------------------------------------
(* Constructors and the destructor.                                        *)

\* The options of the first are 0: its block is not its own.
MessageBufferOfSize(o) ==
  /\ slot[o] = Gone /\ made < MaxBlocks
  /\ slot' = [slot EXCEPT ![o] =
       [state |-> "used", buffer |-> MessageBuffer(BufferRoom), block |-> made + 1, owns |-> FALSE]]
  /\ bytesIn' = [bytesIn EXCEPT ![o] = <<>>]
  /\ Blocks(1, {})
  /\ ViewEnds
  /\ UNCHANGED shared

\* COPY_ON_CONSTRUCT | TAKE_OWNERSHIP
MessageBufferOfBytes(o, bytes) ==
  /\ slot[o] = Gone /\ made < MaxBlocks
  /\ slot' = [slot EXCEPT ![o] =
       [state |-> "used", block |-> made + 1, owns |-> TRUE,
        buffer |-> [start |-> 0, storage |-> [MutableByteStorage(Len(bytes)) EXCEPT !.data = bytes]]]]
  /\ bytesIn' = [bytesIn EXCEPT ![o] = bytes]
  /\ Blocks(1, {})
  /\ ViewEnds
  /\ UNCHANGED shared

MovedFrom == [Gone EXCEPT !.state = "used"]

\* Mutant: the block of the moved buffer stays with it too.
MovedFromKept(o) == [slot[o] EXCEPT !.buffer = MessageBuffer(0)]

Moved(o) == MovedFrom

MessageBufferMoved(o, to) ==
  /\ InUse(o) /\ slot[to] = Gone
  /\ slot' = [slot EXCEPT ![o] = Moved(o), ![to] = [slot[o] EXCEPT !.buffer.storage.read = 0]]
  /\ bytesIn' = [bytesIn EXCEPT ![o] = <<>>, ![to] = bytesIn[o]]
  /\ ViewEnds
  /\ UNCHANGED memory

destroyBuffer(o) ==
  /\ slot[o] # Gone
  /\ slot' = [slot EXCEPT ![o] = Gone] /\ bytesIn' = [bytesIn EXCEPT ![o] = <<>>]
  /\ Blocks(0, IF slot[o].owns THEN {slot[o].block} ELSE {})
  /\ ViewEnds
  /\ UNCHANGED shared
-----------------------------------------------------------------------------
(* Changing the contents.  A reallocation frees the old block, whoever     *)
(* owns it.                                                                *)

Becomes(o, buffer, bytes) ==
  LET moves == buffer.storage.block # slot[o].buffer.storage.block
  IN /\ slot' = [slot EXCEPT ![o].buffer = buffer,
                             ![o].block = IF moves THEN made + 1 ELSE @]
     /\ Blocks(IF moves THEN 1 ELSE 0, IF moves THEN {slot[o].block} \ {Null} ELSE {})
     /\ bytesIn' = [bytesIn EXCEPT ![o] = bytes]
     /\ ViewEnds
     /\ UNCHANGED shared

Holds(o) == length(slot[o].buffer.storage)

appendBytes(o, bytes) ==
  /\ InUse(o) /\ Room(Holds(o) + Len(bytes))
  /\ Becomes(o, [slot[o].buffer EXCEPT !.storage = append(@, bytes)], bytesIn[o] \o bytes)

increaseLengthBy(o, n) ==
  /\ InUse(o) /\ Room(visible_length(slot[o].buffer) + n)
  /\ Becomes(o, MakeRoom(slot[o].buffer, n), bytesIn[o] \o [i \in 1 .. n |-> Raw])

\* append(src, length) takes all of src, whatever length is.
appendBuffer(o, src) ==
  /\ InUse(o) /\ InUse(src) /\ o # src
  /\ Room(Holds(o) + visible_length(slot[src].buffer))
  /\ Becomes(o, [slot[o].buffer EXCEPT !.storage = append(@, Visible(slot[src].buffer))],
             bytesIn[o] \o bytesIn[src])

eraseFront(o, n) ==
  /\ InUse(o) /\ n <= visible_length(slot[o].buffer)
  /\ Becomes(o, erase_front(slot[o].buffer, n), SubSeq(bytesIn[o], n + 1, Len(bytesIn[o])))

eraseBack(o, n) ==
  /\ InUse(o) /\ n <= visible_length(slot[o].buffer)
  /\ Becomes(o, erase_back(slot[o].buffer, n), SubSeq(bytesIn[o], 1, Len(bytesIn[o]) - n))

clearBuffer(o) ==
  /\ InUse(o)
  /\ Becomes(o, [start |-> 0, storage |-> Emptied(slot[o].buffer.storage)], <<>>)
-----------------------------------------------------------------------------
(* A block in shared memory goes to whoever retrieves it, and is freed     *)
(* with the last reference.                                                *)

\* release_ownership
getInterprocessBuffer(o) ==
  /\ InUse(o) /\ slot[o].buffer.start = 0 /\ Holds(o) > 0
  /\ slot' = [slot EXCEPT ![o].state = "released", ![o].owns = FALSE,
                          ![o].buffer.storage.capacity = 0]
  /\ shared' = shared \cup {slot[o].block}
  /\ ViewEnds
  /\ UNCHANGED <<bytesIn, live, made, misfreed>>

deleter(block) ==
  /\ shared' = shared \ {block}
  /\ Blocks(0, {block})
  /\ UNCHANGED <<slot, bytesIn, view>>
-----------------------------------------------------------------------------
(* A view is read as a stream, from a mark.                                *)

byteStorageOf(o) ==
  /\ InUse(o) /\ Only(o)
  /\ view' = [of |-> o, storage |-> byteStorage(slot[o].buffer), mark |-> 0, bytes |-> bytesIn[o]]
  /\ UNCHANGED <<slot, bytesIn, memory>>

mark ==
  /\ view' = [view EXCEPT !.mark = view.storage.read]
  /\ UNCHANGED <<slot, bytesIn, memory>>

resetRead ==
  /\ view' = [view EXCEPT !.storage.read = view.mark, !.bytes =
               SubSeq(bytesIn[view.of], view.mark + 1, Len(bytesIn[view.of]))]
  /\ UNCHANGED <<slot, bytesIn, memory>>

\* The segment is the view's next n bytes, which are passed over.
Segment(n) == View(readBytes(view.storage, n))

segment(n) ==
  /\ n <= remainingReadLength(view.storage)
  /\ view' = [view EXCEPT !.storage = advanceRead(@, n),
                          !.bytes = SubSeq(@, n + 1, Len(@))]
  /\ UNCHANGED <<slot, bytesIn, memory>>
-----------------------------------------------------------------------------
BuffersNext ==
  \/ \E o \in Names :
       \/ MessageBufferOfSize(o) \/ (\E c \in Chunks : MessageBufferOfBytes(o, c))
       \/ (\E to \in Names : MessageBufferMoved(o, to) \/ appendBuffer(o, to))
       \/ destroyBuffer(o) \/ clearBuffer(o) \/ getInterprocessBuffer(o) \/ byteStorageOf(o)
       \/ (\E c \in Chunks : appendBytes(o, c))
       \/ \E n \in Amounts : increaseLengthBy(o, n) \/ eraseFront(o, n) \/ eraseBack(o, n)
  \/ \E b \in shared : deleter(b)
  \/ view.of # "none" /\ (mark \/ resetRead \/ \E n \in Amounts : segment(n))

BuffersSpec == BuffersInit /\ [][BuffersNext]_bufferVars
-----------------------------------------------------------------------------
(* However a buffer is filled, consumed, compacted, moved and read, it     *)
(* shows the bytes put in and not taken out, in order; a view gives them   *)
(* from where its reader is, also after a return to the mark; what is      *)
(* stored is in a block that exists and no other buffer has; and no block  *)
(* is freed twice, nor one that was handed to another process before the   *)
(* last reference to it is gone (ByteStorage.h:118-144).                   *)
BuffersAreSound ==
  /\ \A o \in Names : InUse(o) =>
       /\ Visible(slot[o].buffer) = bytesIn[o]
       /\ Holds(o) <= slot[o].buffer.storage.capacity
       /\ Holds(o) > 0 => slot[o].block \in live \ shared
  /\ \A o, p \in Names : o # p /\ InUse(o) /\ slot[o].block = slot[p].block => slot[o].block = Null
  /\ ~misfreed /\ shared \subseteq live
  /\ \A n \in 0 .. Len(view.bytes) : Segment(n).data = SubSeq(view.bytes, 1, n)
=============================================================================
