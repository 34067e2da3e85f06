------------------------------- MODULE Message -------------------------------
(***************************************************************************)
(* fp::BaseMessage, Message and MutableMessage (fastpath/messages): fields *)
(* in an arena, in order in m_payload and by identifier in m_keys; and a   *)
(* message's way over the wire into one from a pool of reused messages.    *)
(*                                                                         *)
(* One application thread builds a message in first, may move it to        *)
(* second, and encodes either; pooled is what the receiver decodes into.   *)
(* The code's move constructor leaves the fields in the arena of the       *)
(* message moved from, which here outlives the other.                      *)
(***************************************************************************)
EXTENDS MessageCodec

CONSTANTS Fields,        \* the fields the application adds
          Subjects,
          sizeof,        \* of a field object, by class
          SIZE_T,        \* sizeof(std::size_t)
          ArenaSize,     \* of the first slab, 8192
          LargeSize,     \* first capacity of a LargeDataField, 512
          WireSize,      \* first capacity of the buffer encoded into
          MaxFields,     \* bound on the fields of a message
          MaxSlabs,      \* bound on the slabs of an arena
          Nothing

Objects == {"first", "second", "pooled"}

VARIABLES object,    \* the messages; "second" may not exist
          arena,     \* the arenas of the messages that own one
          wire,      \* the storage encoded into
          sent,      \* what was encoded into it, and whether it had to grow
          received   \* what decode made of it

vars == <<object, arena, wire, sent, received>>

A == INSTANCE Arena

Message(alloc) ==
  [subject |-> <<>>, flags |-> 255, payload |-> <<>>, keys |-> <<>>, alloc |-> alloc,
   added |-> {}, shifted |-> {}]

Init ==
  /\ object = [o \in Objects |-> IF o = "second" THEN Message(Nothing) ELSE Message(o)]
  /\ arena = [o \in {"first", "pooled"} |-> A!arena(ArenaSize)]
  /\ wire = MutableByteStorage(WireSize)
  /\ sent = Nothing
  /\ received = Nothing

Exists(o) == object[o].alloc # Nothing

\* The application has the message at hand: it exists and none is on its way.
\* What happens to the next message meanwhile does not depend on that one.
AtHand(o) == o # "pooled" /\ Exists(o) /\ sent = Nothing

Put(o, m, a) ==
  /\ object' = [object EXCEPT ![o] = m]
  /\ arena' = [arena EXCEPT ![m.alloc] = a]
-----------------------------------------------------------------------------
(* Field objects.                                                          *)

FieldBlock(f) == sizeof[f.class] + SIZE_T

\* The storage of a LargeDataField: setData takes a larger block if it must.
LargeStorage(a, bytes, initial) ==
  LET first == RoundUp(initial)
      p == A!NextPtr(a, first)
      a1 == A!allocate(a, first)
      more == RoundUp(Max({Len(bytes), 2 * first}))
  IN IF Len(bytes) <= first THEN a1 ELSE A!allocate(A!deallocate(a1, p, first), more)

\* allocate_polymorphic::allocate; the size of the object is kept before it.
createField(a, f, initial) ==
  LET a1 == A!allocate(a, FieldBlock(f))
  IN IF f.class = "large" THEN LargeStorage(a1, f.data, initial) ELSE a1

\* ~LargeDataField leaves its storage: its options do not say it owns it.
destroyField(a, e) == A!deallocate(a, e.ptr, FieldBlock(e.field))

Emplaced(m, a, f) ==
  [m EXCEPT !.payload = Append(@, [ptr |-> A!NextPtr(a, FieldBlock(f)), field |-> f]),
            !.keys = IF f.id \in DOMAIN @ THEN @ ELSE @ @@ (f.id :> Len(m.payload)),
            !.added = IF f.id \in DOMAIN m.keys THEN @ ELSE @ \cup {f}]
-----------------------------------------------------------------------------
(* MutableMessage.                                                         *)

setSubject(o, s) ==
  /\ AtHand(o)
  /\ object' = [object EXCEPT ![o].subject = s]
  /\ UNCHANGED <<arena, wire, sent, received>>

\* Every add creates the field and destroys it again if the key is taken.
add(o, f, initial) ==
  LET m == object[o]
      a == arena[m.alloc]
      created == createField(a, f, initial)
      e == [ptr |-> A!NextPtr(a, FieldBlock(f)), field |-> f]
  IN /\ AtHand(o)
     /\ Len(m.payload) < MaxFields
     /\ Len(created.slabs) <= MaxSlabs
     /\ IF f.id \in DOMAIN m.keys THEN Put(o, m, destroyField(created, e))
        ELSE Put(o, Emplaced(m, a, f), created)
     /\ UNCHANGED <<wire, sent, received>>

addScalarField(o, f) == f.class = "scalar" /\ add(o, f, 0)
addDateTimeField(o, f) == f.class = "date_time" /\ add(o, f, 0)
addMessageField(o, f) == f.class = "message" /\ add(o, f, 0)
addDataField(o, f) ==
  /\ f.class \in {"small", "large"}
  /\ add(o, f, IF f.type = storage_type.string THEN LargeSize ELSE Len(f.data))

\* The entry is read after it was erased, which in practice still holds the
\* index.  The keys of the fields behind it are not renumbered, and another
\* removal through such a key, which is undefined, is not followed.
removeField(o, id) ==
  LET m == object[o]
      index == m.keys[id]
      e == m.payload[index + 1]
  IN /\ AtHand(o)
     /\ id \in DOMAIN m.keys \ m.shifted
     /\ Put(o, [m EXCEPT !.payload = RemoveAt(@, index + 1),
                         !.keys = [k \in DOMAIN @ \ {id} |-> @[k]],
                         !.added = {f \in @ : f.id # id},
                         !.shifted = @ \cup {k \in DOMAIN m.keys : m.keys[k] > index}],
            destroyField(arena[m.alloc], e))
     /\ UNCHANGED <<wire, sent, received>>
-----------------------------------------------------------------------------
(* BaseMessage and Message.                                                *)

\* Mutant: the keys of the previous use stay.
ClearedKeepsKeys(m) == [Message(m.alloc) EXCEPT !.keys = m.keys]

\* clear(), also as prepareForReuse()
Cleared(m) == Message(m.alloc)
Returned(m) == FoldLeft(destroyField, arena[m.alloc], m.payload)

clear(o) ==
  /\ AtHand(o)
  /\ Put(o, Cleared(object[o]), Returned(object[o]))
  /\ UNCHANGED <<wire, sent, received>>

\* The move constructor: second takes first's fields and its allocator.
move ==
  /\ AtHand("first") /\ ~Exists("second")
  /\ object' = [object EXCEPT
       !["second"] = object["first"],
       !["first"] = [@ EXCEPT !.subject = <<>>, !.payload = <<>>, !.keys = <<>>,
                              !.added = {}, !.shifted = {}]]
  /\ UNCHANGED <<arena, wire, sent, received>>

\* ~BaseMessage of second
destroy ==
  /\ AtHand("second")
  /\ object' = [object EXCEPT !["second"] = Message(Nothing)]
  /\ arena' = [arena EXCEPT !["first"] = Returned(object["second"])]
  /\ UNCHANGED <<wire, sent, received>>

FieldsOf(m) == [i \in DOMAIN m.payload |-> m.payload[i].field]

encodeMsg(o) ==
  LET m == object[o]
      subject == Append(m.subject, 0)
      encoded == encode(wire, subject, m.flags, FieldsOf(m))
  IN /\ AtHand(o)
     /\ wire' = encoded
     /\ sent' = [subject |-> subject, flags |-> m.flags, fields |-> FieldsOf(m),
                 grew |-> encoded.block # wire.block]
     /\ UNCHANGED <<object, arena, received>>

\* Decode what has arrived of it: n bytes, all of them perhaps with the start
\* of the next message, into a pooled message made ready for reuse.
Decoded(m, a, fields) ==
  FoldLeft(LAMBDA d, f : [m |-> Emplaced(d.m, d.a, f), a |-> createField(d.a, f, LargeSize)],
           [m |-> m, a |-> a], fields)

decodeMsg(n, extra) ==
  LET st == View(SubSeq(wire.data, 1, n) \o extra)
      result == decode(st)
      cleared == Cleared(object["pooled"])
      addressed == IF have_complete_message(st) # "complete" THEN cleared
                   ELSE [cleared EXCEPT !.subject = Addressing(st).subject,
                                        !.flags = Addressing(st).flags]
      d == Decoded(addressed, Returned(object["pooled"]), result.fields)
  IN /\ sent # Nothing
     /\ n \in 0 .. Len(wire.data)
     /\ extra # <<>> => n = Len(wire.data)
     /\ Len(d.a.slabs) <= MaxSlabs
     /\ Put("pooled", d.m, d.a)
     /\ received' = [whole |-> n = Len(wire.data), status |-> result.status,
                     read |-> bytesRead(result.st)]
     /\ UNCHANGED <<wire, sent>>

\* The next message is encoded into a cleared buffer.
delivered ==
  /\ received # Nothing /\ received.whole
  /\ wire' = Emptied(wire)
  /\ sent' = Nothing
  /\ received' = Nothing
  /\ UNCHANGED <<object, arena>>
-----------------------------------------------------------------------------
\* What an application does with a message of its own.
Build(o, fields) ==
  \/ \E s \in Subjects : setSubject(o, s)
  \/ \E f \in fields : \/ addScalarField(o, f) \/ addDateTimeField(o, f)
                       \/ addMessageField(o, f) \/ addDataField(o, f)
  \/ clear(o)

Rearrange ==
  \/ \E o \in Objects, id \in {f.id : f \in Fields} : removeField(o, id)
  \/ move
  \/ destroy

Send ==
  \/ \E o \in Objects : encodeMsg(o)
  \/ \E n \in 0 .. Len(wire.data), extra \in {<<>>, <<addressing_flag>>} : decodeMsg(n, extra)
  \/ delivered

Next == (\E o \in Objects : Build(o, Fields)) \/ Rearrange \/ Send

Spec == Init /\ [][Next]_vars
-----------------------------------------------------------------------------
\* getScalarField, getDataField and storageType: the field a key leads to
Lookup(m, id) ==
  IF id \notin DOMAIN m.keys \/ m.keys[id] >= Len(m.payload) THEN Nothing
  ELSE m.payload[m.keys[id] + 1].field

(* Blocks handed out by an arena never overlap, lie below their slab's     *)
(* head, and are exactly what the slab counts, in whatever order fields    *)
(* are added, refused, removed, moved and cleared (slab::deallocate gives  *)
(* memory back from the head only).                                        *)
ArenaIsSound ==
  \A o \in DOMAIN arena : LET a == arena[o] IN
    /\ \A b \in a.live : b.ptr.offset + b.size <= a.slabs[b.ptr.slab].head
    /\ \A b, c \in a.live : b # c /\ b.ptr.slab = c.ptr.slab =>
         b.ptr.offset + b.size <= c.ptr.offset \/ c.ptr.offset + c.size <= b.ptr.offset
    /\ \A i \in DOMAIN a.slabs :
         /\ a.slabs[i].head <= a.slabs[i].size
         /\ a.slabs[i].allocated =
              MapThenSumSet(LAMBDA b : b.size, {b \in a.live : b.ptr.slab = i})

(* A message answers for each identifier with the field that was added     *)
(* under it, and for no other, also after refused additions, a move, and   *)
(* reuse from the pool; only fields behind a removed one are excepted,     *)
(* whose keys removeField leaves as they were (MutableMessage.cpp:226).    *)
AccessorsAnswer ==
  \A o \in Objects : LET m == object[o] IN
    /\ \A f \in m.added : f.id \notin m.shifted => Lookup(m, f.id) = f
    /\ DOMAIN m.keys = {f.id : f \in m.added}

\* The last header written announces no fields, and nothing comes after it.
Hollow(fields) ==
  \/ fields = <<>>
  \/ LET f == Last(fields) IN f.class = "message" /\ f.msg = <<>>

(* decode undoes encode: from a message cut short at any byte it takes     *)
(* nothing, and from a whole one exactly its bytes, subject, flags and     *)
(* fields, whatever the pooled message held before.  Excepted are a        *)
(* message that ends in a header without fields, which decode leaves       *)
(* unread (MessageCodec.h:193), and one whose encoding moved the buffer,   *)
(* whose length is written to the old one (MessageCodec.h:166).            *)
DecodeInvertsEncode ==
  received # Nothing /\ ~sent.grew =>
    IF ~received.whole
      THEN received.status = "incomplete" /\ received.read = 0
      ELSE Hollow(sent.fields) \/
           /\ received.status = "true"
           /\ received.read = Len(wire.data)
           /\ FieldsOf(object["pooled"]) = sent.fields
           /\ object["pooled"].subject = sent.subject
           /\ object["pooled"].flags = sent.flags
=============================================================================
