---------------------------- MODULE MessageCodec ----------------------------
(***************************************************************************)
(* The wire format (fastpath/messages/MessageCodec.h, Field.h and the      *)
(* field classes): addressing, header and fields appended to a             *)
(* MutableByteStorage, and read back from a ByteStorage.                   *)
(*                                                                         *)
(* A field is its identifier, its storage type and the bytes or the        *)
(* sub-message it holds; identifiers, subjects and payloads are short      *)
(* sequences of byte-sized model values.                                   *)
(***************************************************************************)
EXTENDS ByteStorage, SequencesExt

CONSTANT max_size  \* SmallDataField::max_size

addressing_flag == 1
body_flag == 2

storage_type ==
  [unknown |-> 0, string |-> 1, date_time |-> 2, boolean |-> 3,
   uint8 |-> 4, uint16 |-> 5, uint32 |-> 6, uint64 |-> 7,
   int8 |-> 8, int16 |-> 9, int32 |-> 10, int64 |-> 11,
   float32 |-> 12, float64 |-> 13, data |-> 14, message |-> 15]

\* field_traits<T>::size, by the type field_traits gives T
field_traits ==
  [boolean |-> 1, uint8 |-> 1, int8 |-> 1, uint16 |-> 2, int16 |-> 2,
   uint32 |-> 4, int32 |-> 4, float32 |-> 4, uint64 |-> 8, int64 |-> 8,
   float64 |-> 8]

Width ==
  [addressing_start |-> 1, msg_length |-> 8, flags |-> 1, reserved |-> 4,
   subject_length |-> 2, header_start |-> 1, field_count |-> 4,
   type |-> 1, identifier_length |-> 1, data_length |-> 4]

msg_length_offset == Width.addressing_start + Width.msg_length
AddressingSize ==
  msg_length_offset + Width.flags + Width.reserved + Width.subject_length
HeaderSize == Width.header_start + Width.field_count
FieldSize == Width.type + Width.identifier_length + Width.data_length
-----------------------------------------------------------------------------
(* The fields.                                                             *)

NoMessage == <<>>

ScalarField(id, type, v) ==
  [id |-> id, type |-> storage_type[type], class |-> "scalar",
   data |-> Scalar(v, field_traits[type]), msg |-> NoMessage]

\* The class createDataField picks for so many bytes.
DataClass(size) == IF size <= max_size THEN "small" ELSE "large"

DataField(id, type, bytes) ==
  [id |-> id, type |-> storage_type[type], class |-> DataClass(Len(bytes)),
   data |-> bytes, msg |-> NoMessage]

DateTimeField(id, seconds, microseconds) ==
  [id |-> id, type |-> storage_type.date_time, class |-> "date_time",
   data |-> Scalar(seconds, 8) \o Scalar(microseconds, 8), msg |-> NoMessage]

MessageField(id, fields) ==
  [id |-> id, type |-> storage_type.message, class |-> "message",
   data |-> <<>>, msg |-> fields]
-----------------------------------------------------------------------------
(* Encoding.                                                               *)

RECURSIVE encodeBody(_, _)

\* The header of a field, with room for a length that is written later.
FieldHeader(st, f) ==
  appendScalar(appendScalar(st, f.type, Width.type),
               Len(f.id), Width.identifier_length)

\* Field::encode
encodeData(st, f) ==
  append(append(appendScalar(FieldHeader(st, f), Len(f.data), Width.data_length), f.id),
         f.data)

\* MessageField::encode; data_len_ptr points into the block it was taken from.
encodeMessage(st, f) ==
  LET head == FieldHeader(st, f)
      room == allocate(head, Width.data_length)
      named == append(room, f.id)
      body == encodeBody(named, f.msg)
  IN WriteAt(body, room.block, Len(head.data),
             Scalar(Len(body.data) - Len(named.data), Width.data_length))

encodeField(st, f) ==
  IF f.type = storage_type.message THEN encodeMessage(st, f) ELSE encodeData(st, f)

\* encode(const BaseMessage *)
encodeBody(st, fields) ==
  FoldLeft(encodeField,
           appendScalar(appendScalar(st, body_flag, Width.header_start),
                        Len(fields), Width.field_count),
           fields)

\* encode(const Message *); the subject includes its terminating null.
encode(st, subject, flags, fields) ==
  LET room == allocate(appendScalar(st, addressing_flag, Width.addressing_start),
                       Width.msg_length)
      flagged == appendScalar(appendScalar(room, flags, Width.flags), 0, Width.reserved)
      addressed == append(appendScalar(flagged, Len(subject), Width.subject_length), subject)
      body == encodeBody(addressed, fields)
      total_len == Len(body.data) - Len(st.data)
  IN WriteAt(body, room.block, Len(st.data) + Width.addressing_start,
             Scalar(total_len - msg_length_offset, Width.msg_length))
-----------------------------------------------------------------------------
(* Decoding.  A result holds the storage with its read pointer, the status *)
(* and the fields read so far; an exception is the status "corrupt".       *)

have_complete_message(st) ==
  LET msg_length == PeekScalar(st, Width.addressing_start)
  IN IF remainingReadLength(st) < AddressingSize THEN "incomplete"
     ELSE IF PeekScalar(st, 0) # addressing_flag THEN "corrupt"
     ELSE IF msg_length = Raw THEN "unspecified"
     ELSE IF remainingReadLength(st) >= msg_length + msg_length_offset THEN "complete"
     ELSE "incomplete"

Result(st, status, fields) == [st |-> st, status |-> status, fields |-> fields]

RECURSIVE decodeBody(_), decodeFields(_, _, _)

\* The constructor Field(buffer) leaves the read pointer at the data.
HasField(st) ==
  /\ remainingReadLength(st) >= FieldSize
  /\ remainingReadLength(st) >= FieldSize + PeekScalar(st, 1) + PeekScalar(st, 2)

AtData(st) == advanceRead(st, FieldSize + PeekScalar(st, 1))

ReadField(st) ==
  LET type == PeekScalar(st, 0)
      size == PeekScalar(st, 2)
      id == SubSeq(st.data, st.read + FieldSize + 1, st.read + FieldSize + PeekScalar(st, 1))
      class == CASE type \in {storage_type.string, storage_type.data} -> DataClass(size)
                 [] type = storage_type.date_time -> "date_time"
                 [] OTHER -> "scalar"
  IN [id |-> id, type |-> type, class |-> class,
      data |-> readBytes(AtData(st), size), msg |-> NoMessage]

\* MessageField(buffer) does not look at what decode answers.
decodeField(st) ==
  IF PeekScalar(st, 0) # storage_type.message
    THEN [st |-> advanceRead(AtData(st), PeekScalar(st, 2)), field |-> ReadField(st),
          corrupt |-> FALSE]
    ELSE LET sub == decodeBody(AtData(st))
         IN [st |-> sub.st, corrupt |-> sub.status = "corrupt",
             field |-> MessageField(ReadField(st).id, sub.fields)]

decodeFields(st, n, fields) ==
  IF n = 0 THEN Result(st, IF fields = <<>> THEN "false" ELSE "true", fields)
  ELSE IF ~HasField(st) THEN Result(st, "corrupt", fields)
  ELSE LET f == decodeField(st)
       IN IF f.corrupt THEN Result(f.st, "corrupt", fields)
          ELSE decodeFields(f.st, n - 1, Append(fields, f.field))

\* decode(BaseMessage *): a header with nothing behind it is left unread.
decodeBody(st) ==
  IF remainingReadLength(st) <= HeaderSize THEN Result(st, "false", <<>>)
  ELSE IF PeekScalar(st, 0) # body_flag
    THEN Result(advanceRead(st, Width.header_start), "corrupt", <<>>)
  ELSE decodeFields(advanceRead(st, HeaderSize), PeekScalar(st, Width.header_start), <<>>)

\* addressing_details: the read pointer ends behind the subject
SubjectLength(st) == PeekScalar(st, msg_length_offset + Width.flags + Width.reserved)
Addressed(st) == advanceRead(st, AddressingSize + SubjectLength(st))

Addressing(st) ==
  [flags |-> PeekScalar(st, msg_length_offset),
   subject |-> readBytes(advanceRead(st, AddressingSize), SubjectLength(st))]

\* Mutant: the body is decoded before the whole message is there.
decodeAtOnce(st) ==
  IF remainingReadLength(st) >= AddressingSize + Width.subject_length
    THEN decodeBody(Addressed(st)) ELSE Result(st, "incomplete", <<>>)

\* decode(Message *)
decode(st) ==
  LET status == have_complete_message(st)
  IN IF status = "complete" THEN decodeBody(Addressed(st))
     ELSE Result(st, status, <<>>)
=============================================================================
