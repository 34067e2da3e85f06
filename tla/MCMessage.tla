------------------------------ MODULE MCMessage ------------------------------
(***************************************************************************)
(* A few fields of every class; two share an identifier, one does not fit  *)
(* a LargeDataField's first block and one is a sub-message without fields. *)
(* A message is either rearranged and moved or sent: the two meet nowhere  *)
(* but in the fields it holds.  The buffers messages are encoded into and  *)
(* decoded from are used in behaviours of their own.                       *)
(***************************************************************************)
EXTENDS Message, Buffers

CONSTANTS idA, idB, idC, byte

MCFields ==
  {ScalarField(<<idA>>, "uint16", 7), DataField(<<idA>>, "data", <<byte, byte>>),
   DataField(<<idB>>, "string", <<byte, byte, 0>>), DateTimeField(<<idB>>, 3, 4),
   MessageField(<<idC>>, <<ScalarField(<<idA>>, "boolean", 1)>>),
   MessageField(<<idC>>, <<>>)}

VARIABLE use  \* "rearrange", "send" or "buffers"

MCInit == Init /\ BuffersInit /\ use \in {"rearrange", "send", "buffers"}

\* Fewer fields for each use, between them all.
Used ==
  IF use = "send" THEN {f \in MCFields : f.class \in {"small", "large", "message"}}
  ELSE {f \in MCFields : f.class \in {"scalar", "large", "date_time"}}
         \union {MessageField(<<idC>>, <<ScalarField(<<idA>>, "boolean", 1)>>)}

MCNext ==
  /\ \/ /\ \/ use # "buffers" /\ \E o \in Objects : Build(o, Used)
           \/ use = "rearrange" /\ Rearrange
           \/ use = "send" /\ Send
        /\ UNCHANGED bufferVars
     \/ use = "buffers" /\ BuffersNext /\ UNCHANGED vars
  /\ UNCHANGED use

MCSpec == MCInit /\ [][MCNext]_<<vars, bufferVars, use>>

MCSubjects == {<<byte>>}

MCChunks == {<<1, 2>>}

MCsizeof == [scalar |-> 2, small |-> 3, large |-> 3, date_time |-> 2, message |-> 2]

(* Memory is given out once, returned once and holds what was put there:   *)
(* ArenaIsSound of the fields' arena, BuffersAreSound of the buffers.      *)
MemoryIsSound == ArenaIsSound /\ BuffersAreSound
=============================================================================
