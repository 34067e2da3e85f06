-------------------------- MODULE MultiRingBuffer ---------------------------
(***************************************************************************)
(* tf::multiringbuffer (fastpath/utils/tfmultiringbuffer.h), the bounded   *)
(* queue of many producers and many consumers.  Each cell carries a        *)
(* sequence number that says whose turn it is: a producer may claim        *)
(* position pos when it is pos, a consumer when it is pos + 1, and the     *)
(* consumer that leaves sets it one round on.  Positions are size_t, here  *)
(* of Word values, and are compared by their signed difference.  The ring  *)
(* starts as it is after Start pushes and pops, so that positions wrap;    *)
(* fewer than Word positions are claimed from there, so that no thread is  *)
(* overtaken by a whole Word of pushes inside one call.                    *)
(***************************************************************************)
EXTENDS Integers, Sequences

CONSTANTS Cells,    \* the template parameter SIZE, a power of two
          Word,     \* the values of a size_t, a power of two, more than Cells
          Start,    \* pushes and pops made before, whole rounds
          Workers,  \* threads that push and pop
          Payloads, \* what they push
          MaxMultiPushes

ASSUME CellsAssumption ==
  /\ Cells \in Nat /\ Cells > 1 /\ Word \in Nat /\ Word % Cells = 0 /\ Word > Cells
  /\ Start \in Nat /\ Start % Cells = 0 /\ Start < Word
  /\ MaxMultiPushes \in Nat /\ MaxMultiPushes < Word

VARIABLES
  m_sequence, m_data,    \* of each cell
  headPosition, tailPosition,
  worker,                \* of each thread: where it is, pos, the argument or result
  claimed,               \* values in the order their positions were claimed
  taken                  \* positions claimed by pop so far

multiVars == <<m_sequence, m_data, headPosition, tailPosition, worker, claimed, taken>>

Unset == -1
Resting == [pc |-> "idle", pos |-> 0, data |-> Unset, turn |-> 0]

\* (intptr_t)a - (intptr_t)b
Signed(d) == IF d % Word < Word \div 2 THEN d % Word ELSE (d % Word) - Word
Cell(pos) == pos % Cells

MultiInit ==
  /\ m_sequence = [i \in 0 .. Cells - 1 |-> Start + i] /\ m_data = [i \in 0 .. Cells - 1 |-> Unset]
  /\ headPosition = Start /\ tailPosition = Start
  /\ worker = [w \in Workers |-> Resting]
  /\ claimed = <<>> /\ taken = 0

Busy(w, pc) == worker[w].pc = pc
cells == <<m_sequence, m_data>>
-----------------------------------------------------------------------------
multiPush(w) ==
  /\ Busy(w, "idle")
  /\ \E v \in Payloads : worker' = [worker EXCEPT ![w] =
       [pc |-> "pushTest", pos |-> headPosition, data |-> v, turn |-> 0]]
  /\ UNCHANGED <<cells, headPosition, tailPosition, claimed, taken>>

\* The cell is free for pos, still in use (full), or pos is behind.
PushTest(w) ==
  /\ Busy(w, "pushTest")
  /\ LET pos == worker[w].pos
         dif == Signed(m_sequence[Cell(pos)] - pos)
     IN worker' = [worker EXCEPT ![w] =
          IF dif = 0 THEN [@ EXCEPT !.pc = "pushClaim"]
          ELSE IF dif < 0 THEN Resting
          ELSE [@ EXCEPT !.pos = headPosition]]
  /\ UNCHANGED <<cells, headPosition, tailPosition, claimed, taken>>

\* compare_exchange_weak, which may fail for nothing and reloads pos
PushClaim(w) ==
  /\ Busy(w, "pushClaim")
  /\ \/ /\ headPosition = worker[w].pos /\ Len(claimed) < MaxMultiPushes
        /\ headPosition' = (headPosition + 1) % Word
        /\ claimed' = Append(claimed, worker[w].data)
        /\ worker' = [worker EXCEPT ![w].pc = "write"]
     \/ /\ worker' = [worker EXCEPT ![w].pc = "pushTest", ![w].pos = headPosition]
        /\ UNCHANGED <<headPosition, claimed>>
  /\ UNCHANGED <<cells, tailPosition, taken>>

Write(w) ==
  /\ Busy(w, "write")
  /\ m_data' = [m_data EXCEPT ![Cell(worker[w].pos)] = worker[w].data]
  /\ worker' = [worker EXCEPT ![w].pc = "publish"]
  /\ UNCHANGED <<m_sequence, headPosition, tailPosition, claimed, taken>>

PublishCell(w) ==
  /\ Busy(w, "publish")
  /\ m_sequence' = [m_sequence EXCEPT ![Cell(worker[w].pos)] = (worker[w].pos + 1) % Word]
  /\ worker' = [worker EXCEPT ![w] = Resting]
  /\ UNCHANGED <<m_data, headPosition, tailPosition, claimed, taken>>
-----------------------------------------------------------------------------
multiPop(w) ==
  /\ Busy(w, "idle")
  /\ worker' = [worker EXCEPT ![w] =
       [pc |-> "popTest", pos |-> tailPosition, data |-> Unset, turn |-> 0]]
  /\ UNCHANGED <<cells, headPosition, tailPosition, claimed, taken>>

\* Mutant: the cell is taken for filled when a producer has only claimed it.
PopTestTooEarly(w) ==
  /\ Busy(w, "popTest")
  /\ LET pos == worker[w].pos
         dif == Signed(m_sequence[Cell(pos)] - pos)
     IN worker' = [worker EXCEPT ![w] =
          IF dif \in {0, 1} THEN [@ EXCEPT !.pc = "popClaim"]
          ELSE IF dif < 0 THEN Resting
          ELSE [@ EXCEPT !.pos = tailPosition]]
  /\ UNCHANGED <<cells, headPosition, tailPosition, claimed, taken>>

PopTest(w) ==
  /\ Busy(w, "popTest")
  /\ LET pos == worker[w].pos
         dif == Signed(m_sequence[Cell(pos)] - (pos + 1))
     IN worker' = [worker EXCEPT ![w] =
          IF dif = 0 THEN [@ EXCEPT !.pc = "popClaim"]
          ELSE IF dif < 0 THEN Resting
          ELSE [@ EXCEPT !.pos = tailPosition]]
  /\ UNCHANGED <<cells, headPosition, tailPosition, claimed, taken>>

PopClaim(w) ==
  /\ Busy(w, "popClaim")
  /\ \/ /\ tailPosition = worker[w].pos
        /\ tailPosition' = (tailPosition + 1) % Word
        /\ taken' = taken + 1
        /\ worker' = [worker EXCEPT ![w].pc = "read", ![w].turn = taken + 1]
     \/ /\ worker' = [worker EXCEPT ![w].pc = "popTest", ![w].pos = tailPosition]
        /\ UNCHANGED <<tailPosition, taken>>
  /\ UNCHANGED <<cells, headPosition, claimed>>

Read(w) ==
  /\ Busy(w, "read")
  /\ worker' = [worker EXCEPT ![w].pc = "release", ![w].data = m_data[Cell(worker[w].pos)]]
  /\ UNCHANGED <<cells, headPosition, tailPosition, claimed, taken>>

\* pos + m_buffer_mask + 1: the position a round on
ReleaseCell(w) ==
  /\ Busy(w, "release")
  /\ m_sequence' = [m_sequence EXCEPT ![Cell(worker[w].pos)] = (worker[w].pos + Cells) % Word]
  /\ worker' = [worker EXCEPT ![w] = Resting]
  /\ UNCHANGED <<m_data, headPosition, tailPosition, claimed, taken>>
-----------------------------------------------------------------------------
MultiNext ==
  \E w \in Workers :
    \/ multiPush(w) \/ PushTest(w) \/ PushClaim(w) \/ Write(w) \/ PublishCell(w)
    \/ multiPop(w) \/ PopTest(w) \/ PopClaim(w) \/ Read(w) \/ ReleaseCell(w)

MultiSpec == MultiInit /\ [][MultiNext]_multiVars
-----------------------------------------------------------------------------
Owns(w) == worker[w].pc \in {"write", "publish", "read", "release"}

(* No two threads past their compare-and-swap are in the same cell.        *)
Apart ==
  \A w, u \in Workers :
    w # u /\ Owns(w) /\ Owns(u) => Cell(worker[w].pos) # Cell(worker[u].pos)

(* Past the compare-and-swap a thread has its cell to itself, and what the *)
(* n-th pop reads is what the n-th push put there, whatever rounds, and    *)
(* whatever wraps of the position, other threads made since it last looked *)
(* at the sequence number.                                                 *)
EachTakesItsTurn ==
  /\ Apart
  /\ \A w \in Workers : Busy(w, "release") =>
       worker[w].turn \in DOMAIN claimed /\ worker[w].data = claimed[worker[w].turn]
-----------------------------------------------------------------------------
(* Why it holds, for every instance.  Pushes and pops are numbered from    *)
(* zero in the order of their claims, and every cell has a round: the      *)
(* number of the push it waits for, or whose value it holds.               *)

\* the position of the push, or pop, with number i
Position(i) == (Start + i) % Word
CellIndex == 0 .. Cells - 1
Rounds == [CellIndex -> 0 .. MaxMultiPushes + Cells]

Datum == Payloads \cup {Unset}

WorkerState ==
  [pc : {"idle", "pushTest", "pushClaim", "write", "publish",
         "popTest", "popClaim", "read", "release"},
   pos : Nat, data : Datum, turn : Nat]

MultiTypeOK ==
  /\ m_sequence \in [CellIndex -> Nat] /\ m_data \in [CellIndex -> Datum]
  /\ worker \in [Workers -> WorkerState]
  /\ claimed \in Seq(Datum) /\ taken \in Nat

Filled(c, round) ==
  /\ m_sequence[c] = Position(round[c] + 1)
  /\ round[c] < Len(claimed) /\ m_data[c] = claimed[round[c] + 1]

\* A cell is ready for the push of its round or holds what that push wrote.
\* It is at most one lap ahead of the pops.
CellInv(c, round) ==
  /\ round[c] % Cells = c /\ round[c] < taken + Cells
  /\ m_sequence[c] = Position(round[c]) \/ Filled(c, round)

\* What a thread learned from the sequence number stays true until it claims:
\* the round of the cell has reached its number i.
KnowsPush(w, i, round) ==
  worker[w].pc = "pushClaim" => round[Cell(worker[w].pos)] >= i

KnowsPop(w, i, round) ==
  LET c == Cell(worker[w].pos) IN
  worker[w].pc = "popClaim" => round[c] > i \/ (round[c] = i /\ Filled(c, round))

\* Past the claim: thread w makes push i, or pop i, and the cell waits for it.
Writes(w, i, round) ==
  LET c == Cell(worker[w].pos) IN
  /\ round[c] = i /\ m_sequence[c] = Position(i) /\ worker[w].data = claimed[i + 1]
  /\ worker[w].pc = "publish" => m_data[c] = claimed[i + 1]

Reads(w, i, round) ==
  LET c == Cell(worker[w].pos) IN
  /\ round[c] = i /\ Filled(c, round) /\ worker[w].turn = i + 1
  /\ worker[w].pc = "release" => worker[w].data = claimed[i + 1]

WorkerInv(w, round) ==
  /\ worker[w].pc \in {"pushTest", "pushClaim"} =>
       \E i \in 0 .. Len(claimed) : worker[w].pos = Position(i) /\ KnowsPush(w, i, round)
  /\ worker[w].pc \in {"popTest", "popClaim"} =>
       \E i \in 0 .. taken : worker[w].pos = Position(i) /\ KnowsPop(w, i, round)
  /\ worker[w].pc \in {"write", "publish"} =>
       \E i \in 0 .. Len(claimed) - 1 : worker[w].pos = Position(i) /\ Writes(w, i, round)
  /\ worker[w].pc \in {"read", "release"} =>
       \E i \in 0 .. taken - 1 : worker[w].pos = Position(i) /\ Reads(w, i, round)

RoundsInv(round) ==
  /\ \A c \in CellIndex : CellInv(c, round)
  /\ \A w \in Workers : WorkerInv(w, round)

\* No number has the position of another: fewer than Word pushes are made.
MultiCounts ==
  /\ MultiTypeOK
  /\ headPosition = Position(Len(claimed)) /\ tailPosition = Position(taken)
  /\ taken <= Len(claimed) /\ Len(claimed) <= MaxMultiPushes

(* The inductive invariant behind EachTakesItsTurn.                        *)
MultiInv ==
  /\ MultiCounts /\ Apart
  /\ \E round \in Rounds : RoundsInv(round)
=============================================================================
