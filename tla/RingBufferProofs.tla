-------------------------- MODULE RingBufferProofs --------------------------
(***************************************************************************)
(* The rings.  Of MultiRingBuffer, for every SIZE, every word size, any    *)
(* threads and values: each pop reads what its push wrote, in cells no two *)
(* threads are in.  Of RingBuffer, for every SIZE above 1 and every set of *)
(* values: its invariants and its refinement of BoundedFifo; and of        *)
(* BlockingRingBuffer the accounting of the semaphore, and that pop_wait   *)
(* never sleeps on an element, however many pushes there are.              *)
(***************************************************************************)
EXTENDS BlockingRingBuffer, MultiRingBuffer, TLAPS

(* The ring of many.  Its leaves are for Zenon, unless they cite SMT.      *)
USE Zenon

(* A product with a whole number is at least the factor away from zero.    *)
LEMMA MulBound ==
  ASSUME NEW b \in Nat \ {0}, NEW q \in Int
  PROVE  (q >= 1 => b * q >= b) /\ (q <= -1 => b * q <= -b) /\ (q = 0 => b * q = 0)
BY SMT

(* Quotient and remainder.                                                 *)
LEMMA DivMod ==
  ASSUME NEW b \in Nat \ {0}, NEW a \in Int
  PROVE  a % b \in 0 .. b - 1 /\ a \div b \in Int /\ a = (b * (a \div b)) + (a % b)
BY SMT

(* The remainder is the only one there is.                                 *)
LEMMA ModUnique ==
  ASSUME NEW b \in Nat \ {0}, NEW a \in Int, NEW q \in Int, NEW r \in 0 .. b - 1,
         a = (b * q) + r
  PROVE  a % b = r
<1>1. a = (b * (a \div b)) + (a % b) /\ a % b \in 0 .. b - 1 /\ a \div b \in Int
  BY DivMod
<1> DEFINE d == q - (a \div b)
<1>2. d \in Int /\ b * d = (a % b) - r
  BY <1>1, SMT
<1> HIDE DEF d
<1>3. d = 0
  BY <1>1, <1>2, MulBound, SMT
<1> QED BY <1>1, <1>2, <1>3, SMT

(* Numbers with the same remainder are equal or at least b apart.          *)
LEMMA ModApart ==
  ASSUME NEW b \in Nat \ {0}, NEW a \in Int, NEW c \in Int, a % b = c % b, a - c < b, c - a < b
  PROVE  a = c
<1>1. /\ a = (b * (a \div b)) + (a % b) /\ a \div b \in Int /\ a % b \in Int
      /\ c = (b * (c \div b)) + (c % b) /\ c \div b \in Int
  BY DivMod, SMT
<1> DEFINE d == (a \div b) - (c \div b)
<1>2. d \in Int /\ b * d = a - c
  BY <1>1, SMT
<1> HIDE DEF d
<1>3. d = 0
  BY <1>2, MulBound, SMT
<1> QED BY <1>2, <1>3, SMT

(* A multiple more or less changes no remainder.                           *)
LEMMA ModShift ==
  ASSUME NEW b \in Nat \ {0}, NEW p \in Int, NEW x \in Int
  PROVE  ((b * p) + x) % b = x % b
<1> DEFINE a == (b * p) + x
           q == x \div b
           r == x % b
<1>1. x = (b * q) + r /\ q \in Int /\ r \in 0 .. b - 1
  BY DivMod
<1> HIDE DEF q, r
<1>2. b * (p + q) = (b * p) + (b * q) /\ p + q \in Int
  BY <1>1, SMT
<1>3. a = (b * (p + q)) + r /\ a \in Int
  BY <1>1, <1>2, SMT
<1> HIDE DEF a
<1>4. a % b = r
  BY <1>1, <1>2, <1>3, ModUnique
<1> QED BY <1>4 DEF a, r

(* Adding before or after a remainder is taken.                            *)
LEMMA ModAdd ==
  ASSUME NEW b \in Nat \ {0}, NEW a \in Int, NEW k \in Int
  PROVE  ((a % b) + k) % b = (a + k) % b
<1>1. a = (b * (a \div b)) + (a % b) /\ a \div b \in Int /\ a % b \in Int
  BY DivMod, SMT
<1> DEFINE x == (a % b) + k
<1>2. x \in Int /\ a + k \in Int /\ a + k = (b * (a \div b)) + x
  BY <1>1, SMT
<1> HIDE DEF x
<1>3. ((b * (a \div b)) + x) % b = x % b
  BY <1>1, <1>2, ModShift
<1> QED BY <1>2, <1>3 DEF x

(* A multiple of the outer modulus: the inner one does not show.           *)
LEMMA ModOfMod ==
  ASSUME NEW b \in Nat \ {0}, NEW m \in Nat \ {0}, m % b = 0, NEW a \in Int
  PROVE  (a % m) % b = a % b
<1> DEFINE x == a % m
           d == a \div m
           e == m \div b
<1>1. a = (m * d) + x /\ d \in Int /\ x \in Int
  BY DivMod, SMT
<1>2. m = b * e /\ e \in Int
  BY DivMod, SMT
<1> HIDE DEF x, d, e
<1>3. e * d \in Int /\ m * d = b * (e * d)
  BY <1>1, <1>2, SMT
<1>4. a = (b * (e * d)) + x
  BY <1>1, <1>3
<1>5. ((b * (e * d)) + x) % b = x % b
  BY <1>1, <1>3, ModShift
<1> QED BY <1>4, <1>5 DEF x

(* A range that ends no sooner.                                            *)
LEMMA RangeGrows ==
  ASSUME NEW a \in Nat, NEW b \in Nat, a <= b, NEW i \in 0 .. a - 1
  PROVE  i \in 0 .. b - 1
BY SMT

(* The assumptions in the form the provers use.                            *)
LEMMA CellsFacts ==
  /\ Cells \in Nat \ {0} /\ Cells > 1 /\ Word \in Nat \ {0} /\ Word % Cells = 0
  /\ Word > Cells /\ Start \in Nat /\ Start % Cells = 0 /\ Start < Word
  /\ MaxMultiPushes \in Nat /\ MaxMultiPushes < Word
BY CellsAssumption, SMT

(* Where the i-th push and the i-th pop find their cell.                   *)
LEMMA PositionCell ==
  ASSUME NEW i \in Int
  PROVE  Position(i) \in 0 .. Word - 1 /\ Cell(Position(i)) = i % Cells /\ i % Cells \in CellIndex
<1>1. Start + i \in Int /\ Start \in Int
  BY CellsFacts, SMT
<1>2. Position(i) \in 0 .. Word - 1 /\ i % Cells \in CellIndex
  BY <1>1, DivMod, CellsFacts DEF Position, CellIndex
<1>3. Cell(Position(i)) = (Start + i) % Cells
  BY <1>1, ModOfMod, CellsFacts DEF Position, Cell
<1>4. ((Start % Cells) + i) % Cells = (Start + i) % Cells
  BY <1>1, ModAdd, CellsFacts
<1>5. (Start % Cells) + i = i
  BY CellsFacts, SMT
<1> QED BY <1>2, <1>3, <1>4, <1>5

(* A position further on.                                                  *)
LEMMA PositionAdd ==
  ASSUME NEW i \in Int, NEW k \in Int
  PROVE  (Position(i) + k) % Word = Position(i + k)
<1>1. Start + i \in Int /\ (Start + i) + k = Start + (i + k)
  BY CellsFacts, SMT
<1>2. (((Start + i) % Word) + k) % Word = ((Start + i) + k) % Word
  BY <1>1, ModAdd, CellsFacts
<1> QED BY <1>1, <1>2 DEF Position

(* Two numbers less than a Word apart have different positions.            *)
LEMMA PositionApart ==
  ASSUME NEW i \in Int, NEW j \in Int, Position(i) = Position(j), i - j < Word, j - i < Word
  PROVE  i = j
<1>1. /\ Start + i \in Int /\ Start + j \in Int
      /\ (Start + i) - (Start + j) < Word /\ (Start + j) - (Start + i) < Word
  BY CellsFacts, SMT
<1>2. Start + i = Start + j
  BY <1>1, ModApart, CellsFacts DEF Position
<1> QED BY <1>2, CellsFacts, SMT

(* A round that waits for push i never looks like one push i has filled.   *)
LEMMA PositionRounds ==
  ASSUME NEW i \in Int, NEW j \in Int, i % Cells = j % Cells
  PROVE  Position(i + 1) # Position(j)
<1> SUFFICES ASSUME Position(i + 1) = Position(j) PROVE FALSE
  OBVIOUS
<1>1. (i + 1) % Cells = j % Cells
  <2>1. i + 1 \in Int
    BY SMT
  <2> QED BY <2>1, PositionCell
<1>2. ((i % Cells) + 1) % Cells = (i + 1) % Cells
  <2>1. 1 \in Int
    BY SMT
  <2> QED BY <2>1, ModAdd, CellsFacts
<1>3. i % Cells \in 0 .. Cells - 1
  BY DivMod, CellsFacts, SMT
<1>4. CASE (i % Cells) + 1 < Cells
  BY <1>1, <1>2, <1>3, <1>4, CellsFacts, SMT
<1>5. CASE (i % Cells) + 1 = Cells
  <2>1. Cells % Cells = 0
    BY CellsFacts, SMT
  <2> QED BY <1>1, <1>2, <1>3, <1>5, <2>1, CellsFacts, SMT
<1> QED BY <1>3, <1>4, <1>5, CellsFacts, SMT

(* The first round, before any position wraps.                             *)
LEMMA FirstRound ==
  ASSUME NEW c \in CellIndex
  PROVE  Position(c) = Start + c /\ c % Cells = c
<1> USE CellsFacts
<1>1. c \in 0 .. Cells - 1
  BY SMT DEF CellIndex
<1>2. Start + Cells <= Word
  <2>1. Start = Cells * (Start \div Cells) /\ Start \div Cells \in Int
    BY DivMod, SMT
  <2>2. Word = Cells * (Word \div Cells) /\ Word \div Cells \in Int
    BY DivMod, SMT
  <2> DEFINE d == (Word \div Cells) - (Start \div Cells)
  <2>3. d \in Int /\ Cells * d = Word - Start
    BY <2>1, <2>2, SMT
  <2> HIDE DEF d
  <2>4. d >= 1
    BY <2>3, MulBound, SMT
  <2> QED BY <2>3, <2>4, MulBound, SMT
<1>3. Position(c) = Start + c
  BY <1>1, <1>2, SMT DEF Position
<1> QED BY <1>1, <1>3, SMT

(* What every step does to the pushes and pops counted so far.             *)
Grows ==
  /\ Len(claimed) \in Nat /\ Len(claimed)' \in Nat /\ Len(claimed) <= Len(claimed)'
  /\ taken \in Nat /\ taken' \in Nat /\ taken <= taken'
  /\ \A k \in 1 .. Len(claimed) : claimed'[k] = claimed[k]

(* Nothing happens to cell c.                                              *)
CellSame(c, round, later) ==
  later[c] = round[c] /\ m_sequence'[c] = m_sequence[c] /\ m_data'[c] = m_data[c]

(* A thread's cell is a cell, and its number an integer.                   *)
LEMMA RoundTypes ==
  ASSUME NEW round \in Rounds, NEW c \in CellIndex
  PROVE  round[c] \in Nat /\ round[c] <= MaxMultiPushes + Cells
BY CellsFacts, SMT DEF Rounds

(* A filled cell nothing happens to stays filled.                          *)
LEMMA FilledKeeps ==
  ASSUME NEW round \in Rounds, NEW later \in Rounds, NEW c \in CellIndex,
         Grows, CellSame(c, round, later), Filled(c, round)
  PROVE  Filled(c, later)'
<1>1. round[c] \in Nat
  BY RoundTypes, SMT
<1>2. round[c] < Len(claimed) /\ round[c] + 1 \in 1 .. Len(claimed)
  BY <1>1, SMT DEF Filled, Grows
<1>3. claimed'[round[c] + 1] = claimed[round[c] + 1]
  BY <1>2 DEF Grows
<1>4. round[c] < Len(claimed)'
  BY <1>1, <1>2, SMT DEF Grows
<1> QED BY <1>3, <1>4 DEF Filled, CellSame

(* A cell nothing happens to keeps its invariant.                          *)
LEMMA CellKeeps ==
  ASSUME NEW round \in Rounds, NEW later \in Rounds, NEW c \in CellIndex,
         Grows, CellSame(c, round, later), CellInv(c, round)
  PROVE  CellInv(c, later)'
<1>1. later[c] = round[c]
  BY DEF CellSame
<1>2. later[c] < taken' + Cells
  BY <1>1, RoundTypes, CellsFacts, SMT DEF CellInv, Grows
<1>3. later[c] % Cells = c
  BY <1>1 DEF CellInv
<1>4. m_sequence'[c] = Position(later[c]) \/ Filled(c, later)'
  BY <1>1, FilledKeeps DEF CellInv, CellSame
<1> QED BY <1>2, <1>3, <1>4 DEF CellInv

(* A thread keeps its invariant while others step: the round of its cell   *)
(* does not go back, and its own cell is left alone when it has one.       *)
LEMMA WorkerKeeps ==
  ASSUME NEW round \in Rounds, NEW later \in Rounds, NEW u \in Workers,
         NEW c \in CellIndex, c = Cell(worker[u].pos),
         Grows, worker'[u] = worker[u], WorkerInv(u, round),
         later[c] >= round[c],
         Filled(c, round) => later[c] > round[c] \/ Filled(c, later)',
         Owns(u) => CellSame(c, round, later)
  PROVE  WorkerInv(u, later)'
<1> DEFINE pos == worker[u].pos
           pc == worker[u].pc
<1>0. round[c] \in Nat /\ later[c] \in Nat
  BY RoundTypes, SMT
<1>1. ASSUME pc \in {"pushTest", "pushClaim"}
      PROVE  \E i \in 0 .. Len(claimed)' : pos = Position(i) /\ KnowsPush(u, i, later)'
  <2>1. PICK i \in 0 .. Len(claimed) : pos = Position(i) /\ KnowsPush(u, i, round)
    BY <1>1 DEF WorkerInv
  <2>2. i \in 0 .. Len(claimed)'
    BY SMT DEF Grows
  <2>3. pc = "pushClaim" => later[c] >= i
    BY <1>0, <2>1, SMT DEF KnowsPush
  <2>4. KnowsPush(u, i, later)'
    BY <2>3 DEF KnowsPush
  <2> QED BY <2>1, <2>2, <2>4
<1>2. ASSUME pc \in {"popTest", "popClaim"}
      PROVE  \E i \in 0 .. taken' : pos = Position(i) /\ KnowsPop(u, i, later)'
  <2>1. PICK i \in 0 .. taken : pos = Position(i) /\ KnowsPop(u, i, round)
    BY <1>2 DEF WorkerInv
  <2>2. i \in 0 .. taken' /\ i \in Int
    BY SMT DEF Grows
  <2>3. pc = "popClaim" => round[c] > i \/ (round[c] = i /\ Filled(c, round))
    BY <2>1 DEF KnowsPop
  <2>4. pc = "popClaim" => later[c] > i \/ (later[c] = i /\ Filled(c, later)')
    BY <1>0, <2>2, <2>3, SMT
  <2>5. KnowsPop(u, i, later)'
    BY <2>4 DEF KnowsPop
  <2> QED BY <2>1, <2>2, <2>5
<1>3. ASSUME pc \in {"write", "publish"}
      PROVE  \E i \in 0 .. Len(claimed)' - 1 : pos = Position(i) /\ Writes(u, i, later)'
  <2>1. PICK i \in 0 .. Len(claimed) - 1 : pos = Position(i) /\ Writes(u, i, round)
    BY <1>3 DEF WorkerInv
  <2>2. i \in 0 .. Len(claimed)' - 1 /\ i + 1 \in 1 .. Len(claimed)
    BY SMT DEF Grows
  <2>3. claimed'[i + 1] = claimed[i + 1]
    BY <2>2 DEF Grows
  <2>4. CellSame(c, round, later)
    BY <1>3 DEF Owns
  <2>5. Writes(u, i, later)'
    BY <2>1, <2>3, <2>4 DEF Writes, CellSame
  <2> QED BY <2>1, <2>2, <2>5
<1>4. ASSUME pc \in {"read", "release"}
      PROVE  \E i \in 0 .. taken' - 1 : pos = Position(i) /\ Reads(u, i, later)'
  <2>1. PICK i \in 0 .. taken - 1 : pos = Position(i) /\ Reads(u, i, round)
    BY <1>4 DEF WorkerInv
  <2>2. i \in 0 .. taken' - 1
    <3>1. taken \in Nat /\ taken' \in Nat /\ taken <= taken'
      BY DEF Grows
    <3> QED BY <3>1, RangeGrows
  <2>3. CellSame(c, round, later)
    BY <1>4 DEF Owns
  <2>4. round[c] = i /\ Filled(c, round) /\ worker[u].turn = i + 1
        /\ (pc = "release" => worker[u].data = claimed[i + 1])
    BY <2>1 DEF Reads
  <2>5. i < Len(claimed) /\ i + 1 \in 1 .. Len(claimed)
    BY <2>4, SMT DEF Filled, Grows
  <2>6. claimed'[i + 1] = claimed[i + 1]
    BY <2>5 DEF Grows
  <2>7. Filled(c, later)'
    BY <2>3, <2>4, FilledKeeps
  <2>8. later[c] = i
    BY <2>3, <2>4 DEF CellSame
  <2>9. Reads(u, i, later)'
    BY <2>4, <2>6, <2>7, <2>8 DEF Reads
  <2> QED BY <2>1, <2>2, <2>9
<1> QED BY <1>1, <1>2, <1>3, <1>4 DEF WorkerInv

(* Only thread w moves.                                                    *)
OnlyMoves(w) ==
  /\ worker'[w] \in WorkerState /\ worker' = [worker EXCEPT ![w] = worker'[w]]

(* The other threads do not move.                                          *)
LEMMA OthersStay ==
  ASSUME MultiTypeOK, NEW w \in Workers, OnlyMoves(w)
  PROVE  /\ worker' \in [Workers -> WorkerState]
         /\ \A u \in Workers : u # w => worker'[u] = worker[u]
<1>1. worker \in [Workers -> WorkerState]
  BY DEF MultiTypeOK, WorkerState
<1> QED BY <1>1 DEF OnlyMoves

(* A thread's position names a cell.                                       *)
LEMMA HasCell ==
  ASSUME MultiTypeOK, NEW u \in Workers
  PROVE  worker[u] \in WorkerState /\ worker[u].pos \in Nat /\ Cell(worker[u].pos) \in CellIndex
<1>1. worker[u] \in WorkerState
  BY DEF MultiTypeOK, WorkerState
<1>2. worker[u].pos \in Int /\ worker[u].pos \in Nat
  BY <1>1, SMT DEF WorkerState
<1> QED BY <1>1, <1>2, DivMod, CellsFacts DEF Cell, CellIndex

(* A step of w that leaves the cells alone, from what it does to w.        *)
LEMMA QuietRounds ==
  ASSUME MultiTypeOK, Apart, NEW round \in Rounds, RoundsInv(round), NEW w \in Workers,
         OnlyMoves(w), Grows, UNCHANGED cells, WorkerInv(w, round)',
         Owns(w)' =>
           \/ Owns(w) /\ worker'[w].pos = worker[w].pos
           \/ \A u \in Workers : u # w /\ Owns(u) => Cell(worker[u].pos) # Cell(worker'[w].pos)
  PROVE  Apart' /\ RoundsInv(round)'
<1>1. \A u \in Workers : u # w => worker'[u] = worker[u]
  BY OthersStay
<1>2. \A c \in CellIndex : CellSame(c, round, round)
  BY DEF CellSame, cells
<1>3. ASSUME NEW c \in CellIndex PROVE CellInv(c, round)'
  BY <1>2, CellKeeps DEF RoundsInv
<1>4. ASSUME NEW u \in Workers PROVE WorkerInv(u, round)'
  <2>1. CASE u = w
    BY <2>1
  <2>2. CASE u # w
    <3>1. PICK c \in CellIndex : c = Cell(worker[u].pos)
      BY HasCell
    <3>2. CellSame(c, round, round)
      BY <1>2
    <3>3. round[c] >= round[c]
      BY RoundTypes, SMT
    <3>4. Filled(c, round) => Filled(c, round)'
      BY <3>2, FilledKeeps
    <3>5. WorkerInv(u, round)
      BY DEF RoundsInv
    <3>6. worker'[u] = worker[u]
      BY <1>1, <2>2
    <3> QED BY <3>1, <3>2, <3>3, <3>4, <3>5, <3>6, WorkerKeeps
  <2> QED BY <2>1, <2>2
<1>5. ASSUME NEW a \in Workers, NEW u \in Workers, a # u, Owns(a)', Owns(u)'
      PROVE  Cell(worker'[a].pos) # Cell(worker'[u].pos)
  <2>1. \A x \in Workers : x # w /\ Owns(x)' => Owns(x) /\ worker'[x].pos = worker[x].pos
    BY <1>1 DEF Owns
  <2>2. CASE a # w /\ u # w
    BY <1>5, <2>1, <2>2 DEF Apart
  <2>3. CASE a = w
    BY <1>5, <2>1, <2>3 DEF Apart
  <2>4. CASE u = w
    BY <1>5, <2>1, <2>4 DEF Apart
  <2> QED BY <2>2, <2>3, <2>4
<1> QED BY <1>3, <1>4, <1>5 DEF RoundsInv, Apart

(* What the signed difference of a sequence number and a position says.    *)
LEMMA SignedZero ==
  ASSUME NEW a \in 0 .. Word - 1, NEW k \in Int, Signed(a - k) = 0
  PROVE  a = k % Word
<1> DEFINE d == a - k
<1>1. d \in Int /\ d + k = a /\ a \in Int
  BY CellsFacts, SMT
<1>2. d % Word \in 0 .. Word - 1
  BY <1>1, DivMod, CellsFacts
<1>3. d % Word = 0
  BY <1>2, CellsFacts, SMT DEF Signed
<1> HIDE DEF d
<1>4. ((d % Word) + k) % Word = (d + k) % Word
  BY <1>1, ModAdd, CellsFacts
<1>5. (d % Word) + k = k /\ a % Word = a
  BY <1>3, CellsFacts, SMT
<1> QED BY <1>1, <1>4, <1>5

(* Positions in range.                                                     *)
LEMMA CountFacts ==
  ASSUME MultiCounts
  PROVE  /\ Len(claimed) \in Nat /\ taken \in Nat /\ taken <= Len(claimed)
         /\ Len(claimed) <= MaxMultiPushes /\ Len(claimed) < Word
         /\ headPosition \in 0 .. Word - 1 /\ tailPosition \in 0 .. Word - 1
<1>1. Len(claimed) \in Nat /\ taken \in Nat /\ taken <= Len(claimed)
  BY SMT DEF MultiCounts, MultiTypeOK
<1>2. Len(claimed) <= MaxMultiPushes
  BY DEF MultiCounts
<1>3. Len(claimed) < Word /\ Len(claimed) \in Int /\ taken \in Int
  BY <1>1, <1>2, CellsFacts, SMT
<1> QED BY <1>1, <1>2, <1>3, PositionCell DEF MultiCounts

(* A step that claims nothing.                                             *)
LEMMA GrowsSame ==
  ASSUME MultiCounts, claimed' = claimed, taken' = taken
  PROVE  Grows
<1>1. Len(claimed) \in Nat /\ taken \in Nat /\ Len(claimed)' = Len(claimed)
  BY CountFacts
<1> QED BY <1>1, SMT DEF Grows

(* A thread that rests, and one that may try.                              *)
LEMMA RestInv ==
  ASSUME NEW w \in Workers, NEW round \in Rounds, worker'[w] = Resting
  PROVE  WorkerInv(w, round)' /\ ~ Owns(w)'
BY SMT DEF WorkerInv, Owns, Resting

(* A thread that may try to push.                                          *)
LEMMA PushingInv ==
  ASSUME NEW w \in Workers, NEW round \in Rounds, NEW i \in 0 .. Len(claimed)',
         worker'[w].pos = Position(i),
         \/ worker'[w].pc = "pushTest"
         \/ worker'[w].pc = "pushClaim" /\ round[Cell(worker'[w].pos)] >= i
  PROVE  WorkerInv(w, round)' /\ ~ Owns(w)'
<1>1. KnowsPush(w, i, round)'
  BY SMT DEF KnowsPush
<1>2. worker'[w].pc \notin {"popTest", "popClaim", "read", "release", "write", "publish"}
  BY SMT
<1> QED BY <1>1, <1>2 DEF WorkerInv, Owns

(* A thread that may try to pop.                                           *)
LEMMA PoppingInv ==
  ASSUME NEW w \in Workers, NEW round \in Rounds, NEW i \in 0 .. taken',
         worker'[w].pos = Position(i),
         \/ worker'[w].pc = "popTest"
         \/ worker'[w].pc = "popClaim" /\ KnowsPop(w, i, round)'
  PROVE  WorkerInv(w, round)' /\ ~ Owns(w)'
<1>1. KnowsPop(w, i, round)'
  BY SMT DEF KnowsPop
<1>2. worker'[w].pc \notin {"pushTest", "pushClaim", "read", "release", "write", "publish"}
  BY SMT
<1> QED BY <1>1, <1>2 DEF WorkerInv, Owns

(* The counts, when nothing is claimed.                                    *)
LEMMA CountsSame ==
  ASSUME MultiCounts, NEW w \in Workers, OnlyMoves(w),
         m_sequence' \in [CellIndex -> Nat], m_data' \in [CellIndex -> Datum],
         UNCHANGED <<headPosition, tailPosition, claimed, taken>>
  PROVE  MultiCounts' /\ Grows
<1>1. MultiTypeOK'
  <2>1. worker' \in [Workers -> WorkerState]
    BY OthersStay DEF MultiCounts
  <2> QED BY <2>1 DEF MultiTypeOK, MultiCounts, WorkerState
<1>2. MultiCounts'
  BY <1>1 DEF MultiCounts, Position
<1> QED BY <1>2, GrowsSame

(* The same for a step that leaves the cells alone too.                    *)
LEMMA QuietInv ==
  ASSUME MultiInv, NEW w \in Workers, OnlyMoves(w),
         UNCHANGED <<cells, headPosition, tailPosition, claimed, taken>>,
         \A round \in Rounds : RoundsInv(round) =>
           WorkerInv(w, round)' /\ (Owns(w)' => Owns(w) /\ worker'[w].pos = worker[w].pos)
  PROVE  MultiInv'
<1>1. PICK round \in Rounds : RoundsInv(round)
  BY DEF MultiInv
<1>2. MultiCounts /\ Apart /\ MultiTypeOK
  BY DEF MultiInv, MultiCounts
<1>3. MultiCounts' /\ Grows
  BY <1>2, CountsSame DEF cells, MultiTypeOK
<1>4. Apart' /\ RoundsInv(round)'
  BY <1>1, <1>2, <1>3, QuietRounds
<1> QED BY <1>3, <1>4 DEF MultiInv

(* push enters with the position it reads.                                 *)
LEMMA MultiPushInv == ASSUME MultiInv, NEW w \in Workers, multiPush(w) PROVE MultiInv'
<1>1. MultiCounts /\ MultiTypeOK
  BY DEF MultiInv, MultiCounts
<1>2. PICK v \in Payloads : worker' = [worker EXCEPT ![w] =
        [pc |-> "pushTest", pos |-> headPosition, data |-> v, turn |-> 0]]
  BY DEF multiPush
<1>3. /\ worker'[w] = [pc |-> "pushTest", pos |-> headPosition, data |-> v, turn |-> 0]
      /\ worker' = [worker EXCEPT ![w] = worker'[w]]
  BY <1>1, <1>2, SMT DEF MultiTypeOK
<1>4. UNCHANGED <<cells, headPosition, tailPosition, claimed, taken>>
  BY DEF multiPush
<1>5. headPosition \in Nat /\ Len(claimed) \in Nat /\ Len(claimed)' = Len(claimed)
  BY <1>1, <1>4, CountFacts, CellsFacts, SMT
<1>6. OnlyMoves(w) /\ worker'[w].pos = headPosition /\ worker'[w].pc = "pushTest"
  BY <1>3, <1>5, SMT DEF OnlyMoves, WorkerState, Datum
<1>7. ASSUME NEW round \in Rounds PROVE WorkerInv(w, round)' /\ ~ Owns(w)'
  <2>1. PICK i \in 0 .. Len(claimed)' : i = Len(claimed)
    BY <1>5, SMT
  <2>2. worker'[w].pos = Position(i)
    BY <1>1, <1>6, <2>1 DEF MultiCounts
  <2> QED BY <1>6, <2>2, PushingInv
<1> QED BY <1>4, <1>6, <1>7, QuietInv

(* pop enters with the position it reads.                                  *)
LEMMA MultiPopInv == ASSUME MultiInv, NEW w \in Workers, multiPop(w) PROVE MultiInv'
<1>1. MultiCounts /\ MultiTypeOK
  BY DEF MultiInv, MultiCounts
<1>2. /\ worker'[w] = [pc |-> "popTest", pos |-> tailPosition, data |-> Unset, turn |-> 0]
      /\ worker' = [worker EXCEPT ![w] = worker'[w]]
  BY <1>1, SMT DEF multiPop, MultiTypeOK
<1>3. UNCHANGED <<cells, headPosition, tailPosition, claimed, taken>>
  BY DEF multiPop
<1>4. tailPosition \in Nat
  BY <1>1, CountFacts, CellsFacts, SMT
<1>5. OnlyMoves(w) /\ worker'[w].pos = tailPosition /\ worker'[w].pc = "popTest"
  BY <1>2, <1>4, SMT DEF OnlyMoves, WorkerState, Datum
<1>7. ASSUME NEW round \in Rounds PROVE WorkerInv(w, round)' /\ ~ Owns(w)'
  <2>1. PICK i \in 0 .. taken' : i = taken
    BY <1>1, <1>3, CountFacts, SMT
  <2>2. worker'[w].pos = Position(i)
    BY <1>1, <1>5, <2>1 DEF MultiCounts
  <2> QED BY <1>5, <2>2, PoppingInv
<1> QED BY <1>3, <1>5, <1>7, QuietInv

(* A claimed sequence number that fits the position fits the round.        *)
LEMMA PushTestKnows ==
  ASSUME MultiCounts, NEW round \in Rounds, NEW i \in 0 .. Len(claimed), NEW c \in CellIndex,
         c = Cell(Position(i)), CellInv(c, round), m_sequence[c] = Position(i)
  PROVE  round[c] >= i
<1>1. i \in Int /\ i < Word /\ i >= 0
  BY CountFacts, CellsFacts, SMT
<1>2. round[c] \in Int /\ round[c] >= 0
  BY RoundTypes, SMT
<1>3. i % Cells = round[c] % Cells
  BY <1>1, PositionCell DEF CellInv
<1>4. ~ Filled(c, round)
  BY <1>1, <1>2, <1>3, PositionRounds DEF Filled
<1>5. Position(round[c]) = Position(i)
  BY <1>4 DEF CellInv
<1>6. CASE round[c] < i
  <2>1. i - round[c] < Word /\ round[c] - i < Word
    BY <1>1, <1>2, <1>6, CellsFacts, SMT
  <2>2. round[c] = i
    BY <1>1, <1>2, <1>5, <2>1, PositionApart
  <2> QED BY <1>1, <2>2, SMT
<1> QED BY <1>1, <1>2, <1>6, SMT

(* The same for the sequence number a pop waits for.                       *)
LEMMA PopTestKnows ==
  ASSUME MultiCounts, NEW round \in Rounds, NEW i \in 0 .. taken, NEW c \in CellIndex,
         c = Cell(Position(i)), CellInv(c, round), m_sequence[c] = Position(i + 1)
  PROVE  round[c] > i \/ (round[c] = i /\ Filled(c, round))
<1>1. i \in Int /\ i < Word /\ i >= 0 /\ i + 1 \in Int
  BY CountFacts, CellsFacts, SMT
<1>2. round[c] \in Int /\ round[c] >= 0 /\ round[c] + 1 \in Int
  BY RoundTypes, SMT
<1>3. i % Cells = round[c] % Cells
  BY <1>1, PositionCell DEF CellInv
<1>4. m_sequence[c] # Position(round[c])
  BY <1>1, <1>2, <1>3, PositionRounds
<1>5. Filled(c, round) /\ Position(round[c] + 1) = Position(i + 1)
  BY <1>4 DEF CellInv, Filled
<1>6. CASE round[c] < i
  <2>1. (i + 1) - (round[c] + 1) < Word /\ (round[c] + 1) - (i + 1) < Word
    BY <1>1, <1>2, <1>6, CellsFacts, SMT
  <2>2. round[c] + 1 = i + 1
    BY <1>1, <1>2, <1>5, <2>1, PositionApart
  <2> QED BY <1>1, <1>2, <1>6, <2>2, SMT
<1> QED BY <1>1, <1>2, <1>5, <1>6, SMT

(* A sequence number is a position.                                        *)
LEMMA SequenceRange ==
  ASSUME NEW round \in Rounds, NEW c \in CellIndex, CellInv(c, round)
  PROVE  m_sequence[c] \in 0 .. Word - 1
<1>1. round[c] \in Int /\ round[c] + 1 \in Int
  BY RoundTypes, SMT
<1> QED BY <1>1, PositionCell DEF CellInv, Filled

(* push looks at the sequence number.                                      *)
LEMMA PushTestInv == ASSUME MultiInv, NEW w \in Workers, PushTest(w) PROVE MultiInv'
<1>1. MultiCounts /\ MultiTypeOK
  BY DEF MultiInv, MultiCounts
<1> DEFINE pos == worker[w].pos
<1>2. /\ worker' = [worker EXCEPT ![w] = worker'[w]] /\ worker[w].pc = "pushTest"
      /\ \/ /\ Signed(m_sequence[Cell(pos)] - pos) = 0
            /\ worker'[w] = [worker[w] EXCEPT !.pc = "pushClaim"]
         \/ worker'[w] = Resting
         \/ worker'[w] = [worker[w] EXCEPT !.pos = headPosition]
  BY <1>1, SMT DEF PushTest, MultiTypeOK, Busy
<1>3. UNCHANGED <<cells, headPosition, tailPosition, claimed, taken>>
  BY DEF PushTest
<1>4. worker[w] \in WorkerState /\ pos \in Nat /\ Cell(pos) \in CellIndex
  BY <1>1, HasCell
<1>5. headPosition \in Nat /\ Len(claimed) \in Nat /\ Len(claimed)' = Len(claimed)
  BY <1>1, <1>3, CountFacts, CellsFacts, SMT
<1>6. OnlyMoves(w)
  BY <1>2, <1>4, <1>5, SMT DEF OnlyMoves, WorkerState, Resting, Datum
<1>8. ASSUME NEW round \in Rounds, RoundsInv(round) PROVE WorkerInv(w, round)' /\ ~ Owns(w)'
  <2>1. CASE worker'[w] = Resting
    BY <2>1, RestInv
  <2>2. CASE worker'[w] = [worker[w] EXCEPT !.pos = headPosition]
    <3>1. PICK i \in 0 .. Len(claimed)' : i = Len(claimed)
      BY <1>5, SMT
    <3>2. worker'[w].pc = "pushTest" /\ worker'[w].pos = headPosition
      BY <1>2, <1>4, <2>2, SMT DEF WorkerState
    <3>3. worker'[w].pos = Position(i)
      BY <1>1, <3>1, <3>2 DEF MultiCounts
    <3> QED BY <3>2, <3>3, PushingInv
  <2>3. CASE Signed(m_sequence[Cell(pos)] - pos) = 0
             /\ worker'[w] = [worker[w] EXCEPT !.pc = "pushClaim"]
    <3>1. worker'[w].pc = "pushClaim" /\ worker'[w].pos = pos
      BY <1>4, <2>3, SMT DEF WorkerState
    <3>2. PICK i \in 0 .. Len(claimed) : pos = Position(i)
      BY <1>2, <1>8 DEF RoundsInv, WorkerInv
    <3>3. PICK c \in CellIndex : c = Cell(pos)
      BY <1>4
    <3>4. CellInv(c, round) /\ m_sequence[c] \in 0 .. Word - 1
      BY <1>8, SequenceRange DEF RoundsInv
    <3>5. pos \in 0 .. Word - 1 /\ pos \in Int
      BY <1>5, <3>2, PositionCell, SMT
    <3>6. m_sequence[c] = pos % Word
      BY <2>3, <3>3, <3>4, <3>5, SignedZero
    <3>7. pos % Word = pos
      BY <3>5, CellsFacts, SMT
    <3>8. round[c] >= i
      BY <1>1, <3>2, <3>3, <3>4, <3>6, <3>7, PushTestKnows
    <3>9. i \in 0 .. Len(claimed)'
      BY <1>5, SMT
    <3> QED BY <3>1, <3>2, <3>3, <3>8, <3>9, PushingInv
  <2> QED BY <1>2, <2>1, <2>2, <2>3
<1> QED BY <1>3, <1>6, <1>8, QuietInv

(* pop looks at the sequence number.                                       *)
LEMMA PopTestInv == ASSUME MultiInv, NEW w \in Workers, PopTest(w) PROVE MultiInv'
<1>1. MultiCounts /\ MultiTypeOK
  BY DEF MultiInv, MultiCounts
<1> DEFINE pos == worker[w].pos
<1>2. /\ worker' = [worker EXCEPT ![w] = worker'[w]] /\ worker[w].pc = "popTest"
      /\ \/ /\ Signed(m_sequence[Cell(pos)] - (pos + 1)) = 0
            /\ worker'[w] = [worker[w] EXCEPT !.pc = "popClaim"]
         \/ worker'[w] = Resting
         \/ worker'[w] = [worker[w] EXCEPT !.pos = tailPosition]
  BY <1>1, SMT DEF PopTest, MultiTypeOK, Busy
<1>3. UNCHANGED <<cells, headPosition, tailPosition, claimed, taken>>
  BY DEF PopTest
<1>4. worker[w] \in WorkerState /\ pos \in Nat /\ Cell(pos) \in CellIndex
  BY <1>1, HasCell
<1>5. tailPosition \in Nat /\ taken \in Nat
  BY <1>1, CountFacts, CellsFacts, SMT
<1>6. OnlyMoves(w)
  BY <1>2, <1>4, <1>5, SMT DEF OnlyMoves, WorkerState, Resting, Datum
<1>8. ASSUME NEW round \in Rounds, RoundsInv(round) PROVE WorkerInv(w, round)' /\ ~ Owns(w)'
  <2>1. CASE worker'[w] = Resting
    BY <2>1, RestInv
  <2>2. CASE worker'[w] = [worker[w] EXCEPT !.pos = tailPosition]
    <3>1. PICK i \in 0 .. taken' : i = taken
      BY <1>3, <1>5, SMT
    <3>2. worker'[w].pc = "popTest" /\ worker'[w].pos = tailPosition
      BY <1>2, <1>4, <2>2, SMT DEF WorkerState
    <3>3. worker'[w].pos = Position(i)
      BY <1>1, <3>1, <3>2 DEF MultiCounts
    <3> QED BY <3>2, <3>3, PoppingInv
  <2>3. CASE Signed(m_sequence[Cell(pos)] - (pos + 1)) = 0
             /\ worker'[w] = [worker[w] EXCEPT !.pc = "popClaim"]
    <3>1. worker'[w].pc = "popClaim" /\ worker'[w].pos = pos
      BY <1>4, <2>3, SMT DEF WorkerState
    <3>2. PICK i \in 0 .. taken : pos = Position(i)
      BY <1>2, <1>8 DEF RoundsInv, WorkerInv
    <3>3. PICK c \in CellIndex : c = Cell(pos)
      BY <1>4
    <3>4. CellInv(c, round) /\ m_sequence[c] \in 0 .. Word - 1
      BY <1>8, SequenceRange DEF RoundsInv
    <3>5. pos + 1 \in Int /\ i \in Int /\ 1 \in Int
      BY <1>4, SMT
    <3>6. m_sequence[c] = (pos + 1) % Word
      BY <2>3, <3>3, <3>4, <3>5, SignedZero
    <3>7. m_sequence[c] = Position(i + 1)
      BY <3>2, <3>5, <3>6, PositionAdd
    <3>8. round[c] > i \/ (round[c] = i /\ Filled(c, round))
      BY <1>1, <3>2, <3>3, <3>4, <3>7, PopTestKnows
    <3>9. Filled(c, round) => Filled(c, round)'
      BY <1>3 DEF Filled, cells
    <3>10. KnowsPop(w, i, round)'
      BY <3>1, <3>3, <3>8, <3>9 DEF KnowsPop
    <3>11. i \in 0 .. taken'
      BY <1>3
    <3> QED BY <3>1, <3>2, <3>10, <3>11, PoppingInv
  <2> QED BY <1>2, <2>1, <2>2, <2>3
<1> QED BY <1>3, <1>6, <1>8, QuietInv

(* The cell of the next push, of whoever saw it ready: its round is the    *)
(* number of the push.  And likewise of the next pop.                      *)
LEMMA RoundIsNow ==
  ASSUME NEW round \in Rounds, NEW c \in CellIndex, CellInv(c, round), NEW n \in Nat,
         c = n % Cells, taken \in Nat, taken <= n, round[c] >= n
  PROVE  round[c] = n
<1>1. round[c] \in Int /\ n \in Int /\ round[c] - n < Cells /\ n - round[c] < Cells
  BY RoundTypes, CellsFacts, SMT DEF CellInv
<1>2. round[c] % Cells = n % Cells
  BY DEF CellInv
<1> QED BY <1>1, <1>2, ModApart, CellsFacts

(* The cells of the threads past their compare-and-swap: a push still on   *)
(* its way has the round of its number, which is claimed; a pop has a      *)
(* filled cell, of a number that is taken.                                 *)
LEMMA OwnerRound ==
  ASSUME NEW round \in Rounds, NEW u \in Workers, WorkerInv(u, round), Owns(u),
         NEW c \in CellIndex, c = Cell(worker[u].pos), Len(claimed) \in Nat, taken \in Nat
  PROVE  \/ round[c] < Len(claimed) /\ m_sequence[c] = Position(round[c])
         \/ round[c] < taken /\ Filled(c, round)
<1>1. CASE worker[u].pc \in {"write", "publish"}
  <2>1. PICK i \in 0 .. Len(claimed) - 1 : Writes(u, i, round)
    BY <1>1 DEF WorkerInv
  <2>2. round[c] = i /\ m_sequence[c] = Position(i)
    BY <2>1 DEF Writes
  <2> QED BY <2>2, SMT
<1>2. CASE worker[u].pc \in {"read", "release"}
  <2>1. PICK i \in 0 .. taken - 1 : Reads(u, i, round)
    BY <1>2 DEF WorkerInv
  <2>2. round[c] = i /\ Filled(c, round)
    BY <2>1 DEF Reads
  <2> QED BY <2>2, SMT
<1> QED BY <1>1, <1>2 DEF Owns

(* The compare-and-swap of push.                                           *)
LEMMA PushClaimInv == ASSUME MultiInv, NEW w \in Workers, PushClaim(w) PROVE MultiInv'
<1>1. MultiCounts /\ MultiTypeOK /\ Apart
  BY DEF MultiInv, MultiCounts
<1> DEFINE pos == worker[w].pos
           n == Len(claimed)
<1>2. UNCHANGED <<cells, tailPosition, taken>> /\ worker[w].pc = "pushClaim"
  BY DEF PushClaim, Busy
<1>3. worker[w] \in WorkerState /\ pos \in Nat /\ Cell(pos) \in CellIndex
  BY <1>1, HasCell
<1>4. /\ headPosition \in Nat /\ n \in Nat /\ n < Word /\ taken \in Nat /\ taken <= n
  BY <1>1, CountFacts, CellsFacts, SMT
<1>6. CASE /\ worker' = [worker EXCEPT ![w].pc = "pushTest", ![w].pos = headPosition]
           /\ UNCHANGED <<headPosition, claimed>>
  <2>1. worker'[w] = [worker[w] EXCEPT !.pc = "pushTest", !.pos = headPosition]
        /\ worker' = [worker EXCEPT ![w] = worker'[w]]
    BY <1>1, <1>6 DEF MultiTypeOK
  <2>2. OnlyMoves(w) /\ worker'[w].pc = "pushTest" /\ worker'[w].pos = headPosition
    BY <1>3, <1>4, <2>1 DEF OnlyMoves, WorkerState
  <2>3. PICK i \in 0 .. Len(claimed)' : i = n
    BY <1>4, <1>6, SMT
  <2>4. worker'[w].pos = Position(i)
    BY <1>1, <2>2, <2>3 DEF MultiCounts
  <2>5. ASSUME NEW round \in Rounds PROVE WorkerInv(w, round)' /\ ~ Owns(w)'
    BY <2>2, <2>4, PushingInv
  <2> QED BY <1>2, <1>6, <2>2, <2>5, QuietInv
<1>7. CASE /\ headPosition = pos /\ n < MaxMultiPushes /\ headPosition' = (headPosition + 1) % Word
           /\ claimed' = Append(claimed, worker[w].data)
           /\ worker' = [worker EXCEPT ![w].pc = "write"]
  <2>1. PICK round \in Rounds : RoundsInv(round)
    BY DEF MultiInv
  <2>2. worker'[w] = [worker[w] EXCEPT !.pc = "write"] /\ worker' = [worker EXCEPT ![w] = worker'[w]]
    BY <1>1, <1>7, SMT DEF MultiTypeOK
  <2>3. /\ OnlyMoves(w) /\ worker'[w].pc = "write" /\ worker'[w].pos = pos
        /\ worker'[w].data = worker[w].data /\ worker[w].data \in Datum
    BY <1>3, <2>2, SMT DEF OnlyMoves, WorkerState
  <2>4. claimed \in Seq(Datum)
    BY <1>1 DEF MultiTypeOK
  <2>5. /\ claimed' \in Seq(Datum) /\ Len(claimed)' = n + 1 /\ claimed'[n + 1] = worker[w].data
        /\ \A k \in 1 .. n : claimed'[k] = claimed[k]
    BY <1>7, <2>3, <2>4, SMT
  <2>6. Grows
    BY <1>2, <1>4, <2>5, SMT DEF Grows
  <2>7. PICK i \in 0 .. n : pos = Position(i) /\ KnowsPush(w, i, round)
    BY <1>2, <2>1 DEF RoundsInv, WorkerInv
  <2>8. i = n
    <3>1. i \in Int /\ n \in Int /\ i - n < Word /\ n - i < Word
      BY <1>4, CellsFacts, SMT
    <3>2. Position(i) = Position(n)
      BY <1>1, <1>7, <2>7 DEF MultiCounts
    <3> QED BY <3>1, <3>2, PositionApart
  <2>9. PICK c \in CellIndex : c = Cell(pos)
    BY <1>3
  <2>10. CellInv(c, round) /\ c = n % Cells /\ round[c] >= n
    <3>1. n \in Int
      BY <1>4, SMT
    <3>2. c = n % Cells
      BY <2>7, <2>8, <2>9, <3>1, PositionCell
    <3> QED BY <1>2, <2>1, <2>7, <2>8, <2>9, <3>2 DEF RoundsInv, KnowsPush
  <2>11. round[c] = n
    BY <1>4, <2>10, RoundIsNow
  <2>12. m_sequence[c] = Position(n)
    <3>1. ~ (round[c] < n)
      BY <1>4, <2>11, SMT
    <3> QED BY <2>10, <2>11, <3>1 DEF CellInv, Filled
  <2>13. WorkerInv(w, round)'
    <3>1. n \in 0 .. Len(claimed)' - 1
      BY <1>4, <2>5, SMT
    <3>2. PICK j \in 0 .. Len(claimed)' - 1 : j = n
      BY <3>1
    <3>3. worker'[w].data = claimed'[j + 1]
      BY <2>3, <2>5, <3>2
    <3>4. round[c] = j /\ m_sequence'[c] = Position(j)
      BY <1>2, <2>11, <2>12, <3>2 DEF cells
    <3>5. Writes(w, j, round)'
      BY <2>3, <2>9, <3>3, <3>4, SMT DEF Writes
    <3>6. worker'[w].pos = Position(j)
      BY <2>3, <2>7, <2>8, <3>2
    <3> QED BY <2>3, <3>5, <3>6, SMT DEF WorkerInv
  <2>14. ASSUME NEW u \in Workers, u # w, Owns(u) PROVE Cell(worker[u].pos) # c
    <3> SUFFICES ASSUME Cell(worker[u].pos) = c PROVE FALSE
      OBVIOUS
    <3>1. WorkerInv(u, round)
      BY <2>1 DEF RoundsInv
    <3>2. \/ round[c] < n /\ m_sequence[c] = Position(round[c])
          \/ round[c] < taken /\ Filled(c, round)
      BY <1>4, <2>14, <3>1, OwnerRound
    <3> QED BY <1>4, <2>11, <3>2, SMT
  <2>15. Apart' /\ RoundsInv(round)'
    <3>1. \A u \in Workers : u # w /\ Owns(u) => Cell(worker[u].pos) # Cell(worker'[w].pos)
      BY <2>3, <2>9, <2>14
    <3>2. UNCHANGED cells
      BY <1>2
    <3> QED BY <1>1, <2>1, <2>3, <2>6, <2>13, <3>1, <3>2, QuietRounds
  <2>16. MultiCounts'
    <3>1. worker' \in [Workers -> WorkerState] /\ \A u \in Workers : u # w => worker'[u] = worker[u]
      BY <1>1, <2>3, OthersStay
    <3>2. MultiTypeOK'
      BY <1>1, <1>2, <2>5, <3>1 DEF MultiTypeOK, WorkerState, cells
    <3>6. Len(claimed)' <= MaxMultiPushes
      BY <1>4, <1>7, <2>5, CellsFacts, SMT
    <3>7. headPosition' = Position(Len(claimed)')
      <4>1. n \in Int /\ 1 \in Int
        BY <1>4, SMT
      <4>2. headPosition = Position(n)
        BY <1>1 DEF MultiCounts
      <4> QED BY <1>7, <2>5, <4>1, <4>2, PositionAdd
    <3>8. (tailPosition = Position(taken))' /\ taken' <= Len(claimed)'
      BY <1>1, <1>2, <1>4, <2>5, SMT DEF MultiCounts, Position
    <3> QED BY <3>2, <3>6, <3>7, <3>8 DEF MultiCounts, Position
  <2> QED BY <2>15, <2>16 DEF MultiInv
<1> QED BY <1>6, <1>7 DEF PushClaim

(* The compare-and-swap of pop.                                            *)
LEMMA PopClaimInv == ASSUME MultiInv, NEW w \in Workers, PopClaim(w) PROVE MultiInv'
<1>1. MultiCounts /\ MultiTypeOK /\ Apart
  BY DEF MultiInv, MultiCounts
<1> DEFINE pos == worker[w].pos
<1>2. UNCHANGED <<cells, headPosition, claimed>> /\ worker[w].pc = "popClaim"
  BY DEF PopClaim, Busy
<1>3. worker[w] \in WorkerState /\ pos \in Nat /\ Cell(pos) \in CellIndex
  BY <1>1, HasCell
<1>4. /\ tailPosition \in Nat /\ taken \in Nat /\ taken < Word /\ Len(claimed) \in Nat
      /\ taken <= Len(claimed)
  BY <1>1, CountFacts, CellsFacts, SMT
<1>5. CASE /\ worker' = [worker EXCEPT ![w].pc = "popTest", ![w].pos = tailPosition]
           /\ UNCHANGED <<tailPosition, taken>>
  <2>1. worker'[w] = [worker[w] EXCEPT !.pc = "popTest", !.pos = tailPosition]
        /\ worker' = [worker EXCEPT ![w] = worker'[w]]
    BY <1>1, <1>5 DEF MultiTypeOK
  <2>2. OnlyMoves(w) /\ worker'[w].pc = "popTest" /\ worker'[w].pos = tailPosition
    BY <1>3, <1>4, <2>1 DEF OnlyMoves, WorkerState
  <2>3. PICK i \in 0 .. taken' : i = taken
    BY <1>4, <1>5, SMT
  <2>4. worker'[w].pos = Position(i)
    BY <1>1, <2>2, <2>3 DEF MultiCounts
  <2>5. ASSUME NEW round \in Rounds PROVE WorkerInv(w, round)' /\ ~ Owns(w)'
    BY <2>2, <2>4, PoppingInv
  <2> QED BY <1>2, <1>5, <2>2, <2>5, QuietInv
<1>6. CASE /\ tailPosition = pos /\ tailPosition' = (tailPosition + 1) % Word
           /\ taken' = taken + 1
           /\ worker' = [worker EXCEPT ![w].pc = "read", ![w].turn = taken + 1]
  <2>1. PICK round \in Rounds : RoundsInv(round)
    BY DEF MultiInv
  <2>2. worker'[w] = [worker[w] EXCEPT !.pc = "read", !.turn = taken + 1]
        /\ worker' = [worker EXCEPT ![w] = worker'[w]]
    BY <1>1, <1>6 DEF MultiTypeOK
  <2>3. /\ OnlyMoves(w) /\ worker'[w].pc = "read" /\ worker'[w].pos = pos
        /\ worker'[w].turn = taken + 1
    <3>1. taken + 1 \in Nat /\ worker[w] \in WorkerState
      BY <1>3, <1>4, SMT
    <3>2. worker'[w] \in WorkerState /\ worker'[w].pc = "read" /\ worker'[w].pos = pos
          /\ worker'[w].turn = taken + 1
      BY <2>2, <3>1 DEF WorkerState
    <3> QED BY <2>2, <3>2 DEF OnlyMoves
  <2>4. Grows
    BY <1>2, <1>4, <1>6, SMT DEF Grows
  <2>5. PICK i \in 0 .. taken : pos = Position(i) /\ KnowsPop(w, i, round)
    BY <1>2, <2>1 DEF RoundsInv, WorkerInv
  <2>6. i = taken
    <3>1. i \in Int /\ taken \in Int /\ i - taken < Word /\ taken - i < Word
      BY <1>4, CellsFacts, SMT
    <3>2. Position(i) = Position(taken)
      BY <1>1, <1>6, <2>5 DEF MultiCounts
    <3> QED BY <3>1, <3>2, PositionApart
  <2>7. PICK c \in CellIndex : c = Cell(pos)
    BY <1>3
  <2>8. /\ CellInv(c, round) /\ c = taken % Cells
        /\ round[c] > taken \/ (round[c] = taken /\ Filled(c, round))
    <3>1. taken \in Int
      BY <1>4, SMT
    <3>2. c = taken % Cells
      BY <2>5, <2>6, <2>7, <3>1, PositionCell
    <3> QED BY <1>2, <2>1, <2>5, <2>6, <2>7, <3>2 DEF RoundsInv, KnowsPop
  <2>9. round[c] = taken /\ Filled(c, round)
    <3>1. round[c] \in Nat
      BY RoundTypes, SMT
    <3>2. round[c] >= taken /\ taken <= taken
      BY <1>4, <2>8, <3>1, SMT
    <3>3. round[c] = taken
      BY <1>4, <2>8, <3>2, RoundIsNow
    <3> QED BY <1>4, <2>8, <3>3, SMT
  <2>10. taken < Len(claimed) /\ Filled(c, round)'
    BY <1>2, <2>9 DEF Filled, cells
  <2>11. WorkerInv(w, round)'
    <3>1. taken \in 0 .. taken' - 1
      BY <1>4, <1>6, SMT
    <3>2. PICK j \in 0 .. taken' - 1 : j = taken
      BY <3>1
    <3>3. Reads(w, j, round)'
      BY <2>3, <2>7, <2>9, <2>10, <3>2, SMT DEF Reads
    <3>4. worker'[w].pos = Position(j)
      BY <2>3, <2>5, <2>6, <3>2
    <3> QED BY <2>3, <3>3, <3>4, SMT DEF WorkerInv
  <2>12. ASSUME NEW u \in Workers, u # w, Owns(u) PROVE Cell(worker[u].pos) # c
    <3> SUFFICES ASSUME Cell(worker[u].pos) = c PROVE FALSE
      OBVIOUS
    <3>1. WorkerInv(u, round)
      BY <2>1 DEF RoundsInv
    <3>2. \/ m_sequence[c] = Position(round[c])
          \/ round[c] < taken
      BY <1>4, <2>12, <3>1, OwnerRound
    <3>3. ~ (round[c] < taken)
      BY <1>4, <2>9, SMT
    <3>4. m_sequence[c] = Position(round[c] + 1)
      BY <2>9 DEF Filled
    <3>5. round[c] \in Int
      BY RoundTypes, SMT
    <3> QED BY <3>2, <3>3, <3>4, <3>5, PositionRounds
  <2>13. Apart' /\ RoundsInv(round)'
    <3>1. \A u \in Workers : u # w /\ Owns(u) => Cell(worker[u].pos) # Cell(worker'[w].pos)
      BY <2>3, <2>7, <2>12
    <3>2. UNCHANGED cells
      BY <1>2
    <3> QED BY <1>1, <2>1, <2>3, <2>4, <2>11, <3>1, <3>2, QuietRounds
  <2>14. MultiCounts'
    <3>1. worker' \in [Workers -> WorkerState] /\ \A u \in Workers : u # w => worker'[u] = worker[u]
      BY <1>1, <2>3, OthersStay
    <3>2. taken' \in Nat /\ taken' <= Len(claimed)' /\ Len(claimed)' = Len(claimed)
      BY <1>2, <1>4, <1>6, <2>10, SMT
    <3>3. MultiTypeOK'
      BY <1>1, <1>2, <3>1, <3>2 DEF MultiTypeOK, WorkerState, cells
    <3>7. Len(claimed)' <= MaxMultiPushes
      BY <1>1, <3>2 DEF MultiCounts
    <3>8. tailPosition' = Position(taken')
      <4>1. taken \in Int /\ 1 \in Int
        BY <1>4, SMT
      <4>2. tailPosition = Position(taken)
        BY <1>1 DEF MultiCounts
      <4> QED BY <1>6, <4>1, <4>2, PositionAdd
    <3>9. headPosition' = Position(Len(claimed)')
      BY <1>1, <1>2, <3>2 DEF MultiCounts
    <3> QED BY <3>2, <3>3, <3>7, <3>8, <3>9 DEF MultiCounts, Position
  <2> QED BY <2>13, <2>14 DEF MultiInv
<1> QED BY <1>5, <1>6 DEF PopClaim

(* A step of w on the cell that is its own.                                *)
LEMMA OwnCellStep ==
  ASSUME MultiTypeOK, Apart, NEW round \in Rounds, NEW later \in Rounds, RoundsInv(round),
         NEW w \in Workers, Owns(w), OnlyMoves(w), Grows,
         NEW c \in CellIndex, c = Cell(worker[w].pos),
         \A d \in CellIndex : d # c => CellSame(d, round, later),
         later[c] >= round[c],
         Filled(c, round) => later[c] > round[c] \/ Filled(c, later)',
         CellInv(c, later)', WorkerInv(w, later)',
         Owns(w)' => worker'[w].pos = worker[w].pos
  PROVE  Apart' /\ RoundsInv(later)'
<1>1. \A u \in Workers : u # w => worker'[u] = worker[u]
  BY OthersStay
<1>2. ASSUME NEW d \in CellIndex PROVE CellInv(d, later)'
  <2>1. CASE d = c
    BY <2>1
  <2>2. CASE d # c
    BY <2>2, CellKeeps DEF RoundsInv
  <2> QED BY <2>1, <2>2
<1>3. ASSUME NEW u \in Workers PROVE WorkerInv(u, later)'
  <2>1. CASE u = w
    BY <2>1
  <2>2. CASE u # w
    <3>1. PICK d \in CellIndex : d = Cell(worker[u].pos)
      BY HasCell
    <3>2. Owns(u) => d # c
      BY <2>2, <3>1 DEF Apart
    <3>3. Owns(u) => CellSame(d, round, later)
      BY <3>2
    <3>4. later[d] >= round[d]
      BY RoundTypes, SMT DEF CellSame
    <3>5. Filled(d, round) => later[d] > round[d] \/ Filled(d, later)'
      <4>1. CASE d = c
        BY <4>1
      <4>2. CASE d # c
        BY <4>2, FilledKeeps
      <4> QED BY <4>1, <4>2
    <3>6. WorkerInv(u, round)
      BY DEF RoundsInv
    <3>7. worker'[u] = worker[u]
      BY <1>1, <2>2
    <3> QED BY <3>1, <3>3, <3>4, <3>5, <3>6, <3>7, WorkerKeeps
  <2> QED BY <2>1, <2>2
<1>4. ASSUME NEW a \in Workers, NEW u \in Workers, a # u, Owns(a)', Owns(u)'
      PROVE  Cell(worker'[a].pos) # Cell(worker'[u].pos)
  <2>1. \A x \in Workers : x # w /\ Owns(x)' => Owns(x) /\ worker'[x].pos = worker[x].pos
    BY <1>1 DEF Owns
  <2>2. CASE a # w /\ u # w
    BY <1>4, <2>1, <2>2 DEF Apart
  <2>3. CASE a = w
    BY <1>4, <2>1, <2>3 DEF Apart
  <2>4. CASE u = w
    BY <1>4, <2>1, <2>4 DEF Apart
  <2> QED BY <2>2, <2>3, <2>4
<1> QED BY <1>2, <1>3, <1>4 DEF RoundsInv, Apart

(* The data is put in the cell.                                            *)
LEMMA WriteInv == ASSUME MultiInv, NEW w \in Workers, Write(w) PROVE MultiInv'
<1>1. MultiCounts /\ MultiTypeOK /\ Apart
  BY DEF MultiInv, MultiCounts
<1>2. PICK round \in Rounds : RoundsInv(round)
  BY DEF MultiInv
<1>3. worker[w] \in WorkerState /\ Cell(worker[w].pos) \in CellIndex
  BY <1>1, HasCell
<1>4. PICK c \in CellIndex : c = Cell(worker[w].pos)
  BY <1>3
<1>5. /\ UNCHANGED <<m_sequence, headPosition, tailPosition, claimed, taken>>
      /\ worker[w].pc = "write" /\ m_data' = [m_data EXCEPT ![c] = worker[w].data]
  BY <1>4 DEF Write, Busy
<1>6. worker'[w] = [worker[w] EXCEPT !.pc = "publish"] /\ worker' = [worker EXCEPT ![w] = worker'[w]]
  BY <1>1, SMT DEF Write, MultiTypeOK
<1>7. /\ OnlyMoves(w) /\ worker'[w].pc = "publish" /\ worker'[w].pos = worker[w].pos
      /\ worker'[w].data = worker[w].data /\ worker[w].data \in Datum
  BY <1>3, <1>6, SMT DEF OnlyMoves, WorkerState
<1>8. m_data \in [CellIndex -> Datum] /\ m_sequence \in [CellIndex -> Nat]
  BY <1>1 DEF MultiTypeOK
<1>9. /\ m_data' \in [CellIndex -> Datum] /\ m_sequence' \in [CellIndex -> Nat]
      /\ m_data'[c] = worker[w].data /\ \A d \in CellIndex : d # c => m_data'[d] = m_data[d]
  BY <1>5, <1>7, <1>8
<1>10. Owns(w)
  BY <1>5, <1>7, SMT DEF Owns
<1>11. MultiCounts' /\ Grows
  BY <1>1, <1>5, <1>7, <1>9, <1>10, CountsSame
<1>12. PICK i \in 0 .. Len(claimed) - 1 : worker[w].pos = Position(i) /\ Writes(w, i, round)
  BY <1>2, <1>5 DEF RoundsInv, WorkerInv
<1>13. round[c] = i /\ m_sequence[c] = Position(i) /\ worker[w].data = claimed[i + 1]
  BY <1>4, <1>12 DEF Writes
<1>14. ~ Filled(c, round)
  <2>1. round[c] \in Int
    BY RoundTypes, SMT
  <2> QED BY <1>13, <2>1, PositionRounds DEF Filled
<1>15. CellInv(c, round)'
  <2>1. CellInv(c, round)
    BY <1>2 DEF RoundsInv
  <2> QED BY <1>5, <1>13, <2>1 DEF CellInv
<1>16. WorkerInv(w, round)'
  <2>1. i \in 0 .. Len(claimed)' - 1 /\ claimed'[i + 1] = claimed[i + 1]
    BY <1>5
  <2>2. Writes(w, i, round)'
    BY <1>4, <1>5, <1>7, <1>9, <1>13, <2>1 DEF Writes
  <2> QED BY <1>7, <1>12, <2>1, <2>2, SMT DEF WorkerInv
<1>17. \A d \in CellIndex : d # c => CellSame(d, round, round)
  BY <1>5, <1>9 DEF CellSame
<1>18. round[c] >= round[c]
  BY RoundTypes, SMT
<1>19. Apart' /\ RoundsInv(round)'
  BY <1>1, <1>2, <1>4, <1>7, <1>10, <1>11, <1>14, <1>15, <1>16, <1>17, <1>18, OwnCellStep
<1> QED BY <1>11, <1>19 DEF MultiInv

(* The cell is published.                                                  *)
LEMMA PublishCellInv == ASSUME MultiInv, NEW w \in Workers, PublishCell(w) PROVE MultiInv'
<1>1. MultiCounts /\ MultiTypeOK /\ Apart
  BY DEF MultiInv, MultiCounts
<1>2. PICK round \in Rounds : RoundsInv(round)
  BY DEF MultiInv
<1>3. worker[w] \in WorkerState /\ Cell(worker[w].pos) \in CellIndex
  BY <1>1, HasCell
<1>4. PICK c \in CellIndex : c = Cell(worker[w].pos)
  BY <1>3
<1>5. /\ UNCHANGED <<m_data, headPosition, tailPosition, claimed, taken>>
      /\ worker[w].pc = "publish"
      /\ m_sequence' = [m_sequence EXCEPT ![c] = (worker[w].pos + 1) % Word]
  BY <1>4 DEF PublishCell, Busy
<1>6. worker'[w] = Resting /\ worker' = [worker EXCEPT ![w] = worker'[w]]
  BY <1>1, SMT DEF PublishCell, MultiTypeOK
<1>7. OnlyMoves(w)
  BY <1>6, SMT DEF OnlyMoves, WorkerState, Resting, Datum
<1>8. PICK i \in 0 .. Len(claimed) - 1 : worker[w].pos = Position(i) /\ Writes(w, i, round)
  BY <1>2, <1>5 DEF RoundsInv, WorkerInv
<1>9. i \in Int /\ 1 \in Int /\ i + 1 \in Int /\ i < Len(claimed)
  BY <1>1, CountFacts, SMT
<1>10. (worker[w].pos + 1) % Word = Position(i + 1) /\ Position(i + 1) \in Nat
  <2>1. (worker[w].pos + 1) % Word = Position(i + 1)
    BY <1>8, <1>9, PositionAdd
  <2>2. Position(i + 1) \in 0 .. Word - 1
    BY <1>9, PositionCell
  <2> QED BY <2>1, <2>2, CellsFacts, SMT
<1>11. m_data \in [CellIndex -> Datum] /\ m_sequence \in [CellIndex -> Nat]
  BY <1>1 DEF MultiTypeOK
<1>12. /\ m_data' \in [CellIndex -> Datum] /\ m_sequence' \in [CellIndex -> Nat]
       /\ m_sequence'[c] = Position(i + 1)
       /\ \A d \in CellIndex : d # c => m_sequence'[d] = m_sequence[d]
  BY <1>5, <1>10, <1>11
<1>13. Owns(w) /\ ~ Owns(w)'
  BY <1>5, <1>6, SMT DEF Owns, Resting
<1>14. MultiCounts' /\ Grows
  BY <1>1, <1>5, <1>7, <1>12, <1>13, CountsSame
<1>15. round[c] = i /\ m_data[c] = claimed[i + 1]
  BY <1>4, <1>5, <1>8 DEF Writes
<1>16. Filled(c, round)'
  BY <1>5, <1>9, <1>12, <1>15 DEF Filled
<1>17. CellInv(c, round)'
  <2>1. CellInv(c, round)
    BY <1>2 DEF RoundsInv
  <2> QED BY <1>5, <1>16, <2>1 DEF CellInv
<1>18. WorkerInv(w, round)'
  BY <1>6, RestInv
<1>19. \A d \in CellIndex : d # c => CellSame(d, round, round)
  BY <1>5, <1>12 DEF CellSame
<1>20. round[c] >= round[c]
  BY RoundTypes, SMT
<1>21. Apart' /\ RoundsInv(round)'
  BY <1>1, <1>2, <1>4, <1>7, <1>13, <1>14, <1>16, <1>17, <1>18, <1>19, <1>20, OwnCellStep
<1> QED BY <1>14, <1>21 DEF MultiInv

(* The data is read.                                                       *)
LEMMA ReadInv == ASSUME MultiInv, NEW w \in Workers, Read(w) PROVE MultiInv'
<1>1. MultiCounts /\ MultiTypeOK
  BY DEF MultiInv, MultiCounts
<1>2. worker[w] \in WorkerState /\ Cell(worker[w].pos) \in CellIndex
  BY <1>1, HasCell
<1>3. PICK c \in CellIndex : c = Cell(worker[w].pos)
  BY <1>2
<1>4. /\ UNCHANGED <<cells, headPosition, tailPosition, claimed, taken>>
      /\ worker[w].pc = "read"
  BY DEF Read, Busy
<1>5. m_data[c] \in Datum
  BY <1>1 DEF MultiTypeOK
<1>6. /\ worker'[w] = [worker[w] EXCEPT !.pc = "release", !.data = m_data[c]]
      /\ worker' = [worker EXCEPT ![w] = worker'[w]]
  BY <1>1, <1>3 DEF Read, MultiTypeOK
<1>7. /\ OnlyMoves(w) /\ worker'[w].pc = "release" /\ worker'[w].pos = worker[w].pos
      /\ worker'[w].data = m_data[c] /\ worker'[w].turn = worker[w].turn
  <2>1. worker[w] \in WorkerState
    BY <1>2, SMT
  <2>2. /\ worker'[w] \in WorkerState /\ worker'[w].pc = "release"
        /\ worker'[w].pos = worker[w].pos
        /\ worker'[w].data = m_data[c] /\ worker'[w].turn = worker[w].turn
    BY <1>5, <1>6, <2>1 DEF WorkerState
  <2> QED BY <1>6, <2>2 DEF OnlyMoves
<1>8. Owns(w)
  BY <1>4, <1>7, SMT DEF Owns
<1>9. ASSUME NEW round \in Rounds, RoundsInv(round) PROVE WorkerInv(w, round)'
  <2>1. PICK i \in 0 .. taken - 1 : worker[w].pos = Position(i) /\ Reads(w, i, round)
    BY <1>4, <1>9 DEF RoundsInv, WorkerInv
  <2>2. round[c] = i /\ Filled(c, round) /\ worker[w].turn = i + 1
    BY <1>3, <2>1 DEF Reads
  <2>3. m_data[c] = claimed[i + 1] /\ Filled(c, round)'
    BY <1>4, <2>2 DEF Filled, cells
  <2>4. Reads(w, i, round)'
    BY <1>3, <1>4, <1>7, <2>2, <2>3 DEF Reads
  <2>5. i \in 0 .. taken' - 1
    BY <1>4
  <2> QED BY <1>7, <2>1, <2>4, <2>5, SMT DEF WorkerInv
<1> QED BY <1>4, <1>7, <1>8, <1>9, QuietInv

(* The cell goes to the push a round on.                                   *)
LEMMA ReleaseCellInv == ASSUME MultiInv, NEW w \in Workers, ReleaseCell(w) PROVE MultiInv'
<1>1. MultiCounts /\ MultiTypeOK /\ Apart
  BY DEF MultiInv, MultiCounts
<1>2. PICK round \in Rounds : RoundsInv(round)
  BY DEF MultiInv
<1>3. worker[w] \in WorkerState /\ Cell(worker[w].pos) \in CellIndex
  BY <1>1, HasCell
<1>4. PICK c \in CellIndex : c = Cell(worker[w].pos)
  BY <1>3
<1>5. /\ UNCHANGED <<m_data, headPosition, tailPosition, claimed, taken>>
      /\ worker[w].pc = "release"
      /\ m_sequence' = [m_sequence EXCEPT ![c] = (worker[w].pos + Cells) % Word]
  BY <1>4 DEF ReleaseCell, Busy
<1>6. worker'[w] = Resting /\ worker' = [worker EXCEPT ![w] = worker'[w]]
  BY <1>1, SMT DEF ReleaseCell, MultiTypeOK
<1>7. OnlyMoves(w)
  BY <1>6, SMT DEF OnlyMoves, WorkerState, Resting, Datum
<1>8. PICK i \in 0 .. taken - 1 : worker[w].pos = Position(i) /\ Reads(w, i, round)
  BY <1>2, <1>5 DEF RoundsInv, WorkerInv
<1>9. /\ i \in Int /\ Cells \in Int /\ i + Cells \in Int /\ i < taken /\ i >= 0
      /\ taken \in Nat /\ i + Cells \in 0 .. MaxMultiPushes + Cells
  BY <1>1, CountFacts, CellsFacts, SMT
<1>10. (worker[w].pos + Cells) % Word = Position(i + Cells) /\ Position(i + Cells) \in Nat
  <2>1. (worker[w].pos + Cells) % Word = Position(i + Cells)
    BY <1>8, <1>9, PositionAdd
  <2>2. Position(i + Cells) \in 0 .. Word - 1
    BY <1>9, PositionCell
  <2> QED BY <2>1, <2>2, CellsFacts, SMT
<1>11. m_data \in [CellIndex -> Datum] /\ m_sequence \in [CellIndex -> Nat]
  BY <1>1 DEF MultiTypeOK
<1>12. /\ m_data' \in [CellIndex -> Datum] /\ m_sequence' \in [CellIndex -> Nat]
       /\ m_sequence'[c] = Position(i + Cells)
       /\ \A d \in CellIndex : d # c => m_sequence'[d] = m_sequence[d]
  BY <1>5, <1>10, <1>11
<1>13. Owns(w) /\ ~ Owns(w)'
  BY <1>5, <1>6, SMT DEF Owns, Resting
<1>14. MultiCounts' /\ Grows
  BY <1>1, <1>5, <1>7, <1>12, <1>13, CountsSame
<1>15. PICK later \in Rounds : later = [round EXCEPT ![c] = i + Cells]
  BY <1>9 DEF Rounds
<1>16. later[c] = i + Cells /\ \A d \in CellIndex : d # c => later[d] = round[d]
  BY <1>15 DEF Rounds
<1>17. round[c] = i
  BY <1>4, <1>8 DEF Reads
<1>18. later[c] > round[c] /\ later[c] >= round[c] /\ later[c] < taken' + Cells
  BY <1>5, <1>9, <1>16, <1>17, CellsFacts, SMT
<1>19. CellInv(c, later)'
  <2>1. round[c] % Cells = c
    BY <1>2 DEF RoundsInv, CellInv
  <2>2. (i + Cells) % Cells = i % Cells
    <3>1. (Cells * 1) + i = i + Cells /\ 1 \in Int
      BY <1>9, SMT
    <3>2. ((Cells * 1) + i) % Cells = i % Cells
      BY <1>9, <3>1, ModShift, CellsFacts
    <3> QED BY <3>1, <3>2
  <2> QED BY <1>12, <1>16, <1>17, <1>18, <2>1, <2>2 DEF CellInv
<1>20. WorkerInv(w, later)'
  BY <1>6, RestInv
<1>21. \A d \in CellIndex : d # c => CellSame(d, round, later)
  BY <1>5, <1>12, <1>16 DEF CellSame
<1>22. Apart' /\ RoundsInv(later)'
  BY <1>1, <1>2, <1>4, <1>7, <1>13, <1>14, <1>18, <1>19, <1>20, <1>21, OwnCellStep
<1> QED BY <1>14, <1>22 DEF MultiInv

(* The ring at the start of a round.                                       *)
LEMMA InitMultiInv == MultiInit => MultiInv
<1> SUFFICES ASSUME MultiInit PROVE MultiInv
  OBVIOUS
<1>1. claimed = <<>> /\ Len(claimed) = 0 /\ taken = 0
  BY SMT DEF MultiInit
<1>2. \A w \in Workers : worker[w].pc = "idle"
  BY SMT DEF MultiInit, Resting
<1>3. Start = Position(0)
  BY CellsFacts, FirstRound, SMT DEF CellIndex
<1>4. MultiTypeOK
  BY <1>1, CellsFacts, SMT DEF MultiInit, MultiTypeOK, WorkerState, Resting, Datum, CellIndex
<1>6. MultiCounts
  <2>1. headPosition = Position(Len(claimed)) /\ tailPosition = Position(taken)
    BY <1>1, <1>3 DEF MultiInit
  <2>2. taken <= Len(claimed) /\ Len(claimed) <= MaxMultiPushes
    BY <1>1, CellsFacts, SMT
  <2> QED BY <1>4, <2>1, <2>2 DEF MultiCounts
<1>7. Apart
  BY <1>2, SMT DEF Apart, Owns
<1>8. PICK round \in Rounds : round = [c \in CellIndex |-> c]
  <2>1. \A c \in CellIndex : c \in 0 .. MaxMultiPushes + Cells
    BY CellsFacts, SMT DEF CellIndex
  <2> QED BY <2>1 DEF Rounds
<1>9. ASSUME NEW c \in CellIndex PROVE CellInv(c, round)
  <2>1. round[c] = c
    BY <1>8
  <2>2. m_sequence[c] = Position(c) /\ c % Cells = c
    BY FirstRound DEF MultiInit, CellIndex
  <2>3. c < taken + Cells
    BY <1>1, CellsFacts, SMT DEF CellIndex
  <2> QED BY <2>1, <2>2, <2>3 DEF CellInv
<1>10. ASSUME NEW w \in Workers PROVE WorkerInv(w, round)
  BY <1>2, SMT DEF WorkerInv
<1> QED BY <1>6, <1>7, <1>9, <1>10 DEF MultiInv, RoundsInv, Rounds

(* Every step of push and of pop preserves it.                             *)
LEMMA NextMultiInv == MultiInv /\ [MultiNext]_multiVars => MultiInv'
<1> SUFFICES ASSUME MultiInv, [MultiNext]_multiVars PROVE MultiInv'
  OBVIOUS
<1>1. CASE UNCHANGED multiVars
  <2> USE <1>1 DEF multiVars
  <2>1. MultiCounts' /\ Apart'
    BY DEF MultiInv, MultiCounts, MultiTypeOK, Apart, Owns
  <2>2. ASSUME NEW round, RoundsInv(round) PROVE RoundsInv(round)'
    <3>1. ASSUME NEW c \in CellIndex PROVE CellInv(c, round)'
      BY <2>2 DEF RoundsInv, CellInv, Filled
    <3>2. ASSUME NEW w \in Workers PROVE WorkerInv(w, round)'
      BY <2>2 DEF RoundsInv, WorkerInv, Filled, KnowsPush, KnowsPop, Writes, Reads
    <3> QED BY <3>1, <3>2 DEF RoundsInv
  <2> QED BY <2>1, <2>2 DEF MultiInv
<1>2. CASE MultiNext
  BY <1>2, MultiPushInv, PushTestInv, PushClaimInv, WriteInv, PublishCellInv, MultiPopInv,
     PopTestInv, PopClaimInv, ReadInv, ReleaseCellInv DEF MultiNext
<1> QED BY <1>1, <1>2

(* The invariant says what EachTakesItsTurn says.                          *)
LEMMA MultiInvSays == MultiInv => EachTakesItsTurn
<1> SUFFICES ASSUME MultiInv PROVE EachTakesItsTurn
  OBVIOUS
<1>1. PICK round \in Rounds : RoundsInv(round)
  BY DEF MultiInv
<1>2. ASSUME NEW w \in Workers, Busy(w, "release")
      PROVE  worker[w].turn \in DOMAIN claimed /\ worker[w].data = claimed[worker[w].turn]
  <2>1. PICK i \in 0 .. taken - 1 : Reads(w, i, round)
    BY <1>1, <1>2 DEF RoundsInv, WorkerInv, Busy
  <2>2. worker[w].turn = i + 1 /\ worker[w].data = claimed[i + 1]
    BY <1>2, <2>1 DEF Reads, Busy
  <2>3. /\ claimed \in Seq(Datum) /\ Len(claimed) \in Nat /\ taken \in Nat
        /\ taken <= Len(claimed)
    BY CountFacts DEF MultiInv, MultiCounts, MultiTypeOK
  <2>4. i + 1 \in DOMAIN claimed
    BY <2>3, SMT
  <2> QED BY <2>2, <2>4
<1> QED BY <1>2 DEF EachTakesItsTurn, MultiInv

(* However many threads push and pop, whatever SIZE is and wherever the    *)
(* positions stood, for fewer pushes than a size_t has values: past its    *)
(* compare-and-swap a thread has its cell to itself, and the n-th pop      *)
(* reads what the n-th push wrote.                                         *)
THEOREM MultiTurns == MultiSpec => []EachTakesItsTurn
BY InitMultiInv, NextMultiInv, MultiInvSays, PTL DEF MultiSpec
-----------------------------------------------------------------------------
(* The rings of one producer and one consumer.  Their leaves are for SMT.  *)
USE SMT

(* Sequences of the same length that agree everywhere are the same.        *)
LEMMA SameSequence ==
  ASSUME NEW S, NEW s \in Seq(S), NEW t \in Seq(S), Len(s) = Len(t),
         \A i \in 1 .. Len(s) : s[i] = t[i]
  PROVE  s = t
<1>1. s = [i \in 1 .. Len(s) |-> s[i]] /\ t = [i \in 1 .. Len(t) |-> t[i]]
  OBVIOUS
<1> QED BY <1>1

(* next, without the modulus.                                              *)
LEMMA NextIndex ==
  \A i \in Index :
    /\ next(i) \in Index
    /\ next(i) = IF i = Size - 1 THEN 0 ELSE i + 1
BY SizeAssumption DEF next, Index

(* The fresh ring satisfies the inductive invariant.                       *)
LEMMA InitRingInv == RingInit => RingInv
<1> SUFFICES ASSUME RingInit PROVE RingInv
  OBVIOUS
<1>1. RingTypeOK
  BY SizeAssumption DEF RingInit, RingTypeOK, Index
<1>2. \A i \in Index : m_buffer[i] = Raw /\ ~ Occupied(i)
  BY SizeAssumption DEF RingInit, Occupied, Index
<1>3. pusher.pc = "idle" /\ popper.pc = "idle"
  BY DEF RingInit
<1>4. pusher.pc # "store" /\ popper.pc # "store"
  BY <1>3
<1>5. LiveSlots
  <2> SUFFICES ASSUME NEW i \in Index
               PROVE  m_buffer[i] = Raw /\ ~ Occupied(i) /\ pusher.pc # "store"
    BY Zenon DEF LiveSlots
  <2> QED
    BY <1>2, <1>4, Zenon
<1> QED
  BY <1>1, <1>3, <1>4, <1>5, Zenon DEF RingInv

(* Every step of push and of pop preserves the inductive invariant.        *)
LEMMA NextRingInv == RingInv /\ [RingNext]_ringVars => RingInv'
<1> SUFFICES ASSUME RingInv, [RingNext]_ringVars PROVE RingInv'
  OBVIOUS
<1> USE RawAssumption DEF RingInv, RingTypeOK
<1>1. ASSUME NEW v \in Values, PushCheck(v) PROVE RingInv'
  BY <1>1 DEF PushCheck, LiveSlots, Occupied
<1>2. CASE PushFull
  BY <1>2, Zenon DEF PushFull, LiveSlots, Occupied
<1>3. CASE PushConstruct
  BY <1>3, SizeAssumption DEF PushConstruct, LiveSlots, Occupied, Index
<1>4. CASE PushStore
  <2>1. m_head' = next(m_head) /\ m_head' \in Index /\ m_tail' = m_tail
    BY <1>4, NextIndex DEF PushStore
  <2>2. RingTypeOK'
    BY <1>4, <2>1 DEF PushStore
  <2>3. ASSUME NEW i \in Index
        PROVE  Occupied(i)' <=> Occupied(i) \/ i = m_head
    <3>1. m_head' = IF m_head = Size - 1 THEN 0 ELSE m_head + 1
      BY <2>1, NextIndex
    <3>2. m_head' # m_tail
      BY <1>4, <2>1 DEF PushStore
    <3>3. /\ Size \in Nat /\ Size > 1
          /\ m_head \in 0 .. Size - 1
          /\ m_tail \in 0 .. Size - 1
          /\ i \in 0 .. Size - 1
      BY SizeAssumption DEF Index
    <3> HIDE DEF RingInv, RingTypeOK
    <3> QED
      BY <2>1, <3>1, <3>2, <3>3 DEF Occupied
  <2>4. LiveSlots'
    BY <1>4, <2>3 DEF PushStore, LiveSlots
  <2>5. m_tail # m_head'
    BY <1>4 DEF PushStore
  <2> QED
    BY <1>4, <2>2, <2>4, <2>5 DEF PushStore
<1>5. CASE PopEmpty
  BY <1>5 DEF PopEmpty, LiveSlots, Occupied
<1>6. CASE PopCheck
  BY <1>6 DEF PopCheck, LiveSlots, Occupied
<1>7. CASE PopMove
  BY <1>7, SizeAssumption DEF PopMove, LiveSlots, Occupied, Index
<1>8. CASE PopStore
  <2>1. m_tail' = next(m_tail) /\ m_tail' \in Index /\ m_head' = m_head
    BY <1>8, NextIndex DEF PopStore
  <2>2. RingTypeOK'
    BY <1>8, <2>1 DEF PopStore
  <2>3. ASSUME NEW i \in Index
        PROVE  Occupied(i)' <=> Occupied(i) /\ i # m_tail
    <3>1. m_tail' = IF m_tail = Size - 1 THEN 0 ELSE m_tail + 1
      BY <2>1, NextIndex
    <3>2. m_tail # m_head
      BY <1>8 DEF PopStore
    <3>3. /\ Size \in Nat /\ Size > 1
          /\ m_head \in 0 .. Size - 1
          /\ m_tail \in 0 .. Size - 1
          /\ i \in 0 .. Size - 1
      BY SizeAssumption DEF Index
    <3> HIDE DEF RingInv, RingTypeOK
    <3> QED
      BY <2>1, <3>1, <3>2, <3>3 DEF Occupied
  <2>4. pusher.pc = "store" => m_head # m_tail
    BY <1>8 DEF PopStore
  <2>5. LiveSlots'
    BY <1>8, <2>3, <2>4 DEF PopStore, LiveSlots
  <2>6. next(m_head) # m_tail'
    <3>1. /\ next(m_head) = IF m_head = Size - 1 THEN 0 ELSE m_head + 1
          /\ m_tail' = IF m_tail = Size - 1 THEN 0 ELSE m_tail + 1
      BY <2>1, NextIndex
    <3>2. m_tail # m_head
      BY <1>8 DEF PopStore
    <3>3. /\ Size \in Nat /\ Size > 1
          /\ m_head \in 0 .. Size - 1
          /\ m_tail \in 0 .. Size - 1
      BY SizeAssumption DEF Index
    <3> HIDE DEF RingInv, RingTypeOK
    <3> QED
      BY <3>1, <3>2, <3>3
  <2> QED
    BY <1>8, <2>1, <2>2, <2>5, <2>6 DEF PopStore
<1>9. CASE UNCHANGED ringVars
  BY <1>9 DEF ringVars, LiveSlots, Occupied
<1> HIDE DEF RingInv, RingTypeOK
<1> QED
  BY <1>1, <1>2, <1>3, <1>4, <1>5, <1>6, <1>7, <1>8, <1>9, Zenon DEF RingNext

(* The inductive invariant holds in every behaviour of the ring.           *)
THEOREM RingInvariant == RingSpec => []RingInv
BY InitRingInv, NextRingInv, PTL DEF RingSpec

(* push never constructs over a live object and pop never moves from an    *)
(* empty slot, for every ring size and every interleaving.                 *)
THEOREM RingSafe == RingSpec => [](SlotDiscipline /\ LiveSlots)
<1>1. RingInv => SlotDiscipline /\ LiveSlots
  <2> SUFFICES ASSUME RingInv PROVE SlotDiscipline
    BY DEF RingInv
  <2> USE SizeAssumption, NextIndex
      DEF RingInv, RingTypeOK, LiveSlots, Occupied, Index
  <2>1. pusher.pc = "construct" => m_buffer[m_head] = Raw
    OBVIOUS
  <2>2. popper.pc = "move" => m_buffer[m_tail] # Raw
    OBVIOUS
  <2> QED
    BY <2>1, <2>2 DEF SlotDiscipline
<1> QED
  BY <1>1, RingInvariant, PTL
-----------------------------------------------------------------------------
(* The refinement of BoundedFifo.                                          *)

(* The slot of the i-th waiting element, without the modulus.              *)
LEMMA SlotIndex ==
  ASSUME NEW t \in Index, NEW i \in 1 .. Size
  PROVE  /\ (t + i - 1) % Size \in Index
         /\ (t + i - 1) % Size = IF t + i - 1 < Size THEN t + i - 1
                                                     ELSE t + i - 1 - Size
BY SizeAssumption DEF Index

(* size counts at most SIZE - 1 elements, and none exactly when the two    *)
(* indices meet.                                                           *)
LEMMA SizeBounds ==
  ASSUME NEW h \in Index, NEW t \in Index
  PROVE  /\ size(h, t) \in 0 .. Size - 1
         /\ size(h, t) = 0 <=> h = t
         /\ size(h, t) = Size - 1 <=> next(h) = t
         /\ h # t => size(h, next(t)) = size(h, t) - 1
         /\ next(h) # t => size(next(h), t) = size(h, t) + 1
<1> USE SizeAssumption DEF Index, size
<1>1. next(h) = IF h = Size - 1 THEN 0 ELSE h + 1
  BY NextIndex
<1>2. next(t) = IF t = Size - 1 THEN 0 ELSE t + 1
  BY NextIndex
<1> QED
  BY <1>1, <1>2

(* Contents is the sequence of the occupied slots, oldest first.           *)
ContentsShape ==
  /\ Contents \in Seq(Values)
  /\ Len(Contents) = size(m_head, m_tail)
  /\ \A i \in 1 .. size(m_head, m_tail) :
       Contents[i] = IF i = 1 /\ popper.pc = "store" THEN popper.value
                     ELSE m_buffer[(m_tail + i - 1) % Size]

LEMMA RingContents == RingInv => ContentsShape
<1> SUFFICES ASSUME RingInv PROVE ContentsShape
  OBVIOUS
<1> DEFINE n == size(m_head, m_tail)
           e(i) == IF i = 1 /\ popper.pc = "store" THEN popper.value
                   ELSE m_buffer[(m_tail + i - 1) % Size]
<1>1. m_head \in Index /\ m_tail \in Index
  BY DEF RingInv, RingTypeOK
<1>2. n \in 0 .. Size - 1
  BY <1>1, SizeBounds
<1>3. ASSUME NEW i \in 1 .. n PROVE e(i) \in Values
  <2>1. i \in 1 .. Size
    BY <1>2, SizeAssumption
  <2> DEFINE s == (m_tail + i - 1) % Size
  <2>2. /\ s \in Index
        /\ s = IF m_tail + i - 1 < Size THEN m_tail + i - 1
                                        ELSE m_tail + i - 1 - Size
    BY <1>1, <2>1, SlotIndex
  <2>3. Occupied(s) /\ (s = m_tail => i = 1)
    <3> HIDE DEF s
    <3> QED
      BY <1>1, <1>2, <2>1, <2>2, SizeAssumption DEF Occupied, size, Index
  <2>4. CASE i = 1 /\ popper.pc = "store"
    BY <2>4 DEF RingInv
  <2>5. CASE ~(i = 1 /\ popper.pc = "store")
    <3>1. m_buffer[s] # Raw
      BY <2>2, <2>3, <2>5 DEF RingInv, LiveSlots
    <3>2. m_buffer[s] \in Values
      BY <2>2, <3>1 DEF RingInv, RingTypeOK
    <3> QED
      BY <2>5, <3>2
  <2> QED
    BY <2>4, <2>5
<1>4. Contents = [i \in 1 .. n |-> e(i)]
  BY DEF Contents
<1> HIDE DEF n, e
<1>5. Contents \in [1 .. n -> Values]
  BY <1>3, <1>4
<1>6. n \in Nat
  BY <1>2, SizeAssumption
<1>7. Contents \in Seq(Values) /\ Len(Contents) = n
  BY <1>5, <1>6
<1>8. \A i \in 1 .. n : Contents[i] = e(i)
  BY <1>4
<1> QED
  BY <1>7, <1>8 DEF n, e, ContentsShape

(* Publishing the new head appends the pushed value to the queue.          *)
LEMMA PushStoreAppends ==
  ASSUME RingInv, ContentsShape, ContentsShape', PushStore
  PROVE  /\ Len(Contents) < Size - 1
         /\ Contents' = Append(Contents, pusher.value)
<1> DEFINE n == size(m_head, m_tail)
<1>1. /\ m_head \in Index /\ m_tail \in Index /\ pusher.value \in Values
      /\ next(m_head) # m_tail /\ m_buffer[m_head] = pusher.value
      /\ popper.pc # "idle" => m_tail # m_head
      /\ m_head' = next(m_head) /\ UNCHANGED <<m_tail, m_buffer, popper>>
  BY DEF RingInv, RingTypeOK, PushStore
<1>2. size(m_head, m_tail)' = n + 1 /\ n \in 0 .. Size - 2
  BY <1>1, SizeBounds, SizeAssumption
<1>3. Len(Contents') = n + 1 /\ Len(Contents) = n
  BY <1>2 DEF ContentsShape
<1>4. ASSUME NEW i \in 1 .. n PROVE Contents'[i] = Contents[i]
  <2>1. i \in 1 .. size(m_head, m_tail)'
    BY <1>2, SizeAssumption
  <2>2. Contents'[i] = IF i = 1 /\ popper'.pc = "store" THEN popper'.value
                       ELSE m_buffer'[(m_tail' + i - 1) % Size]
    BY <2>1 DEF ContentsShape
  <2> QED
    BY <1>1, <2>2 DEF ContentsShape
<1>5. Contents'[n + 1] = pusher.value
  <2>1. (m_tail + (n + 1) - 1) % Size = m_head
    <3>1. n + 1 \in 1 .. Size
      BY <1>2, SizeAssumption
    <3>2. (m_tail + (n + 1) - 1) % Size
             = IF m_tail + (n + 1) - 1 < Size THEN m_tail + (n + 1) - 1
                                              ELSE m_tail + (n + 1) - 1 - Size
      BY <1>1, <3>1, SlotIndex
    <3> QED
      BY <1>1, <1>2, <3>2, SizeAssumption DEF size, Index
  <2>2. ~(n + 1 = 1 /\ popper.pc = "store")
    BY <1>1, <1>2, SizeBounds
  <2>3. n + 1 \in 1 .. size(m_head, m_tail)'
    BY <1>2, SizeAssumption
  <2>4. Contents'[n + 1] = IF n + 1 = 1 /\ popper'.pc = "store"
                             THEN popper'.value
                             ELSE m_buffer'[(m_tail' + (n + 1) - 1) % Size]
    BY <2>3 DEF ContentsShape
  <2> QED
    BY <1>1, <2>1, <2>2, <2>4
<1>6. Contents \in Seq(Values) /\ Contents' \in Seq(Values)
  BY DEF ContentsShape
<1> DEFINE a == Append(Contents, pusher.value)
<1>7. /\ a \in Seq(Values) /\ Len(a) = n + 1 /\ a[n + 1] = pusher.value
      /\ \A i \in 1 .. n : a[i] = Contents[i]
  BY <1>1, <1>3, <1>6
<1>8. \A i \in 1 .. n + 1 : Contents'[i] = a[i]
  BY <1>2, <1>4, <1>5, <1>7, SizeAssumption
<1>9. Contents' = a
  <2> HIDE DEF a, n
  <2> QED
    BY <1>3, <1>6, <1>7, <1>8, SameSequence
<1> QED
  BY <1>2, <1>3, <1>9, SizeAssumption

(* Publishing the new tail removes the oldest element, the one moved out.  *)
LEMMA PopStoreRemoves ==
  ASSUME RingInv, ContentsShape, ContentsShape', PopStore
  PROVE  /\ Contents # <<>>
         /\ popper.value = Head(Contents)
         /\ Contents' = Tail(Contents)
<1> DEFINE n == size(m_head, m_tail)
<1>1. /\ m_head \in Index /\ m_tail \in Index /\ m_tail # m_head
      /\ popper.pc = "store" /\ popper'.pc = "idle"
      /\ m_tail' = next(m_tail) /\ UNCHANGED <<m_head, m_buffer>>
  BY DEF RingInv, RingTypeOK, PopStore
<1>2. size(m_head, m_tail)' = n - 1 /\ n \in 1 .. Size - 1
  BY <1>1, SizeBounds, SizeAssumption
<1>3. Contents \in Seq(Values) /\ Contents' \in Seq(Values)
  BY DEF ContentsShape
<1>4. Len(Contents') = n - 1 /\ Len(Contents) = n
  BY <1>2 DEF ContentsShape
<1>5. Contents # <<>>
  BY <1>2, <1>4, SizeAssumption
<1>6. Head(Contents) = popper.value
  <2>1. 1 \in 1 .. n
    BY <1>2, SizeAssumption
  <2>2. Contents[1] = popper.value
    BY <1>1, <2>1 DEF ContentsShape
  <2> QED
    BY <1>3, <1>5, <2>2
<1> DEFINE t == Tail(Contents)
<1>7. /\ t \in Seq(Values) /\ Len(t) = n - 1
      /\ \A i \in 1 .. n - 1 : t[i] = Contents[i + 1]
  BY <1>3, <1>4, <1>5
<1>8. ASSUME NEW i \in 1 .. n - 1 PROVE Contents'[i] = t[i]
  <2>1. i \in 1 .. Size /\ i + 1 \in 1 .. Size /\ i + 1 \in 1 .. n
    BY <1>2, SizeAssumption
  <2>2. i \in 1 .. size(m_head, m_tail)'
    BY <1>2
  <2>3. Contents'[i] = m_buffer[(next(m_tail) + i - 1) % Size]
    BY <1>1, <2>2 DEF ContentsShape
  <2>4. Contents[i + 1] = m_buffer[(m_tail + (i + 1) - 1) % Size]
    BY <2>1 DEF ContentsShape
  <2>5. (next(m_tail) + i - 1) % Size = (m_tail + (i + 1) - 1) % Size
    <3>1. /\ next(m_tail) \in Index
          /\ next(m_tail) = IF m_tail = Size - 1 THEN 0 ELSE m_tail + 1
      BY <1>1, NextIndex
    <3>2. (next(m_tail) + i - 1) % Size
             = IF next(m_tail) + i - 1 < Size THEN next(m_tail) + i - 1
                                              ELSE next(m_tail) + i - 1 - Size
      BY <2>1, <3>1, SlotIndex
    <3>3. (m_tail + (i + 1) - 1) % Size
             = IF m_tail + (i + 1) - 1 < Size THEN m_tail + (i + 1) - 1
                                              ELSE m_tail + (i + 1) - 1 - Size
      BY <1>1, <2>1, SlotIndex
    <3> QED
      BY <1>1, <2>1, <3>1, <3>2, <3>3, SizeAssumption DEF Index
  <2> QED
    BY <1>7, <2>3, <2>4, <2>5
<1>9. Contents' = t
  <2> HIDE DEF t, n
  <2> QED
    BY <1>3, <1>4, <1>7, <1>8, SameSequence
<1> QED
  BY <1>5, <1>6, <1>9

(* Filling a slot that is not yet published, and emptying the oldest slot  *)
(* before it is released, leave the queue as it is.                        *)
LEMMA SlotStepsInvisible ==
  ASSUME RingInv, PushConstruct \/ PopMove
  PROVE  Contents' = Contents
<1> DEFINE slot(i) == (m_tail + i - 1) % Size
<1>1. m_head \in Index /\ m_tail \in Index /\ UNCHANGED <<m_head, m_tail>>
  BY DEF RingInv, RingTypeOK, PushConstruct, PopMove
<1>2. ASSUME NEW i \in 1 .. size(m_head, m_tail)
      PROVE  /\ slot(i) \in Index
             /\ slot(i) # m_head
             /\ slot(i) = m_tail <=> i = 1
  <2>1. i \in 1 .. Size /\ i <= size(m_head, m_tail)
    BY <1>1, SizeBounds, SizeAssumption
  <2>2. /\ slot(i) \in Index
        /\ slot(i) = IF m_tail + i - 1 < Size THEN m_tail + i - 1
                                              ELSE m_tail + i - 1 - Size
    BY <1>1, <2>1, SlotIndex
  <2> HIDE DEF slot
  <2> QED
    BY <1>1, <2>1, <2>2, SizeAssumption DEF size, Index
<1>3. CASE PushConstruct
  <2>1. \A j \in Index : j # m_head => m_buffer'[j] = m_buffer[j]
    BY <1>3 DEF PushConstruct, RingInv, RingTypeOK
  <2>2. popper' = popper
    BY <1>3 DEF PushConstruct
  <2> QED
    BY <1>1, <1>2, <2>1, <2>2 DEF Contents
<1>4. CASE PopMove
  <2>1. \A j \in Index : j # m_tail => m_buffer'[j] = m_buffer[j]
    BY <1>4 DEF PopMove, RingInv, RingTypeOK
  <2>2. /\ popper.pc = "move" /\ popper'.pc = "store"
        /\ popper'.value = m_buffer[m_tail]
    BY <1>4 DEF PopMove
  <2> QED
    BY <1>1, <1>2, <2>1, <2>2 DEF Contents
<1> QED
  BY <1>3, <1>4

(* Every step of the ring is a step of the abstract queue or a stutter.    *)
LEMMA RingStepRefines ==
  ASSUME RingInv, ContentsShape, ContentsShape', [RingNext]_ringVars
  PROVE  [Fifo!FifoNext]_(Fifo!fifoVars)
<1> USE DEF Fifo!FifoNext, Fifo!fifoVars
<1>1. m_head \in Index /\ m_tail \in Index
  BY DEF RingInv, RingTypeOK
<1>2. ASSUME NEW v \in Values, PushCheck(v) PROVE UNCHANGED Fifo!fifoVars
  BY <1>2 DEF PushCheck, Contents
<1>3. CASE PushFull
  <2>1. Len(Contents) = Size - 1
    BY <1>1, <1>3, SizeBounds DEF PushFull, ContentsShape
  <2>2. Contents' = Contents
    BY <1>3 DEF PushFull, Contents
  <2> QED
    BY <1>3, <2>1, <2>2 DEF PushFull, Fifo!PushFull
<1>4. CASE PushConstruct
  BY <1>4, SlotStepsInvisible DEF PushConstruct
<1>5. CASE PushStore
  <2>1. pusher.value \in Values
    BY <1>5 DEF PushStore, RingInv
  <2>2. Fifo!Push(pusher.value)
    BY <1>5, PushStoreAppends DEF PushStore, Fifo!Push
  <2> QED
    BY <2>1, <2>2
<1>6. CASE PopEmpty
  <2>1. Contents = <<>>
    BY <1>1, <1>6, SizeBounds DEF PopEmpty, ContentsShape
  <2>2. Contents' = Contents
    BY <1>6 DEF PopEmpty, Contents
  <2> QED
    BY <1>6, <2>1, <2>2 DEF PopEmpty, Fifo!PopEmpty
<1>7. CASE PopCheck
  BY <1>7 DEF PopCheck, Contents, RingInv, RingTypeOK
<1>8. CASE PopMove
  BY <1>8, SlotStepsInvisible DEF PopMove
<1>9. CASE PopStore
  BY <1>9, PopStoreRemoves DEF PopStore, Fifo!Pop
<1>10. CASE UNCHANGED ringVars
  BY <1>10 DEF ringVars, Contents
<1> QED
  BY <1>2, <1>3, <1>4, <1>5, <1>6, <1>7, <1>8, <1>9, <1>10 DEF RingNext

(* The ring, step by step and for every size, is a bounded first-in        *)
(* first-out queue: nothing is lost, duplicated or reordered between push  *)
(* and pop.                                                                *)
THEOREM RingImplementsFifo == RingSpec => ImplementsFifo
<1>1. RingInit => Fifo!FifoInit
  BY SizeAssumption DEF RingInit, Fifo!FifoInit, Contents, size
<1>2. RingInv /\ RingInv' /\ [RingNext]_ringVars
        => [Fifo!FifoNext]_(Fifo!fifoVars)
  <2>1. RingInv' => ContentsShape'
    BY RingContents, PTL
  <2> QED
    BY <2>1, RingContents, RingStepRefines
<1> QED
  BY <1>1, <1>2, RingInvariant, PTL DEF RingSpec, ImplementsFifo, Fifo!FifoSpec
-----------------------------------------------------------------------------
(* Every step of the blocking ring is a step of the ring or leaves it      *)
(* alone, so the ring's invariant carries over.                            *)
LEMMA StepsRing == [Next]_vars => [RingNext]_ringVars
BY DEF Next, vars, ringVars, RingNext, StartPush, PushOnFull, Producer,
       Consumer, Construct, Publish, SignalAdd, SignalRelease, StartPopWait,
       FindEmpty, FindElement, MoveOut, Release, TryWait, FetchSub, Wake

(* A fresh blocking ring owes no wake-up.                                  *)
LEMMA InitWakeupInv == Init => WakeupInv
BY InitRingInv, MaxPushesAssumption
   DEF Init, RingInit, RingInv, WakeupInv, TypeOK, WakeupAccounting

(* Every step of the producer and of the consumer preserves WakeupInv.     *)
LEMMA NextWakeupInv ==
  WakeupInv /\ RingTypeOK' /\ [Next]_vars => WakeupInv'
<1> SUFFICES ASSUME WakeupInv, RingTypeOK', [Next]_vars PROVE WakeupInv'
  OBVIOUS
<1> USE MaxPushesAssumption DEF WakeupInv, TypeOK, WakeupAccounting
<1>1. ASSUME NEW v \in Values, StartPush(v) PROVE WakeupInv'
  BY <1>1 DEF StartPush, PushCheck
<1>2. CASE PushOnFull
  BY <1>2 DEF PushOnFull, PushFull
<1>3. CASE Construct
  BY <1>3 DEF Construct, PushConstruct, semVars
<1>4. CASE Publish
  BY <1>4 DEF Publish, PushStore
<1>5. CASE SignalAdd
  BY <1>5 DEF SignalAdd, ringVars
<1>6. CASE SignalRelease
  BY <1>6 DEF SignalRelease, ringVars
<1>7. CASE StartPopWait
  BY <1>7 DEF StartPopWait, ringVars
<1>8. CASE FindEmpty
  BY <1>8 DEF FindEmpty, PopEmpty
<1>9. CASE FindElement
  BY <1>9 DEF FindElement, PopCheck, semVars
<1>10. CASE MoveOut
  BY <1>10 DEF MoveOut, PopMove, semVars
<1>11. CASE Release
  BY <1>11 DEF Release, PopStore
<1>12. CASE TryWait
  BY <1>12 DEF TryWait, ringVars
<1>13. CASE FetchSub
  BY <1>13 DEF FetchSub, ringVars
<1>14. CASE Wake
  BY <1>14 DEF Wake, ringVars
<1>15. CASE UNCHANGED vars
  BY <1>15 DEF vars, ringVars, semVars
<1> HIDE DEF WakeupInv, TypeOK, WakeupAccounting
<1> QED
  BY <1>1, <1>2, <1>3, <1>4, <1>5, <1>6, <1>7, <1>8, <1>9, <1>10, <1>11,
     <1>12, <1>13, <1>14, <1>15 DEF Next, Producer, Consumer

(* Both invariants hold in every behaviour of the blocking ring.           *)
THEOREM BlockingInvariant == Spec => [](RingInv /\ WakeupInv)
<1>1. Init => RingInv /\ WakeupInv
  BY InitRingInv, InitWakeupInv DEF Init
<1>2. RingInv /\ WakeupInv /\ [Next]_vars => RingInv' /\ WakeupInv'
  <2> SUFFICES ASSUME RingInv, WakeupInv, [Next]_vars PROVE RingInv' /\ WakeupInv'
    OBVIOUS
  <2>1. RingInv'
    BY StepsRing, NextRingInv
  <2>2. RingTypeOK'
    BY <2>1 DEF RingInv
  <2> QED
    BY <2>1, <2>2, NextWakeupInv
<1> QED
  BY <1>1, <1>2, PTL DEF Spec

(* pop_wait never sleeps on an element, and a sleeper is owed exactly one  *)
(* wake-up: for every SIZE and any number of pushes, however dispatch and  *)
(* try_dispatch alternate.                                                 *)
THEOREM WakeupSafe == Spec => [](NoLostWakeup /\ WakeupAccounting)
<1>1. WakeupInv => NoLostWakeup /\ WakeupAccounting
  BY DEF WakeupInv, TypeOK, WakeupAccounting, NoLostWakeup
<1> QED
  BY <1>1, BlockingInvariant, PTL

=============================================================================
