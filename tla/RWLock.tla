------------------------------- MODULE RWLock -------------------------------
(***************************************************************************)
(* tf::rwlock (fastpath/utils/rwlock.h): the spinning reader-writer lock   *)
(* around the handler tables of GlobalEventManager.  m_bits counts readers *)
(* in units of READER; its two low bits say that an upgrader or a writer   *)
(* holds the lock.  Every action is one atomic operation on m_bits; a      *)
(* failed attempt that leaves m_bits alone is no step at all.              *)
(*                                                                         *)
(* A thread may hold the lock shared more than once (a callback running    *)
(* under foreach_event_matching unregisters a handler), and shared and     *)
(* upgraded at once (unregisterHandler), so a shared hold is a pair of a   *)
(* thread and a nesting level.                                             *)
(***************************************************************************)
EXTENDS Integers, FiniteSets

CONSTANTS Threads,
          Depth     \* bound on the nesting of shared holds of one thread

ASSUME ThreadsAssumption == IsFiniteSet(Threads)
ASSUME DepthAssumption == Depth \in Nat

READER == 4
UPGRADED == 2
WRITER == 1

VARIABLES m_bits,
          reads,  \* of each hold: "none", "held", or "failing" between the
                  \* two fetch_adds of an attempt that was refused
          owner   \* of each thread: "none", "upgraded", "writer", or between
                  \* the two steps of a downgrade "toShared", "toUpgraded"

lockVars == <<m_bits, reads, owner>>

Holds == Threads \X (1 .. Depth)

LockInit ==
  /\ m_bits = 0
  /\ reads = [h \in Holds |-> "none"]
  /\ owner = [t \in Threads |-> "none"]

\* bits | UPGRADED, bits & ~(WRITER | UPGRADED), bits & (WRITER | UPGRADED)
OrUpgraded(bits) == IF bits % READER < UPGRADED THEN bits + UPGRADED ELSE bits
AndReaders(bits) == bits - (bits % READER)
LowBits(bits) == bits % READER

\* A thread between two steps of one operation does nothing else.
Free(t) ==
  /\ owner[t] \notin {"toShared", "toUpgraded"}
  /\ \A d \in 1 .. Depth : reads[<<t, d>>] # "failing"

Own(t, mode) == owner' = [owner EXCEPT ![t] = mode]
Hold(h, mode) == reads' = [reads EXCEPT ![h] = mode]
-----------------------------------------------------------------------------
(* Writers.                                                                *)

try_lock(t) ==
  /\ Free(t)
  /\ m_bits = 0
  /\ m_bits' = WRITER
  /\ Own(t, "writer")
  /\ UNCHANGED reads

\* Mutant: clear the WRITER bit only.
unlockWriterBitOnly(t) ==
  /\ owner[t] = "writer" /\ Free(t)
  /\ m_bits' = m_bits - WRITER
  /\ Own(t, "none")
  /\ UNCHANGED reads

unlock(t) ==
  /\ owner[t] = "writer" /\ Free(t)
  /\ m_bits' = AndReaders(m_bits)
  /\ Own(t, "none")
  /\ UNCHANGED reads

unlock_and_lock_shared(h) ==
  /\ owner[h[1]] = "writer" /\ Free(h[1])
  /\ reads[h] = "none"
  /\ m_bits' = m_bits + READER
  /\ Hold(h, "held")
  /\ Own(h[1], "toShared")

finish_lock_shared(t) ==
  /\ owner[t] = "toShared"
  /\ m_bits' = AndReaders(m_bits)
  /\ Own(t, "none")
  /\ UNCHANGED reads

unlock_and_lock_upgrade(t) ==
  /\ owner[t] = "writer" /\ Free(t)
  /\ m_bits' = OrUpgraded(m_bits)
  /\ Own(t, "toUpgraded")
  /\ UNCHANGED reads

finish_lock_upgrade(t) ==
  /\ owner[t] = "toUpgraded"
  /\ m_bits' = m_bits - WRITER
  /\ Own(t, "upgraded")
  /\ UNCHANGED reads
-----------------------------------------------------------------------------
(* Readers.                                                                *)

\* Mutant: only a writer refuses a reader.
try_lock_sharedUnderUpgrade(h) ==
  /\ Free(h[1])
  /\ reads[h] = "none"
  /\ m_bits' = m_bits + READER
  /\ Hold(h, IF m_bits % 2 = 0 THEN "held" ELSE "failing")
  /\ UNCHANGED owner

try_lock_shared(h) ==
  /\ Free(h[1])
  /\ reads[h] = "none"
  /\ m_bits' = m_bits + READER
  /\ Hold(h, IF LowBits(m_bits) = 0 THEN "held" ELSE "failing")
  /\ UNCHANGED owner

back_off_shared(h) ==
  /\ reads[h] = "failing"
  /\ m_bits' = m_bits - READER
  /\ Hold(h, "none")
  /\ UNCHANGED owner

unlock_shared(h) ==
  /\ Free(h[1])
  /\ reads[h] = "held"
  /\ m_bits' = m_bits - READER
  /\ Hold(h, "none")
  /\ UNCHANGED owner
-----------------------------------------------------------------------------
(* Upgraders.                                                              *)

\* A refused attempt leaves the UPGRADED bit set.
try_lock_upgrade(t) ==
  /\ Free(t)
  /\ m_bits' = OrUpgraded(m_bits)
  /\ IF LowBits(m_bits) = 0 THEN Own(t, "upgraded") ELSE UNCHANGED owner
  /\ UNCHANGED reads

unlock_upgrade(t) ==
  /\ owner[t] = "upgraded" /\ Free(t)
  /\ m_bits' = m_bits - UPGRADED
  /\ Own(t, "none")
  /\ UNCHANGED reads

\* Mutant: turn upgraded into writer without waiting for the readers.
try_unlock_upgrade_and_lockNoWait(t) ==
  /\ owner[t] = "upgraded" /\ Free(t)
  /\ m_bits' = m_bits - UPGRADED + WRITER
  /\ Own(t, "writer")
  /\ UNCHANGED reads

try_unlock_upgrade_and_lock(t) ==
  /\ owner[t] = "upgraded" /\ Free(t)
  /\ m_bits = UPGRADED
  /\ m_bits' = WRITER
  /\ Own(t, "writer")
  /\ UNCHANGED reads

unlock_upgrade_and_lock_shared(h) ==
  /\ owner[h[1]] = "upgraded" /\ Free(h[1])
  /\ reads[h] = "none"
  /\ m_bits' = m_bits + READER - UPGRADED
  /\ Hold(h, "held")
  /\ Own(h[1], "none")
-----------------------------------------------------------------------------
LockNext ==
  \/ \E t \in Threads :
       \/ try_lock(t) \/ unlock(t)
       \/ finish_lock_shared(t)
       \/ unlock_and_lock_upgrade(t) \/ finish_lock_upgrade(t)
       \/ try_lock_upgrade(t) \/ unlock_upgrade(t)
       \/ try_unlock_upgrade_and_lock(t)
  \/ \E h \in Holds :
       \/ unlock_and_lock_shared(h)
       \/ try_lock_shared(h) \/ back_off_shared(h) \/ unlock_shared(h)
       \/ unlock_upgrade_and_lock_shared(h)

LockSpec == LockInit /\ [][LockNext]_lockVars
-----------------------------------------------------------------------------
Counted == {h \in Holds : reads[h] # "none"}
Writing(t) == owner[t] \in {"writer", "toShared", "toUpgraded"}

(* The word, the holds and the owners stay in range.                       *)
LockTypeOK ==
  /\ m_bits \in Nat
  /\ reads \in [Holds -> {"none", "failing", "held"}]
  /\ owner \in [Threads -> {"none", "upgraded", "writer", "toShared", "toUpgraded"}]

(* While a thread writes, no other thread reads, writes or is upgraded:    *)
(* the exclusion lock() promises, through every way of becoming a writer   *)
(* and of giving it up.                                                    *)
WriterExcludes ==
  \A t \in Threads : Writing(t) =>
    /\ \A u \in Threads \ {t} : owner[u] = "none"
    /\ \A h \in Holds : reads[h] = "held" => h[1] = t

(* The word is exact: its reader count is the number of threads between    *)
(* their two fetch_adds, whatever refused attempts are under way, and its  *)
(* low bits are set by a current owner and by nobody else, so that the     *)
(* UPGRADED bit a refused try_lock_upgrade leaves behind is cleared with   *)
(* the lock that refused it (comment at lines 151-154).                    *)
BitsExact ==
  /\ AndReaders(m_bits) = READER * Cardinality(Counted)
  /\ LowBits(m_bits) = 0 <=> \A t \in Threads : owner[t] = "none"
  /\ LowBits(m_bits) = 2 <=> \E t \in Threads : owner[t] = "upgraded"

(* The inductive invariant: the three above, one owner at a time, and the  *)
(* word of a writer about to become an upgrader.                           *)
LockInv ==
  /\ LockTypeOK
  /\ WriterExcludes
  /\ BitsExact
  /\ \A t, u \in Threads : owner[t] # "none" /\ owner[u] # "none" => t = u
  /\ \A t \in Threads : owner[t] = "toUpgraded" => LowBits(m_bits) = 3
  /\ \A t \in Threads : owner[t] \in {"writer", "toUpgraded"} =>
       \A h \in Holds : reads[h] # "held"

(* Nobody becomes a reader while another thread is upgraded: "block any    *)
(* new readers while waiting for existing readers to finish" (lines        *)
(* 125-128).                                                               *)
NoNewReaderUnderUpgrade ==
  [][\A h \in Holds : reads[h] # "held" /\ reads'[h] = "held" =>
       \A t \in Threads \ {h[1]} : owner[t] # "upgraded"]_lockVars
=============================================================================
