---------------------------- MODULE RWLockProofs ----------------------------
(***************************************************************************)
(* Proofs about RWLock and about LockHolders, for every finite set of      *)
(* threads and every nesting of shared holds.                              *)
(***************************************************************************)
EXTENDS LockHolders, FiniteSetTheorems, TLAPS

(* What a thread's pointers say after a step is read off its new state.    *)
LEMMA SaysNext ==
  \A u : SaysSo(task[u], m_lock[u], owner[u])' <=> SaysSo(task'[u], m_lock'[u], owner'[u])
BY DEF SaysSo, OneSays, Says

(* The reader count and the low bits of the word, under each of the atomic *)
(* operations the lock uses.                                               *)
LEMMA BitArithmetic ==
  ASSUME NEW b \in Nat
  PROVE  /\ LowBits(b) \in 0 .. 3 /\ AndReaders(b) \in Nat
         /\ AndReaders(b) + LowBits(b) = b
         /\ LowBits(AndReaders(b)) = 0 /\ AndReaders(AndReaders(b)) = AndReaders(b)
         /\ OrUpgraded(b) \in Nat /\ AndReaders(OrUpgraded(b)) = AndReaders(b)
         /\ LowBits(OrUpgraded(b)) = IF LowBits(b) < 2 THEN LowBits(b) + 2
                                                       ELSE LowBits(b)
         /\ LowBits(b + READER) = LowBits(b)
         /\ AndReaders(b + READER) = AndReaders(b) + READER
         /\ b >= READER => /\ LowBits(b - READER) = LowBits(b)
                           /\ AndReaders(b - READER) = AndReaders(b) - READER
         /\ LowBits(b) \in {1, 3} => /\ LowBits(b - WRITER) = LowBits(b) - 1
                                     /\ AndReaders(b - WRITER) = AndReaders(b)
         /\ LowBits(b) >= 2 => /\ LowBits(b - UPGRADED) = LowBits(b) - 2
                               /\ AndReaders(b - UPGRADED) = AndReaders(b)
BY DEF LowBits, AndReaders, OrUpgraded, READER, WRITER, UPGRADED

(* Holds is finite, and so is every set of counted holds.                  *)
LEMMA HoldsFinite == IsFiniteSet(Holds)
<1>1. IsFiniteSet(1 .. Depth)
  BY DepthAssumption, FS_Interval
<1> QED
  BY <1>1, ThreadsAssumption, FS_Product, Zenon DEF Holds

(* One hold more, or one less, changes the count by one.                   *)
LEMMA CountStep ==
  ASSUME NEW C, NEW D, NEW h, IsFiniteSet(C)
  PROVE  /\ h \notin C /\ D = C \cup {h} => Cardinality(D) = Cardinality(C) + 1
         /\ h \in C /\ D = C \ {h} =>
              Cardinality(D) = Cardinality(C) - 1 /\ Cardinality(C) > 0
<1>1. Cardinality(C) \in Nat
  BY FS_CardinalityType
<1>2. ASSUME h \notin C, D = C \cup {h} PROVE Cardinality(D) = Cardinality(C) + 1
  BY <1>2, FS_AddElement
<1>3. ASSUME h \in C, D = C \ {h}
      PROVE  Cardinality(D) = Cardinality(C) - 1 /\ Cardinality(C) > 0
  <2>1. Cardinality(C) # 0
    BY <1>3, FS_EmptySet
  <2> QED
    BY <1>1, <1>3, <2>1, FS_RemoveElement
<1> QED
  BY <1>2, <1>3

(* The fresh lock satisfies the inductive invariant.                       *)
LEMMA InitLockInv == LockInit => LockInv
<1> SUFFICES ASSUME LockInit PROVE LockInv
  OBVIOUS
<1>1. Counted = {}
  BY DEF LockInit, Counted
<1>2. Cardinality(Counted) = 0
  BY <1>1, FS_EmptySet
<1>3. LowBits(m_bits) = 0 /\ AndReaders(m_bits) = 0
  BY DEF LockInit, LowBits, AndReaders, READER
<1> QED
  BY <1>2, <1>3 DEF LockInit, LockInv, LockTypeOK, WriterExcludes, BitsExact,
     Writing, READER

(* Every atomic operation on the word preserves the inductive invariant.   *)
LEMMA NextLockInv == LockInv /\ [LockNext]_lockVars => LockInv'
<1> SUFFICES ASSUME LockInv, [LockNext]_lockVars PROVE LockInv'
  OBVIOUS
<1> DEFINE n == Cardinality(Counted)
           low == LowBits(m_bits)
<1>0. m_bits \in Nat
  BY DEF LockInv, LockTypeOK
<1>1. /\ low \in 0 .. 3 /\ AndReaders(m_bits) + low = m_bits
      /\ AndReaders(m_bits) = READER * n
  BY <1>0, BitArithmetic DEF LockInv, BitsExact
<1>2. IsFiniteSet(Counted) /\ n \in Nat
  BY HoldsFinite, FS_Subset, FS_CardinalityType DEF Counted
<1> USE DEF LockInv, LockTypeOK, WriterExcludes, BitsExact, Writing, Own, Hold
<1>3. ASSUME UNCHANGED reads PROVE Cardinality(Counted)' = n
  BY <1>3 DEF Counted
<1>4. ASSUME NEW t \in Threads, try_lock(t) PROVE LockInv'
  <2>1. LowBits(0) = 0 /\ AndReaders(0) = 0 /\ LowBits(WRITER) = 1
        /\ AndReaders(WRITER) = 0
    BY DEF LowBits, AndReaders, READER, WRITER
  <2>2. low = 0 /\ n = 0
    BY <1>1, <1>2, <1>4, <2>1 DEF try_lock, READER
  <2>3. \A h \in Holds : reads[h] = "none"
    BY <1>2, <2>2, FS_EmptySet DEF Counted
  <2> QED
    BY <1>3, <1>4, <2>1, <2>2, <2>3 DEF try_lock, WRITER
<1>5. ASSUME NEW t \in Threads, unlock(t) \/ finish_lock_shared(t) PROVE LockInv'
  <2>1. m_bits' = AndReaders(m_bits) /\ owner' = [owner EXCEPT ![t] = "none"]
        /\ UNCHANGED reads /\ owner[t] # "none"
    BY <1>5 DEF unlock, finish_lock_shared
  <2>2. LowBits(m_bits') = 0 /\ AndReaders(m_bits') = READER * n /\ m_bits' \in Nat
    BY <1>0, <1>1, <2>1, BitArithmetic
  <2> QED
    BY <1>3, <2>1, <2>2
<1>6. ASSUME NEW t \in Threads, unlock_and_lock_upgrade(t) PROVE LockInv'
  <2>1. low \in {1, 3}
    BY <1>1, <1>6 DEF unlock_and_lock_upgrade
  <2>2. LowBits(m_bits') = 3 /\ AndReaders(m_bits') = READER * n /\ m_bits' \in Nat
    BY <1>0, <1>1, <1>6, <2>1, BitArithmetic DEF unlock_and_lock_upgrade
  <2> QED
    BY <1>3, <1>6, <2>2 DEF unlock_and_lock_upgrade
<1>7. ASSUME NEW t \in Threads, finish_lock_upgrade(t) PROVE LockInv'
  <2>1. low = 3
    BY <1>7 DEF finish_lock_upgrade
  <2>2. LowBits(m_bits') = 2 /\ AndReaders(m_bits') = READER * n /\ m_bits' \in Nat
    BY <1>0, <1>1, <1>7, <2>1, BitArithmetic DEF finish_lock_upgrade, WRITER
  <2> QED
    BY <1>3, <1>7, <2>2 DEF finish_lock_upgrade
<1>8. ASSUME NEW t \in Threads, try_lock_upgrade(t) PROVE LockInv'
  <2>1. /\ LowBits(m_bits') = IF low < 2 THEN low + 2 ELSE low
        /\ AndReaders(m_bits') = READER * n /\ m_bits' \in Nat
    BY <1>0, <1>1, <1>8, BitArithmetic DEF try_lock_upgrade
  <2>2. CASE low = 0
    BY <1>3, <1>8, <2>1, <2>2 DEF try_lock_upgrade
  <2>3. CASE low # 0
    BY <1>1, <1>3, <1>8, <2>1, <2>3 DEF try_lock_upgrade
  <2> QED
    BY <2>2, <2>3
<1>9. ASSUME NEW t \in Threads, unlock_upgrade(t) PROVE LockInv'
  <2>1. low = 2
    BY <1>9 DEF unlock_upgrade
  <2>2. LowBits(m_bits') = 0 /\ AndReaders(m_bits') = READER * n /\ m_bits' \in Nat
    BY <1>0, <1>1, <1>9, <2>1, BitArithmetic DEF unlock_upgrade, UPGRADED
  <2> QED
    BY <1>3, <1>9, <2>2 DEF unlock_upgrade
<1>10. ASSUME NEW t \in Threads, try_unlock_upgrade_and_lock(t) PROVE LockInv'
  <2>1. LowBits(UPGRADED) = 2 /\ AndReaders(UPGRADED) = 0
        /\ LowBits(WRITER) = 1 /\ AndReaders(WRITER) = 0
    BY DEF LowBits, AndReaders, READER, WRITER, UPGRADED
  <2>2. low = 2 /\ n = 0
    BY <1>1, <1>2, <1>10, <2>1 DEF try_unlock_upgrade_and_lock, READER
  <2>3. \A h \in Holds : reads[h] = "none"
    BY <1>2, <2>2, FS_EmptySet DEF Counted
  <2> QED
    BY <1>3, <1>10, <2>1, <2>2, <2>3 DEF try_unlock_upgrade_and_lock, WRITER
<1>11. ASSUME NEW h \in Holds, unlock_and_lock_shared(h) PROVE LockInv'
  <2>1. /\ h[1] \in Threads /\ owner[h[1]] = "writer" /\ reads[h] = "none"
        /\ m_bits' = m_bits + READER
        /\ reads' = [reads EXCEPT ![h] = "held"]
        /\ owner' = [owner EXCEPT ![h[1]] = "toShared"]
    BY <1>11 DEF unlock_and_lock_shared, Holds
  <2>2. Cardinality(Counted)' = n + 1
    <3>1. h \notin Counted /\ Counted' = Counted \cup {h}
      BY <2>1 DEF Counted
    <3> QED
      BY <1>2, <3>1, CountStep
  <2>3. LowBits(m_bits') = low /\ AndReaders(m_bits') = READER * (n + 1)
        /\ m_bits' \in Nat
    BY <1>0, <1>1, <1>2, <2>1, BitArithmetic DEF READER
  <2> QED
    BY <2>1, <2>2, <2>3
<1>12. ASSUME NEW h \in Holds, try_lock_shared(h) PROVE LockInv'
  <2> DEFINE mode == IF low = 0 THEN "held" ELSE "failing"
  <2>1. /\ reads[h] = "none" /\ m_bits' = m_bits + READER
        /\ reads' = [reads EXCEPT ![h] = mode] /\ UNCHANGED owner
    BY <1>12 DEF try_lock_shared
  <2>2. Cardinality(Counted)' = n + 1
    <3>1. h \notin Counted /\ Counted' = Counted \cup {h}
      BY <2>1 DEF Counted
    <3> QED
      BY <1>2, <3>1, CountStep
  <2>3. LowBits(m_bits') = low /\ AndReaders(m_bits') = READER * (n + 1)
        /\ m_bits' \in Nat
    BY <1>0, <1>1, <1>2, <2>1, BitArithmetic DEF READER
  <2> QED
    BY <2>1, <2>2, <2>3
<1>13. ASSUME NEW h \in Holds, back_off_shared(h) \/ unlock_shared(h) PROVE LockInv'
  <2>1. /\ reads[h] # "none" /\ m_bits' = m_bits - READER
        /\ reads' = [reads EXCEPT ![h] = "none"] /\ UNCHANGED owner
    BY <1>13 DEF back_off_shared, unlock_shared
  <2>2. Cardinality(Counted)' = n - 1 /\ n > 0
    <3>1. h \in Counted /\ Counted' = Counted \ {h}
      BY <2>1 DEF Counted
    <3> QED
      BY <1>2, <3>1, CountStep
  <2>3. m_bits >= READER
    BY <1>1, <1>2, <2>2 DEF READER
  <2>4. LowBits(m_bits') = low /\ AndReaders(m_bits') = READER * (n - 1)
        /\ m_bits' \in Nat
    BY <1>0, <1>1, <1>2, <2>1, <2>3, BitArithmetic DEF READER
  <2> QED
    BY <2>1, <2>2, <2>4
<1>14. ASSUME NEW h \in Holds, unlock_upgrade_and_lock_shared(h) PROVE LockInv'
  <2>1. /\ h[1] \in Threads /\ owner[h[1]] = "upgraded" /\ reads[h] = "none"
        /\ m_bits' = m_bits + READER - UPGRADED
        /\ reads' = [reads EXCEPT ![h] = "held"]
        /\ owner' = [owner EXCEPT ![h[1]] = "none"]
    BY <1>14 DEF unlock_upgrade_and_lock_shared, Holds
  <2>2. Cardinality(Counted)' = n + 1
    <3>1. h \notin Counted /\ Counted' = Counted \cup {h}
      BY <2>1 DEF Counted
    <3> QED
      BY <1>2, <3>1, CountStep
  <2>3. low = 2
    BY <2>1
  <2>4. /\ m_bits + READER \in Nat /\ LowBits(m_bits + READER) = 2
        /\ AndReaders(m_bits + READER) = READER * (n + 1)
    BY <1>0, <1>1, <1>2, <2>3, BitArithmetic DEF READER
  <2>5. LowBits(m_bits') = 0 /\ AndReaders(m_bits') = READER * (n + 1)
        /\ m_bits' \in Nat
    BY <1>0, <2>1, <2>4, BitArithmetic DEF READER, UPGRADED
  <2> QED
    BY <2>1, <2>2, <2>5
<1>15. CASE UNCHANGED lockVars
  BY <1>15 DEF lockVars, Counted
<1> QED
  BY <1>4, <1>5, <1>6, <1>7, <1>8, <1>9, <1>10, <1>11, <1>12, <1>13, <1>14,
     <1>15 DEF LockNext

(* The inductive invariant holds in every behaviour of the lock.           *)
THEOREM LockInvariant == LockSpec => []LockInv
BY InitLockInv, NextLockInv, PTL DEF LockSpec

(* A writer is alone, and the word is exact, for any number of threads and *)
(* any nesting of shared holds.                                            *)
THEOREM LockSafe == LockSpec => [](WriterExcludes /\ BitsExact)
<1>1. LockInv => WriterExcludes /\ BitsExact
  BY DEF LockInv
<1> QED
  BY <1>1, LockInvariant, PTL

(* The word never disagrees with who holds the lock.                       *)
THEOREM LockBitsExact == LockSpec => []BitsExact
<1>1. LockInv => BitsExact
  BY DEF LockInv
<1> QED
  BY <1>1, LockInvariant, PTL

(* A lock that nobody holds, and nobody is trying to share, has the word 0.*)
LEMMA FreeLockIsZero ==
  ASSUME LockInv, \A t \in Threads : owner[t] = "none",
         \A t \in Threads, d \in 1 .. Depth : reads[<<t, d>>] = "none"
  PROVE  m_bits = 0
<1>1. Counted = {}
  <2>1. \A h \in Holds : reads[h] = "none"
    BY DEF Holds
  <2> QED
    BY <2>1 DEF Counted
<1>2. AndReaders(m_bits) = 0 /\ LowBits(m_bits) = 0
  BY <1>1, FS_EmptySet DEF LockInv, BitsExact, READER
<1>3. m_bits \in Nat
  BY DEF LockInv, LockTypeOK
<1> QED
  BY <1>2, <1>3, BitArithmetic

(* While a thread is upgraded nobody else becomes a reader.                *)
THEOREM UpgradeBlocksReaders == LockSpec => NoNewReaderUnderUpgrade
<1> DEFINE A == \A h \in Holds : reads[h] # "held" /\ reads'[h] = "held" =>
                  \A t \in Threads \ {h[1]} : owner[t] # "upgraded"
<1>1. LockInv /\ [LockNext]_lockVars => [A]_lockVars
  <2> SUFFICES ASSUME LockInv, LockNext, NEW g \in Holds,
                      reads[g] # "held", reads'[g] = "held",
                      NEW u \in Threads \ {g[1]}
               PROVE  owner[u] # "upgraded"
    OBVIOUS
  <2>1. reads \in [Holds -> {"none", "failing", "held"}]
    BY DEF LockInv, LockTypeOK
  <2>2. PICK h \in Holds :
          \/ unlock_and_lock_shared(h) \/ try_lock_shared(h)
          \/ back_off_shared(h) \/ unlock_shared(h)
          \/ unlock_upgrade_and_lock_shared(h)
    BY DEF LockNext, try_lock, unlock, finish_lock_shared,
       unlock_and_lock_upgrade, finish_lock_upgrade, try_lock_upgrade,
       unlock_upgrade, try_unlock_upgrade_and_lock
  <2>3. h = g /\ h[1] \in Threads
    BY <2>1, <2>2 DEF unlock_and_lock_shared, try_lock_shared, back_off_shared,
       unlock_shared, unlock_upgrade_and_lock_shared, Hold, Holds
  <2>4. CASE try_lock_shared(h)
    <3>1. LowBits(m_bits) = 0
      BY <2>1, <2>3, <2>4 DEF try_lock_shared, Hold
    <3> QED
      BY <3>1 DEF LockInv, BitsExact
  <2>5. CASE ~try_lock_shared(h)
    <3>1. owner[h[1]] # "none"
      BY <2>1, <2>2, <2>3, <2>5 DEF unlock_and_lock_shared, back_off_shared,
         unlock_shared, unlock_upgrade_and_lock_shared, Hold
    <3> QED
      BY <2>3, <3>1 DEF LockInv
  <2> QED
    BY <2>4, <2>5
<1> QED
  BY <1>1, LockInvariant, PTL DEF LockSpec, NoNewReaderUnderUpgrade
-----------------------------------------------------------------------------
(* The scoped holders.                                                     *)

(* What a thread's holders say, when none, one or another of them has it.  *)
LEMMA OneHolder ==
  ASSUME NEW h
  PROVE  /\ Says(h) = "none" <=> \A k \in OwnHolders : ~h[k]
         /\ Says(h) = "none" => OneSays(h)
         /\ \A k \in OwnHolders : h[k] /\ OneSays(h) => \A j \in OwnHolders \ {k} : ~h[j]
         /\ \A k \in OwnHolders : h[k] /\ (\A j \in OwnHolders \ {k} : ~h[j]) =>
              OneSays(h) /\ Says(h) = IF k \in UpgradedHolders THEN "upgraded" ELSE "writer"
<1>1. UpgradedHolders \cap WriteHolders = {}
  BY DEF UpgradedHolders, WriteHolders
<1> QED
  BY <1>1 DEF OwnHolders, Says, OneSays

(* Holders that agree say the same.                                        *)
LEMMA SameSays ==
  ASSUME NEW h, NEW g, \A k \in OwnHolders : g[k] = h[k]
  PROVE  Says(g) = Says(h) /\ (OneSays(g) <=> OneSays(h))
BY DEF Says, OneSays, OwnHolders

(* What setting one pointer changes.                                       *)
LEMMA PointsEffect ==
  ASSUME m_lock \in [HolderThreads -> [ScopedHolders -> BOOLEAN]], NEW t \in HolderThreads,
         NEW k \in ScopedHolders, NEW to \in BOOLEAN, Points(t, k, to)
  PROVE  /\ m_lock' \in [HolderThreads -> [ScopedHolders -> BOOLEAN]]
         /\ \A u \in HolderThreads \ {t} : m_lock'[u] = m_lock[u]
         /\ m_lock'[t][k] = to /\ \A j \in ScopedHolders \ {k} : m_lock'[t][j] = m_lock[t][j]
<1>1. m_lock' = [m_lock EXCEPT ![t] = [@ EXCEPT ![k] = to]]
  BY DEF Points
<1>2. m_lock[t] \in [ScopedHolders -> BOOLEAN]
  OBVIOUS
<1> DEFINE g == [m_lock[t] EXCEPT ![k] = to]
<1>3. g \in [ScopedHolders -> BOOLEAN] /\ g[k] = to /\ \A j \in ScopedHolders \ {k} : g[j] = m_lock[t][j]
  BY <1>2
<1>4. m_lock' = [m_lock EXCEPT ![t] = g]
  BY <1>1
<1> HIDE DEF g
<1> QED
  BY <1>3, <1>4

(* What handing a pointer over changes.                                    *)
LEMMA HandsEffect ==
  ASSUME m_lock \in [HolderThreads -> [ScopedHolders -> BOOLEAN]], NEW t \in HolderThreads,
         NEW from \in ScopedHolders, NEW to \in ScopedHolders, from # to, Hands(t, from, to)
  PROVE  /\ m_lock' \in [HolderThreads -> [ScopedHolders -> BOOLEAN]]
         /\ \A u \in HolderThreads \ {t} : m_lock'[u] = m_lock[u]
         /\ ~m_lock'[t][from] /\ m_lock'[t][to]
         /\ \A j \in ScopedHolders \ {from, to} : m_lock'[t][j] = m_lock[t][j]
<1> DEFINE f == [m_lock EXCEPT ![t] = [@ EXCEPT ![from] = FALSE]]
           g == [m_lock[t] EXCEPT ![from] = FALSE]
           e == [g EXCEPT ![to] = TRUE]
<1>1. m_lock' = [f EXCEPT ![t] = [@ EXCEPT ![to] = TRUE]]
  BY DEF Hands
<1>2. m_lock[t] \in [ScopedHolders -> BOOLEAN]
  OBVIOUS
<1>3. g \in [ScopedHolders -> BOOLEAN] /\ ~g[from] /\ \A j \in ScopedHolders \ {from} : g[j] = m_lock[t][j]
  BY <1>2
<1>4. f \in [HolderThreads -> [ScopedHolders -> BOOLEAN]] /\ f[t] = g
      /\ \A u \in HolderThreads \ {t} : f[u] = m_lock[u]
  BY <1>3
<1> HIDE DEF g
<1>5. /\ e \in [ScopedHolders -> BOOLEAN] /\ e[to] /\ ~e[from]
      /\ \A j \in ScopedHolders \ {from, to} : e[j] = m_lock[t][j]
  BY <1>3, Zenon
<1>6. m_lock' = [f EXCEPT ![t] = e]
  BY <1>1, <1>4, Zenon
<1> HIDE DEF e, f
<1> QED
  BY <1>4, <1>5, <1>6

(* How many read holders point to the lock, after one more or one less.    *)
LEMMA ReadersPoint ==
  ASSUME NEW h, NEW g
  PROVE  /\ Cardinality({k \in ReadHolders : h[k]}) \in Nat
         /\ (\A k \in ReadHolders : g[k] = h[k]) =>
              Cardinality({k \in ReadHolders : g[k]}) = Cardinality({k \in ReadHolders : h[k]})
         /\ \A i \in ReadHolders :
              ~h[i] /\ g[i] /\ (\A k \in ReadHolders \ {i} : g[k] = h[k]) =>
                Cardinality({k \in ReadHolders : g[k]}) = Cardinality({k \in ReadHolders : h[k]}) + 1
         /\ \A i \in ReadHolders :
              h[i] /\ ~g[i] /\ (\A k \in ReadHolders \ {i} : g[k] = h[k]) =>
                Cardinality({k \in ReadHolders : g[k]}) = Cardinality({k \in ReadHolders : h[k]}) - 1
<1> DEFINE H == {k \in ReadHolders : h[k]}
           G == {k \in ReadHolders : g[k]}
<1>1. IsFiniteSet(ReadHolders)
  <2>1. IsFiniteSet({"read1"})
    BY FS_Singleton
  <2>2. ReadHolders = {"read1"} \cup {"read2"}
    BY DEF ReadHolders
  <2> QED
    BY <2>1, <2>2, FS_AddElement
<1>2. IsFiniteSet(H) /\ Cardinality(H) \in Nat
  BY <1>1, FS_Subset, FS_CardinalityType
<1>3. (\A k \in ReadHolders : g[k] = h[k]) => G = H
  OBVIOUS
<1>4. ASSUME NEW i \in ReadHolders, ~h[i], g[i], \A k \in ReadHolders \ {i} : g[k] = h[k]
      PROVE  Cardinality(G) = Cardinality(H) + 1
  <2>1. i \notin H /\ G = H \cup {i}
    BY <1>4
  <2> QED
    BY <1>2, <2>1, CountStep
<1>5. ASSUME NEW i \in ReadHolders, h[i], ~g[i], \A k \in ReadHolders \ {i} : g[k] = h[k]
      PROVE  Cardinality(G) = Cardinality(H) - 1
  <2>1. i \in H /\ G = H \ {i}
    BY <1>5
  <2> QED
    BY <1>2, <2>1, CountStep
<1> QED
  BY <1>2, <1>3, <1>4, <1>5

(* How many shared holds a thread has, after one more or one less.         *)
LEMMA ReadersHeld ==
  ASSUME reads \in [Holds -> {"none", "failing", "held"}], NEW t \in Threads
  PROVE  /\ Cardinality(HeldRead(t)) \in Nat
         /\ UNCHANGED reads => Cardinality(HeldRead(t)') = Cardinality(HeldRead(t))
         /\ \A d \in 1 .. Depth, m \in {"none", "failing"} :
              /\ reads[<<t, d>>] # "held" /\ reads' = [reads EXCEPT ![<<t, d>>] = m] =>
                   Cardinality(HeldRead(t)') = Cardinality(HeldRead(t))
              /\ reads[<<t, d>>] = "held" /\ reads' = [reads EXCEPT ![<<t, d>>] = m] =>
                   Cardinality(HeldRead(t)') = Cardinality(HeldRead(t)) - 1
         /\ \A d \in 1 .. Depth :
              reads[<<t, d>>] # "held" /\ reads' = [reads EXCEPT ![<<t, d>>] = "held"] =>
                Cardinality(HeldRead(t)') = Cardinality(HeldRead(t)) + 1
<1>1. IsFiniteSet(HeldRead(t)) /\ Cardinality(HeldRead(t)) \in Nat
  <2>1. IsFiniteSet(1 .. Depth)
    BY DepthAssumption, FS_Interval
  <2> QED
    BY <2>1, FS_Subset, FS_CardinalityType, Zenon DEF HeldRead
<1>2. UNCHANGED reads => HeldRead(t)' = HeldRead(t)
  BY DEF HeldRead
<1>3. ASSUME NEW d \in 1 .. Depth, NEW m, reads' = [reads EXCEPT ![<<t, d>>] = m]
      PROVE  HeldRead(t)' = IF m = "held" THEN HeldRead(t) \cup {d} ELSE HeldRead(t) \ {d}
  <2>1. \A c \in 1 .. Depth : <<t, c>> \in Holds /\ (c # d => <<t, c>> # <<t, d>>)
    BY DEF Holds
  <2>2. reads'[<<t, d>>] = m /\ \A c \in 1 .. Depth : c # d => reads'[<<t, c>>] = reads[<<t, c>>]
    BY <1>3, <2>1
  <2> QED
    BY <2>2 DEF HeldRead
<1>4. \A d \in 1 .. Depth : d \in HeldRead(t) <=> reads[<<t, d>>] = "held"
  BY DEF HeldRead
<1>5. ASSUME NEW d \in 1 .. Depth, NEW m \in {"none", "failing"}, reads' = [reads EXCEPT ![<<t, d>>] = m]
      PROVE  /\ reads[<<t, d>>] # "held" => Cardinality(HeldRead(t)') = Cardinality(HeldRead(t))
             /\ reads[<<t, d>>] = "held" => Cardinality(HeldRead(t)') = Cardinality(HeldRead(t)) - 1
  <2>1. HeldRead(t)' = HeldRead(t) \ {d}
    BY <1>3, <1>5, Zenon
  <2>2. d \notin HeldRead(t) => HeldRead(t)' = HeldRead(t)
    BY <2>1
  <2> QED
    BY <1>1, <1>4, <2>1, <2>2, CountStep, Zenon
<1>6. ASSUME NEW d \in 1 .. Depth, reads[<<t, d>>] # "held", reads' = [reads EXCEPT ![<<t, d>>] = "held"]
      PROVE  Cardinality(HeldRead(t)') = Cardinality(HeldRead(t)) + 1
  <2>1. HeldRead(t)' = HeldRead(t) \cup {d} /\ d \notin HeldRead(t)
    BY <1>3, <1>4, <1>6, Zenon
  <2> QED
    BY <1>1, <2>1, CountStep
<1> QED
  BY <1>1, <1>2, <1>5, <1>6


(* A step of one thread's holders needs only be looked at for that thread. *)
LEMMA HolderStep ==
  ASSUME HoldersInv, NEW t \in HolderThreads, [LockNext]_lockVars,
         m_lock' \in [HolderThreads -> [ScopedHolders -> BOOLEAN]],
         \A u \in HolderThreads \ {t} : m_lock'[u] = m_lock[u],
         task' \in [HolderThreads -> {"none", "lock_shared", "lock_upgrade", "lock",
                                      "upgrade_and_lock", "finish_shared", "finish_upgrade"}],
         \A u \in HolderThreads \ {t} : task'[u] = task[u],
         \/ UNCHANGED reads
         \/ \E d \in 1 .. Depth, m \in {"none", "failing", "held"} : reads' = [reads EXCEPT ![<<t, d>>] = m],
         UNCHANGED owner \/ \E m : owner' = [owner EXCEPT ![t] = m],
         SaysSo(task'[t], m_lock'[t], owner'[t]),
         Cardinality({k \in ReadHolders : m_lock'[t][k]}) =
           Cardinality(HeldRead(t)') + IF task'[t] = "lock_shared" THEN 1 ELSE 0
  PROVE  HoldersInv'
<1>1. LockInv'
  BY NextLockInv DEF HoldersInv
<1>2. ASSUME NEW u \in HolderThreads, u # t
      PROVE  SaysSo(task'[u], m_lock'[u], owner'[u]) /\ ReadsSo(u)'
  <2>1. task'[u] = task[u] /\ m_lock'[u] = m_lock[u]
    BY <1>2
  <2>2. owner'[u] = owner[u]
    BY <1>2, HolderThreadsAssumption DEF HoldersInv, LockInv, LockTypeOK
  <2>3. \A d \in 1 .. Depth : reads'[<<u, d>>] = reads[<<u, d>>]
    <3>1. \A c, d \in 1 .. Depth : <<u, c>> \in Holds /\ <<u, c>> # <<t, d>>
      BY <1>2, HolderThreadsAssumption DEF Holds
    <3> QED
      BY <3>1, Zenon DEF HoldersInv, LockInv, LockTypeOK
  <2>4. HeldRead(u)' = HeldRead(u)
    BY <2>3 DEF HeldRead
  <2>5. SaysSo(task[u], m_lock[u], owner[u]) /\ ReadsSo(u)
    BY DEF HoldersInv
  <2> QED
    BY <2>1, <2>2, <2>4, <2>5 DEF ReadsSo
<1>3. ReadsSo(t)'
  BY DEF ReadsSo
<1>4. \A u \in HolderThreads : SaysSo(task[u], m_lock[u], owner[u])' /\ ReadsSo(u)'
  <2>1. \A u \in HolderThreads : SaysSo(task[u], m_lock[u], owner[u])' <=> SaysSo(task'[u], m_lock'[u], owner'[u])
    BY SaysNext, Zenon
  <2>2. ASSUME NEW u \in HolderThreads
        PROVE  SaysSo(task'[u], m_lock'[u], owner'[u]) /\ ReadsSo(u)'
    <3>1. CASE u = t
      BY <1>3, <3>1, Zenon
    <3>2. CASE u # t
      BY <1>2, <3>2, Zenon
    <3> QED
      BY <3>1, <3>2
  <2> QED
    BY <2>1, <2>2, Zenon
<1> QED
  BY <1>1, <1>4 DEF HoldersInv

(* The kinds of holders.                                                   *)
LEMMA HolderKinds ==
  /\ \A k \in ReadHolders : k \in ScopedHolders /\ k \notin OwnHolders
  /\ \A k \in OwnHolders : k \in ScopedHolders /\ k \notin ReadHolders
  /\ \A k \in UpgradedHolders : k \in OwnHolders /\ k \notin WriteHolders
  /\ \A k \in WriteHolders : k \in OwnHolders /\ k \notin UpgradedHolders
  /\ \A k \in ScopedHolders : k \in OwnHolders \/ k \in ReadHolders
BY DEF OwnHolders, ReadHolders, UpgradedHolders, WriteHolders, ScopedHolders

(* What the invariant says of a thread outside a call.                     *)
LEMMA ReadySays ==
  ASSUME HoldersInv, NEW t \in HolderThreads
  PROVE  /\ m_lock \in [HolderThreads -> [ScopedHolders -> BOOLEAN]]
         /\ reads \in [Holds -> {"none", "failing", "held"}] /\ t \in Threads
         /\ owner \in [Threads -> {"none", "upgraded", "writer", "toShared", "toUpgraded"}]
         /\ Cardinality(HeldRead(t)) \in Nat
         /\ task[t] \in {"none", "lock_shared"} => OneSays(m_lock[t]) /\ owner[t] = Says(m_lock[t])
         /\ task[t] # "lock_shared" =>
              Cardinality({j \in ReadHolders : m_lock[t][j]}) = Cardinality(HeldRead(t))
         /\ task[t] = "lock_shared" =>
              Cardinality({j \in ReadHolders : m_lock[t][j]}) = Cardinality(HeldRead(t)) + 1
<1>1. SaysSo(task[t], m_lock[t], owner[t]) /\ ReadsSo(t)
  BY DEF HoldersInv
<1>2. /\ reads \in [Holds -> {"none", "failing", "held"}] /\ t \in Threads
      /\ owner \in [Threads -> {"none", "upgraded", "writer", "toShared", "toUpgraded"}]
  BY HolderThreadsAssumption DEF HoldersInv, LockInv, LockTypeOK
<1>3. Cardinality(HeldRead(t)) \in Nat
  BY <1>2, ReadersHeld
<1> QED
  BY <1>1, <1>2, <1>3 DEF HoldersInv, SaysSo, ReadsSo

(* The constructors: the holder points to the lock before it has it.       *)
LEMMA TakesKeepInv ==
  ASSUME HoldersInv, NEW t \in HolderThreads, NEW k \in ScopedHolders,
         \/ k \in ReadHolders /\ read_holder(t, k)
         \/ k \in UpgradedHolders /\ upgraded_holder(t, k)
         \/ k \in WriteHolders /\ write_holder(t, k)
  PROVE  HoldersInv'
<1> DEFINE h == m_lock[t]
           g == m_lock'[t]
           op == IF k \in ReadHolders THEN "lock_shared" ELSE IF k \in UpgradedHolders THEN "lock_upgrade"
                 ELSE "lock"
<1>1. /\ ReadHolders \cap UpgradedHolders = {} /\ ReadHolders \cap WriteHolders = {}
      /\ UpgradedHolders \cap WriteHolders = {}
      /\ OwnHolders \subseteq ScopedHolders /\ ReadHolders \subseteq ScopedHolders
      /\ OwnHolders \cap ReadHolders = {}
      /\ k \in OwnHolders \/ k \in ReadHolders
  BY HolderKinds
<1>2. /\ task[t] = "none" /\ ~h[k] /\ Points(t, k, TRUE) /\ Becomes(t, op) /\ UNCHANGED lockVars
  BY <1>1, Zenon DEF read_holder, upgraded_holder, write_holder, Ready
<1>3. /\ m_lock \in [HolderThreads -> [ScopedHolders -> BOOLEAN]]
      /\ OneSays(h) /\ owner[t] = Says(h)
      /\ Cardinality({j \in ReadHolders : h[j]}) = Cardinality(HeldRead(t))
      /\ reads \in [Holds -> {"none", "failing", "held"}] /\ t \in Threads
  BY <1>2, ReadySays, Zenon
<1>4. /\ m_lock' \in [HolderThreads -> [ScopedHolders -> BOOLEAN]]
      /\ \A u \in HolderThreads \ {t} : m_lock'[u] = m_lock[u]
      /\ g[k] /\ \A j \in ScopedHolders \ {k} : g[j] = h[j]
  BY <1>2, <1>3, PointsEffect, Zenon
<1>5. /\ task' \in [HolderThreads -> {"none", "lock_shared", "lock_upgrade", "lock", "upgrade_and_lock",
                                      "finish_shared", "finish_upgrade"}]
      /\ task'[t] = op /\ \A u \in HolderThreads \ {t} : task'[u] = task[u]
  BY <1>2 DEF HoldersInv, Becomes
<1>6. UNCHANGED <<owner, reads>>
  BY <1>2 DEF lockVars
<1>7. Cardinality(HeldRead(t)') = Cardinality(HeldRead(t)) /\ Cardinality(HeldRead(t)) \in Nat
  <2>1. reads \in [Holds -> {"none", "failing", "held"}] /\ t \in Threads
    BY <1>3, Zenon
  <2> QED
    BY <1>6, <2>1, ReadersHeld, Zenon
<1> HIDE DEF h, g
<1>8. CASE k \in ReadHolders
  <2>1. op = "lock_shared" /\ Says(g) = Says(h) /\ OneSays(g)
    <3>1. \A j \in OwnHolders : g[j] = h[j]
      BY <1>1, <1>4, <1>8
    <3> QED
      BY <1>3, <1>8, <3>1, SameSays, Zenon
  <2>2. Cardinality({j \in ReadHolders : g[j]}) = Cardinality({j \in ReadHolders : h[j]}) + 1
    <3>1. ~h[k] /\ g[k] /\ \A j \in ReadHolders \ {k} : g[j] = h[j]
      BY <1>1, <1>2, <1>4
    <3> QED
      BY <1>8, <3>1, ReadersPoint, Zenon
  <2>3. SaysSo(op, g, owner'[t])
    BY <1>3, <1>6, <2>1 DEF SaysSo
  <2>4. Cardinality({j \in ReadHolders : g[j]}) = Cardinality(HeldRead(t)') + 1
    BY <1>3, <1>7, <2>2
  <2>5. [LockNext]_lockVars /\ task'[t] = "lock_shared"
    BY <1>2, <1>5, <2>1
  <2> QED
    BY <1>4, <1>5, <1>6, <2>3, <2>4, <2>5, HolderStep DEF g
<1>9. CASE k \in OwnHolders
  <2>1. op = IF k \in UpgradedHolders THEN "lock_upgrade" ELSE "lock"
    BY <1>1, <1>9
  <2>2. Cardinality({j \in ReadHolders : g[j]}) = Cardinality({j \in ReadHolders : h[j]})
    <3>1. \A j \in ReadHolders : g[j] = h[j]
      BY <1>1, <1>4, <1>9
    <3> QED
      BY <3>1, ReadersPoint
  <2>3. owner[t] = "none" => OneSays(g) /\ Says(g) = IF k \in UpgradedHolders THEN "upgraded" ELSE "writer"
    <3>1. owner[t] = "none" => \A j \in OwnHolders \ {k} : ~g[j]
      BY <1>1, <1>3, <1>4, OneHolder, Zenon
    <3> QED
      BY <1>4, <1>9, <3>1, OneHolder
  <2>4. SaysSo(op, g, owner'[t])
    BY <1>6, <2>1, <2>3 DEF SaysSo
  <2>5. Cardinality({j \in ReadHolders : g[j]}) = Cardinality(HeldRead(t)') + 0
    BY <1>3, <1>7, <2>2
  <2>6. [LockNext]_lockVars /\ task'[t] # "lock_shared"
    BY <1>2, <1>5, <2>1
  <2> QED
    BY <1>4, <1>5, <1>6, <2>4, <2>5, <2>6, HolderStep DEF g
<1> QED
  BY <1>1, <1>8, <1>9

(* The destructors: one hold less of the kind the holder says.             *)
LEMMA DropsKeepInv ==
  ASSUME HoldersInv, NEW t \in HolderThreads, NEW k \in ScopedHolders,
         \/ k \in ReadHolders /\ drop_read_holder(t, k)
         \/ k \in UpgradedHolders /\ drop_upgraded_holder(t, k)
         \/ k \in WriteHolders /\ drop_write_holder(t, k)
  PROVE  HoldersInv'
<1> DEFINE h == m_lock[t]
           g == m_lock'[t]
<1>1. task[t] = "none" /\ h[k] /\ Points(t, k, FALSE) /\ UNCHANGED task
  BY Zenon DEF drop_read_holder, drop_upgraded_holder, drop_write_holder, Ready
<1>2. /\ m_lock \in [HolderThreads -> [ScopedHolders -> BOOLEAN]]
      /\ reads \in [Holds -> {"none", "failing", "held"}] /\ t \in Threads
      /\ owner \in [Threads -> {"none", "upgraded", "writer", "toShared", "toUpgraded"}]
      /\ OneSays(h) /\ owner[t] = Says(h)
      /\ Cardinality({j \in ReadHolders : h[j]}) = Cardinality(HeldRead(t))
      /\ Cardinality(HeldRead(t)) \in Nat
  BY <1>1, ReadySays, Zenon
<1>3. /\ m_lock' \in [HolderThreads -> [ScopedHolders -> BOOLEAN]]
      /\ \A u \in HolderThreads \ {t} : m_lock'[u] = m_lock[u]
      /\ ~g[k] /\ \A j \in ScopedHolders \ {k} : g[j] = h[j]
  BY <1>1, <1>2, PointsEffect, Zenon
<1>4. /\ task' \in [HolderThreads -> {"none", "lock_shared", "lock_upgrade", "lock", "upgrade_and_lock",
                                      "finish_shared", "finish_upgrade"}]
      /\ task'[t] = "none" /\ \A u \in HolderThreads \ {t} : task'[u] = task[u]
  BY <1>1 DEF HoldersInv
<1> HIDE DEF h, g
<1>5. CASE k \in ReadHolders
  <2>1. PICK d \in HeldRead(t) : unlock_shared(<<t, d>>)
    BY <1>5, HolderKinds, Zenon DEF drop_read_holder
  <2>2. /\ d \in 1 .. Depth /\ <<t, d>> \in Holds /\ UNCHANGED owner
        /\ reads[<<t, d>>] = "held" /\ reads' = [reads EXCEPT ![<<t, d>>] = "none"]
    BY <1>2, <2>1 DEF HeldRead, Holds, unlock_shared, Hold
  <2>3. LockNext
    BY <2>1, <2>2 DEF LockNext
  <2>4. Cardinality(HeldRead(t)') = Cardinality(HeldRead(t)) - 1
    <3>1. reads \in [Holds -> {"none", "failing", "held"}] /\ t \in Threads
      BY <1>2, Zenon
    <3> QED
      BY <2>2, <3>1, ReadersHeld, Zenon
  <2>5. Cardinality({j \in ReadHolders : g[j]}) = Cardinality({j \in ReadHolders : h[j]}) - 1
    <3>1. h[k] /\ ~g[k] /\ \A j \in ReadHolders \ {k} : g[j] = h[j]
      BY <1>1, <1>3, HolderKinds
    <3>2. \A i \in ReadHolders :
            h[i] /\ ~g[i] /\ (\A j \in ReadHolders \ {i} : g[j] = h[j]) =>
              Cardinality({j \in ReadHolders : g[j]}) = Cardinality({j \in ReadHolders : h[j]}) - 1
      BY ReadersPoint
    <3> QED
      BY <1>5, <3>1, <3>2
  <2>6. Says(g) = Says(h) /\ OneSays(g)
    <3>1. \A j \in OwnHolders : g[j] = h[j]
      BY <1>3, <1>5, HolderKinds
    <3>2. OneSays(h)
      BY <1>2, Zenon
    <3> QED
      BY <3>1, <3>2, SameSays
  <2>7. SaysSo("none", g, owner'[t])
    BY <1>2, <2>2, <2>6 DEF SaysSo
  <2>8. Cardinality({j \in ReadHolders : g[j]}) = Cardinality(HeldRead(t)') + 0
    BY <1>2, <2>4, <2>5
  <2> QED
    BY <1>3, <1>4, <2>2, <2>3, <2>7, <2>8, HolderStep, Zenon DEF g
<1>6. CASE k \in OwnHolders
  <2>1. UNCHANGED reads /\ LockNext /\ owner' = [owner EXCEPT ![t] = "none"]
    <3>1. unlock_upgrade(t) \/ unlock(t)
      BY <1>6, HolderKinds, Zenon DEF drop_upgraded_holder, drop_write_holder
    <3> QED
      BY <1>2, <3>1 DEF LockNext, unlock_upgrade, unlock, Own
  <2>2. Cardinality(HeldRead(t)') = Cardinality(HeldRead(t))
    BY <1>2, <2>1, ReadersHeld
  <2>3. Cardinality({j \in ReadHolders : g[j]}) = Cardinality({j \in ReadHolders : h[j]})
    <3>1. \A j \in ReadHolders : g[j] = h[j]
      BY <1>3, <1>6, HolderKinds
    <3> QED
      BY <3>1, ReadersPoint
  <2>4. Says(g) = "none" /\ OneSays(g)
    <3>1. \A j \in OwnHolders \ {k} : ~h[j]
      BY <1>1, <1>2, <1>6, OneHolder
    <3>2. \A j \in OwnHolders : ~g[j]
      BY <1>3, <3>1, HolderKinds
    <3> QED
      BY <3>2, OneHolder
  <2>5. SaysSo("none", g, owner'[t])
    BY <1>2, <2>1, <2>4 DEF SaysSo
  <2>6. Cardinality({j \in ReadHolders : g[j]}) = Cardinality(HeldRead(t)') + 0
    BY <1>2, <2>2, <2>3
  <2> QED
    BY <1>3, <1>4, <2>1, <2>5, <2>6, HolderStep, Zenon DEF g
<1> QED
  BY <1>5, <1>6, HolderKinds

(* Moves between holders of one kind: nothing of the lock changes hands.   *)
LEMMA MovesKeepInv ==
  ASSUME HoldersInv, NEW t \in HolderThreads, NEW from \in ScopedHolders, NEW to \in ScopedHolders,
         \/ from \in ReadHolders /\ to \in ReadHolders
         \/ from \in UpgradedHolders /\ to \in UpgradedHolders
         \/ from \in WriteHolders /\ to \in WriteHolders,
         task[t] = "none", UNCHANGED <<lockVars, task>>, m_lock[t][from], ~m_lock[t][to],
         m_lock' \in [HolderThreads -> [ScopedHolders -> BOOLEAN]],
         \A u \in HolderThreads \ {t} : m_lock'[u] = m_lock[u],
         ~m_lock'[t][from], m_lock'[t][to],
         \A j \in ScopedHolders \ {from, to} : m_lock'[t][j] = m_lock[t][j]
  PROVE  HoldersInv'
<1> DEFINE h == m_lock[t]
           g == m_lock'[t]
<1>1. h[from] /\ ~h[to] /\ ~g[from] /\ g[to] /\ \A j \in ScopedHolders \ {from, to} : g[j] = h[j]
  OBVIOUS
<1>2. /\ reads \in [Holds -> {"none", "failing", "held"}] /\ t \in Threads
      /\ OneSays(h) /\ owner[t] = Says(h)
      /\ Cardinality({j \in ReadHolders : h[j]}) = Cardinality(HeldRead(t))
      /\ Cardinality(HeldRead(t)) \in Nat
  BY ReadySays, Zenon
<1>3. /\ task' \in [HolderThreads -> {"none", "lock_shared", "lock_upgrade", "lock", "upgrade_and_lock",
                                      "finish_shared", "finish_upgrade"}]
      /\ task'[t] = "none" /\ \A u \in HolderThreads \ {t} : task'[u] = task[u]
  BY DEF HoldersInv
<1>4. UNCHANGED <<owner, reads>> /\ UNCHANGED lockVars
  BY DEF lockVars
<1>5. Cardinality(HeldRead(t)') = Cardinality(HeldRead(t))
  BY <1>2, <1>4, ReadersHeld
<1> HIDE DEF h, g
<1>6. /\ Cardinality({j \in ReadHolders : g[j]}) = Cardinality({j \in ReadHolders : h[j]})
      /\ Says(g) = Says(h) /\ OneSays(g)
  <2>1. CASE from \in ReadHolders /\ to \in ReadHolders
    <3>1. \A j \in OwnHolders : g[j] = h[j]
      BY <1>1, <2>1, HolderKinds
    <3>2. Says(g) = Says(h) /\ OneSays(g)
      BY <1>2, <3>1, SameSays
    <3>3. Cardinality({j \in ReadHolders : g[j]}) = Cardinality({j \in ReadHolders : h[j]})
      <4>1. h[from] /\ ~g[from] /\ ~h[to] /\ g[to]
        BY <1>1
      <4>2. {j \in ReadHolders : h[j]} = {from} /\ {j \in ReadHolders : g[j]} = {to}
        BY <2>1, <4>1 DEF ReadHolders
      <4> QED
        BY <4>2, FS_Singleton, ZenonT(30)
    <3> QED
      BY <3>2, <3>3
  <2>2. CASE from \in OwnHolders /\ to \in OwnHolders /\ (from \in UpgradedHolders <=> to \in UpgradedHolders)
    <3>1. \A j \in ReadHolders : g[j] = h[j]
      BY <1>1, <2>2, HolderKinds
    <3>2. \A j \in OwnHolders \ {from} : ~h[j]
      BY <1>1, <1>2, <2>2, OneHolder
    <3>3. \A j \in OwnHolders \ {to} : ~g[j]
      BY <1>1, <3>2, HolderKinds
    <3>4. Says(h) = IF from \in UpgradedHolders THEN "upgraded" ELSE "writer"
      BY <1>1, <2>2, <3>2, OneHolder
    <3>5. OneSays(g) /\ Says(g) = IF to \in UpgradedHolders THEN "upgraded" ELSE "writer"
      BY <1>1, <2>2, <3>3, OneHolder
    <3> QED
      BY <2>2, <3>1, <3>4, <3>5, ReadersPoint
  <2> QED
    BY <2>1, <2>2, HolderKinds
<1>7. SaysSo("none", g, owner'[t])
  BY <1>2, <1>4, <1>6 DEF SaysSo
<1>8. Cardinality({j \in ReadHolders : g[j]}) = Cardinality(HeldRead(t)') + 0
  BY <1>2, <1>5, <1>6
<1> QED
  BY <1>3, <1>4, <1>7, <1>8, HolderStep DEF g

(* What an exchange changes.                                               *)
LEMMA ExchangeEffect ==
  ASSUME m_lock \in [HolderThreads -> [ScopedHolders -> BOOLEAN]], NEW t \in HolderThreads,
         NEW j \in ScopedHolders, NEW k \in ScopedHolders, j # k, Exchange(t, j, k)
  PROVE  /\ m_lock' \in [HolderThreads -> [ScopedHolders -> BOOLEAN]]
         /\ \A u \in HolderThreads \ {t} : m_lock'[u] = m_lock[u]
         /\ m_lock'[t][j] = m_lock[t][k] /\ m_lock'[t][k] = m_lock[t][j]
         /\ \A i \in ScopedHolders \ {j, k} : m_lock'[t][i] = m_lock[t][i]
<1> DEFINE a == m_lock[t][k]
           b == m_lock[t][j]
           f == [m_lock EXCEPT ![t] = [@ EXCEPT ![j] = a]]
           g == [m_lock[t] EXCEPT ![j] = a]
           e == [g EXCEPT ![k] = b]
<1>1. m_lock' = [f EXCEPT ![t] = [@ EXCEPT ![k] = b]]
  BY DEF Exchange
<1>2. m_lock[t] \in [ScopedHolders -> BOOLEAN] /\ a \in BOOLEAN /\ b \in BOOLEAN
  OBVIOUS
<1> HIDE DEF a, b
<1>3. g \in [ScopedHolders -> BOOLEAN] /\ g[j] = a /\ \A i \in ScopedHolders \ {j} : g[i] = m_lock[t][i]
  BY <1>2
<1>4. f \in [HolderThreads -> [ScopedHolders -> BOOLEAN]] /\ f[t] = g
      /\ \A u \in HolderThreads \ {t} : f[u] = m_lock[u]
  BY <1>3
<1> HIDE DEF g
<1>5. /\ e \in [ScopedHolders -> BOOLEAN] /\ e[k] = b /\ e[j] = a
      /\ \A i \in ScopedHolders \ {j, k} : e[i] = m_lock[t][i]
  BY <1>2, <1>3
<1>6. m_lock' = [f EXCEPT ![t] = e]
  BY <1>1, <1>4, Zenon
<1> HIDE DEF e, f
<1>7. /\ m_lock' \in [HolderThreads -> [ScopedHolders -> BOOLEAN]] /\ m_lock'[t] = e
      /\ \A u \in HolderThreads \ {t} : m_lock'[u] = m_lock[u]
  BY <1>4, <1>5, <1>6
<1> QED
  BY <1>5, <1>7 DEF a, b

(* The moves and the swaps.                                                *)
LEMMA SwapsKeepInv ==
  ASSUME HoldersInv, NEW t \in HolderThreads,
         \/ move_read(t) \/ move_upgraded(t) \/ move_write(t)
         \/ swap_read(t) \/ swap_upgraded(t) \/ swap_write(t)
  PROVE  HoldersInv'
<1>1. m_lock \in [HolderThreads -> [ScopedHolders -> BOOLEAN]]
  BY DEF HoldersInv
<1> DEFINE Alike(j, k) == \/ j \in ReadHolders /\ k \in ReadHolders
                          \/ j \in UpgradedHolders /\ k \in UpgradedHolders
                          \/ j \in WriteHolders /\ k \in WriteHolders
<1>2. ASSUME NEW j \in ScopedHolders, NEW k \in ScopedHolders, j # k, Alike(j, k), move(t, j, k)
      PROVE  HoldersInv'
  <2>1. task[t] = "none" /\ UNCHANGED <<lockVars, task>> /\ m_lock[t][j] /\ ~m_lock[t][k] /\ Hands(t, j, k)
    BY <1>2 DEF move, Ready
  <2>2. /\ m_lock' \in [HolderThreads -> [ScopedHolders -> BOOLEAN]]
        /\ \A u \in HolderThreads \ {t} : m_lock'[u] = m_lock[u]
        /\ ~m_lock'[t][j] /\ m_lock'[t][k]
        /\ \A i \in ScopedHolders \ {j, k} : m_lock'[t][i] = m_lock[t][i]
    BY <1>1, <1>2, <2>1, HandsEffect
  <2> QED
    BY <1>2, <2>1, <2>2, MovesKeepInv, Zenon
<1>3. ASSUME NEW j \in ScopedHolders, NEW k \in ScopedHolders, j # k, Alike(j, k), Alike(k, j),
             Exchange(t, j, k)
      PROVE  HoldersInv'
  <2>1. task[t] = "none" /\ UNCHANGED <<lockVars, task>> /\ m_lock[t][j] # m_lock[t][k]
    BY <1>3 DEF Exchange, Ready
  <2>2. m_lock[t][j] \in BOOLEAN /\ m_lock[t][k] \in BOOLEAN
    BY <1>1
  <2>3. /\ m_lock' \in [HolderThreads -> [ScopedHolders -> BOOLEAN]]
        /\ \A u \in HolderThreads \ {t} : m_lock'[u] = m_lock[u]
        /\ m_lock'[t][j] = m_lock[t][k] /\ m_lock'[t][k] = m_lock[t][j]
        /\ \A i \in ScopedHolders \ {j, k} : m_lock'[t][i] = m_lock[t][i]
    BY <1>1, <1>3, ExchangeEffect
  <2>4. CASE m_lock[t][j] /\ ~m_lock[t][k]
    BY <1>3, <2>1, <2>3, <2>4, MovesKeepInv, Zenon
  <2>5. CASE ~m_lock[t][j] /\ m_lock[t][k]
    BY <1>3, <2>1, <2>3, <2>5, MovesKeepInv, Zenon
  <2> QED
    BY <2>1, <2>2, <2>4, <2>5, Zenon
<1>4. CASE move_read(t) \/ move_upgraded(t) \/ move_write(t)
  BY <1>2, <1>4, HolderKinds DEF move_read, move_upgraded, move_write
<1>5. CASE swap_read(t) \/ swap_upgraded(t) \/ swap_write(t)
  <2>1. /\ {"read1", "read2"} = ReadHolders /\ {"upgraded1", "upgraded2"} = UpgradedHolders
        /\ {"write1", "write2"} = WriteHolders /\ "read1" # "read2" /\ "upgraded1" # "upgraded2"
        /\ "write1" # "write2"
    BY DEF ReadHolders, UpgradedHolders, WriteHolders
  <2> QED
    BY <1>3, <1>5, <2>1, HolderKinds DEF swap_read, swap_upgraded, swap_write
<1> QED
  BY <1>4, <1>5

(* A holder made from one of another kind.                                 *)
LEMMA ConversionsKeepInv ==
  ASSUME HoldersInv, NEW t \in HolderThreads, NEW from \in OwnHolders, NEW k \in ScopedHolders,
         \/ from \in UpgradedHolders /\ k \in ReadHolders /\ read_from_upgraded(t, from, k)
         \/ from \in WriteHolders /\ k \in ReadHolders /\ read_from_write(t, from, k)
         \/ from \in WriteHolders /\ k \in UpgradedHolders /\ upgraded_from_write(t, from, k)
         \/ from \in UpgradedHolders /\ k \in WriteHolders /\ write_from_upgraded(t, from, k)
  PROVE  HoldersInv'
<1> DEFINE h == m_lock[t]
           g == m_lock'[t]
<1>1. task[t] = "none" /\ h[from] /\ ~h[k] /\ Hands(t, from, k) /\ from # k /\ from \in ScopedHolders
  BY HolderKinds, Zenon DEF read_from_upgraded, read_from_write, upgraded_from_write, write_from_upgraded, Ready
<1>2. /\ m_lock \in [HolderThreads -> [ScopedHolders -> BOOLEAN]]
      /\ reads \in [Holds -> {"none", "failing", "held"}] /\ t \in Threads
      /\ owner \in [Threads -> {"none", "upgraded", "writer", "toShared", "toUpgraded"}]
      /\ OneSays(h) /\ owner[t] = Says(h)
      /\ Cardinality({j \in ReadHolders : h[j]}) = Cardinality(HeldRead(t))
      /\ Cardinality(HeldRead(t)) \in Nat
  BY <1>1, ReadySays
<1>3. /\ m_lock' \in [HolderThreads -> [ScopedHolders -> BOOLEAN]]
      /\ \A u \in HolderThreads \ {t} : m_lock'[u] = m_lock[u]
      /\ ~g[from] /\ g[k] /\ \A j \in ScopedHolders \ {from, k} : g[j] = h[j]
  BY <1>1, <1>2, HandsEffect
<1> HIDE DEF h, g
<1>4. \A j \in OwnHolders \ {from} : ~h[j]
  BY <1>1, <1>2, OneHolder
<1>5. Says(h) = IF from \in UpgradedHolders THEN "upgraded" ELSE "writer"
  BY <1>1, <1>4, OneHolder
<1>6. \A op \in {"none", "lock_shared", "lock_upgrade", "lock", "upgrade_and_lock",
                 "finish_shared", "finish_upgrade"} :
        task' = [task EXCEPT ![t] = op] =>
          /\ task' \in [HolderThreads -> {"none", "lock_shared", "lock_upgrade", "lock", "upgrade_and_lock",
                                          "finish_shared", "finish_upgrade"}]
          /\ task'[t] = op /\ \A u \in HolderThreads \ {t} : task'[u] = task[u]
  BY DEF HoldersInv
<1>7. CASE k \in ReadHolders
  <2>1. Says(g) = "none" /\ OneSays(g)
    <3>1. \A j \in OwnHolders : ~g[j]
      BY <1>3, <1>4, <1>7, HolderKinds, Zenon
    <3> QED
      BY <3>1, OneHolder
  <2>2. PICK d \in FreeRead(t) :
          \/ unlock_upgrade_and_lock_shared(<<t, d>>) /\ UNCHANGED task
          \/ unlock_and_lock_shared(<<t, d>>) /\ Becomes(t, "finish_shared")
    BY <1>7, HolderKinds DEF read_from_upgraded, read_from_write
  <2>3. /\ d \in 1 .. Depth /\ <<t, d>> \in Holds /\ <<t, d>>[1] = t
        /\ reads[<<t, d>>] = "none" /\ reads' = [reads EXCEPT ![<<t, d>>] = "held"]
    BY <1>2, <2>2 DEF FreeRead, Holds, unlock_upgrade_and_lock_shared, unlock_and_lock_shared, Hold
  <2>4. LockNext
    BY <2>2, <2>3 DEF LockNext
  <2>5. Cardinality(HeldRead(t)') = Cardinality(HeldRead(t)) + 1
    BY <1>2, <2>3, ReadersHeld, ZenonT(30)
  <2>6. Cardinality({j \in ReadHolders : g[j]}) = Cardinality({j \in ReadHolders : h[j]}) + 1
    <3>1. ~h[k] /\ g[k] /\ \A j \in ReadHolders \ {k} : g[j] = h[j]
      BY <1>1, <1>3, HolderKinds, Zenon
    <3> QED
      <4>1. \A i \in ReadHolders :
              ~h[i] /\ g[i] /\ (\A j \in ReadHolders \ {i} : g[j] = h[j]) =>
                Cardinality({j \in ReadHolders : g[j]}) = Cardinality({j \in ReadHolders : h[j]}) + 1
        BY ReadersPoint, Zenon
      <4> QED
        BY <1>7, <3>1, <4>1, Zenon
  <2>7. Cardinality({j \in ReadHolders : g[j]}) = Cardinality(HeldRead(t)') + 0
    <3>1. /\ Cardinality({j \in ReadHolders : h[j]}) = Cardinality(HeldRead(t))
          /\ Cardinality(HeldRead(t)) \in Nat
      BY <1>2, Zenon
    <3> QED
      BY <2>5, <2>6, <3>1
  <2>8. CASE unlock_upgrade_and_lock_shared(<<t, d>>) /\ UNCHANGED task
    <3>1. owner' = [owner EXCEPT ![t] = "none"]
      BY <2>3, <2>8 DEF unlock_upgrade_and_lock_shared, Own
    <3>2. task' = [task EXCEPT ![t] = "none"]
      BY <1>1, <2>8 DEF HoldersInv
    <3>3. SaysSo("none", g, owner'[t])
      BY <1>2, <2>1, <3>1 DEF SaysSo
    <3>4. /\ task' \in [HolderThreads -> {"none", "lock_shared", "lock_upgrade", "lock", "upgrade_and_lock",
                                          "finish_shared", "finish_upgrade"}]
          /\ task'[t] = "none" /\ \A u \in HolderThreads \ {t} : task'[u] = task[u]
      BY <1>6, <3>2
    <3> QED
      BY <1>3, <2>3, <2>4, <2>7, <3>1, <3>3, <3>4, HolderStep, Zenon DEF g
  <2>9. CASE unlock_and_lock_shared(<<t, d>>) /\ Becomes(t, "finish_shared")
    <3>1. owner' = [owner EXCEPT ![t] = "toShared"]
      BY <2>3, <2>9 DEF unlock_and_lock_shared, Own
    <3>2. task' = [task EXCEPT ![t] = "finish_shared"]
      BY <2>9 DEF Becomes
    <3>3. SaysSo("finish_shared", g, owner'[t])
      BY <1>2, <2>1, <3>1 DEF SaysSo
    <3>4. /\ task' \in [HolderThreads -> {"none", "lock_shared", "lock_upgrade", "lock", "upgrade_and_lock",
                                          "finish_shared", "finish_upgrade"}]
          /\ task'[t] = "finish_shared" /\ \A u \in HolderThreads \ {t} : task'[u] = task[u]
      BY <1>6, <3>2
    <3> QED
      BY <1>3, <2>3, <2>4, <2>7, <3>1, <3>3, <3>4, HolderStep, Zenon DEF g
  <2> QED
    BY <2>2, <2>8, <2>9
<1>8. CASE k \in OwnHolders
  <2>1. OneSays(g) /\ Says(g) = IF k \in UpgradedHolders THEN "upgraded" ELSE "writer"
    <3>1. \A j \in OwnHolders \ {k} : ~g[j]
      BY <1>3, <1>4, HolderKinds, Zenon
    <3> QED
      BY <1>3, <1>8, <3>1, OneHolder, Zenon
  <2>2. Cardinality({j \in ReadHolders : g[j]}) = Cardinality({j \in ReadHolders : h[j]})
    <3>1. \A j \in ScopedHolders \ {from, k} : g[j] = h[j]
      BY <1>3, Zenon
    <3>2. \A j \in ReadHolders : j \in ScopedHolders \ {from, k}
      BY <1>8, HolderKinds
    <3>3. \A j \in ReadHolders : g[j] = h[j]
      BY <3>1, <3>2, Zenon
    <3> QED
      BY <3>3, ReadersPoint, Zenon
  <2>3. ASSUME UNCHANGED reads PROVE Cardinality({j \in ReadHolders : g[j]}) = Cardinality(HeldRead(t)') + 0
    <3>1. Cardinality(HeldRead(t)') = Cardinality(HeldRead(t))
      BY <1>2, <2>3, ReadersHeld
    <3>2. Cardinality({j \in ReadHolders : g[j]}) = Cardinality(HeldRead(t))
      BY <1>2, <2>2, Zenon
    <3> QED
      BY <1>2, <3>1, <3>2
  <2>4. CASE k \in UpgradedHolders
    <3>1. unlock_and_lock_upgrade(t) /\ task' = [task EXCEPT ![t] = "finish_upgrade"]
      BY <2>4, HolderKinds, Zenon DEF upgraded_from_write, Becomes
    <3>2. owner' = [owner EXCEPT ![t] = "toUpgraded"] /\ UNCHANGED reads /\ LockNext
      BY <1>2, <3>1, Zenon DEF unlock_and_lock_upgrade, Own, LockNext
    <3>3. SaysSo("finish_upgrade", g, owner'[t])
      BY <1>2, <2>1, <2>4, <3>2, Zenon DEF SaysSo
    <3>4. /\ task' \in [HolderThreads -> {"none", "lock_shared", "lock_upgrade", "lock", "upgrade_and_lock",
                                          "finish_shared", "finish_upgrade"}]
          /\ task'[t] = "finish_upgrade" /\ \A u \in HolderThreads \ {t} : task'[u] = task[u]
      BY <1>6, <3>1
    <3> QED
      BY <1>3, <2>3, <3>2, <3>3, <3>4, HolderStep, ZenonT(30) DEF g
  <2>5. CASE k \in WriteHolders
    <3>1. from \in UpgradedHolders /\ UNCHANGED lockVars /\ task' = [task EXCEPT ![t] = "upgrade_and_lock"]
      BY <2>5, HolderKinds, Zenon DEF write_from_upgraded, Becomes
    <3>2. UNCHANGED <<owner, reads>>
      BY <3>1 DEF lockVars
    <3>3. Says(g) = "writer" /\ owner'[t] = "upgraded"
      BY <1>2, <1>5, <2>1, <2>5, <3>1, <3>2, HolderKinds, Zenon
    <3>4. SaysSo("upgrade_and_lock", g, owner'[t])
      BY <2>1, <3>3 DEF SaysSo
    <3>5. /\ task' \in [HolderThreads -> {"none", "lock_shared", "lock_upgrade", "lock", "upgrade_and_lock",
                                          "finish_shared", "finish_upgrade"}]
          /\ task'[t] = "upgrade_and_lock" /\ \A u \in HolderThreads \ {t} : task'[u] = task[u]
      BY <1>6, <3>1
    <3> QED
      BY <1>3, <2>3, <3>1, <3>2, <3>4, <3>5, HolderStep, ZenonT(30) DEF g
  <2> QED
    BY <1>8, <2>4, <2>5 DEF OwnHolders
<1> QED
  BY <1>7, <1>8, HolderKinds

(* The attempts on the lock, and the second steps of the conversions.      *)
LEMMA SpinsKeepInv ==
  ASSUME HoldersInv, NEW t \in HolderThreads,
         SpinShared(t) \/ SpinUpgrade(t) \/ SpinWrite(t) \/ FinishConversion(t)
  PROVE  HoldersInv'
<1> DEFINE h == m_lock[t]
<1>1. /\ m_lock \in [HolderThreads -> [ScopedHolders -> BOOLEAN]]
      /\ reads \in [Holds -> {"none", "failing", "held"}] /\ t \in Threads
      /\ owner \in [Threads -> {"none", "upgraded", "writer", "toShared", "toUpgraded"}]
      /\ Cardinality(HeldRead(t)) \in Nat
      /\ task[t] # "lock_shared" => Cardinality({j \in ReadHolders : h[j]}) = Cardinality(HeldRead(t))
      /\ task[t] = "lock_shared" => Cardinality({j \in ReadHolders : h[j]}) = Cardinality(HeldRead(t)) + 1
  BY ReadySays
<1>2. SaysSo(task[t], h, owner[t]) /\ LockInv
  BY DEF HoldersInv
<1>3. /\ UNCHANGED m_lock /\ m_lock'[t] = h /\ \A u \in HolderThreads : m_lock'[u] = m_lock[u]
      /\ m_lock' \in [HolderThreads -> [ScopedHolders -> BOOLEAN]]
  BY <1>1, Zenon DEF SpinShared, SpinUpgrade, SpinWrite, FinishConversion
<1> HIDE DEF h
<1>4. \A op \in {"none", "lock_shared", "lock_upgrade", "lock", "upgrade_and_lock",
                 "finish_shared", "finish_upgrade"} :
        task' = [task EXCEPT ![t] = op] =>
          /\ task' \in [HolderThreads -> {"none", "lock_shared", "lock_upgrade", "lock", "upgrade_and_lock",
                                          "finish_shared", "finish_upgrade"}]
          /\ task'[t] = op /\ \A u \in HolderThreads \ {t} : task'[u] = task[u]
  BY DEF HoldersInv
<1>5. UNCHANGED task =>
          /\ task' \in [HolderThreads -> {"none", "lock_shared", "lock_upgrade", "lock", "upgrade_and_lock",
                                          "finish_shared", "finish_upgrade"}]
          /\ task'[t] = task[t] /\ \A u \in HolderThreads \ {t} : task'[u] = task[u]
  BY DEF HoldersInv
<1>6. ASSUME NEW d \in 1 .. Depth, task[t] = "lock_shared", back_off_shared(<<t, d>>), UNCHANGED task
      PROVE  HoldersInv'
  <2>1. /\ reads[<<t, d>>] = "failing" /\ reads' = [reads EXCEPT ![<<t, d>>] = "none"] /\ UNCHANGED owner
        /\ <<t, d>> \in Holds
    BY <1>1, <1>6 DEF back_off_shared, Hold, Holds
  <2>2. LockNext
    BY <1>6, <2>1 DEF LockNext
  <2>3. Cardinality({j \in ReadHolders : h[j]}) = Cardinality(HeldRead(t)') + 1
    BY <1>1, <1>6, <2>1, ReadersHeld, Zenon
  <2>4. SaysSo(task'[t], h, owner'[t])
    BY <1>2, <1>6, <2>1
  <2> QED
    BY <1>3, <1>5, <1>6, <2>1, <2>2, <2>3, <2>4, HolderStep, Zenon
<1>7. ASSUME NEW d \in FreeRead(t), task[t] = "lock_shared", try_lock_shared(<<t, d>>),
             IF reads'[<<t, d>>] = "held" THEN Becomes(t, "none") ELSE UNCHANGED task
      PROVE  HoldersInv'
  <2>1. /\ d \in 1 .. Depth /\ <<t, d>> \in Holds /\ reads[<<t, d>>] = "none" /\ UNCHANGED owner
        /\ \/ reads' = [reads EXCEPT ![<<t, d>>] = "held"]
           \/ reads' = [reads EXCEPT ![<<t, d>>] = "failing"]
    BY <1>1, <1>7, Zenon DEF FreeRead, Holds, try_lock_shared, Hold
  <2>2. LockNext
    BY <1>7, <2>1 DEF LockNext
  <2>3. OneSays(h) /\ owner'[t] = Says(h)
    BY <1>2, <1>7, <2>1, Zenon DEF SaysSo
  <2>4. CASE reads' = [reads EXCEPT ![<<t, d>>] = "held"]
    <3>1. task' = [task EXCEPT ![t] = "none"]
      BY <1>1, <1>7, <2>1, <2>4 DEF Becomes
    <3>2. Cardinality({j \in ReadHolders : h[j]}) = Cardinality(HeldRead(t)') + 0
      <4>1. reads[<<t, d>>] # "held"
        BY <2>1
      <4>2. Cardinality(HeldRead(t)') = Cardinality(HeldRead(t)) + 1
        BY <1>1, <2>1, <2>4, <4>1, ReadersHeld, Zenon
      <4> QED
        BY <1>1, <1>7, <4>2
    <3>3. SaysSo("none", h, owner'[t])
      BY <2>3 DEF SaysSo
    <3>4. /\ task' \in [HolderThreads -> {"none", "lock_shared", "lock_upgrade", "lock", "upgrade_and_lock",
                                          "finish_shared", "finish_upgrade"}]
          /\ task'[t] = "none" /\ \A u \in HolderThreads \ {t} : task'[u] = task[u]
      BY <1>4, <3>1
    <3> QED
      BY <1>3, <2>1, <2>2, <2>4, <3>2, <3>3, <3>4, HolderStep, ZenonT(30)
  <2>5. CASE reads' = [reads EXCEPT ![<<t, d>>] = "failing"]
    <3>1. UNCHANGED task
      BY <1>1, <1>7, <2>1, <2>5
    <3>2. Cardinality({j \in ReadHolders : h[j]}) = Cardinality(HeldRead(t)') + 1
      BY <1>1, <1>7, <2>1, <2>5, ReadersHeld, Zenon
    <3>3. SaysSo("lock_shared", h, owner'[t])
      BY <2>3 DEF SaysSo
    <3> QED
      BY <1>3, <1>5, <1>7, <2>1, <2>2, <2>5, <3>1, <3>2, <3>3, HolderStep, ZenonT(30)
  <2> QED
    BY <2>1, <2>4, <2>5
<1>8. CASE SpinUpgrade(t)
  <2>1. task[t] = "lock_upgrade" /\ try_lock_upgrade(t) /\ UNCHANGED reads /\ LockNext
    BY <1>1, <1>8 DEF SpinUpgrade, LockNext, try_lock_upgrade
  <2>2. Cardinality({j \in ReadHolders : h[j]}) = Cardinality(HeldRead(t)') + 0
    BY <1>1, <2>1, ReadersHeld
  <2>3. CASE LowBits(m_bits) = 0
    <3>1. owner[t] = "none" /\ owner' = [owner EXCEPT ![t] = "upgraded"]
      BY <1>1, <1>2, <2>1, <2>3, Zenon DEF LockInv, BitsExact, try_lock_upgrade, Own
    <3>2. task' = [task EXCEPT ![t] = "none"]
      BY <1>1, <1>8, <3>1 DEF SpinUpgrade, Becomes
    <3>3. SaysSo("none", h, owner'[t])
      BY <1>1, <1>2, <2>1, <3>1, Zenon DEF SaysSo
    <3>4. /\ task' \in [HolderThreads -> {"none", "lock_shared", "lock_upgrade", "lock", "upgrade_and_lock",
                                          "finish_shared", "finish_upgrade"}]
          /\ task'[t] = "none" /\ \A u \in HolderThreads \ {t} : task'[u] = task[u]
      BY <1>4, <3>2
    <3> QED
      BY <1>3, <2>1, <2>2, <3>1, <3>3, <3>4, HolderStep, Zenon
  <2>4. CASE LowBits(m_bits) # 0
    <3>1. UNCHANGED owner /\ UNCHANGED task
      BY <1>8, <2>1, <2>4, Zenon DEF try_lock_upgrade, SpinUpgrade
    <3>2. SaysSo(task'[t], h, owner'[t])
      BY <1>2, <3>1, Zenon
    <3> QED
      BY <1>3, <1>5, <2>1, <2>2, <3>1, <3>2, HolderStep
  <2> QED
    BY <2>3, <2>4
<1>9. CASE SpinWrite(t) \/ FinishConversion(t)
  <2>1. /\ UNCHANGED reads /\ LockNext /\ task' = [task EXCEPT ![t] = "none"] /\ task[t] # "lock_shared"
        /\ \E m : owner' = [owner EXCEPT ![t] = m]
    BY <1>1, <1>9 DEF SpinWrite, FinishConversion, LockNext, try_lock, try_unlock_upgrade_and_lock,
       finish_lock_shared, finish_lock_upgrade, Becomes, Own
  <2>2. Cardinality({j \in ReadHolders : h[j]}) = Cardinality(HeldRead(t)') + 0
    BY <1>1, <2>1, ReadersHeld
  <2>3. OneSays(h) /\ owner'[t] = Says(h)
    <3>1. CASE task[t] = "lock" /\ try_lock(t)
      <4>1. LowBits(m_bits) = 0
        BY <3>1 DEF try_lock, LowBits, READER
      <4>2. owner[t] = "none" /\ owner'[t] = "writer"
        BY <1>1, <1>2, <3>1, <4>1, Zenon DEF LockInv, BitsExact, try_lock, Own
      <4> QED
        BY <1>2, <3>1, <4>2 DEF SaysSo
    <3>2. CASE task[t] = "upgrade_and_lock" /\ try_unlock_upgrade_and_lock(t)
      BY <1>1, <1>2, <3>2, ZenonT(30) DEF SaysSo, try_unlock_upgrade_and_lock, Own
    <3>3. CASE task[t] = "finish_shared" /\ finish_lock_shared(t)
      BY <1>1, <1>2, <3>3, ZenonT(30) DEF SaysSo, finish_lock_shared, Own
    <3>4. CASE task[t] = "finish_upgrade" /\ finish_lock_upgrade(t)
      BY <1>1, <1>2, <3>4, Zenon DEF SaysSo, finish_lock_upgrade, Own
    <3> QED
      BY <1>9, <3>1, <3>2, <3>3, <3>4, Zenon DEF SpinWrite, FinishConversion
  <2>4. SaysSo("none", h, owner'[t])
    BY <2>3 DEF SaysSo
  <2>5. /\ task' \in [HolderThreads -> {"none", "lock_shared", "lock_upgrade", "lock", "upgrade_and_lock",
                                        "finish_shared", "finish_upgrade"}]
        /\ task'[t] = "none" /\ \A u \in HolderThreads \ {t} : task'[u] = task[u]
    BY <1>4, <2>1
  <2>6. UNCHANGED reads /\ LockNext /\ \E m : owner' = [owner EXCEPT ![t] = m]
    BY <2>1, Zenon
  <2> QED
    BY <1>3, <2>2, <2>4, <2>5, <2>6, HolderStep, ZenonT(30)
<1> QED
  BY <1>6, <1>7, <1>8, <1>9, Zenon DEF SpinShared

(* Without holders there is nothing to say.                                *)
LEMMA InitHoldersInv == HoldersInit => HoldersInv
<1> SUFFICES ASSUME HoldersInit PROVE HoldersInv
  OBVIOUS
<1>1. LockInv
  BY InitLockInv DEF HoldersInit
<1>2. /\ m_lock \in [HolderThreads -> [ScopedHolders -> BOOLEAN]]
      /\ \A t \in HolderThreads, k \in ScopedHolders : ~m_lock[t][k]
  BY DEF HoldersInit
<1>3. ASSUME NEW t \in HolderThreads PROVE SaysSo(task[t], m_lock[t], owner[t]) /\ ReadsSo(t)
  <2>1. task[t] = "none" /\ owner[t] = "none"
    BY HolderThreadsAssumption DEF HoldersInit, LockInit
  <2>2. OneSays(m_lock[t]) /\ Says(m_lock[t]) = "none"
    BY <1>2, OneHolder, HolderKinds
  <2>3. {k \in ReadHolders : m_lock[t][k]} = {}
    BY <1>2, HolderKinds
  <2>4. HeldRead(t) = {}
    <3>1. \A d \in 1 .. Depth : <<t, d>> \in Holds
      BY HolderThreadsAssumption DEF Holds
    <3> QED
      BY <3>1 DEF HoldersInit, LockInit, HeldRead
  <2>5. ReadsSo(t)
    <3>1. Cardinality({k \in ReadHolders : m_lock[t][k]}) = 0 /\ Cardinality(HeldRead(t)) = 0
      BY <2>3, <2>4, FS_EmptySet
    <3> QED
      BY <2>1, <3>1 DEF ReadsSo
  <2> QED
    BY <2>1, <2>2, <2>5 DEF SaysSo
<1>4. task \in [HolderThreads -> {"none", "lock_shared", "lock_upgrade", "lock", "upgrade_and_lock",
                                  "finish_shared", "finish_upgrade"}]
  BY DEF HoldersInit
<1> QED
  BY <1>1, <1>2, <1>3, <1>4 DEF HoldersInv

(* Every operation of the holders preserves the inductive invariant.       *)
LEMMA NextHoldersInv == HoldersInv /\ [HoldersNext]_<<lockVars, holderVars>> => HoldersInv'
<1> SUFFICES ASSUME HoldersInv, [HoldersNext]_<<lockVars, holderVars>> PROVE HoldersInv'
  OBVIOUS
<1>1. CASE UNCHANGED <<lockVars, holderVars>>
  <2>1. UNCHANGED lockVars /\ UNCHANGED <<m_lock, task, owner, reads>>
    BY <1>1 DEF lockVars, holderVars
  <2>2. LockInv'
    BY <2>1, NextLockInv DEF HoldersInv
  <2>3. \A t \in HolderThreads : HeldRead(t)' = HeldRead(t)
    BY <2>1 DEF HeldRead
  <2>4. \A t \in HolderThreads : SaysSo(task[t], m_lock[t], owner[t])' /\ ReadsSo(t)'
    <3>1. \A t \in HolderThreads : SaysSo(task[t], m_lock[t], owner[t])' <=> SaysSo(task'[t], m_lock'[t], owner'[t])
      BY Zenon DEF SaysSo, OneSays, Says
    <3>2. \A t \in HolderThreads : ReadsSo(t)' <=> ReadsSo(t)
      BY <2>1, <2>3 DEF ReadsSo
    <3> QED
      BY <2>1, <3>1, <3>2 DEF HoldersInv
  <2> QED
    BY <2>1, <2>2, <2>4 DEF HoldersInv
<1>2. ASSUME NEW t \in HolderThreads, NEW k \in ReadHolders,
             \/ read_holder(t, k) \/ drop_read_holder(t, k)
             \/ \E u \in UpgradedHolders : read_from_upgraded(t, u, k)
             \/ \E w \in WriteHolders : read_from_write(t, w, k)
      PROVE  HoldersInv'
  BY <1>2, TakesKeepInv, DropsKeepInv, ConversionsKeepInv, HolderKinds
<1>3. ASSUME NEW t \in HolderThreads, NEW k \in UpgradedHolders,
             \/ upgraded_holder(t, k) \/ drop_upgraded_holder(t, k)
             \/ \E w \in WriteHolders : upgraded_from_write(t, w, k) \/ write_from_upgraded(t, k, w)
      PROVE  HoldersInv'
  BY <1>3, TakesKeepInv, DropsKeepInv, ConversionsKeepInv, HolderKinds
<1>4. ASSUME NEW t \in HolderThreads, NEW k \in WriteHolders, write_holder(t, k) \/ drop_write_holder(t, k)
      PROVE  HoldersInv'
  BY <1>4, TakesKeepInv, DropsKeepInv, HolderKinds
<1>5. ASSUME NEW t \in HolderThreads,
             \/ move_read(t) \/ move_upgraded(t) \/ move_write(t)
             \/ swap_read(t) \/ swap_upgraded(t) \/ swap_write(t)
             \/ SpinShared(t) \/ SpinUpgrade(t) \/ SpinWrite(t) \/ FinishConversion(t)
      PROVE  HoldersInv'
  BY <1>5, SwapsKeepInv, SpinsKeepInv
<1> QED
  BY <1>1, <1>2, <1>3, <1>4, <1>5 DEF HoldersNext

(* What the invariant says of a thread between two calls.                  *)
LEMMA HoldersAgree == HoldersInv => HoldersHold
<1> SUFFICES ASSUME HoldersInv, NEW t \in HolderThreads, Ready(t)
             PROVE  /\ Cardinality(HeldRead(t)) = Cardinality({k \in ReadHolders : m_lock[t][k]})
                    /\ owner[t] = "upgraded" <=> \E k \in UpgradedHolders : m_lock[t][k]
                    /\ owner[t] = "writer" <=> \E k \in WriteHolders : m_lock[t][k]
  BY DEF HoldersHold
<1>1. /\ Cardinality(HeldRead(t)) = Cardinality({k \in ReadHolders : m_lock[t][k]})
      /\ OneSays(m_lock[t]) /\ owner[t] = Says(m_lock[t])
  BY ReadySays, Zenon DEF Ready
<1>2. ASSUME NEW j \in UpgradedHolders, NEW k \in WriteHolders PROVE ~(m_lock[t][j] /\ m_lock[t][k])
  BY <1>1, HolderKinds DEF OneSays
<1> QED
  BY <1>1, <1>2 DEF Says

(* Between calls a thread holds the lock exactly as its holders say.       *)
THEOREM HoldersSafe == HoldersSpec => []HoldersHold
<1>1. HoldersSpec => []HoldersInv
  BY InitHoldersInv, NextHoldersInv, PTL DEF HoldersSpec
<1> QED
  BY <1>1, HoldersAgree, PTL
=============================================================================
