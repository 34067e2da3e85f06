---------------------------- MODULE UtilsProofs -----------------------------
(***************************************************************************)
(* The lock and those who use it, together: what the lock's own invariant  *)
(* (RWLockProofs) and the invariants of the tables (HandlerTableProofs,    *)
(* QuiescenceProofs) and of the scoped holders say of every behaviour.     *)
(***************************************************************************)
EXTENDS MCUtils, RWLockProofs, QuiescenceProofs

(* The tables' invariant from that of the lock.                            *)
LEMMA StepsKeepQuiescence ==
  /\ TablesInit => QuiescenceInv
  /\ QuiescenceInv /\ [TablesNext]_handlerVars => QuiescenceInv'
<1>1. TablesInit => QuiescenceInv
  BY InitQuiescence, InitLockInv DEF TablesInit
<1>2. ASSUME QuiescenceInv, [TablesNext]_handlerVars PROVE QuiescenceInv'
  <2>1. LockInv'
    BY <1>2, NextLockInv, TablesUseLock DEF QuiescenceInv, TablesInv
  <2> QED
    BY <1>2, <2>1, NextQuiescence
<1> QED
  BY <1>1, <1>2

(* Each call holds the lock, where it stands, as its next access to the    *)
(* tables needs it (GlobalEventManager.cpp:63-98, 164-203).                *)
THEOREM TablesInvariant == TablesSpec => []TablesInv
<1>1. QuiescenceInv => TablesInv
  BY DEF QuiescenceInv
<1> QED
  BY <1>1, StepsKeepQuiescence, PTL DEF TablesSpec

(* A handler being inserted has the tables to itself                       *)
(* (GlobalEventManager.cpp:78-97), whatever threads there are.             *)
THEOREM TablesInsertExclusive == TablesSpec => []InsertIsExclusive
<1>1. QuiescenceInv => InsertIsExclusive
  BY TablesExclude DEF QuiescenceInv
<1> QED
  BY <1>1, StepsKeepQuiescence, PTL DEF TablesSpec

(* Between calls epoll watches exactly the keys that have handlers, and    *)
(* nothing of the lock is left taken.                                      *)
LEMMA QuiescenceSuffices == QuiescenceInv => QuiescentTables
<1> SUFFICES ASSUME QuiescenceInv PROVE QuiescentTables
  OBVIOUS
<1>1. LockInv
  BY DEF QuiescenceInv, TablesInv
<1>2. (\A t \in Threads : Idle(t)) => m_bits = 0
  BY <1>1, QuiescenceIsClean, FreeLockIsZero
<1> QED
  BY <1>2, QuiescenceIsClean DEF QuiescentTables

(* The window between the table and the epoll set always closes, and no    *)
(* call leaves the lock behind (registerHandler and unregisterHandler).    *)
THEOREM TablesQuiescent == TablesSpec => []QuiescentTables
BY QuiescenceSuffices, StepsKeepQuiescence, PTL DEF TablesSpec

(* Whoever uses the lock leaves nothing of it behind: the calls on the     *)
(* tables and the scoped holders, for every finite set of threads.         *)
THEOREM UsersBalanceLock == MCSpec => []LockIsBalanced
<1> DEFINE Inv == (use = "tables" => QuiescenceInv) /\ (use = "holders" => HoldersInv)
<1>1. MCInit => Inv
  BY StepsKeepQuiescence, InitHoldersInv DEF MCInit
<1>2. Inv /\ [MCNext]_mcVars => Inv'
  <2> SUFFICES ASSUME Inv, [MCNext]_mcVars PROVE Inv'
    OBVIOUS
  <2>1. UNCHANGED use
    BY DEF MCNext, mcVars, OnLock, OnBlocking, OnMulti
  <2>2. ASSUME use = "tables" PROVE [TablesNext]_handlerVars
    BY <2>2 DEF MCNext, mcVars, OnBlocking, OnMulti
  <2>3. ASSUME use = "holders" PROVE [HoldersNext]_<<lockVars, holderVars>>
    <3>1. HoldersNext \/ UNCHANGED <<handlerVars, holderVars>>
      BY <2>3 DEF MCNext, mcVars, OnBlocking, OnMulti
    <3>2. UNCHANGED <<handlerVars, holderVars>> => UNCHANGED <<lockVars, holderVars>>
      BY DEF handlerVars
    <3> QED
      BY <3>1, <3>2
  <2>4. use' = "tables" => QuiescenceInv'
    BY <2>1, <2>2, StepsKeepQuiescence
  <2>5. use' = "holders" => HoldersInv'
    BY <2>1, <2>3, NextHoldersInv
  <2> QED
    BY <2>4, <2>5
<1>3. Inv => LockIsBalanced
  BY QuiescenceSuffices, HoldersAgree DEF LockIsBalanced
<1> QED
  BY <1>1, <1>2, <1>3, PTL DEF MCSpec
=============================================================================
