---------------------------- MODULE LockHolders -----------------------------
(***************************************************************************)
(* The scoped holders of tf::rwlock (fastpath/utils/rwlock.h): read_holder, *)
(* upgraded_holder and write_holder, each a pointer to the lock or null,   *)
(* which take the lock when they are made or reset to it, release it when  *)
(* they are destroyed or reset to null, and are turned into one another by *)
(* move.  A thread has two holders of each kind, all of one lock.  A       *)
(* holder that must wait tries again and again.                            *)
(***************************************************************************)
EXTENDS RWLock, FiniteSets

CONSTANT HolderThreads  \* the threads that use holders

ASSUME HolderThreadsAssumption == HolderThreads \subseteq Threads

VARIABLES m_lock,   \* of each thread and holder, whether it points to the lock
          task      \* the call on the lock a holder is in, with the holder

holderVars == <<m_lock, task>>

ReadHolders == {"read1", "read2"}
UpgradedHolders == {"upgraded1", "upgraded2"}
WriteHolders == {"write1", "write2"}
ScopedHolders == ReadHolders \cup UpgradedHolders \cup WriteHolders

HoldersInit ==
  /\ LockInit
  /\ m_lock = [t \in HolderThreads |-> [k \in ScopedHolders |-> FALSE]]
  /\ task = [t \in HolderThreads |-> "none"]

Ready(t) == task[t] = "none"
Becomes(t, op) == task' = [task EXCEPT ![t] = op]
Points(t, k, to) == m_lock' = [m_lock EXCEPT ![t][k] = to]
Hands(t, from, to) == m_lock' = [m_lock EXCEPT ![t][from] = FALSE, ![t][to] = TRUE]
-----------------------------------------------------------------------------
(* The constructors from a lock, and reset(lock) of a holder that has none. *)

read_holder(t, k) ==
  /\ Ready(t) /\ ~m_lock[t][k]
  /\ Points(t, k, TRUE) /\ Becomes(t, "lock_shared")
  /\ UNCHANGED lockVars

upgraded_holder(t, k) ==
  /\ Ready(t) /\ ~m_lock[t][k]
  /\ Points(t, k, TRUE) /\ Becomes(t, "lock_upgrade")
  /\ UNCHANGED lockVars

write_holder(t, k) ==
  /\ Ready(t) /\ ~m_lock[t][k]
  /\ Points(t, k, TRUE) /\ Becomes(t, "lock")
  /\ UNCHANGED lockVars
-----------------------------------------------------------------------------
(* The destructors, and reset(nullptr).                                    *)

FreeRead(t) == {d \in 1 .. Depth : reads[<<t, d>>] = "none"}
HeldRead(t) == {d \in 1 .. Depth : reads[<<t, d>>] = "held"}

drop_read_holder(t, k) ==
  /\ Ready(t) /\ m_lock[t][k]
  /\ Points(t, k, FALSE)
  /\ \E d \in HeldRead(t) : unlock_shared(<<t, d>>)
  /\ UNCHANGED task

drop_upgraded_holder(t, k) ==
  /\ Ready(t) /\ m_lock[t][k]
  /\ Points(t, k, FALSE) /\ unlock_upgrade(t)
  /\ UNCHANGED task

drop_write_holder(t, k) ==
  /\ Ready(t) /\ m_lock[t][k]
  /\ Points(t, k, FALSE) /\ unlock(t)
  /\ UNCHANGED task
-----------------------------------------------------------------------------
(* Holders made from other holders.                                        *)

\* A new holder takes the pointer of another of its kind.
move(t, from, to) ==
  /\ Ready(t) /\ m_lock[t][from] /\ ~m_lock[t][to]
  /\ Hands(t, from, to)
  /\ UNCHANGED <<lockVars, task>>

move_read(t) == \E j, k \in ReadHolders : j # k /\ move(t, j, k)
move_upgraded(t) == \E j, k \in UpgradedHolders : j # k /\ move(t, j, k)
move_write(t) == \E j, k \in WriteHolders : j # k /\ move(t, j, k)

\* Assignment and swap exchange the pointers.
Exchange(t, j, k) ==
  /\ Ready(t) /\ m_lock[t][j] # m_lock[t][k]
  /\ m_lock' = [m_lock EXCEPT ![t][j] = m_lock[t][k], ![t][k] = m_lock[t][j]]
  /\ UNCHANGED <<lockVars, task>>

swap_read(t) == Exchange(t, "read1", "read2")
swap_upgraded(t) == Exchange(t, "upgraded1", "upgraded2")
swap_write(t) == Exchange(t, "write1", "write2")

read_from_upgraded(t, from, k) ==
  /\ Ready(t) /\ m_lock[t][from] /\ ~m_lock[t][k]
  /\ Hands(t, from, k)
  /\ \E d \in FreeRead(t) : unlock_upgrade_and_lock_shared(<<t, d>>)
  /\ UNCHANGED task

\* Mutant: the write holder keeps its pointer.
read_from_writeKept(t, from, k) ==
  /\ Ready(t) /\ m_lock[t][from] /\ ~m_lock[t][k]
  /\ Points(t, k, TRUE)
  /\ \E d \in FreeRead(t) : unlock_and_lock_shared(<<t, d>>)
  /\ Becomes(t, "finish_shared")

read_from_write(t, from, k) ==
  /\ Ready(t) /\ m_lock[t][from] /\ ~m_lock[t][k]
  /\ Hands(t, from, k)
  /\ \E d \in FreeRead(t) : unlock_and_lock_shared(<<t, d>>)
  /\ Becomes(t, "finish_shared")

upgraded_from_write(t, from, k) ==
  /\ Ready(t) /\ m_lock[t][from] /\ ~m_lock[t][k]
  /\ Hands(t, from, k)
  /\ unlock_and_lock_upgrade(t)
  /\ Becomes(t, "finish_upgrade")

write_from_upgraded(t, from, k) ==
  /\ Ready(t) /\ m_lock[t][from] /\ ~m_lock[t][k]
  /\ Hands(t, from, k) /\ Becomes(t, "upgrade_and_lock")
  /\ UNCHANGED lockVars
-----------------------------------------------------------------------------
(* The calls on the lock, until they succeed.                              *)

SpinShared(t) ==
  /\ task[t] = "lock_shared"
  /\ \/ \E d \in 1 .. Depth : back_off_shared(<<t, d>>) /\ UNCHANGED task
     \/ \E d \in FreeRead(t) :
          /\ try_lock_shared(<<t, d>>)
          /\ IF reads'[<<t, d>>] = "held" THEN Becomes(t, "none") ELSE UNCHANGED task
  /\ UNCHANGED m_lock

SpinUpgrade(t) ==
  /\ task[t] = "lock_upgrade"
  /\ try_lock_upgrade(t)
  /\ IF owner[t] # owner'[t] THEN Becomes(t, "none") ELSE UNCHANGED task
  /\ UNCHANGED m_lock

SpinWrite(t) ==
  /\ \/ task[t] = "lock" /\ try_lock(t)
     \/ task[t] = "upgrade_and_lock" /\ try_unlock_upgrade_and_lock(t)
  /\ Becomes(t, "none")
  /\ UNCHANGED m_lock

FinishConversion(t) ==
  /\ \/ task[t] = "finish_shared" /\ finish_lock_shared(t)
     \/ task[t] = "finish_upgrade" /\ finish_lock_upgrade(t)
  /\ Becomes(t, "none")
  /\ UNCHANGED m_lock
-----------------------------------------------------------------------------
HoldersNext ==
  \E t \in HolderThreads :
    \/ \E k \in ReadHolders :
         \/ read_holder(t, k) \/ drop_read_holder(t, k)
         \/ \E u \in UpgradedHolders : read_from_upgraded(t, u, k)
         \/ \E w \in WriteHolders : read_from_write(t, w, k)
    \/ \E k \in UpgradedHolders :
         \/ upgraded_holder(t, k) \/ drop_upgraded_holder(t, k)
         \/ \E w \in WriteHolders : upgraded_from_write(t, w, k) \/ write_from_upgraded(t, k, w)
    \/ \E k \in WriteHolders : write_holder(t, k) \/ drop_write_holder(t, k)
    \/ move_read(t) \/ move_upgraded(t) \/ move_write(t)
    \/ swap_read(t) \/ swap_upgraded(t) \/ swap_write(t)
    \/ SpinShared(t) \/ SpinUpgrade(t) \/ SpinWrite(t) \/ FinishConversion(t)

HoldersSpec == HoldersInit /\ [][HoldersNext]_<<lockVars, holderVars>>
-----------------------------------------------------------------------------
(* Between two calls a thread holds the lock exactly as its holders say,   *)
(* so that when they have all been destroyed nothing of it is left: no     *)
(* conversion, move, swap or reset releases a hold twice or forgets one.   *)
HoldersHold ==
  \A t \in HolderThreads : Ready(t) =>
    /\ Cardinality(HeldRead(t)) = Cardinality({k \in ReadHolders : m_lock[t][k]})
    /\ owner[t] = "upgraded" <=> \E k \in UpgradedHolders : m_lock[t][k]
    /\ owner[t] = "writer" <=> \E k \in WriteHolders : m_lock[t][k]

(* The inductive invariant behind it: also within a call, of what kind a   *)
(* thread's holders h say its hold is, and that at most one says so.  A    *)
(* thread that asks for a second exclusive hold waits for ever.            *)
OwnHolders == UpgradedHolders \cup WriteHolders

Says(h) == IF \E k \in UpgradedHolders : h[k] THEN "upgraded"
           ELSE IF \E k \in WriteHolders : h[k] THEN "writer" ELSE "none"

OneSays(h) == \A j, k \in OwnHolders : h[j] /\ h[k] => j = k

SaysSo(op, h, own) ==
  /\ op \in {"none", "lock_shared"} => OneSays(h) /\ own = Says(h)
  /\ op = "lock_upgrade" /\ own = "none" => OneSays(h) /\ Says(h) = "upgraded"
  /\ op = "lock" /\ own = "none" => OneSays(h) /\ Says(h) = "writer"
  /\ op = "upgrade_and_lock" => OneSays(h) /\ Says(h) = "writer" /\ own = "upgraded"
  /\ op = "finish_shared" => OneSays(h) /\ Says(h) = "none" /\ own = "toShared"
  /\ op = "finish_upgrade" => OneSays(h) /\ Says(h) = "upgraded" /\ own = "toUpgraded"

ReadsSo(t) ==
  Cardinality({k \in ReadHolders : m_lock[t][k]}) =
    Cardinality(HeldRead(t)) + IF task[t] = "lock_shared" THEN 1 ELSE 0

HoldersInv ==
  /\ LockInv
  /\ m_lock \in [HolderThreads -> [ScopedHolders -> BOOLEAN]]
  /\ task \in [HolderThreads -> {"none", "lock_shared", "lock_upgrade", "lock", "upgrade_and_lock",
                                 "finish_shared", "finish_upgrade"}]
  /\ \A t \in HolderThreads : SaysSo(task[t], m_lock[t], owner[t]) /\ ReadsSo(t)
=============================================================================
