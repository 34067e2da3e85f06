------------------------------ MODULE MCUtils ------------------------------
(***************************************************************************)
(* The concurrent building blocks of fastpath/utils and those who use      *)
(* them, one to a behaviour: threads that take, convert and drop the       *)
(* upgradable lock as they like, threads with scoped holders, the event    *)
(* manager's handler tables; the ring of one producer and one consumer     *)
(* with its semaphore, and the ring of many.                               *)
(***************************************************************************)
EXTENDS HandlerTable, LockHolders, BlockingRingBuffer, MultiRingBuffer

VARIABLE use  \* "lock", "holders", "tables", "blocking" or "multi"

mcVars == <<handlerVars, holderVars, vars, multiVars, use>>

MCInit ==
  /\ TablesInit /\ HoldersInit /\ Init /\ MultiInit
  /\ use \in {"lock", "holders", "tables", "blocking", "multi"}

OnLock == UNCHANGED <<vars, multiVars, use>>
OnBlocking == use = "blocking" /\ UNCHANGED <<handlerVars, holderVars, multiVars, use>>
OnMulti == use = "multi" /\ UNCHANGED <<handlerVars, holderVars, vars, use>>

MCNext ==
  \/ use = "lock" /\ LockNext /\ UNCHANGED <<tableVars, holderVars>> /\ OnLock
  \/ use = "holders" /\ HoldersNext /\ UNCHANGED tableVars /\ OnLock
  \/ use = "tables" /\ TablesNext /\ UNCHANGED holderVars /\ OnLock
  \/ OnBlocking /\ Next
  \/ OnMulti /\ MultiNext

MCSpec ==
  /\ MCInit /\ [][MCNext]_mcVars
  /\ WF_mcVars(OnBlocking /\ Producer) /\ WF_mcVars(OnBlocking /\ Consumer)

(* Who uses the lock leaves nothing of it behind: QuiescentTables where    *)
(* the tables' calls take it, HoldersHold where scoped holders do.         *)
LockIsBalanced ==
  /\ use = "tables" => QuiescentTables
  /\ use = "holders" => HoldersHold
=============================================================================
