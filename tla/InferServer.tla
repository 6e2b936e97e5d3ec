---------------------------- MODULE InferServer ----------------------------
(***************************************************************************)
(* The per-device InferServerPrivate of core/infer_server.cpp: the map of  *)
(* executors keyed by signature (model path, function, preproc, postproc), *)
(* CreateSession / DestroySession of many client threads, and the sizing  *)
(* of the shared PriorityThreadPool.  executor_map_mutex_ and tp_mutex_    *)
(* make each locked region one step; Link, the delete of an executor and  *)
(* the two halves of DestroySession run outside them.                      *)
(***************************************************************************)
EXTENDS Integers, FiniteSets

CONSTANTS
  NumSessions,  \* client threads; thread s creates one session, then destroys it
  SigOf,        \* SigOf[s]: the executor name built from s's SessionDesc
  EngineNum,    \* desc.engine_num, the same for every session
  MaxThreads,   \* 3 * GetCpuCoreNumber()
  CanDestroy,   \* sessions may be destroyed during the run
  Sequential    \* one thread creates and destroys the sessions one by one

Sessions == 1..NumSessions
Sigs == {SigOf[s] : s \in Sessions}
ExecIds == 1..NumSessions          \* at most one executor per CreateExecutor
None == 0
Finished == {"done", "failed", "leaked", "crashed"}

ASSUME /\ NumSessions \in Nat \ {0} /\ EngineNum \in Nat \ {0}
       /\ MaxThreads \in Nat /\ CanDestroy \in BOOLEAN /\ Sequential \in BOOLEAN

VARIABLES
  executorMap,  \* executor_map_: name -> executor, None when absent
  alive,        \* executors constructed and not yet deleted
  nameOf,       \* Executor::GetName()
  linked,       \* linked[x]: sessions Link()ed to x and not Unlink()ed
  nextExec,     \* identity of the next executor constructed
  sexec,        \* sexec[s]: Session::GetExecutor()
  spc,          \* program counter of each client thread
  tpSize        \* PriorityThreadPool::Size()

vars == <<executorMap, alive, nameOf, linked, nextExec, sexec, spc, tpSize>>

-----------------------------------------------------------------------------
(* CreateSession -> CreateExecutor: under executor_map_mutex_, return the  *)
(* executor of the same name, or construct and insert a new one (a        *)
(* constructor that throws makes CreateSession return nullptr).           *)
CreateExecutor(s) ==
  /\ spc[s] = "idle"
  /\ Sequential => \A u \in 1..(s - 1) : spc[u] \in Finished
  /\ LET g == SigOf[s] IN
       IF executorMap[g] # None
         THEN /\ sexec' = [sexec EXCEPT ![s] = executorMap[g]]
              /\ spc' = [spc EXCEPT ![s] = "link"]
              /\ UNCHANGED <<executorMap, alive, nameOf, nextExec>>
         ELSE \/ /\ executorMap' = [executorMap EXCEPT ![g] = nextExec]
                 /\ alive' = alive \cup {nextExec}
                 /\ nameOf' = [nameOf EXCEPT ![nextExec] = g]
                 /\ sexec' = [sexec EXCEPT ![s] = nextExec]
                 /\ nextExec' = nextExec + 1
                 /\ spc' = [spc EXCEPT ![s] = "resize"]
              \/ /\ spc' = [spc EXCEPT ![s] = "failed"]
                 /\ UNCHANGED <<executorMap, alive, nameOf, nextExec, sexec>>
  /\ UNCHANGED <<linked, tpSize>>

(* Mutant: the growth is not clamped to max_thread_num.                   *)
GrowPoolNoCap(s) ==
  /\ spc[s] = "resize"
  /\ tpSize' = IF tpSize < MaxThreads THEN tpSize + 3 * EngineNum ELSE tpSize
  /\ spc' = [spc EXCEPT ![s] = "link"]
  /\ UNCHANGED <<executorMap, alive, nameOf, linked, nextExec, sexec>>

(* After unlocking the map: grow the pool under tp_mutex_.                 *)
GrowPool(s) ==
  /\ spc[s] = "resize"
  /\ tpSize' = IF tpSize < MaxThreads
                 THEN IF tpSize + 3 * EngineNum < MaxThreads THEN tpSize + 3 * EngineNum ELSE MaxThreads
                 ELSE tpSize
  /\ spc' = [spc EXCEPT ![s] = "link"]
  /\ UNCHANGED <<executorMap, alive, nameOf, linked, nextExec, sexec>>

(* CreateSession: executor->Link(session), with no lock held.              *)
Link(s) ==
  /\ spc[s] = "link"
  /\ linked' = [linked EXCEPT ![sexec[s]] = @ \cup {s}]
  /\ spc' = [spc EXCEPT ![s] = "active"]
  /\ UNCHANGED <<executorMap, alive, nameOf, nextExec, sexec, tpSize>>

(* DestroySession: ExistExecutor looks the executor's name up in the map.  *)
DestroySession(s) ==
  /\ CanDestroy /\ spc[s] = "active"
  /\ spc' = [spc EXCEPT ![s] = IF executorMap[nameOf[sexec[s]]] # None THEN "destroy" ELSE "leaked"]
  /\ UNCHANGED <<executorMap, alive, nameOf, linked, nextExec, sexec, tpSize>>

(* Mutant: the executor is deleted but its map entry is left.             *)
CheckAndDestroyNoErase(s) ==
  LET x == sexec[s] IN
  /\ spc[s] = "destroy"
  /\ linked' = [linked EXCEPT ![x] = @ \ {s}]
  /\ spc' = [spc EXCEPT ![s] = IF linked'[x] # {} THEN "done" ELSE "delete"]
  /\ UNCHANGED <<executorMap, alive, nameOf, nextExec, sexec, tpSize>>

(* CheckAndDestroyExecutor under the map lock: Unlink, delete the session, *)
(* and when no session is left erase the map entry of that name; if the   *)
(* name is absent, CHECK(false) aborts the process.                        *)
CheckAndDestroyExecutor(s) ==
  LET x == sexec[s] IN
  /\ spc[s] = "destroy"
  /\ linked' = [linked EXCEPT ![x] = @ \ {s}]
  /\ IF linked'[x] # {}
       THEN spc' = [spc EXCEPT ![s] = "done"] /\ UNCHANGED executorMap
     ELSE IF executorMap[nameOf[x]] # None
       THEN /\ executorMap' = [executorMap EXCEPT ![nameOf[x]] = None]
            /\ spc' = [spc EXCEPT ![s] = "delete"]
       ELSE spc' = [spc EXCEPT ![s] = "crashed"] /\ UNCHANGED executorMap
  /\ UNCHANGED <<alive, nameOf, nextExec, sexec, tpSize>>

(* After unlocking: delete executor.                                       *)
DeleteExecutor(s) ==
  /\ spc[s] = "delete"
  /\ alive' = alive \ {sexec[s]}
  /\ spc' = [spc EXCEPT ![s] = "shrink"]
  /\ UNCHANGED <<executorMap, nameOf, linked, nextExec, sexec, tpSize>>

(* Under tp_mutex_: shrink by 2 * engine_num if more threads are idle.     *)
(* IdleNumber is any count while other executors may run tasks, and the   *)
(* whole pool once none is left.                                           *)
IdleNumber == IF alive = {} THEN {tpSize} ELSE 0..tpSize

ShrinkPool(s) ==
  /\ spc[s] = "shrink"
  /\ \E idle \in IdleNumber :
       tpSize' = IF idle > 2 * EngineNum THEN tpSize - 2 * EngineNum ELSE tpSize
  /\ spc' = [spc EXCEPT ![s] = "done"]
  /\ UNCHANGED <<executorMap, alive, nameOf, linked, nextExec, sexec>>

-----------------------------------------------------------------------------
Init ==
  /\ executorMap = [g \in Sigs |-> None] /\ alive = {}
  /\ nameOf = [x \in ExecIds |-> CHOOSE g \in Sigs : TRUE]
  /\ linked = [x \in ExecIds |-> {}] /\ nextExec = 1
  /\ sexec = [s \in Sessions |-> None] /\ spc = [s \in Sessions |-> "idle"]
  /\ tpSize = 0

SessionStep(s) ==
  \/ CreateExecutor(s) \/ GrowPool(s) \/ Link(s) \/ DestroySession(s)
  \/ CheckAndDestroyExecutor(s) \/ DeleteExecutor(s) \/ ShrinkPool(s)

Next == \E s \in Sessions : SessionStep(s)

Spec == Init /\ [][Next]_vars

-----------------------------------------------------------------------------
TypeOK ==
  /\ executorMap \in [Sigs -> ExecIds \cup {None}] /\ alive \subseteq ExecIds
  /\ nameOf \in [ExecIds -> Sigs] /\ linked \in [ExecIds -> SUBSET Sessions]
  /\ nextExec \in 1..NumSessions + 1 /\ sexec \in [Sessions -> ExecIds \cup {None}]
  /\ spc \in [Sessions -> {"idle", "resize", "link", "active", "destroy", "delete",
                           "shrink", "done", "failed", "leaked", "crashed"}]
  /\ tpSize \in 0..MaxThreads

(* A session's executor is never deleted while the session still links to *)
(* it, uses it, or is being destroyed through it.                          *)
NoUseOfDeletedExecutor ==
  \A s \in Sessions : spc[s] \in {"link", "active", "destroy"} => sexec[s] \in alive

(* The executor map and the executors' lifetimes agree: an entry names a   *)
(* live executor of that name, and a live executor missing from the map   *)
(* is one whose last session's thread is about to delete it.               *)
MapTracksLive ==
  /\ \A g \in Sigs : executorMap[g] # None =>
        executorMap[g] \in alive /\ nameOf[executorMap[g]] = g
  /\ \A x \in alive : executorMap[nameOf[x]] = x
                     \/ \E s \in Sessions : spc[s] = "delete" /\ sexec[s] = x

(* After sessions are created and all destroyed, the pool is back within   *)
(* 2 * engine_num of its initial size (spec, testable property 7).         *)
PoolReturnsAfterChurn ==
  (\A s \in Sessions : spc[s] = "done") => tpSize <= 2 * EngineNum
=============================================================================
