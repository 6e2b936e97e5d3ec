------------------------------ MODULE Executor ------------------------------
(***************************************************************************)
(* An Executor: the Cache, the dispatch loop that hands each popped        *)
(* package to the least-loaded Engine, the PriorityThreadPool the engines  *)
(* run on, and each Engine's chain of TaskNodes (core/engine.cpp).  A      *)
(* worker runs one TaskNode invocation: it takes the processor's lock,     *)
(* runs Process, unlocks, and then either reports failure or Transmits the *)
(* package to the next node or, at the tail, to the RequestControls.      *)
(***************************************************************************)
EXTENDS Cache

CONSTANTS
  NumEngines,   \* engine_num: the engine and its Fork()ed siblings
  NumNodes,     \* processors per engine (preproc, model, postproc)
  Workers,      \* threads of the PriorityThreadPool
  MayFail,      \* a processor's Process may return an error status
  NoWorker      \* model value: a processor lock nobody holds

ASSUME /\ NumEngines \in Nat \ {0} /\ NumNodes \in Nat \ {0}
       /\ MayFail \in BOOLEAN /\ NoWorker \notin Workers

VARIABLES
  pool,      \* queued closures of the thread pool: TaskNode invocations
  taskNum,   \* Engine::task_num_
  holder,    \* holder[e][n]: worker holding the lock of processor n of engine e
  wst,       \* worker state: "idle", "lock" (waiting for it), "proc", "post"
  epc        \* executor teardown: "run", "joined", "destroyed"

execVars == <<pool, taskNum, holder, wst, epc>>
vars == <<cacheVars, execVars>>

Engines == 1..NumEngines
Nodes == 1..NumNodes
NoTask == [pack |-> NoPackage, eng |-> 0, node |-> 0, prio |-> 0]

(* Priority::Next: a package one stage further runs one tier higher.      *)
NextPriority(p) == p + 1

(* Engine::Engine links node i to node i + 1; Fork gives every engine its  *)
(* own processor clones, so the lock of <<e, n>> is never shared.          *)
HasDownNode(task) == task.node < NumNodes

(* Executor dispatch: the engine with the smallest task_num_, lowest index *)
(* first.                                                                  *)
LeastLoaded == CHOOSE e \in Engines :
                 \A f \in Engines : taskNum[e] < taskNum[f] \/ (taskNum[e] = taskNum[f] /\ e <= f)

(* PriorityThreadPool: the highest priority first, FIFO among equals.     *)
PoolHead == CHOOSE i \in DOMAIN pool :
              \A j \in DOMAIN pool : pool[j].prio < pool[i].prio \/ (pool[j].prio = pool[i].prio /\ i <= j)

-----------------------------------------------------------------------------
Dispatch ==
  /\ dpc = "popped"
  /\ LET e == LeastLoaded IN
       /\ taskNum' = [taskNum EXCEPT ![e] = @ + 1]
       /\ pool' = Append(pool, [pack |-> popped, eng |-> e, node |-> 1, prio |-> popped.prio])
  /\ popped' = NoPackage /\ dpc' = "pop"
  /\ UNCHANGED <<resp, cache, running, batcher, waiters, cpc, rid, nextId, sent,
                 discarded, reported, spc, holder, wst, epc>>

TakeTask(w) ==
  /\ wst[w].st = "idle" /\ pool # <<>>
  /\ wst' = [wst EXCEPT ![w] = [st |-> "lock", task |-> pool[PoolHead], ok |-> TRUE]]
  /\ pool' = RemoveAt(pool, PoolHead)
  /\ UNCHANGED <<cacheVars, taskNum, holder, epc>>

(* TaskNode::operator(): processor_->Lock().                               *)
Lock(w) ==
  LET tk == wst[w].task IN
  /\ wst[w].st = "lock" /\ holder[tk.eng][tk.node] = NoWorker
  /\ holder' = [holder EXCEPT ![tk.eng][tk.node] = w]
  /\ wst' = [wst EXCEPT ![w].st = "proc"]
  /\ UNCHANGED <<cacheVars, pool, taskNum, epc>>

(* Mutant: the processor's lock is never released.                        *)
ProcessKeepLock(w) ==
  /\ wst[w].st = "proc"
  /\ \E ok \in IF MayFail THEN BOOLEAN ELSE {TRUE} :
       wst' = [wst EXCEPT ![w].st = "post", ![w].ok = ok]
  /\ UNCHANGED <<cacheVars, pool, taskNum, holder, epc>>

(* s = processor_->Process(pack); lk.unlock().                             *)
Process(w) ==
  LET tk == wst[w].task IN
  /\ wst[w].st = "proc"
  /\ holder' = [holder EXCEPT ![tk.eng][tk.node] = NoWorker]
  /\ \E ok \in IF MayFail THEN BOOLEAN ELSE {TRUE} :
       wst' = [wst EXCEPT ![w].st = "post", ![w].ok = ok]
  /\ UNCHANGED <<cacheVars, pool, taskNum, epc>>

(* Mutant: a failed stage drops its descs without ProcessFailed.          *)
PostFailNoReport(w) ==
  LET tk == wst[w].task IN
  /\ wst[w].st = "post"
  /\ wst' = [wst EXCEPT ![w] = [st |-> "idle", task |-> NoTask, ok |-> TRUE]]
  /\ IF ~wst[w].ok
       THEN UNCHANGED <<reported, pool, taskNum>>
     ELSE IF HasDownNode(tk)
       THEN /\ pool' = Append(pool, [tk EXCEPT !.node = @ + 1, !.prio = NextPriority(@)])
            /\ UNCHANGED <<reported, taskNum>>
       ELSE /\ reported' = Report(tk.pack.descs)
            /\ taskNum' = [taskNum EXCEPT ![tk.eng] = @ - 1]
            /\ UNCHANGED pool
  /\ UNCHANGED <<resp, cache, running, batcher, waiters, cpc, rid, nextId, sent,
                 discarded, dpc, popped, spc, holder, epc>>

(* Mutant: task_num_ decremented after every stage, not only the tail.    *)
PostDecrementEachStage(w) ==
  LET tk == wst[w].task IN
  /\ wst[w].st = "post"
  /\ wst' = [wst EXCEPT ![w] = [st |-> "idle", task |-> NoTask, ok |-> TRUE]]
  /\ taskNum' = [taskNum EXCEPT ![tk.eng] = @ - 1]
  /\ IF ~wst[w].ok
       THEN reported' = Report(tk.pack.descs) /\ UNCHANGED pool
     ELSE IF HasDownNode(tk)
       THEN /\ pool' = Append(pool, [tk EXCEPT !.node = @ + 1, !.prio = NextPriority(@)])
            /\ UNCHANGED reported
       ELSE reported' = Report(tk.pack.descs) /\ UNCHANGED pool
  /\ UNCHANGED <<resp, cache, running, batcher, waiters, cpc, rid, nextId, sent,
                 discarded, dpc, popped, spc, holder, epc>>

(* After the unlock: ProcessFailed on every desc, or TaskNode::Transmit.   *)
(* Only the tail's done_notifier_ decrements task_num_.                    *)
Post(w) ==
  LET tk == wst[w].task IN
  /\ wst[w].st = "post"
  /\ wst' = [wst EXCEPT ![w] = [st |-> "idle", task |-> NoTask, ok |-> TRUE]]
  /\ IF ~wst[w].ok
       THEN reported' = Report(tk.pack.descs) /\ UNCHANGED <<pool, taskNum>>
     ELSE IF HasDownNode(tk)
       THEN /\ pool' = Append(pool, [tk EXCEPT !.node = @ + 1, !.prio = NextPriority(@)])
            /\ UNCHANGED <<reported, taskNum>>
       ELSE /\ reported' = Report(tk.pack.descs)
            /\ taskNum' = [taskNum EXCEPT ![tk.eng] = @ - 1]
            /\ UNCHANGED pool
  /\ UNCHANGED <<resp, cache, running, batcher, waiters, cpc, rid, nextId, sent,
                 discarded, dpc, popped, spc, holder, epc>>

(* Executor teardown after Stop: join the dispatch thread, then wait until *)
(* every engine's task_num_ is zero before destroying the engines.         *)
Join ==
  /\ epc = "run" /\ spc = "stopped" /\ dpc = "exit"
  /\ epc' = "joined"
  /\ UNCHANGED <<cacheVars, pool, taskNum, holder, wst>>

Destroy ==
  /\ epc = "joined" /\ \A e \in Engines : taskNum[e] = 0
  /\ epc' = "destroyed"
  /\ UNCHANGED <<cacheVars, pool, taskNum, holder, wst>>

-----------------------------------------------------------------------------
ExecInit ==
  /\ Init
  /\ pool = <<>> /\ taskNum = [e \in Engines |-> 0]
  /\ holder = [e \in Engines |-> [n \in Nodes |-> NoWorker]]
  /\ wst = [w \in Workers |-> [st |-> "idle", task |-> NoTask, ok |-> TRUE]]
  /\ epc = "run"

WorkerStep(w) == TakeTask(w) \/ Lock(w) \/ Process(w) \/ Post(w)

ExecNext ==
  \/ CacheNext /\ UNCHANGED execVars
  \/ Dispatch \/ Join \/ Destroy
  \/ \E w \in Workers : WorkerStep(w)

ExecSpec ==
  /\ ExecInit /\ [][ExecNext]_vars
  /\ \A t \in Req : WF_vars(ClientStep(t) /\ UNCHANGED execVars)
  /\ WF_vars(BatcherTimeout /\ UNCHANGED execVars)
  /\ WF_vars(PopStep /\ UNCHANGED execVars) /\ WF_vars(StopEmit /\ UNCHANGED execVars)
  /\ WF_vars(Dispatch) /\ WF_vars(Join) /\ WF_vars(Destroy)
  /\ \A t \in Req : WF_vars(Respond(t) /\ UNCHANGED execVars) /\ WF_vars(Callback(t) /\ UNCHANGED execVars)
  /\ \A w \in Workers : WF_vars(WorkerStep(w))

-----------------------------------------------------------------------------
Busy(w) == wst[w].st # "idle"
BusyWorkers == {w \in Workers : Busy(w)}

(* Descs of request t held by the pipeline: queued or run by a worker.     *)
InPipeline(t) ==
  Len(SelectSeq(FlattenSeq([i \in DOMAIN pool |-> pool[i].pack.descs]), LAMBDA it : it[1] = t))
  + MapThenSumSet(LAMBDA w : Len(SelectSeq(wst[w].task.pack.descs, LAMBDA it : it[1] = t)),
                  BusyWorkers)

(* Packages of engine e between dispatch and the end of their last stage.  *)
InFlight(e) ==
  Len(SelectSeq(pool, LAMBDA tk : tk.eng = e))
  + Cardinality({w \in BusyWorkers : wst[w].task.eng = e})

AllDiscarded(pack) == \A i \in DOMAIN pack.descs : discarded[pack.descs[i][1]]
Complete(t) == reported[t] >= ReqItems[t]

ExecTypeOK ==
  /\ TypeOK
  /\ pool \in Seq([pack : [data : Seq(Item), descs : Seq(Item), num : Nat, prio : Int],
                   eng : Engines, node : Nodes, prio : Int])
  /\ taskNum \in [Engines -> Nat]
  /\ holder \in [Engines -> [Nodes -> Workers \cup {NoWorker}]]
  /\ \A w \in Workers : wst[w].st \in {"idle", "lock", "proc", "post"} /\ wst[w].ok \in BOOLEAN
  /\ epc \in {"run", "joined", "destroyed"}

(* Every desc handed to the cache is in exactly one place: the cache, the  *)
(* thread pool's queue, a worker, or reported once to its RequestControl,  *)
(* whether the package completes, fails in a stage, or is swept.           *)
ExecItemConservation ==
  \A t \in Req : Located(t) + InPipeline(t) + reported[t] = Handed(t)

(* Engine::task_num_ counts exactly the packages dispatched to the engine  *)
(* that have not finished their last stage; the executor's least-loaded    *)
(* choice and its teardown wait both rely on it.                           *)
TaskNumMatchesInFlight == \A e \in Engines : taskNum[e] = InFlight(e)

(* Executor teardown terminates: once the cache is stopped, the executor   *)
(* is eventually destroyed.                                                *)
TeardownCompletes == spc = "stopped" ~> epc = "destroyed"

(* Every request whose items all reached the cache is eventually answered: *)
(* all its items are reported through the engines, the last reporter finds *)
(* it live and its response callback runs.                                 *)
ExecAllSentComplete == \A t \in Req : cpc[t] = "sent" ~> resp[t] = "fired"

(* A package all of whose requests were discarded is not passed on to the  *)
(* next stage (spec, testable property 5).                                 *)
DiscardedSkipsLaterStages ==
  [][\A w \in Workers :
       (Post(w) /\ wst[w].ok /\ HasDownNode(wst[w].task)) => ~AllDiscarded(wst[w].task.pack)]_vars

(* Requests sent one after another on a session complete in that order     *)
(* (spec, testable property 2).                                            *)
FifoCompletion ==
  \A t1, t2 \in Req : t1 < t2 /\ cpc[t1] = "sent" /\ Complete(t2) => Complete(t1)
=============================================================================
