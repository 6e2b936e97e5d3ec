------------------------------- MODULE Cache -------------------------------
(***************************************************************************)
(* The batching cache of the inference server (core/cache.h): CacheBase    *)
(* with its two strategies CacheStatic and CacheDynamic, the client        *)
(* threads that feed it through InferServer::Request/RequestSync and       *)
(* Session::Send, the dispatch thread that drains it with Pop, and the     *)
(* executor thread that stops it.                                          *)
(*                                                                         *)
(* One condition variable, cache_cond_, is shared by the dispatch thread   *)
(* (waiting for "not empty or stopped") and by clients in WaitIfFull       *)
(* (waiting for "not full"); `waiters` is its wait set.  Stop() writes     *)
(* running_ and notifies without holding cache_mutex_, so the dispatch     *)
(* thread's wait is split into the predicate check (lock held, dpc =       *)
(* "checked") and the block.                                               *)
(***************************************************************************)
EXTENDS Integers, Sequences, SequencesExt

CONSTANTS
  NumReq,       \* client threads; thread t sends one request
  ReqItems,     \* ReqItems[t]: data_num of the request of thread t
  Continuous,   \* threads whose input is one continuous blob (data.size() = 1)
  Strategy,     \* "STATIC" (CacheStatic) or "DYNAMIC" (CacheDynamic)
  BatchSize,    \* batch_size_
  Capacity,     \* cache_capacity_
  WaitForever,  \* clients pass timeout <= 0: WaitIfFull waits without bound
  CanStop,      \* the executor may stop the cache during the run
  CanDiscard,   \* clients may call DiscardTask
  Sequential,   \* one application thread sends the requests one after another
  Sync          \* threads calling RequestSync on a sync session; the others call Request

Req == 1..NumReq
Disp == 0                      \* the dispatch thread in the wait set
MaxItems == Max({ReqItems[t] : t \in Req})

ASSUME /\ NumReq \in Nat \ {0}
       /\ ReqItems \in [Req -> Nat \ {0}]
       /\ Continuous \subseteq Req
       /\ Strategy \in {"STATIC", "DYNAMIC"}
       /\ Strategy = "DYNAMIC" => Continuous = {}
       /\ BatchSize \in Nat \ {0} /\ Capacity \in Nat \ {0}
       /\ WaitForever \in BOOLEAN /\ CanStop \in BOOLEAN /\ CanDiscard \in BOOLEAN
       /\ Sequential \in BOOLEAN /\ Sync \subseteq Req

VARIABLES
  cache,      \* CacheBase::cache_, the list of packages
  running,    \* CacheBase::running_
  batcher,    \* items held by CacheDynamic's Batcher, not yet emitted
  waiters,    \* threads blocked on cache_cond_
  cpc,        \* program counter of each client thread
  rid,        \* rid[t]: RequestId() of t's RequestControl, 0 before Send
  nextId,     \* the Session's next request id
  sent,       \* sent[t]: items of t's input already handed to the cache
  discarded,  \* RequestControl::IsDiscarded()
  reported,   \* ProcessDone/ProcessFailed calls made on t's RequestControl
  dpc,        \* program counter of the dispatch thread
  popped,     \* the package the last Pop returned, until it is passed on
  spc,        \* the stopping thread: "run", "emit" (DYNAMIC), "stopped"
  resp        \* the RequestControl's response: "none", "checked" (the last
              \* reporter found it not discarded), "fired", "dropped"

cacheVars == <<cache, running, batcher, waiters, cpc, rid, nextId, sent,
               discarded, reported, dpc, popped, spc, resp>>

Item == Req \X (1..MaxItems)   \* <<thread, index>>: an InferData and its desc
NoPackage == [data |-> <<>>, descs |-> <<>>, num |-> 0, prio |-> 0]

(* cache_mutex_ is held across a step only by the dispatch thread between  *)
(* evaluating its wait predicate and blocking.                             *)
Locked == dpc = "checked"

NotifyOne(W) == IF W = {} THEN {{}} ELSE {W \ {w} : w \in W}

(* RequestControl::ProcessDone / ProcessFailed, once per item of `items`.  *)
Report(items) ==
  [t \in Req |-> reported[t] + Len(SelectSeq(items, LAMBDA it : it[1] = t))]

-----------------------------------------------------------------------------
(* Packages.  A desc is the item it belongs to.  CacheStatic copies descs  *)
(* into the package at Enqueue; CacheDynamic moves them at PreparePackage. *)

InData(t) == IF t \in Continuous THEN <<<<t, 1>>>>
             ELSE [i \in 1..ReqItems[t] |-> <<t, i>>]

(* CopyDescToPackageContinuous: data_num descs sharing the one ctrl.       *)
ContinuousDescs(t) == [i \in 1..ReqItems[t] |-> <<t, i>>]

(* Mutant: the chunk end one past batch_size.                             *)
StaticChunkOverrun(t) ==
  LET n    == Len(InData(t))
      data == SubSeq(InData(t), sent[t] + 1, Min({sent[t] + BatchSize + 1, n}))
  IN [data  |-> data,
      descs |-> IF n = 1 /\ ReqItems[t] # 1 THEN ContinuousDescs(t) ELSE data,
      num   |-> IF n = 1 THEN ReqItems[t] ELSE Len(data),
      prio  |-> -rid[t]]

(* One iteration of CacheStatic::Enqueue that pushes a package.            *)
StaticChunk(t) ==
  LET n    == Len(InData(t))
      data == SubSeq(InData(t), sent[t] + 1, Min({sent[t] + BatchSize, n}))
  IN [data  |-> data,
      descs |-> IF n = 1 /\ ReqItems[t] # 1 THEN ContinuousDescs(t) ELSE data,
      num   |-> IF n = 1 THEN ReqItems[t] ELSE Len(data),
      prio  |-> -rid[t]]

(* The Batcher's sink in CacheDynamic's constructor.                       *)
Emitted(items) ==
  [data |-> items, descs |-> <<>>, num |-> Len(items),
   prio |-> -rid[items[1][1]]]

PreparePackage(p) ==
  IF Strategy = "DYNAMIC" THEN [p EXCEPT !.descs = p.data] ELSE p

HasDiscard(p) == \E i \in DOMAIN p.data : discarded[p.data[i][1]]

AllData(ps) == FlattenSeq([i \in DOMAIN ps |-> ps[i].data])

(* Mutant: the number of batches rounded down, losing a partial tail.     *)
RebatchFloor(items) ==
  [k \in 1..(Len(items) \div BatchSize) |->
     LET chunk == SubSeq(items, (k - 1) * BatchSize + 1, k * BatchSize)
     IN [data |-> chunk, descs |-> <<>>, num |-> Len(chunk), prio |-> 0]]

(* Mutant: the live items are collected with emplace_front, reversed.     *)
RebatchReversed(items) ==
  LET r == Reverse(items) IN
  [k \in 1..((Len(r) + BatchSize - 1) \div BatchSize) |->
     LET chunk == SubSeq(r, (k - 1) * BatchSize + 1, Min({k * BatchSize, Len(r)}))
     IN [data |-> chunk, descs |-> <<>>, num |-> Len(chunk), prio |-> 0]]

(* CacheDynamic::ClearDiscard rebatches the live items; a fresh Package    *)
(* keeps the default priority.                                             *)
Rebatch(items) ==
  [k \in 1..((Len(items) + BatchSize - 1) \div BatchSize) |->
     LET chunk == SubSeq(items, (k - 1) * BatchSize + 1,
                         Min({k * BatchSize, Len(items)}))
     IN [data |-> chunk, descs |-> <<>>, num |-> Len(chunk), prio |-> 0]]

DynamicKept == Rebatch(SelectSeq(AllData(cache), LAMBDA it : ~discarded[it[1]]))
DynamicDropped == SelectSeq(AllData(cache), LAMBDA it : discarded[it[1]])

(* CacheStatic::ClearDiscard looks at the ctrl of data[0] only.            *)
StaticKept == SelectSeq(cache, LAMBDA p : ~discarded[p.data[1][1]])
StaticDropped == AllData(SelectSeq(cache, LAMBDA p : discarded[p.data[1][1]]))

(* Mutant: the swept items are dropped without ProcessFailed.             *)
ClearDiscardNoReport(kept, dropped) ==
  /\ UNCHANGED reported
  /\ IF kept = <<>>
       THEN /\ cache' = <<>> /\ popped' = NoPackage /\ dpc' = "exit"
            /\ UNCHANGED waiters
       ELSE /\ cache' = Tail(kept) /\ popped' = PreparePackage(Head(kept))
            /\ dpc' = "popped"
            /\ \E w \in NotifyOne(waiters) : waiters' = w

ClearDiscard(kept, dropped) ==
  /\ reported' = Report(dropped)
  /\ IF kept = <<>>
       THEN /\ cache' = <<>> /\ popped' = NoPackage /\ dpc' = "exit"
            /\ UNCHANGED waiters
       ELSE /\ cache' = Tail(kept) /\ popped' = PreparePackage(Head(kept))
            /\ dpc' = "popped"
            /\ \E w \in NotifyOne(waiters) : waiters' = w

-----------------------------------------------------------------------------
(* Client threads: InferServer::Request / RequestSync and Session::Send.   *)

WaitIfFull(t) ==
  /\ cpc[t] = "idle" /\ ~Locked
  /\ Sequential => \A u \in 1..(t - 1) : cpc[u] \in {"sent", "rejected", "returned", "timedout"}
  /\ IF Len(cache) < Capacity
       THEN cpc' = [cpc EXCEPT ![t] = "alloc"] /\ UNCHANGED waiters
       ELSE cpc' = [cpc EXCEPT ![t] = "waitfull"] /\ waiters' = waiters \cup {t}
  /\ UNCHANGED <<resp, cache, running, batcher, rid, nextId, sent, discarded,
                 reported, dpc, popped, spc>>

(* Woken from cache_cond_, the predicate is evaluated again.               *)
WaitIfFullWake(t) ==
  /\ cpc[t] = "waitfull" /\ t \notin waiters /\ ~Locked
  /\ IF Len(cache) < Capacity
       THEN cpc' = [cpc EXCEPT ![t] = "alloc"] /\ UNCHANGED waiters
       ELSE waiters' = waiters \cup {t} /\ UNCHANGED cpc
  /\ UNCHANGED <<resp, cache, running, batcher, rid, nextId, sent, discarded,
                 reported, dpc, popped, spc>>

(* wait_for with a positive timeout returns the predicate at expiry.       *)
WaitIfFullTimeout(t) ==
  /\ ~WaitForever /\ cpc[t] = "waitfull" /\ t \in waiters /\ ~Locked
  /\ waiters' = waiters \ {t}
  /\ cpc' = [cpc EXCEPT ![t] = IF Len(cache) < Capacity THEN "alloc" ELSE "rejected"]
  /\ UNCHANGED <<resp, cache, running, batcher, rid, nextId, sent, discarded,
                 reported, dpc, popped, spc>>

(* Session::Send allocates the RequestControl with the next id; before it, *)
(* RequestSync returns TIMEOUT when WaitIfFull used up the timeout.        *)
Send(t) ==
  /\ cpc[t] = "alloc"
  /\ \/ /\ rid' = [rid EXCEPT ![t] = nextId] /\ nextId' = nextId + 1
        /\ cpc' = [cpc EXCEPT ![t] = "push"]
     \/ /\ ~WaitForever /\ cpc' = [cpc EXCEPT ![t] = "rejected"]
        /\ UNCHANGED <<rid, nextId>>
  /\ UNCHANGED <<resp, cache, running, batcher, waiters, sent, discarded, reported,
                 dpc, popped, spc>>

(* CacheBase::Push checks running_ without the lock, then Enqueues.        *)
Push(t) ==
  /\ cpc[t] = "push"
  /\ cpc' = [cpc EXCEPT ![t] = IF running THEN "enqueue" ELSE "rejected"]
  /\ UNCHANGED <<resp, cache, running, batcher, waiters, rid, nextId, sent,
                 discarded, reported, dpc, popped, spc>>

(* One package of CacheStatic::Enqueue: push_back under the lock, notify_one. *)
EnqueueStatic(t) ==
  /\ Strategy = "STATIC" /\ cpc[t] = "enqueue" /\ ~Locked
  /\ LET p == StaticChunk(t) IN
       /\ cache' = Append(cache, p)
       /\ sent' = [sent EXCEPT ![t] = sent[t] + Len(p.data)]
       /\ cpc' = [cpc EXCEPT ![t] = IF sent'[t] = Len(InData(t)) THEN "sent" ELSE "enqueue"]
  /\ \E w \in NotifyOne(waiters) : waiters' = w
  /\ UNCHANGED <<resp, running, batcher, rid, nextId, discarded, reported, dpc,
                 popped, spc>>

(* Mutant: the batch is emitted one item too late.                         *)
EnqueueDynamicLate(t) ==
  /\ Strategy = "DYNAMIC" /\ cpc[t] = "enqueue"
  /\ LET b == Append(batcher, InData(t)[sent[t] + 1]) IN
       IF Len(b) = BatchSize + 1
         THEN /\ ~Locked /\ cache' = Append(cache, Emitted(b))
              /\ batcher' = <<>> /\ waiters' = {}
         ELSE batcher' = b /\ UNCHANGED <<resp, cache, waiters>>
  /\ sent' = [sent EXCEPT ![t] = sent[t] + 1]
  /\ cpc' = [cpc EXCEPT ![t] = IF sent'[t] = Len(InData(t)) THEN "sent" ELSE "enqueue"]
  /\ UNCHANGED <<resp, running, rid, nextId, discarded, reported, dpc, popped, spc>>

(* One Batcher::AddItem of CacheDynamic::Enqueue; a full batch is emitted  *)
(* into the cache under the lock with notify_all.                          *)
EnqueueDynamic(t) ==
  /\ Strategy = "DYNAMIC" /\ cpc[t] = "enqueue"
  /\ LET b == Append(batcher, InData(t)[sent[t] + 1]) IN
       IF Len(b) = BatchSize
         THEN /\ ~Locked /\ cache' = Append(cache, Emitted(b))
              /\ batcher' = <<>> /\ waiters' = {}
         ELSE batcher' = b /\ UNCHANGED <<resp, cache, waiters>>
  /\ sent' = [sent EXCEPT ![t] = sent[t] + 1]
  /\ cpc' = [cpc EXCEPT ![t] = IF sent'[t] = Len(InData(t)) THEN "sent" ELSE "enqueue"]
  /\ UNCHANGED <<resp, running, rid, nextId, discarded, reported, dpc, popped, spc>>

(* InferServer::DiscardTask: RequestControl::Discard of the request.      *)
Discard(t) ==
  /\ CanDiscard /\ cpc[t] \in {"push", "enqueue", "sent"} /\ ~discarded[t]
  /\ discarded' = [discarded EXCEPT ![t] = TRUE]
  /\ UNCHANGED <<resp, cache, running, batcher, waiters, cpc, rid, nextId, sent,
                 reported, dpc, popped, spc>>

(* The Batcher's timer emits a partial batch.                              *)
BatcherTimeout ==
  /\ Strategy = "DYNAMIC" /\ batcher # <<>> /\ ~Locked
  /\ cache' = Append(cache, Emitted(batcher)) /\ batcher' = <<>> /\ waiters' = {}
  /\ UNCHANGED <<resp, running, cpc, rid, nextId, sent, discarded, reported, dpc,
                 popped, spc>>

(* The thread that made the RequestControl's last report tests            *)
(* IsDiscarded() and, when it is not, calls the response callback; the     *)
(* completion counter is atomic, the test and the call are two steps.      *)
Respond(t) ==
  /\ resp[t] = "none" /\ reported[t] >= ReqItems[t]
  /\ resp' = [resp EXCEPT ![t] = IF discarded[t] THEN "dropped" ELSE "checked"]
  /\ UNCHANGED <<cache, running, batcher, waiters, cpc, rid, nextId, sent,
                 discarded, reported, dpc, popped, spc>>

Callback(t) ==
  /\ resp[t] = "checked" /\ resp' = [resp EXCEPT ![t] = "fired"]
  /\ UNCHANGED <<cache, running, batcher, waiters, cpc, rid, nextId, sent,
                 discarded, reported, dpc, popped, spc>>

(* RequestSync after Send: the callback's done.set_value() readies the    *)
(* future, and flag.wait / wait_for returns true with the callback's       *)
(* status and output.                                                      *)
SyncDone(t) ==
  /\ t \in Sync /\ cpc[t] = "sent" /\ resp[t] = "fired"
  /\ cpc' = [cpc EXCEPT ![t] = "returned"]
  /\ UNCHANGED <<resp, cache, running, batcher, waiters, rid, nextId, sent, discarded,
                 reported, dpc, popped, spc>>

(* wait_for with a positive timeout expires first: ctrl->Discard(),        *)
(* *status = TIMEOUT and return.  The callback, holding references to      *)
(* output and done on this frame, stays with the RequestControl.           *)
SyncTimeout(t) ==
  /\ t \in Sync /\ ~WaitForever /\ cpc[t] = "sent" /\ resp[t] # "fired"
  /\ discarded' = [discarded EXCEPT ![t] = TRUE]
  /\ cpc' = [cpc EXCEPT ![t] = "timedout"]
  /\ UNCHANGED <<resp, cache, running, batcher, waiters, rid, nextId, sent, reported,
                 dpc, popped, spc>>

-----------------------------------------------------------------------------
(* CacheBase::Pop, run by the dispatch thread.                             *)

(* Mutant: front() is handed out without pop_front().                     *)
TakeFrontNoPop ==
  IF HasDiscard(Head(cache))
    THEN IF Strategy = "STATIC" THEN ClearDiscard(StaticKept, StaticDropped)
                                ELSE ClearDiscard(DynamicKept, DynamicDropped)
    ELSE /\ UNCHANGED cache /\ popped' = PreparePackage(Head(cache))
         /\ dpc' = "popped" /\ UNCHANGED reported
         /\ \E w \in NotifyOne(waiters) : waiters' = w

(* Mutant: the package is taken from the back of cache_.                  *)
TakeFrontFromBack ==
  IF HasDiscard(Head(cache))
    THEN IF Strategy = "STATIC" THEN ClearDiscard(StaticKept, StaticDropped)
                                ELSE ClearDiscard(DynamicKept, DynamicDropped)
    ELSE /\ cache' = Front(cache) /\ popped' = PreparePackage(Last(cache))
         /\ dpc' = "popped" /\ UNCHANGED reported
         /\ \E w \in NotifyOne(waiters) : waiters' = w

TakeFront ==
  IF HasDiscard(Head(cache))
    THEN IF Strategy = "STATIC" THEN ClearDiscard(StaticKept, StaticDropped)
                                ELSE ClearDiscard(DynamicKept, DynamicDropped)
    ELSE /\ cache' = Tail(cache) /\ popped' = PreparePackage(Head(cache))
         /\ dpc' = "popped" /\ UNCHANGED reported
         /\ \E w \in NotifyOne(waiters) : waiters' = w

(* Lock, then either take the front, return null (stopped and empty), or   *)
(* find the wait predicate false with the lock held.                       *)
PopBegin ==
  /\ dpc = "pop"
  /\ IF cache # <<>> THEN TakeFront
     ELSE IF ~running THEN dpc' = "exit" /\ UNCHANGED <<resp, cache, popped, reported, waiters>>
     ELSE dpc' = "checked" /\ UNCHANGED <<resp, cache, popped, reported, waiters>>
  /\ UNCHANGED <<resp, running, batcher, cpc, rid, nextId, sent, discarded, spc>>

(* cache_cond_.wait releases the lock and blocks.                          *)
PopBlock ==
  /\ dpc = "checked"
  /\ dpc' = "waiting" /\ waiters' = waiters \cup {Disp}
  /\ UNCHANGED <<resp, cache, running, batcher, cpc, rid, nextId, sent, discarded,
                 reported, popped, spc>>

(* Notified: relock and evaluate the predicate again.                      *)
PopWake ==
  /\ dpc = "waiting" /\ Disp \notin waiters
  /\ IF cache # <<>> THEN TakeFront
     ELSE IF ~running THEN dpc' = "exit" /\ UNCHANGED <<resp, cache, popped, reported, waiters>>
     ELSE dpc' = "checked" /\ UNCHANGED <<resp, cache, popped, reported, waiters>>
  /\ UNCHANGED <<resp, running, batcher, cpc, rid, nextId, sent, discarded, spc>>

(* The executor stops the cache: CacheBase::Stop stores running_ = false   *)
(* and notifies all without the lock; CacheDynamic::Stop then flushes the  *)
(* Batcher with Emit.                                                      *)
Stop ==
  /\ CanStop /\ spc = "run"
  /\ running' = FALSE /\ waiters' = {}
  /\ spc' = IF Strategy = "DYNAMIC" THEN "emit" ELSE "stopped"
  /\ UNCHANGED <<resp, cache, batcher, cpc, rid, nextId, sent, discarded, reported,
                 dpc, popped>>

StopEmit ==
  /\ spc = "emit"
  /\ IF batcher # <<>>
       THEN ~Locked /\ cache' = Append(cache, Emitted(batcher)) /\ batcher' = <<>>
       ELSE UNCHANGED <<resp, cache, batcher>>
  /\ waiters' = {} /\ spc' = "stopped"
  /\ UNCHANGED <<resp, running, cpc, rid, nextId, sent, discarded, reported, dpc, popped>>

-----------------------------------------------------------------------------
Init ==
  /\ cache = <<>> /\ running = TRUE /\ batcher = <<>> /\ waiters = {}
  /\ cpc = [t \in Req |-> "idle"] /\ rid = [t \in Req |-> 0] /\ nextId = 1
  /\ sent = [t \in Req |-> 0] /\ discarded = [t \in Req |-> FALSE]
  /\ reported = [t \in Req |-> 0]
  /\ dpc = "pop" /\ popped = NoPackage /\ spc = "run"
  /\ resp = [t \in Req |-> "none"]

(* The virtual CacheBase::Enqueue, dispatched to the strategy's override. *)
Enqueue(t) == IF Strategy = "STATIC" THEN EnqueueStatic(t) ELSE EnqueueDynamic(t)

(* Steps of a client that has started a request.                           *)
ClientStep(t) ==
  \/ WaitIfFullWake(t) \/ WaitIfFullTimeout(t) \/ Send(t) \/ Push(t)
  \/ Enqueue(t) \/ SyncDone(t) \/ SyncTimeout(t)

PopStep == PopBegin \/ PopBlock \/ PopWake

(* The cache, its clients and the stopping thread; the consumer of popped  *)
(* packages is added by the module that uses the cache.                    *)
CacheNext ==
  \/ \E t \in Req : WaitIfFull(t) \/ ClientStep(t) \/ Discard(t)
  \/ \E t \in Req : Respond(t) \/ Callback(t)
  \/ BatcherTimeout \/ PopStep \/ Stop \/ StopEmit

CacheFairness ==
  /\ \A t \in Req : WF_cacheVars(ClientStep(t))
  /\ WF_cacheVars(BatcherTimeout) /\ WF_cacheVars(PopStep) /\ WF_cacheVars(StopEmit)
  /\ \A t \in Req : WF_cacheVars(Respond(t)) /\ WF_cacheVars(Callback(t))

-----------------------------------------------------------------------------
(* Where the descs of a request are: batcher, cache, or the popped package. *)
Located(t) ==
  LET inCache == IF Strategy = "STATIC"
                   THEN FlattenSeq([i \in DOMAIN cache |-> cache[i].descs])
                   ELSE AllData(cache)
      all == batcher \o inCache \o popped.descs
  IN Len(SelectSeq(all, LAMBDA it : it[1] = t))

(* Descs handed to the cache so far (all data_num of them once a           *)
(* continuous input is enqueued).                                          *)
Handed(t) == IF t \in Continuous /\ sent[t] > 0 THEN ReqItems[t] ELSE sent[t]

-----------------------------------------------------------------------------
(* Stand-in for the executor when the cache is checked alone: the popped   *)
(* package is processed and every desc reported with ProcessDone.          *)
Consume ==
  /\ dpc = "popped"
  /\ reported' = Report(popped.descs) /\ popped' = NoPackage /\ dpc' = "pop"
  /\ UNCHANGED <<resp, cache, running, batcher, waiters, cpc, rid, nextId, sent,
                 discarded, spc>>

Next == CacheNext \/ Consume

Spec == Init /\ [][Next]_cacheVars /\ CacheFairness /\ WF_cacheVars(Consume)

-----------------------------------------------------------------------------
TypeOK ==
  /\ cache \in Seq([data : Seq(Item), descs : Seq(Item), num : Nat, prio : Int])
  /\ running \in BOOLEAN /\ batcher \in Seq(Item) /\ waiters \subseteq Req \cup {Disp}
  /\ cpc \in [Req -> {"idle", "waitfull", "alloc", "push", "enqueue", "sent", "rejected",
                    "returned", "timedout"}]
  /\ rid \in [Req -> 0..NumReq] /\ nextId \in 1..NumReq + 1
  /\ sent \in [Req -> 0..MaxItems] /\ discarded \in [Req -> BOOLEAN]
  /\ reported \in [Req -> 0..MaxItems]
  /\ dpc \in {"pop", "checked", "waiting", "popped", "exit"}
  /\ spc \in {"run", "emit", "stopped"}
  /\ resp \in [Req -> {"none", "checked", "fired", "dropped"}]

(* The refinement mapping: the items the dispatch loop can still pop, in   *)
(* the order it would pop them.  CacheStatic's packages carry their descs; *)
(* CacheDynamic's packages carry data and the Batcher holds the newest.    *)
QueueView ==
  IF Strategy = "STATIC" THEN FlattenSeq([i \in DOMAIN cache |-> cache[i].descs])
                         ELSE AllData(cache) \o batcher

Queue == INSTANCE ItemQueue WITH q <- QueueView

(* The cache with its Batcher is a FIFO of items: Enqueue, AddItem and the *)
(* timer only append at the back, Pop takes from the front, and the        *)
(* discard sweep of ClearDiscard removes nothing but items of discarded    *)
(* requests and keeps the live items in their order across the rebatch.   *)
CacheImplementsQueue == Queue!Spec

(* Every desc a client handed to the cache is, at every moment, in exactly *)
(* one place: the Batcher, a cached package, the popped package, or        *)
(* already reported to its RequestControl.  Broken by a sweep or a rebatch *)
(* that loses, duplicates or under-reports the items it takes out.         *)
ItemConservation == \A t \in Req : Located(t) + reported[t] = Handed(t)

(* No package that leaves or waits in the cache carries more than          *)
(* batch_size descs (spec, testable property 4).                           *)
BatchBound ==
  \A p \in {cache[i] : i \in DOMAIN cache} \cup {popped} :
     Len(IF Strategy = "DYNAMIC" /\ p # popped THEN p.data ELSE p.descs) <= BatchSize

(* Every request whose items all reached the cache is eventually completed: *)
(* all of its data_num descs are reported.                                  *)
AllSentComplete == \A t \in Req : cpc[t] = "sent" ~> reported[t] >= ReqItems[t]

(* Pop returns null only once the cache is stopped (spec 4.3), so the      *)
(* dispatch loop, which ends on null, ends only after Stop.                *)
PopNullOnlyWhenStopped == [][dpc' = "exit" => ~running]_cacheVars

(* After Stop, the dispatch thread returns from Pop and the executor can   *)
(* join it.                                                                *)
StopEndsDispatcher == ~running ~> dpc = "exit"

(* A RequestSync that returned TIMEOUT is never called back: its Discard  *)
(* must keep the RequestControl's response, which comes once all items    *)
(* are reported, from running, since the callback writes output and sets  *)
(* done on a stack frame that is gone.                                     *)
NoCallbackAfterSyncTimeout ==
  \A t \in Sync : cpc[t] = "timedout" => resp[t] # "fired"

(* When the dispatch thread has left its loop, nothing is left behind in   *)
(* the cache or the Batcher that no one will ever pop.                     *)
NoStrandedPackage == dpc = "exit" => cache = <<>> /\ batcher = <<>>
=============================================================================
