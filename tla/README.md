# TLA+ models of easydk's inference server and video decoder

This directory holds TLA+ specifications of the concurrent parts of easydk, the
TLC configurations that check them, and `PROJECT.json`. `PROJECT.json` maps
every modelled definition to the source lines it translates, and lists the
runs, mutants, findings and hazards.

## The system and its parts

The repository contains two independent subsystems.

**InferServer** (`src/infer_server/src/core/infer_server.cpp`,
`src/unnamed/part_000` = `core/engine.cpp`, `src/unnamed/part_001` =
`core/cache.h`).

- A client thread calls `CreateSession`. It finds or constructs an
  **Executor** keyed by the session's signature (model, function, pre- and
  postprocessor), links the session to it, and grows the shared
  **PriorityThreadPool**.
- `Request` / `RequestSync` push the request's items into the executor's
  **Cache**. There are two cache strategies:
  - `CacheStatic` chunks each request into packages of at most
    `batch_size`.
  - `CacheDynamic` feeds a **Batcher**, which emits full batches, or partial
    ones on a timer.
  - A producer blocks in `WaitIfFull` while the cache is at capacity.
- The executor's dispatch loop `Pop`s packages and hands each one to the
  least-loaded **Engine**. An engine is a chain of **TaskNodes**
  (preprocess, model, postprocess).
- Each node invocation runs as a closure on the thread pool. It takes the
  processor's mutex, runs `Process` and unlocks. Then either it reports
  failure to every request of the package, or it `Transmit`s the package to
  the next node at one priority higher. At the tail it reports completion
  and calls `done_notifier_`, which decrements `Engine::task_num_`.
- `DestroySession` unlinks the session. When the executor's last session
  goes, it erases the executor from the map, deletes it and shrinks the
  pool.

**EasyDecode** (`src/src/easycodec/easy_decode.cpp`).

- A user thread feeds packets, EOS, pause, resume and abort.
- The codec's callback thread delivers frames, EOS and errors.
- An event thread handles events queued by the callback.
- The `DecodeHandler` destructor feeds EOS if needed, waits for the EOS to
  come back, stops the event thread and joins it.
- Each fed packet's pts is stored under a key in a map, and the frame that
  comes back carries the key.
- The constructor picks the video or the JPEG path from the codec type.
  - On the JPEG path, `FeedData` runs `CheckProgressiveMode` on the packet's
    bytes.
  - A baseline image goes to the codec. Its frame comes back on the callback
    thread with a codec reference.
  - A progressive image is decoded on the user thread into one of
    `output_buffer_num` device buffers, taken from the `memory_ids_` queue.
  - The user hands both kinds of frame back with `ReleaseBuffer(buf_id)`. A
    key of the buffer pool goes back on the queue; any other `buf_id` is a
    codec frame, whose reference goes back to the codec.

The Executor's own dispatch loop and teardown, the PriorityThreadPool, the
Session/RequestControl objects and the Batcher are not under `src/`. Where
the modules need them, they are modelled from `spec.md` and marked
`spec_modelled` in the map.

## Modules

| Module | Models | State (code) | Actions (code) |
|---|---|---|---|
| `Cache` | `cache.h`, plus the client side of `Request`/`RequestSync` | `cache` (cache_), `running` (running_), `batcher`, `waiters` (threads blocked in WaitIfFull or Pop on cache_cond_), the client pc `cpc`, per-request `sent`/`discarded`/`reported`, and `resp` (the response of a request whose items are all reported: none, checked, fired, or dropped because discarded); `Sync` is the set of clients that call `RequestSync` | `WaitIfFull`(`Wake`/`Timeout`), `Push`, `EnqueueStatic`, `EnqueueDynamic`, `BatcherTimeout`, `Discard`, `PopBegin`/`PopBlock`/`PopWake`, `TakeFront` (which includes `ClearDiscard` and `PreparePackage`), `Stop`, `StopEmit`, `Consume` (the consumer of popped packages), `Respond`/`Callback` (RequestControl's discard test after the last report, then the response callback: two steps), and RequestSync's `SyncDone` (wake on done) and `SyncTimeout` (Discard and return) |
| `Executor` | `engine.cpp` on top of `Cache`, plus dispatch, the pool and teardown from spec.md | `pool` (queued closures with priorities), `taskNum` (task_num_), `holder` (the processor mutexes), `wst` (worker stage), `epc` (teardown) | `Dispatch`, `TakeTask`, `Lock`, `Process`, `Post` (the failure path, Transmit, or the tail with done_notifier_), `Join`, `Destroy` |
| `InferServer` | `infer_server.cpp` session and executor life cycle | `executorMap`, `alive`, `nameOf`, `linked`, `sexec`, the thread pc `spc`, `tpSize` | `CreateExecutor`, `GrowPool`, `Link`, `DestroySession`, `CheckAndDestroyExecutor`, `DeleteExecutor`, `ShrinkPool` |
| `ItemQueue` | the abstract promise of the cache (spec 4.2) | `q` (the items, oldest first), `discarded` | `Put` (append at the back), `Get` (take from the front after sweeping discarded items out of the reached prefix), `Discard` |
| `Decoder` | `easy_decode.cpp` DecodeHandler/EasyDecode: the state of both paths, the steps they share, and the video path's feeding | `handle`, `status`, `sendEos`, `gotEos`, the event queue and event-loop pc, the destructor/user pc `upc`, `ptsKey`/`ptsMap`, the packets in flight in the codec, the codec's input `codecIn`, the frames out; for JPEG, `mode` (jpeg_decode_), `free` (memory_ids_), `poolMap` (the keys of memory_pool_map_), `jIn` (baseline images in the codec), `held` (frames the user holds) and `codecRefs` | `Init` (the constructor: `InitVideoDecode` or `InitJpegDecode`, which may fail with a null handle or, after the create, with the handle and a partial output pool; a failed construction runs the destructor at once, `upc = "ctor_fail"`), `FeedData`/`FeedVideoData` (with retry and erase), `FeedEos`, `Pause`, `Resume`, `UserAbortCheck`/`UserAbort`, `DestructStart`…`DestructJoin`, `EventTop`/`EventBlock`/`EventWake`/`ReceiveEOS`/`EventAbortCheck`/`EventAbort`, `ReceiveFrame`, `CodecEos`, `CodecError` |
| `JpegProbe` | `detail::CheckProgressiveMode` | (pure) | `CheckProgressiveMode` and its RECURSIVE segment `Walk`. Each byte read past the packet is any of a few values, so the result is a set. Also a generator of well-formed JPEG streams (SOI, tables whose payload may hide `FF C2`, SOF0/1/2/10, SOS, byte-stuffed entropy data, EOI). |
| `JpegDecode` | the JPEG path, on top of `Decoder` | Decoder's | `FeedJpeg` (EasyDecode::FeedData's JPEG branch, including `DecodeProgressiveJpeg` with its ignored `TryPop` failure), `FeedJpegData` (retry and throw), `ReceiveJpegFrame` (the JPEG branch of ReceiveFrame with `cnjpegDecAddReference`), `ReleaseBuffer` |

`Cache` implements `ItemQueue`. The refinement mapping `QueueView` flattens
the descs of the static packages in cache order, or, for the dynamic
strategy, the items of the cache's packages followed by the Batcher's. The
property `CacheImplementsQueue` is `ItemQueue!Spec` under this mapping. It
says that:

- packaging, batching and the rebatch in `ClearDiscard` never reorder
  items;
- nothing is lost or duplicated;
- only items of discarded requests leave other than from the front.

`MCCache`, `MCExecutor`, `MCInferServer`, `MCDecoder` and `MCJpegDecode`
give the constants values: request sizes, worker model values, signatures,
and the JPEG packets' bytes.

Each locked region of the code is one action, and each unlock–relock is a
split into separate actions. A step that reads shared state without a lock
and acts on it later (`Stop`, the destructor's `got_eos_` test, the abort
check) is two actions, so TLC explores the interleavings between them. Data
is abstracted to item identities, request ids, pts values and keys.

## Runs

| Run | Expect | Properties | What it shows |
|---|---|---|---|
| `cache_dynamic` | pass | ItemConservation, BatchBound, CacheImplementsQueue | 3 requests (2+1+1 items), capacity 2, three client threads racing Stop and Discard, with the dynamic strategy: every item is reported at most once, no package exceeds batch_size, and the cache, including the Batcher and the rebatching in ClearDiscard, refines the FIFO `ItemQueue` |
| `exec_safety` | pass | ExecTypeOK, ExecItemConservation, BatchBound, CacheImplementsQueue | the static cache under the pipeline: 2 requests, 2 engines × 2 nodes, 2 workers, failing processors, Stop and Discard. The pipeline reports each item of each request exactly once, no package exceeds batch_size, and the static cache refines `ItemQueue` |
| `exec_live` | pass | ExecAllSentComplete | with the dynamic strategy (Batcher and its timer), under weak fairness of the workers, the dispatcher, the timer and the reporting thread, every request that reaches the cache is answered: its response callback runs, even with failures |
| `is_main` | pass | TypeOK, MapTracksLive | three sessions, two with one signature, created and destroyed concurrently: lookup and insert under one lock leave no two live executors of one name, the map equals the live executors (apart from one being deleted), and the pool never exceeds its cap. Sharing of one executor by all active sessions of a signature is not claimed: with three sessions of one signature it fails through the use-after-free that `is_use_after_free` shows |
| `dec_safety` | pass | TypeOK, FramePtsMatch, PtsEntriesTracked, BufferOwnership, ProgressiveModeCorrect, DestructorReturnsAfterEos | both paths from the constructor's choice, with feed timeouts, errors and aborts. Video: 3 packets with 2-bit keys, so keys are unique, as 32-bit keys are unless 2^32 packets are in flight; every frame carries its packet's pts though cncodec reorders frames and feeds time out, fail and retry, and `vpu_pts_map_` keeps a record only for the packet being fed or one still in the codec, also when the event thread aborts the channel under a feed. JPEG: progressive, baseline and progressive images with 2 output buffers and releases by the user; every output buffer has exactly one owner, and CheckProgressiveMode routes all 112 generated well-formed streams by their SOF marker and refuses non-JPEG data. The constructor may fail (`CanInitFail`), so ownership is also checked from a failed InitJpegDecode's partial pool. Under weak fairness of the event, callback and destructor threads, a destructor entered after the user fed EOS, with no abort, returns in both modes |
| `cache_notify_steal` | violation | AllSentComplete | Pop's `notify_one` wakes another Pop instead of the blocked producer |
| `exec_tasknum_leak` | violation | TaskNumMatchesInFlight | a failed `Process` never decrements `task_num_` |
| `is_use_after_free` | violation | NoUseOfDeletedExecutor | CreateSession links to an executor that a concurrent DestroySession deleted |
| `dec_destroy_wakeup` | violation | DestructorReturns | the destructor's unlocked `got_eos_` test loses the EOS notification |
| `dec_pool_underflow` | violation | BufferOwnership | with one output buffer, a second progressive image decoded while the user holds the first frame: `TryPop` fails, the failure is ignored, and both frames use buffer 1 |
| `cache_sync_timeout` | violation | NoCallbackAfterSyncTimeout | RequestSync times out, discards and returns while the last item's reporter has already passed RequestControl's discard test; the callback then writes `output` and `done` in RequestSync's dead stack frame |
| `cache_stop_wakeup` | violation | StopEndsDispatcher | `Stop` clears `running_` and notifies without the cache mutex, so a Pop between its predicate test and its wait sleeps forever |

Each property of a passing run has a mutant in `PROJECT.json`. A mutant is
a plausible bug in the mapped definition, and TLC finds the property
violated under that mutant. Examples:

- a dropped `pop_front`;
- TakeFront taking the back package;
- the rebatch collecting live items in reverse;
- ClearDiscard without `ProcessFailed`;
- a chunk one past batch_size;
- floor instead of ceil in the rebatch;
- a processor lock never released;
- no growth cap on the pool;
- CheckAndDestroy without the erase;
- AbortDecoder keeping the handle;
- `pts_key_` not incremented;
- FeedVideoData's last timeout throwing without erasing its record;
- ReceiveEOS without the notify;
- ReleaseBuffer without its memory_pool_map_ lookup;
- CheckProgressiveMode that knows SOF2 but not SOF10.

### Other violations TLC found while modelling

The modules state the following properties as well, and TLC found each
violated by the modelled code. They are not yet standing runs; they are
listed here for the next sittings to turn into runs:

- **`PopNullOnlyWhenStopped`** (cache.h:79): Pop returns nullptr while
  running when ClearDiscard drops the whole front package.
- **`NoStrandedPackage`** (cache.h:59): a Push racing Stop leaves a package
  behind. With the dynamic strategy, the item lands in the Batcher after
  the final Emit, and `~CacheDynamic`'s `CHECK_EQ` (cache.h:150) aborts.
- **`ItemConservation` with `Continuous = {1}`** (cache.h:217):
  discarding a continuous package reports only `data[0]`.
- **`BatchBound` with `Continuous = {1}`** (cache.h:257): a continuous
  request is packaged whole, beyond batch_size.
- **`TeardownCompletes`** (engine.cpp:52): the leaked `task_num_` makes
  executor teardown wait forever.
- **`DiscardedSkipsLaterStages`** (engine.cpp:59): `Transmit` does not
  check discard.
- **`FifoCompletion`** (engine.cpp:38): the processor mutex is not FIFO, so
  requests of one session can complete out of order.
- **`PoolReturnsAfterChurn`** (infer_server.cpp:111): the pool grows by
  3·engine_num and shrinks by 2·engine_num, so sequential create/destroy
  ratchets it to the cap.
- **`DestructorReturns` with `CanAbort` or `CanInitFail`**
  (easy_decode.cpp:303): when handle_ is null, after AbortDecoder or a
  failed create, the destructor sets got_eos_ itself and its `notify_all`,
  sent without the event lock, is the event loop's only wakeup. An event
  loop between its predicate test and its wait misses it, and join hangs.
  Shortest trace: a failed create, EventTop, DestructStart, DestructWake,
  DestructNotify, EventBlock.
- **`AbortOnce`** (easy_decode.cpp:404): the user and the event thread can
  both abort the codec.
- **`NoTerminate`** (easy_decode.cpp:288): FeedEos throws out of the
  destructor.

## Bounds

- **Cache.** Three requests of 2, 1 and 1 items with capacity 2 and
  batch_size 1 (static) or 2 (dynamic). This is enough for a request to be
  split over packages, for a producer to block on a full cache, and for a
  discard to hit a package in the cache and one in the batcher.
- **Executor.** Two requests, two engines of two nodes, and two workers. A
  package can be at different stages on both workers, and least-loaded
  dispatch has a choice.
- **InferServer.** Three sessions and `MaxThreads` 4 with engine_num 1, so
  the 3·engine_num growth hits the cap.
- **Decoder.** Three packets with 2-bit keys and a retry budget of 3, as
  in the code. The keys never wrap: `pts_key_` is a uint32, and a collision
  after a wrap needs 2^32 packets in flight, so the model keeps keys unique
  as the code does in practice. Three packets are enough for cncodec to
  return frames out of order, for a feed to time out and be retried, and
  for the event thread's abort to land between a feed's check and its
  call.
- **JPEG.** Two output buffers for the two progressive images of
  `dec_safety`, so a buffer is reused only after the user releases it. With
  a buffer fewer, the pool underflows, and `dec_pool_underflow` shows what
  then happens.
- **CheckProgressiveMode.** It is checked on 112 generated streams: 7 table
  choices, 4 SOF codes and 4 entropy segments. A byte read past the end is
  any of 0x00, 0xFF, 0xC2 and 0xCA, the values the walk distinguishes.

Every passing run explores more than 100 distinct states. Together the
passing runs fire every action.

## Fairness

The liveness runs assume weak fairness for each thread's enabled steps: the
pool workers, the dispatch loop, the Batcher timer, the event thread, the
codec callback and the destructor. These are dedicated threads, each
blocking only on a condition variable or mutex. The codec's JPEG frame delivery gets the same weak fairness as its video
frames. RequestControl's reporter gets weak fairness for its discard test and callback, because the thread that made the last report runs on into them. The user thread of
`Decoder` gets no fairness before the destructor starts, because a user may
simply stop feeding.

## Spec notes

`spec.md` section 5 says a discarded request still gets one SUCCESS
callback, while section 4 and invariant (ii) say no callback follows a
discard. The model follows invariant (ii): `Respond` drops the response of
a request discarded before its last report. The completion counter is
atomic, but the discard test and the callback are two steps, and
`cache_sync_timeout` shows the race between them.

`spec.md` says lower numeric priority dispatches first, yet uses
`Get(-request_id)` to put older requests first. These two statements
contradict each other. The model follows the code's max-heap reading
(highest first).

## Not modelled

- **ModelManager:** model loading and caching, which is I/O.
- **`InitVideoDecode`/`InitJpegDecode` parameters, the TurboJPEG handle
  (an uninitialised `tjinstance_` is destroyed after a failed cnrtMalloc),
  `ReceiveSequence`, empty frames and `CopyFrameD2H`:** parameter and buffer
  handling
  with no concurrency beyond the modelled handle and status.
- **The display sink declarations at easy_decode.cpp:973-1009.**
- **The sample shell script.**
- **A JPEG decoder without `frame_callback`:** each progressive image then
  leaks an output buffer, which is listed as a hazard. The model fixes the
  callback as set.
- **`memory_pool_map_` races:** `ReleaseBuffer` reads the map unlocked
  while the feeding thread may insert into it after a pool underflow. The
  model treats map operations as atomic.
- **The destructor's freeing of the pool while the user still holds
  frames:** this is the user's contract with the API.

## Plan for later sittings

1. Turn the other violations above into standing runs when a run can be
   merged away.
2. Model Session response ordering across requests of one session.
3. Refine `Executor` against an abstract "each sent item completes once"
   specification.
4. Add a cache-size bound to expose WaitIfFull's check-then-act overshoot.
