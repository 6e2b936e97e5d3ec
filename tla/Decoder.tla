------------------------------ MODULE Decoder ------------------------------
(***************************************************************************)
(* EasyDecode and its DecodeHandler (easycodec/easy_decode.cpp): the      *)
(* state of both paths and the steps they share, with the video path's    *)
(* feeding; JpegDecode adds the JPEG path's operations.  Three actors: the user thread (FeedData, FeedEos, Pause, Resume, *)
(* AbortDecoder and finally the destructor), the handler's event loop      *)
(* thread (EventTaskRunner), and cncodec, which calls ReceiveFrame on its  *)
(* callback thread and queues EOS and error events through ReceiveEvent.   *)
(* A packet is its user pts; cncodec echoes back the 32-bit key that       *)
(* SetVpuTimestamp gave it, here KeyBits wide: the runs keep NumPackets    *)
(* below 2^KeyBits, so keys stay unique as uint32 keys do in practice.     *)
(***************************************************************************)
EXTENDS Integers, Sequences

CONSTANTS
  NumPackets,       \* packets the user feeds
  KeyBits,          \* width of pts_key_ (32 in the code)
  MayFail,          \* cnvideoDecFeedData may time out or fail
  CanError,         \* cncodec may raise one HW reset / error event
  CanAbort,         \* the user may call EasyDecode::AbortDecoder
  EosBeforeDestroy, \* the user sends EOS before destroying the decoder
  Modes,            \* codec types the constructor may be given: "video", "jpeg"
  OutputBufNum,     \* attr.output_buffer_num (JPEG path)
  CanInitFail       \* creating the codec, or a step of the init after it, may fail

Pts == 0..(NumPackets - 1)
Keys == 0..(2^KeyBits - 1)
NoPts == -1
EosInput == -2    \* the EOS input (CNVIDEODEC_FLAG_EOS) in codecIn
Statuses == {"RUNNING", "PAUSED", "EOS", "STOP"}
(* InitJpegDecode keys its output buffers OutputBufNum + i.              *)
PoolIds == OutputBufNum..(2 * OutputBufNum - 1)
PoolSeq == [i \in 1..OutputBufNum |-> OutputBufNum + i - 1]
(* The cncodecFrame* of the JPEG frame decoded from the packet with pts p. *)
CodecFrame(p) == 1000 + p
CodecFrames == {CodecFrame(p) : p \in Pts}
(* A buf_id TryPop left uninitialised that holds none of the pool's keys.  *)
Uninit == 999
Destructing == {"d_feedeos", "d_check", "d_block", "d_wait", "d_waiting", "d_notify", "d_join"}

VARIABLES
  handle,       \* handle_: "valid" or "null"
  aborts,       \* cnvideoDecAbort calls made
  status,       \* status_
  sendEos,      \* send_eos_
  gotEos,       \* got_eos_
  events,       \* event_queue_
  elpc,         \* event loop program counter
  evWaiting,    \* the event loop is in event_cond_'s wait set
  eosWaiting,   \* the destructor is in eos_cond_'s wait set
  upc,          \* user thread program counter
  retry,        \* retry_time of the feed in progress
  cur,          \* [pts, key] of the packet being fed
  nextPts,      \* pts of the user's next packet
  ptsKey,       \* pts_key_
  ptsMap,       \* vpu_pts_map_
  inFlight,     \* packets cncodec accepted and has not output: [pts, key]
  codecIn,      \* what cncodec was fed: packet pts, or EosInput
  frames,       \* frames given to frame_callback: [src, got]
  errRaised,    \* cncodec raised its error event
  eosOut,       \* cncodec reported EOS
  mode,         \* jpeg_decode_: "video" or "jpeg"
  free,         \* memory_ids_, the free JPEG output buffers, oldest first
  poolMap,      \* the keys of memory_pool_map_
  jIn,          \* pts of JPEG images cnjpegDecFeedData accepted, not yet output
  held,         \* JPEG frames the user holds: [buf |-> finfo.buf_id, pts |-> finfo.pts]
  codecRefs     \* JPEG codec frames with a cnjpegDecAddReference not yet released

jpegVars == <<mode, free, poolMap, jIn, held, codecRefs>>
vars == <<handle, aborts, status, sendEos, gotEos, events, elpc, evWaiting, eosWaiting,
          upc, retry, cur, nextPts, ptsKey, ptsMap, inFlight, codecIn, frames, errRaised, eosOut,
          jpegVars>>

-----------------------------------------------------------------------------
(* Mutant: the key is read but pts_key_ is not advanced.                  *)
SetVpuTimestampNoIncrement(pts) ==
  /\ ptsMap' = [ptsMap EXCEPT ![ptsKey] = pts]
  /\ UNCHANGED ptsKey

(* SetVpuTimestamp: key = pts_key_++ (wrapping), vpu_pts_map_[key] = pts. *)
SetVpuTimestamp(pts) ==
  /\ ptsMap' = [ptsMap EXCEPT ![ptsKey] = pts]
  /\ ptsKey' = (ptsKey + 1) % 2^KeyBits

(* GetVpuTimestamp: the recorded pts of key, erased; NoPts when absent.     *)
LookupPts(key) == ptsMap[key]
ErasePts(key) == [ptsMap EXCEPT ![key] = NoPts]

(* Mutant: the channel is aborted but handle_ is not cleared.             *)
AbortDoKeepHandle ==
  /\ aborts' = aborts + 1 /\ UNCHANGED handle /\ status' = "EOS"
  /\ gotEos' = TRUE /\ eosWaiting' = FALSE

(* AbortDecoder after its handle_ check: abort, clear handle_, status EOS, *)
(* eos_callback, then got_eos_ = true and notify_one under eos_mtx_.       *)
AbortDo ==
  /\ aborts' = aborts + 1 /\ handle' = "null" /\ status' = "EOS"
  /\ gotEos' = TRUE /\ eosWaiting' = FALSE

(* ReceiveEvent: push under event_mtx_ (not while the event loop holds it) *)
(* and notify_one.                                                          *)
ReceiveEvent(type) ==
  /\ elpc # "blocking"
  /\ events' = Append(events, type) /\ evWaiting' = FALSE

-----------------------------------------------------------------------------
(* EasyDecode::FeedData, video path: its unlocked checks, then             *)
(* SetVpuTimestamp.                                                        *)
FeedData ==
  /\ mode = "video" /\ upc = "run" /\ nextPts < NumPackets
  /\ nextPts' = nextPts + 1
  /\ IF handle = "valid" /\ ~sendEos /\ status # "PAUSED"
       THEN /\ cur' = [pts |-> nextPts, key |-> ptsKey] /\ SetVpuTimestamp(nextPts)
            /\ retry' = 3 /\ upc' = "feed"
       ELSE UNCHANGED <<cur, ptsMap, ptsKey, retry, upc>>
  /\ UNCHANGED <<jpegVars, handle, aborts, status, sendEos, gotEos, events, elpc, evWaiting, eosWaiting,
                 inFlight, codecIn, frames, errRaised, eosOut>>

(* Mutant: the last timeout throws without erasing the key's record.     *)
FeedVideoDataKeepOnTimeout ==
  /\ mode = "video" /\ upc = "feed"
  /\ \E res \in IF handle = "null" THEN {"error"}
                ELSE IF MayFail THEN {"ok", "timeout", "error"} ELSE {"ok"} :
       \/ /\ res = "ok"
          /\ inFlight' = inFlight \cup {cur} /\ codecIn' = Append(codecIn, cur.pts)
          /\ upc' = "run" /\ UNCHANGED <<jpegVars, retry, ptsMap>>
       \/ /\ res = "timeout" /\ retry > 1
          /\ retry' = retry - 1 /\ UNCHANGED <<jpegVars, upc, ptsMap, inFlight, codecIn>>
       \/ /\ res = "timeout" /\ retry = 1
          /\ upc' = "run" /\ UNCHANGED <<jpegVars, retry, ptsMap, inFlight, codecIn>>
       \/ /\ res = "error"
          /\ ptsMap' = ErasePts(cur.key) /\ upc' = "run"
          /\ UNCHANGED <<jpegVars, retry, inFlight, codecIn>>
  /\ UNCHANGED <<jpegVars, handle, aborts, status, sendEos, gotEos, events, elpc, evWaiting, eosWaiting,
                 cur, nextPts, ptsKey, frames, errRaised, eosOut>>

(* FeedVideoData: cnvideoDecFeedData(handle_) up to three times; a timeout *)
(* retries, the last one or an error erases the key and throws.            *)
FeedVideoData ==
  /\ mode = "video" /\ upc = "feed"
  /\ \E res \in IF handle = "null" THEN {"error"}
                ELSE IF MayFail THEN {"ok", "timeout", "error"} ELSE {"ok"} :
       \/ /\ res = "ok"
          /\ inFlight' = inFlight \cup {cur} /\ codecIn' = Append(codecIn, cur.pts)
          /\ upc' = "run" /\ UNCHANGED <<jpegVars, retry, ptsMap>>
       \/ /\ res = "timeout" /\ retry > 1
          /\ retry' = retry - 1 /\ UNCHANGED <<jpegVars, upc, ptsMap, inFlight, codecIn>>
       \/ /\ res = "error" \/ (res = "timeout" /\ retry = 1)
          /\ ptsMap' = ErasePts(cur.key) /\ upc' = "run"
          /\ UNCHANGED <<jpegVars, retry, inFlight, codecIn>>
  /\ UNCHANGED <<jpegVars, handle, aborts, status, sendEos, gotEos, events, elpc, evWaiting, eosWaiting,
                 cur, nextPts, ptsKey, frames, errRaised, eosOut>>

(* DecodeHandler::FeedEos under eos_mtx_: a second EOS is refused; a       *)
(* timeout or error throws and leaves send_eos_ false.  from is where the  *)
(* caller continues, fail where an exception takes it.                     *)
FeedEosAt(from, to, fail) ==
  /\ upc = from
  /\ IF sendEos
       THEN upc' = to /\ UNCHANGED <<jpegVars, sendEos, codecIn>>
       ELSE \E ok \in IF handle = "null" THEN {FALSE} ELSE IF MayFail THEN BOOLEAN ELSE {TRUE} :
              IF ok THEN sendEos' = TRUE /\ codecIn' = Append(codecIn, EosInput) /\ upc' = to
                    ELSE upc' = fail /\ UNCHANGED <<jpegVars, sendEos, codecIn>>
  /\ UNCHANGED <<jpegVars, handle, aborts, status, gotEos, events, elpc, evWaiting, eosWaiting,
                 retry, cur, nextPts, ptsKey, ptsMap, inFlight, frames, errRaised, eosOut>>

(* EasyDecode::FeedEos / SendData(eos): user-visible, at most once tried.  *)
FeedEos == ~sendEos /\ FeedEosAt("run", "run", "run")

(* Pause and Resume: compare_exchange_strong on status_.                   *)
Pause ==
  /\ upc = "run" /\ status = "RUNNING" /\ status' = "PAUSED"
  /\ UNCHANGED <<jpegVars, handle, aborts, sendEos, gotEos, events, elpc, evWaiting, eosWaiting, upc,
                 retry, cur, nextPts, ptsKey, ptsMap, inFlight, codecIn, frames, errRaised, eosOut>>

Resume ==
  /\ upc = "run" /\ status = "PAUSED" /\ status' = "RUNNING"
  /\ UNCHANGED <<jpegVars, handle, aborts, sendEos, gotEos, events, elpc, evWaiting, eosWaiting, upc,
                 retry, cur, nextPts, ptsKey, ptsMap, inFlight, codecIn, frames, errRaised, eosOut>>

(* EasyDecode::AbortDecoder on the user thread: the unlocked handle_ check *)
(* and, apart from it, the abort.                                          *)
UserAbortCheck ==
  /\ CanAbort /\ upc = "run"
  /\ upc' = IF handle = "valid" THEN "abort" ELSE "run"
  /\ UNCHANGED <<jpegVars, handle, aborts, status, sendEos, gotEos, events, elpc, evWaiting, eosWaiting,
                 retry, cur, nextPts, ptsKey, ptsMap, inFlight, codecIn, frames, errRaised, eosOut>>

UserAbort ==
  /\ upc = "abort" /\ AbortDo /\ upc' = "run"
  /\ UNCHANGED <<jpegVars, sendEos, events, elpc, evWaiting, retry, cur, nextPts, ptsKey, ptsMap,
                 inFlight, codecIn, frames, errRaised, eosOut>>

-----------------------------------------------------------------------------
(* ~DecodeHandler.  status STOP; under eos_mtx_: if no EOS came back and   *)
(* none was sent, eos_mtx_.unlock() and FeedEos, after which eos_lk still  *)
(* claims the lock, so the got_eos_ test and the wait are not atomic; else *)
(* a null handle_ counts as EOS and the wait keeps the lock.               *)
DestructStart ==
  /\ \/ upc = "run" /\ (EosBeforeDestroy => sendEos)
     \/ upc = "ctor_fail"
  /\ status' = "STOP"
  /\ IF gotEos THEN upc' = "d_notify" /\ UNCHANGED gotEos
     ELSE IF ~sendEos /\ handle = "valid" THEN upc' = "d_feedeos" /\ UNCHANGED gotEos
     ELSE gotEos' = (handle = "null") /\ upc' = "d_wait"
  /\ UNCHANGED <<jpegVars, handle, aborts, sendEos, events, elpc, evWaiting, eosWaiting,
                 retry, cur, nextPts, ptsKey, ptsMap, inFlight, codecIn, frames, errRaised, eosOut>>

(* decoder_->FeedEos(); an exception skips event_loop_.join(), and the     *)
(* joinable std::thread's destructor calls std::terminate.                 *)
DestructFeedEos == FeedEosAt("d_feedeos", "d_check", "terminate")

(* if (!got_eos_) read without the mutex, then eos_cond_.wait.             *)
DestructCheck ==
  /\ upc = "d_check" /\ upc' = IF gotEos THEN "d_notify" ELSE "d_block"
  /\ UNCHANGED <<jpegVars, handle, aborts, status, sendEos, gotEos, events, elpc, evWaiting, eosWaiting,
                 retry, cur, nextPts, ptsKey, ptsMap, inFlight, codecIn, frames, errRaised, eosOut>>

(* Joining eos_cond_'s wait set: after DestructCheck, or, holding the     *)
(* mutex, at once after testing the predicate.                            *)
DestructWait ==
  /\ \/ upc = "d_block"
     \/ upc = "d_wait" /\ ~gotEos
  /\ eosWaiting' = TRUE /\ upc' = "d_waiting"
  /\ UNCHANGED <<jpegVars, handle, aborts, status, sendEos, gotEos, events, elpc, evWaiting,
                 retry, cur, nextPts, ptsKey, ptsMap, inFlight, codecIn, frames, errRaised, eosOut>>

(* Notified, or the locked predicate already held.                          *)
DestructWake ==
  /\ \/ upc = "d_waiting" /\ ~eosWaiting
     \/ upc = "d_wait" /\ gotEos
  /\ upc' = "d_notify"
  /\ UNCHANGED <<jpegVars, handle, aborts, status, sendEos, gotEos, events, elpc, evWaiting, eosWaiting,
                 retry, cur, nextPts, ptsKey, ptsMap, inFlight, codecIn, frames, errRaised, eosOut>>

(* event_cond_.notify_all(), without event_mtx_.                            *)
DestructNotify ==
  /\ upc = "d_notify" /\ evWaiting' = FALSE /\ upc' = "d_join"
  /\ UNCHANGED <<jpegVars, handle, aborts, status, sendEos, gotEos, events, elpc, eosWaiting,
                 retry, cur, nextPts, ptsKey, ptsMap, inFlight, codecIn, frames, errRaised, eosOut>>

(* event_loop_.join(), then cnvideoDecStop / Destroy and handle_ = nullptr. *)
DestructJoin ==
  /\ upc = "d_join" /\ elpc = "exited"
  /\ handle' = "null" /\ upc' = "done"
  /\ UNCHANGED <<jpegVars, aborts, status, sendEos, gotEos, events, elpc, evWaiting, eosWaiting,
                 retry, cur, nextPts, ptsKey, ptsMap, inFlight, codecIn, frames, errRaised, eosOut>>

-----------------------------------------------------------------------------
(* EventTaskRunner, holding event_mtx_: leave once the queue is empty and  *)
(* got_eos_ is set; pop an event and unlock; or find the predicate false   *)
(* and go to wait.                                                         *)
EventTop ==
  /\ elpc = "top"
  /\ IF events # <<>>
       THEN /\ elpc' = (IF Head(events) = "EOS" THEN "h_eos" ELSE "h_err")
            /\ events' = Tail(events)
       ELSE /\ elpc' = (IF gotEos THEN "exited" ELSE "blocking")
            /\ UNCHANGED events
  /\ UNCHANGED <<jpegVars, handle, aborts, status, sendEos, gotEos, evWaiting, eosWaiting, upc,
                 retry, cur, nextPts, ptsKey, ptsMap, inFlight, codecIn, frames, errRaised, eosOut>>

(* event_cond_.wait: release the mutex and join the wait set; a notify     *)
(* sent between the predicate test and this step is lost.                  *)
EventBlock ==
  /\ elpc = "blocking" /\ evWaiting' = TRUE /\ elpc' = "waiting"
  /\ UNCHANGED <<jpegVars, handle, aborts, status, sendEos, gotEos, events, eosWaiting, upc,
                 retry, cur, nextPts, ptsKey, ptsMap, inFlight, codecIn, frames, errRaised, eosOut>>

EventWake ==
  /\ elpc = "waiting" /\ ~evWaiting /\ elpc' = "top"
  /\ UNCHANGED <<jpegVars, handle, aborts, status, sendEos, gotEos, events, evWaiting, eosWaiting, upc,
                 retry, cur, nextPts, ptsKey, ptsMap, inFlight, codecIn, frames, errRaised, eosOut>>

(* Mutant: got_eos_ set without notify_one.                               *)
ReceiveEOSNoNotify ==
  /\ elpc = "h_eos" /\ elpc' = "top"
  /\ status' = "EOS" /\ gotEos' = TRUE
  /\ UNCHANGED <<jpegVars, handle, aborts, sendEos, events, evWaiting, eosWaiting, upc,
                 retry, cur, nextPts, ptsKey, ptsMap, inFlight, codecIn, frames, errRaised, eosOut>>

(* ReceiveEOS: status EOS, eos_callback, got_eos_ and notify_one.          *)
ReceiveEOS ==
  /\ elpc = "h_eos" /\ elpc' = "top"
  /\ status' = "EOS" /\ gotEos' = TRUE /\ eosWaiting' = FALSE
  /\ UNCHANGED <<jpegVars, handle, aborts, sendEos, events, evWaiting, upc,
                 retry, cur, nextPts, ptsKey, ptsMap, inFlight, codecIn, frames, errRaised, eosOut>>

(* A reset, out-of-memory or abort event: AbortDecoder's handle_ check,    *)
(* then the abort.                                                         *)
EventAbortCheck ==
  /\ elpc = "h_err" /\ elpc' = IF handle = "valid" THEN "h_abort" ELSE "top"
  /\ UNCHANGED <<jpegVars, handle, aborts, status, sendEos, gotEos, events, evWaiting, eosWaiting, upc,
                 retry, cur, nextPts, ptsKey, ptsMap, inFlight, codecIn, frames, errRaised, eosOut>>

EventAbort ==
  /\ elpc = "h_abort" /\ AbortDo /\ elpc' = "top"
  /\ UNCHANGED <<jpegVars, sendEos, events, evWaiting, upc, retry, cur, nextPts, ptsKey, ptsMap,
                 inFlight, codecIn, frames, errRaised, eosOut>>

-----------------------------------------------------------------------------
(* cncodec, while its channel is neither aborted nor destroyed: a decoded  *)
(* frame, in any order, goes to ReceiveFrame, which looks its key up.      *)
ReceiveFrame ==
  /\ handle = "valid"
  /\ \E p \in inFlight :
       /\ frames' = Append(frames, [src |-> p.pts,
                                    got |-> IF LookupPts(p.key) # NoPts THEN LookupPts(p.key) ELSE p.key])
       /\ ptsMap' = ErasePts(p.key) /\ inFlight' = inFlight \ {p}
  /\ UNCHANGED <<jpegVars, handle, aborts, status, sendEos, gotEos, events, elpc, evWaiting, eosWaiting, upc,
                 retry, cur, nextPts, ptsKey, codecIn, errRaised, eosOut>>

(* After the last frame of a stream that ended in EOS, the EOS event.      *)
(* (cnvideoDecFeedData or cnjpegDecFeedData with the EOS flag).            *)
CodecEos ==
  /\ handle = "valid" /\ sendEos /\ inFlight = {} /\ jIn = {} /\ ~eosOut
  /\ ReceiveEvent("EOS") /\ eosOut' = TRUE
  /\ UNCHANGED <<jpegVars, handle, aborts, status, sendEos, gotEos, elpc, eosWaiting, upc,
                 retry, cur, nextPts, ptsKey, ptsMap, inFlight, codecIn, frames, errRaised>>

CodecError ==
  /\ CanError /\ handle = "valid" /\ ~errRaised
  /\ ReceiveEvent("ERR") /\ errRaised' = TRUE
  /\ UNCHANGED <<jpegVars, handle, aborts, status, sendEos, gotEos, elpc, eosWaiting, upc,
                 retry, cur, nextPts, ptsKey, ptsMap, inFlight, codecIn, frames, eosOut>>

-----------------------------------------------------------------------------
(* EasyDecode's constructor: the codec type picks InitVideoDecode or       *)
(* InitJpegDecode, which created the channel; the JPEG path also pushed    *)
(* every output buffer's key on memory_ids_.  The event loop runs.         *)
(* InitVideoDecode: cnvideoDecCreate, then cnvideoDecSetAttributes; when  *)
(* either fails it throws, with handle_ still null or already created.    *)
InitVideoDecode(ok) ==
  /\ handle \in IF ok THEN {"valid"} ELSE {"null", "valid"}
  /\ free = <<>> /\ poolMap = {}

(* InitJpegDecode: cnjpegDecCreate, then one cnrtMalloc per output buffer, *)
(* keyed OutputBufNum + i in memory_pool_map_ and pushed on memory_ids_;   *)
(* a failed malloc throws after the first k buffers.                       *)
InitJpegDecode(ok) ==
  IF ok THEN handle = "valid" /\ free = PoolSeq /\ poolMap = PoolIds
  ELSE \/ handle = "null" /\ free = <<>> /\ poolMap = {}
       \/ handle = "valid" /\ \E k \in 0..(OutputBufNum - 1) :
            free = SubSeq(PoolSeq, 1, k) /\ poolMap = {PoolSeq[i] : i \in 1..k}

(* EasyDecode::EasyDecode: the handler's event loop is already running;    *)
(* the init for the codec type either succeeds or throws, and then the     *)
(* constructor deletes the handler at once (upc = "ctor_fail").            *)
Init ==
  /\ aborts = 0 /\ status = "RUNNING"
  /\ sendEos = FALSE /\ gotEos = FALSE /\ events = <<>> /\ elpc = "top"
  /\ evWaiting = FALSE /\ eosWaiting = FALSE /\ retry = 0
  /\ cur = [pts |-> 0, key |-> 0] /\ nextPts = 0 /\ ptsKey = 0
  /\ ptsMap = [k \in Keys |-> NoPts] /\ inFlight = {} /\ codecIn = <<>>
  /\ frames = <<>> /\ errRaised = FALSE /\ eosOut = FALSE
  /\ mode \in Modes
  /\ \E ok \in IF CanInitFail THEN BOOLEAN ELSE {TRUE} :
       /\ upc = IF ok THEN "run" ELSE "ctor_fail"
       /\ IF mode = "jpeg" THEN InitJpegDecode(ok) ELSE InitVideoDecode(ok)
  /\ jIn = {} /\ held = {} /\ codecRefs = {}

UserStep ==
  \/ FeedData \/ FeedVideoData \/ FeedEos \/ Pause \/ Resume \/ UserAbortCheck \/ UserAbort

Destructor ==
  \/ DestructStart \/ DestructFeedEos \/ DestructCheck \/ DestructWait \/ DestructWake
  \/ DestructNotify \/ DestructJoin

EventLoop ==
  \/ EventTop \/ EventBlock \/ EventWake \/ ReceiveEOS \/ EventAbortCheck \/ EventAbort

Codec == ReceiveFrame \/ CodecEos \/ CodecError

Next == UserStep \/ Destructor \/ EventLoop \/ Codec

(* The destructor, once entered, and the event loop run whenever they can; *)
(* cncodec delivers decoded frames and the EOS event; the user may stop    *)
(* using the decoder at any point.                                         *)
Spec ==
  /\ Init /\ [][Next]_vars
  /\ WF_vars(Destructor /\ upc # "run") /\ WF_vars(EventLoop)
  /\ WF_vars(ReceiveFrame) /\ WF_vars(CodecEos)

-----------------------------------------------------------------------------
TypeOK ==
  /\ handle \in {"valid", "null"} /\ aborts \in 0..2 /\ status \in Statuses
  /\ sendEos \in BOOLEAN /\ gotEos \in BOOLEAN /\ events \in Seq({"EOS", "ERR"})
  /\ elpc \in {"top", "blocking", "waiting", "h_eos", "h_err", "h_abort", "exited"}
  /\ upc \in {"run", "ctor_fail", "feed", "abort", "d_feedeos", "d_check", "d_block", "d_wait",
              "d_waiting", "d_notify", "d_join", "done", "terminate"}
  /\ retry \in 0..3 /\ nextPts \in 0..NumPackets /\ ptsKey \in Keys
  /\ ptsMap \in [Keys -> Pts \cup {NoPts}] /\ inFlight \subseteq [pts : Pts, key : Keys]
  /\ \A i \in DOMAIN frames : frames[i].src \in Pts
  /\ mode \in Modes
  /\ free \in Seq(PoolIds \cup {Uninit}) /\ poolMap \subseteq PoolIds \cup {Uninit}
  /\ jIn \subseteq Pts /\ codecRefs \subseteq CodecFrames
  /\ held \subseteq [buf : PoolIds \cup {Uninit} \cup CodecFrames, pts : Pts]

(* Every frame handed to frame_callback carries the pts of the packet it   *)
(* was decoded from, though cncodec reorders frames and feeds time out,    *)
(* fail and are retried (SetVpuTimestamp / GetVpuTimestamp).               *)
FramePtsMatch == \A i \in DOMAIN frames : frames[i].got = frames[i].src

(* vpu_pts_map_ keeps a record only for a packet that cncodec may still   *)
(* return: the one FeedVideoData is feeding, or one cncodec accepted and   *)
(* has not output.  A feed that fails or times out for the last time must  *)
(* erase its record, and ReceiveFrame erases the record it reads, even     *)
(* when the event thread aborts the channel between FeedData's handle_     *)
(* check and the feed.  A leaked record is never erased.                   *)
PtsEntriesTracked ==
  \A k \in Keys : ptsMap[k] # NoPts =>
     \/ upc = "feed" /\ cur.key = k
     \/ \E p \in inFlight : p.key = k /\ p.pts = ptsMap[k]

(* The decoder channel is aborted at most once.                            *)
AbortOnce == aborts <= 1

(* The destructor does not end the process: no exception escapes to a     *)
(* still-joinable event_loop_.                                             *)
NoTerminate == upc # "terminate"

(* Destroying the decoder returns: the EOS handshake and the join of the   *)
(* event loop complete.                                                    *)
DestructorReturns == upc \in Destructing ~> upc = "done"

(* Once EOS was fed to a live codec, without AbortDecoder, a destructor    *)
(* that waits for EOS with eos_mtx_ held (d_wait: the user fed EOS before  *)
(* destroying) or has seen got_eos_ (d_notify) returns: ReceiveEOS, run on *)
(* the event loop, sets got_eos_ and notifies, so the loop leaves and is   *)
(* joined, in both the video and the JPEG mode and after a failed init.    *)
DestructorReturnsAfterEos ==
  (upc \in {"d_wait", "d_notify"} /\ sendEos /\ aborts = 0) ~> upc = "done"
=============================================================================
