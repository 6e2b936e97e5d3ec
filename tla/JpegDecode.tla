------------------------------ MODULE JpegDecode -----------------------------
(***************************************************************************)
(* The JPEG path of EasyDecode (easycodec/easy_decode.cpp), on top of      *)
(* Decoder, which holds DecodeHandler's state and the steps both paths     *)
(* share.  InitJpegDecode (Decoder's Init) allocates OutputBufNum device   *)
(* buffers, keys them OutputBufNum + i in memory_pool_map_ and pushes the  *)
(* keys on the memory_ids_ queue.  In the JPEG path, FeedData runs CheckProgressiveMode *)
(* on the packet.  A baseline image goes to the codec (FeedJpegData); its  *)
(* frame comes back on the callback thread with a codec reference.  A     *)
(* progressive image is decoded on the user thread by turbojpeg into a     *)
(* buffer taken from memory_ids_ (DecodeProgressiveJpeg).  The user        *)
(* returns either kind of frame with ReleaseBuffer(buf_id).  frame_callback *)
(* is set: the user receives, and later releases, every frame.             *)
(***************************************************************************)
EXTENDS Decoder, JpegProbe, FiniteSets

CONSTANTS JpegPackets   \* the bytes of each packet the user feeds, in order

ASSUME Len(JpegPackets) = NumPackets

-----------------------------------------------------------------------------
(* DecodeProgressiveJpeg on the user thread: TryPop a buffer id; when the  *)
(* queue is empty TryPop fails, the result is ignored and buf_id is read   *)
(* uninitialised, so it is any key or none; memory_pool_map_[buf_id]       *)
(* inserts a missing key.  The frame goes to frame_callback.               *)
DecodeProgressiveJpeg(p) ==
  \E id \in IF free # <<>> THEN {Head(free)} ELSE poolMap \cup {Uninit} :
     /\ free' = IF free # <<>> THEN Tail(free) ELSE free
     /\ poolMap' = poolMap \cup {id}
     /\ frames' = Append(frames, [src |-> p, got |-> p])
     /\ held' = held \cup {[buf |-> id, pts |-> p]}

(* EasyDecode::FeedData, JPEG path: the same checks as the video path,     *)
(* then CheckProgressiveMode: below 0 the packet is refused, 0 feeds it to  *)
(* the codec, above 0 decodes it here.                                     *)
FeedJpeg ==
  /\ mode = "jpeg" /\ upc = "run" /\ nextPts < NumPackets
  /\ nextPts' = nextPts + 1
  /\ IF handle = "valid" /\ ~sendEos /\ status # "PAUSED"
       THEN \E m \in CheckProgressiveMode(JpegPackets[nextPts + 1]) :
              CASE m < 0 -> UNCHANGED <<upc, cur, retry, frames, free, poolMap, held>>
                [] m = 0 -> /\ cur' = [pts |-> nextPts, key |-> 0] /\ retry' = 3
                            /\ upc' = "feed" /\ UNCHANGED <<frames, free, poolMap, held>>
                [] OTHER -> DecodeProgressiveJpeg(nextPts) /\ UNCHANGED <<upc, cur, retry>>
       ELSE UNCHANGED <<upc, cur, retry, frames, free, poolMap, held>>
  /\ UNCHANGED <<handle, aborts, status, sendEos, gotEos, events, elpc, evWaiting, eosWaiting,
                 ptsKey, ptsMap, inFlight, codecIn, errRaised, eosOut, mode, jIn, codecRefs>>

(* FeedJpegData: cnjpegDecFeedData up to three times; a timeout retries;   *)
(* the last timeout or an error throws.  Its GetVpuTimestamp erase finds   *)
(* nothing: JPEG packets keep their pts and vpu_pts_map_ stays empty.      *)
FeedJpegData ==
  /\ mode = "jpeg" /\ upc = "feed"
  /\ \E res \in IF handle = "null" THEN {"error"}
                ELSE IF MayFail THEN {"ok", "timeout", "error"} ELSE {"ok"} :
       \/ /\ res = "ok"
          /\ jIn' = jIn \cup {cur.pts} /\ codecIn' = Append(codecIn, cur.pts)
          /\ upc' = "run" /\ UNCHANGED retry
       \/ /\ res = "timeout" /\ retry > 1
          /\ retry' = retry - 1 /\ UNCHANGED <<upc, jIn, codecIn>>
       \/ /\ res = "error" \/ (res = "timeout" /\ retry = 1)
          /\ upc' = "run" /\ UNCHANGED <<retry, jIn, codecIn>>
  /\ UNCHANGED <<handle, aborts, status, sendEos, gotEos, events, elpc, evWaiting, eosWaiting,
                 cur, nextPts, ptsKey, ptsMap, inFlight, frames, errRaised, eosOut,
                 mode, free, poolMap, held, codecRefs>>

(* ReceiveFrame, JPEG branch: the frame keeps its packet's pts, gets a     *)
(* codec reference (cnjpegDecAddReference) and goes to frame_callback with *)
(* buf_id the frame's address.                                             *)
ReceiveJpegFrame ==
  /\ handle = "valid"
  /\ \E p \in jIn :
       /\ frames' = Append(frames, [src |-> p, got |-> p])
       /\ held' = held \cup {[buf |-> CodecFrame(p), pts |-> p]}
       /\ codecRefs' = codecRefs \cup {CodecFrame(p)} /\ jIn' = jIn \ {p}
  /\ UNCHANGED <<handle, aborts, status, sendEos, gotEos, events, elpc, evWaiting, eosWaiting,
                 upc, retry, cur, nextPts, ptsKey, ptsMap, inFlight, codecIn, errRaised, eosOut,
                 mode, free, poolMap>>

(* Mutant: every buffer goes back through cnjpegDecReleaseReference.       *)
ReleaseBufferNoPoolCheck(f) ==
  /\ mode = "jpeg" /\ upc # "done"
  /\ held' = held \ {f} /\ codecRefs' = codecRefs \ {f.buf}
  /\ UNCHANGED <<handle, aborts, status, sendEos, gotEos, events, elpc, evWaiting, eosWaiting,
                 upc, retry, cur, nextPts, ptsKey, ptsMap, inFlight, codecIn, frames, errRaised, eosOut,
                 mode, free, poolMap, jIn>>

(* EasyDecode::ReleaseBuffer, from any user thread while the decoder       *)
(* lives: a key of memory_pool_map_ is pushed back on memory_ids_          *)
(* (DecodeHandler::ReleaseBuffer); anything else is a codec frame and its  *)
(* reference goes back to the codec.                                       *)
ReleaseBuffer(f) ==
  /\ mode = "jpeg" /\ upc # "done"
  /\ held' = held \ {f}
  /\ IF f.buf \in poolMap
       THEN free' = Append(free, f.buf) /\ UNCHANGED codecRefs
       ELSE codecRefs' = codecRefs \ {f.buf} /\ UNCHANGED free
  /\ UNCHANGED <<handle, aborts, status, sendEos, gotEos, events, elpc, evWaiting, eosWaiting,
                 upc, retry, cur, nextPts, ptsKey, ptsMap, inFlight, codecIn, frames, errRaised, eosOut,
                 mode, poolMap, jIn>>

-----------------------------------------------------------------------------
(* Decoder's steps, shared by both paths, and the JPEG path's own.         *)
JNext ==
  \/ Next
  \/ FeedJpeg \/ FeedJpegData \/ ReceiveJpegFrame
  \/ \E f \in held : ReleaseBuffer(f)

(* Decoder's fairness; cncodec also delivers the JPEG frames it decodes.   *)
JSpec ==
  /\ Init /\ [][JNext]_vars
  /\ WF_vars(Destructor /\ upc # "run") /\ WF_vars(EventLoop)
  /\ WF_vars(ReceiveFrame) /\ WF_vars(CodecEos) /\ WF_vars(ReceiveJpegFrame)

-----------------------------------------------------------------------------
(* A decoder built for JPEG routes every well-formed progressive stream    *)
(* to the turbojpeg path and every baseline one to the codec, whatever the *)
(* bytes after the packet are, and refuses packets without SOI: the        *)
(* segment lengths CheckProgressiveMode skips by count the length field,   *)
(* and it stops on no marker hidden in a payload or in entropy-coded data.  *)
ProgressiveModeCorrect ==
  mode = "jpeg" =>
  /\ \A table \in Tables, sof \in SofCodes, scan \in Scans :
       CheckProgressiveMode(Image(table, sof, scan)) = {IF IsProgressive(sof) THEN 1 ELSE 0}
  /\ \A s \in NotJpeg : CheckProgressiveMode(s) = {-1}

(* Every output buffer has exactly one owner: each pool buffer is either   *)
(* once in memory_ids_ or in exactly one frame the user holds, and every   *)
(* other frame the user holds is a codec frame whose reference it owns,    *)
(* across progressive decodes, codec frames and releases from any thread.  *)
BufferOwnership ==
  mode = "jpeg" =>
  /\ \A b \in poolMap \cap PoolIds :
       Cardinality({i \in DOMAIN free : free[i] = b}) + Cardinality({f \in held : f.buf = b}) = 1
  /\ {f.buf : f \in held} \ PoolIds = codecRefs
=============================================================================
