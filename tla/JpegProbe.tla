------------------------------ MODULE JpegProbe ------------------------------
(***************************************************************************)
(* detail::CheckProgressiveMode (easy_decode.cpp), which EasyDecode's      *)
(* FeedData uses to route a JPEG packet to the codec (baseline) or to the  *)
(* turbojpeg path (progressive).  A packet is a sequence of bytes; data[k] *)
(* is the C index, so it is s[k + 1] here.  The walk reads data[i + 1],    *)
(* data[i + 2] and data[i + 3] without comparing them to length: a byte    *)
(* past the end is whatever the memory after the packet holds, so each     *)
(* read past the end is any of OutBytes and the walk yields a set of       *)
(* results.  OutBytes holds the values the walk tells apart: 0xFF, the     *)
(* progressive SOF codes and a zero.                                       *)
(***************************************************************************)
EXTENDS Integers, Sequences

OutBytes == {0, 255, 194, 202}

(* data[k], or every value a read past the end may return.                 *)
ByteAt(s, k) == IF k < Len(s) THEN {s[k + 1]} ELSE OutBytes

(* uint16_t (data[k] << 8) | data[k + 1].                                  *)
Word(s, k) == {hi * 256 + lo : hi \in ByteAt(s, k), lo \in ByteAt(s, k + 1)}

(* The segment walk from offset i: SOF2 (0xFFC2) or SOF10 (0xFFCA) as a    *)
(* segment header answers 1; otherwise skip the header and `step` bytes.   *)
RECURSIVE Walk(_, _)
Walk(s, i) ==
  IF i >= Len(s) THEN {0}
  ELSE UNION {IF seg \in {65474, 65482} THEN {1}
              ELSE UNION {Walk(s, i + 2 + step) : step \in Word(s, i + 2)} :
              seg \in Word(s, i)}

(* Mutant: only SOF2 (0xFFC2) is taken for progressive, not SOF10.        *)
CheckProgressiveModeSof2Only(s) ==
  LET RECURSIVE W(_)
      W(i) == IF i >= Len(s) THEN {0}
              ELSE UNION {IF seg = 65474 THEN {1}
                          ELSE UNION {W(i + 2 + step) : step \in Word(s, i + 2)} :
                          seg \in Word(s, i)}
  IN UNION {IF h = 65496 THEN W(2) ELSE {-1} : h \in Word(s, 0)}

(* -1 unless the packet starts with the SOI marker 0xFFD8, else the walk.  *)
(* The two header bytes are read even when the packet is one byte long.    *)
CheckProgressiveMode(s) ==
  UNION {IF h = 65496 THEN Walk(s, 2) ELSE {-1} : h \in Word(s, 0)}

-----------------------------------------------------------------------------
(* Well-formed JPEG streams, to check the walk against: SOI, optional      *)
(* marker segments whose payload may contain 0xFF 0xC2, the frame header   *)
(* (SOF0, SOF1, SOF2 or SOF10), the scan header, byte-stuffed entropy data *)
(* with a restart marker, and EOI.                                         *)
Segment(marker, payload) == <<255, marker, 0, 2 + Len(payload)>> \o payload

Payloads == {<<>>, <<255, 194>>, <<7>>}
Tables == {<<>>} \cup {Segment(m, p) : m \in {219, 224}, p \in Payloads}
Scans == {<<>>, <<255, 0>>, <<1, 255, 0, 3>>, <<255, 208, 194>>}
SofCodes == {192, 193, 194, 202}

Image(table, sof, scan) ==
  <<255, 216>> \o table \o Segment(sof, <<8>>) \o Segment(218, <<>>)
    \o scan \o <<255, 217>>

(* What the routing must decide: a stream is progressive exactly when its  *)
(* frame header is SOF2 or SOF10.                                          *)
IsProgressive(sof) == sof \in {194, 202}

NotJpeg == {<<0, 1, 2>>, <<255, 217, 255, 194>>}

-----------------------------------------------------------------------------
=============================================================================
