---------------------------- MODULE MCJpegDecode ----------------------------
EXTENDS JpegDecode

Progressive == Image(<<>>, 194, <<>>)
Baseline == Image(Segment(224, <<255, 194>>), 192, <<255, 0>>)
MCJpegPackets3 == <<Progressive, Baseline, Progressive>>
MCJpegPackets2 == <<Progressive, Progressive>>
MCJpegPackets2B == <<Baseline, Progressive>>
=============================================================================
