----------------------------- MODULE MCDecoder -----------------------------
EXTENDS Decoder
=============================================================================
