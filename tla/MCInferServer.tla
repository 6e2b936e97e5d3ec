--------------------------- MODULE MCInferServer ---------------------------
EXTENDS InferServer

\* Two sessions of one model and one of another.
MCSigShared == <<"m1", "m1", "m2">>
\* Two sessions of the same model.
MCSigPair == <<"m1", "m1">>
\* Three sessions of three different models.
MCSigDistinct == <<"m1", "m2", "m3">>
=============================================================================
