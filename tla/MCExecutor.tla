----------------------------- MODULE MCExecutor -----------------------------
EXTENDS Executor, TLC

CONSTANTS w1, w2

MCWorkers == {w1, w2}
MCReqItems3 == <<2, 1, 1>>
MCReqItems2 == <<2, 1>>
WorkerSymmetry == Permutations(MCWorkers)
=============================================================================
