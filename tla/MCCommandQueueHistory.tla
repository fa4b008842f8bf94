----------------------- MODULE MCCommandQueueHistory ------------------------
(* Model checking of CommandQueueHistory: the clients that never destroy    *)
(* the device are alike.                                                    *)
EXTENDS CommandQueueHistory, TLC

HistorySymmetry == Permutations(Clients \ Stoppers)
=============================================================================
