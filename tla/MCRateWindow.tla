----------------------------- MODULE MCRateWindow -----------------------------
(* Model values and bounds for checking RateWindow. *)
EXTENDS RateWindow, TLC

CONSTANTS w1, w2

OneWorker  == {w1}
TwoWorkers == {w1, w2}

NoFault      == {}
NoReplyLost  == {"crash", "database", "transport"}
EveryFault   == AllFaults

WorkerSymmetry == Permutations(Workers)
=============================================================================
