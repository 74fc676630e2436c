----------------------------- MODULE MCSendQueue -----------------------------
(* Model values and bounds for checking SendQueue. *)
EXTENDS SendQueue, TLC

CONSTANTS c1, a1, a2, w1, w2

OneCampaign  == {c1}
OneAddress   == {a1}
TwoAddresses == {a1, a2}
OneWorker    == {w1}
TwoWorkers   == {w1, w2}

EveryFault  == AllFaults
NoLostClaim == {"crash", "database", "transport"}
OverrunOnly == {"overrun"}
NoFault     == {}

WorkerSymmetry == Permutations(Workers)
=============================================================================
