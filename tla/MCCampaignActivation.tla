-------------------------- MODULE MCCampaignActivation --------------------------
(* Model values and bounds for checking CampaignActivation. *)
EXTENDS CampaignActivation, TLC

CONSTANTS c1, c2, a1, w1, w2, r1, r2, t1

OneCampaign  == {c1}
TwoCampaigns == {c1, c2}
First        == {c1}
None         == {}
OneAddress   == {a1}
OneCycle     == {w1}
TwoCycles    == {w1, w2}
OneAdmin     == {r1}
TwoAdmins    == {r1, r2}
OneText      == {t1}

EveryFault == AllFaults

ActorSymmetry == Permutations(Cycles) \cup Permutations(Admins)
=============================================================================
