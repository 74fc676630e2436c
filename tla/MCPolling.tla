------------------------------- MODULE MCPolling -------------------------------
(***************************************************************************)
(* What goes on by timers: the loops that run scheduler cycles, with the   *)
(* handles of two timers, and the page of a campaign that polls it.  A     *)
(* behaviour is of one or of the other.                                    *)
(***************************************************************************)
EXTENDS WorkerLoop, CampaignReport

CONSTANTS t1, t2

VARIABLE looping

pollingVars == <<looping, allVars, reportVars>>

TwoTimers == {t1, t2}

PollingInit ==
  /\ looping \in BOOLEAN
  /\ WorkerLoopInit
  /\ ReportStart(~looping)

PollingNext ==
  /\ UNCHANGED looping
  /\ \/ looping /\ WorkerLoopNext /\ UNCHANGED reportVars
     \/ ~looping /\ ReportNext /\ UNCHANGED allVars
     \/ ~looping /\ ~report.open /\ UNCHANGED <<allVars, reportVars>>

\* The fairness of WorkerLoopFairSpec while the loops run, and of ReportFairSpec, which asks nothing
\* where the page is closed.
PollingSpec ==
  /\ PollingInit /\ [][PollingNext]_pollingVars
  /\ SF_allVars(looping /\ TimePassesForBoth)
  /\ SF_allVars(looping /\ TimersFire)
  /\ WF_allVars(looping /\ TickerGoesOn)
  /\ ReportFairness
================================================================================
