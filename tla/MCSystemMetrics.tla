--------------------------- MODULE MCSystemMetrics --------------------------
(***************************************************************************)
(* What an operator watches, in one of three kinds of behaviour that share *)
(* no state: a SystemMetricsCollector records and summarises requests, it  *)
(* starts and stops its polling, or the dashboard's page shows decisions.  *)
(***************************************************************************)
EXTENDS HardwarePoller, RequestMetrics

CONSTANTS HistorySize, LogSize, MaxCycles, MaxErrors, MaxInFlight
VARIABLES configured, cycles, history, sources, timers, errors, log,
          scenario

Page == INSTANCE Dashboard
page == <<configured, cycles, history, sources, timers, errors, log>>

ASSUME PageAssumption == Page!DashboardAssumption

MCInit == /\ Init /\ RecordingInit /\ Page!Init
          /\ scenario \in {"recording", "polling", "page"}

MCNext ==
  \/ scenario = "recording" /\ RecordingNext /\ UNCHANGED <<vars, page, scenario>>
  \/ /\ scenario = "polling" /\ UNCHANGED <<metricsVars, page, scenario>>
     /\ (Alternating /\ Start) \/ Stop \/ StopReturns \/ Poller
  \/ scenario = "page" /\ Page!Next /\ UNCHANGED <<vars, metricsVars, scenario>>

\* Only the page is asked for something that must happen.
MCSpec == /\ MCInit /\ [][MCNext]_<<vars, metricsVars, page, scenario>>
          /\ scenario = "page" => Page!Fairness

\* The page's log is in order while it has one source, and comes to show the last
\* decision: DecisionsShown of Dashboard.
DecisionsShown == scenario = "page" => Page!DecisionsShown
=============================================================================
