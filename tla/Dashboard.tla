------------------------------ MODULE Dashboard ------------------------------
(***************************************************************************)
(* The decision stream of the live dashboard (src/src/visualization/       *)
(* dashboard.py): the server's event generator, the page's EventSources    *)
(* and the log they fill.                                                  *)
(*                                                                         *)
(* A decision is the number of the policy cycle it sums up.  The two       *)
(* second pause between events is left out: an event may be sent at any    *)
(* time.  A source in trouble reconnects by itself, as browsers do, unless *)
(* the answer it gets is an error; the page opens another one either way.  *)
(* The other two streams show the last value received and keep nothing.    *)
(***************************************************************************)
EXTENDS Integers, Sequences

CONSTANTS HistorySize,   \* the policy engine's history
          LogSize,       \* entries the page keeps, 50 in the code
          MaxCycles,     \* bound: policy cycles
          MaxErrors,     \* bound: error events
          MaxInFlight    \* bound: events sent and not yet received, per source

DashboardAssumption ==
  /\ {HistorySize, LogSize, MaxInFlight} \subseteq Nat \ {0}
  /\ {MaxCycles, MaxErrors} \subseteq Nat

VARIABLES configured,   \* whether the engine was injected
          cycles, history,
          sources,      \* the EventSources the page opened, each with its events under way
          timers,       \* the setTimeout calls that have not fired
          errors,
          log           \* newest entry first, by the order of arrival

vars == <<configured, cycles, history, sources, timers, errors, log>>

NotReady == 0
Opening == [state |-> "connecting", sent |-> <<>>]

\* The page is loaded.
Init ==
  /\ configured = FALSE /\ cycles = 0 /\ history = <<>>
  /\ sources = <<Opening>> /\ timers = 0 /\ errors = 0 /\ log = <<>>

Configure ==
  /\ ~configured /\ configured' = TRUE
  /\ UNCHANGED <<cycles, history, sources, timers, errors, log>>

\* The policy engine appends the statistics of a cycle to its history.
Decided ==
  /\ cycles < MaxCycles /\ cycles' = cycles + 1
  /\ LET longer == Append(history, cycles')
     IN  history' = IF Len(longer) > HistorySize THEN Tail(longer) ELSE longer
  /\ UNCHANGED <<configured, sources, timers, errors, log>>

-----------------------------------------------------------------------------
\* _decision_events: one turn of the loop yields the last cycle, or nothing.
Faulty_Events ==                  \* the first of the history, not the last
  IF ~configured THEN {NotReady} ELSE {history[i] : i \in DOMAIN history \cap {1}}
Events ==
  IF ~configured THEN {NotReady} ELSE {history[i] : i \in DOMAIN history \cap {Len(history)}}

Send(s) ==
  /\ sources[s].state = "open" /\ Len(sources[s].sent) < MaxInFlight
  /\ \E e \in Events : sources' = [sources EXCEPT ![s].sent = Append(@, e)]
  /\ UNCHANGED <<configured, cycles, history, timers, errors, log>>

\* log.prepend, and the last children are removed.
Prepended(e) == SubSeq(<<e>> \o log, 1, IF Len(log) < LogSize THEN Len(log) + 1 ELSE LogSize)

\* onmessage
Receive(s) ==
  /\ sources[s].sent # <<>>
  /\ log' = LET e == Head(sources[s].sent) IN IF e = NotReady THEN log ELSE Prepended(e)
  /\ sources' = [sources EXCEPT ![s].sent = Tail(@)]
  /\ UNCHANGED <<configured, cycles, history, timers, errors>>

Connect(s) ==
  /\ sources[s].state = "connecting"
  /\ sources' = [sources EXCEPT ![s].state = "open"]
  /\ UNCHANGED <<configured, cycles, history, timers, errors, log>>

\* The connection drops, or an attempt to reconnect fails, for good or not: onerror.
Error(s) ==
  /\ sources[s].state # "closed" /\ errors < MaxErrors /\ errors' = errors + 1
  /\ \E next \in {"connecting"} \union
                 (IF sources[s].state = "connecting" THEN {"closed"} ELSE {}) :
       sources' = [sources EXCEPT ![s] = [state |-> next, sent |-> <<>>]]
  /\ timers' = timers + 1
  /\ UNCHANGED <<configured, cycles, history, log>>

\* Three seconds later connectSSE opens another source.
Reopen ==
  /\ timers > 0 /\ timers' = timers - 1
  /\ sources' = Append(sources, Opening)
  /\ UNCHANGED <<configured, cycles, history, errors, log>>

Source(s) == Send(s) \/ Receive(s) \/ Connect(s) \/ Error(s)

Next == Configure \/ Decided \/ Reopen \/ \E s \in DOMAIN sources : Source(s)

Spec == Init /\ [][Next]_vars

\* The loop of each generator turns, events arrive, the server is reachable in the
\* end, timers fire, and the engine is injected some time.
Fairness ==
  /\ WF_vars(Configure) /\ WF_vars(Reopen)
  /\ \A s \in 1..MaxErrors + 1 : /\ WF_vars(s \in DOMAIN sources /\ Send(s))
                                 /\ WF_vars(s \in DOMAIN sources /\ Receive(s))
                                 /\ WF_vars(s \in DOMAIN sources /\ Connect(s))

FairSpec == Spec /\ Fairness

-----------------------------------------------------------------------------
NewestFirst == \A i, j \in DOMAIN log : i < j => log[i] >= log[j]

\* As long as the page has opened a single source its log never shows an earlier
\* decision above a later one, whatever is lost on the way.
OneSourceInOrder == Len(sources) = 1 => NewestFirst

\* When the engine stops deciding, the log comes to show its last decision on top
\* and never hides it again, though every event only carries the latest decision,
\* connections drop and several sources write the log.
LastDecisionOnTop == <>[](cycles > 0 => log # <<>> /\ Head(log) = cycles)

DecisionsShown == []OneSourceInOrder /\ LastDecisionOnTop

\* "Recent policy decisions": the log is in the order of the decisions.  The source
\* in trouble is not closed when another is opened, and it reconnects by itself.
LogNewestFirst == NewestFirst

\* One source at a time writes the log.
OneSource == \A s, t \in DOMAIN sources :
               sources[s].state = "open" /\ sources[t].state = "open" => s = t
=============================================================================
