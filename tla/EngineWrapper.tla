---------------------------- MODULE EngineWrapper ----------------------------
(***************************************************************************)
(* InstrumentedVLLMEngine (src/src/serving/vllm_engine.py): the calls of   *)
(* generate and stream_generate, with vLLM or with the mock, and the       *)
(* policy cycles they trigger when they end.                               *)
(*                                                                         *)
(* A call runs on the event loop from one await or yield to the next.      *)
(* vLLM is external: it gives a call outputs, each with the whole text so  *)
(* far, or raises.  A text is a sequence of tokens, numbered.              *)
(***************************************************************************)
EXTENDS Naturals, Sequences, FiniteSets

CONSTANTS Generates,      \* calls of generate, each with an id of its own
          Streams,        \* calls of stream_generate
          MaxText,        \* bound: tokens of a text
          MockWords,      \* words of the mock's stream
          Interval,       \* _policy_interval_ms
          MaxTime         \* bound on the clock

ASSUME WrapperAssumption ==
  /\ Generates \cap Streams = {} /\ {MaxText, Interval} \subseteq Nat \ {0}
  /\ {MockWords, MaxTime} \subseteq Nat

VARIABLES vllm,           \* _VLLM_AVAILABLE
          built,          \* how often the engine was built; 0: not _initialized
          state,          \* of every call
          output,         \* its last output: [text, finished]
          prev_len,       \* of a stream
          received,       \* what the caller was given, token by token
          table,          \* _in_flight
          now,            \* perf_counter
          last_check,     \* _last_policy_check
          cycles          \* when the triggered cycles began

engineCalls == <<state, output, prev_len, received>>
wrapperVars == <<vllm, built, engineCalls, table, now, last_check, cycles>>

WrappedCalls == Generates \union Streams
NoOutput == [text |-> 0, finished |-> FALSE]

WrapperInit ==
  /\ vllm \in BOOLEAN /\ built = 0
  /\ state = [c \in WrappedCalls |-> "new"] /\ output = [c \in WrappedCalls |-> NoOutput]
  /\ prev_len = [c \in WrappedCalls |-> 0] /\ received = [c \in WrappedCalls |-> <<>>]
  /\ table = {} /\ now = Interval /\ last_check = 0 /\ cycles = <<>>

Underway(c) == state[c] \in {"open", "yielded", "checking"}

\* perf_counter moves on, for all at once.
Tick ==
  /\ now < MaxTime /\ \E c \in WrappedCalls : Underway(c)
  /\ now' = now + 1
  /\ UNCHANGED <<vllm, built, state, output, prev_len, received, table, last_check, cycles>>

\* "if not self._initialized: await self.initialize()", which has no await of its
\* own; from_engine_args may raise, and the call with it.
Built == IF built = 0 THEN 1 ELSE built

Start(c) ==
  /\ state[c] = "new"
  /\ built' = Built /\ table' = table \union {c}
  /\ state' = [state EXCEPT ![c] = "open"]
  /\ UNCHANGED <<vllm, output, prev_len, received, now, last_check, cycles>>

BuildFails(c) ==
  /\ state[c] = "new" /\ vllm /\ built = 0
  /\ state' = [state EXCEPT ![c] = "failed"]
  /\ UNCHANGED <<vllm, built, output, prev_len, received, table, now, last_check, cycles>>

-----------------------------------------------------------------------------
Tokens(first, last) == [k \in 1..last + 1 - first |-> first + k - 1]

\* text[prev_len:]
Faulty_Delta(text, prev) == Tokens(prev, text)
Delta(text, prev) == Tokens(prev + 1, text)

\* The next output has the text so far, as long as the last or longer; after the
\* finished one the iterator is at its end.
Outputs(c) == [text : output[c].text..MaxText, finished : BOOLEAN]

GenerateOutput(c) ==
  /\ c \in Generates /\ vllm /\ state[c] = "open" /\ ~output[c].finished
  /\ \E o \in Outputs(c) :
       /\ output' = [output EXCEPT ![c] = o]
       /\ received' = [received EXCEPT ![c] = IF o.finished THEN Tokens(1, o.text) ELSE @]
  /\ UNCHANGED <<vllm, built, state, prev_len, table, now, last_check, cycles>>

StreamOutput(c) ==
  /\ c \in Streams /\ vllm /\ state[c] = "open" /\ ~output[c].finished
  /\ \E o \in Outputs(c) :
       LET delta == Delta(o.text, prev_len[c])
       IN /\ output' = [output EXCEPT ![c] = o]
          /\ received' = [received EXCEPT ![c] = @ \o delta]
          /\ state' = [state EXCEPT ![c] = IF delta = <<>> THEN "open" ELSE "yielded"]
          /\ prev_len' = [prev_len EXCEPT ![c] = IF delta = <<>> THEN o.text ELSE @]
  /\ UNCHANGED <<vllm, built, table, now, last_check, cycles>>

\* The consumer asks for more: the generator goes on after its yield.
Resume(c) ==
  /\ state[c] = "yielded"
  /\ state' = [state EXCEPT ![c] = "open"]
  /\ prev_len' = [prev_len EXCEPT ![c] = output[c].text]
  /\ UNCHANGED <<vllm, built, output, received, table, now, last_check, cycles>>

\* _maybe_trigger_policy, up to the await on the cycle
Faulty_Trigger(c) ==                   \* the time is never noted
  IF now - last_check < Interval
  THEN state' = [state EXCEPT ![c] = "done"] /\ UNCHANGED <<last_check, cycles>>
  ELSE /\ state' = [state EXCEPT ![c] = "checking"]
       /\ cycles' = Append(cycles, now) /\ UNCHANGED last_check

Trigger(c) ==
  IF now - last_check < Interval
  THEN state' = [state EXCEPT ![c] = "done"] /\ UNCHANGED <<last_check, cycles>>
  ELSE /\ state' = [state EXCEPT ![c] = "checking"]
       /\ cycles' = Append(cycles, now) /\ last_check' = now

\* The iterator of vLLM is at its end.
Finish(c) ==
  /\ vllm /\ state[c] = "open" /\ output[c].finished
  /\ table' = table \ {c} /\ Trigger(c)
  /\ UNCHANGED <<vllm, built, output, prev_len, received, now>>

\* The cycle ends, or raises what trigger_policy_check logs.
CycleEnds(c) ==
  /\ state[c] = "checking" /\ state' = [state EXCEPT ![c] = "done"]
  /\ UNCHANGED <<vllm, built, output, prev_len, received, table, now, last_check, cycles>>

\* No handler and no finally: the id stays in the table.
VllmRaises(c) ==
  /\ vllm /\ state[c] = "open" /\ ~output[c].finished
  /\ state' = [state EXCEPT ![c] = "failed"]
  /\ UNCHANGED <<vllm, built, output, prev_len, received, table, now, last_check, cycles>>

\* The task of a call is cancelled at its await, or the consumer drops the stream.
Abandon(c) ==
  /\ Underway(c) /\ state' = [state EXCEPT ![c] = "abandoned"]
  /\ UNCHANGED <<vllm, built, output, prev_len, received, table, now, last_check, cycles>>

-----------------------------------------------------------------------------
\* _mock_generate after its sleep, and the mock's stream word by word
MockGenerate(c) ==
  /\ c \in Generates /\ ~vllm /\ state[c] = "open"
  /\ state' = [state EXCEPT ![c] = "done"] /\ table' = table \ {c}
  /\ UNCHANGED <<vllm, built, output, prev_len, received, now, last_check, cycles>>

MockStream(c) ==
  /\ c \in Streams /\ ~vllm /\ state[c] = "open"
  /\ IF Len(received[c]) < MockWords
     THEN /\ received' = [received EXCEPT ![c] = Append(@, Len(@) + 1)]
          /\ UNCHANGED state
     ELSE state' = [state EXCEPT ![c] = "done"] /\ UNCHANGED received
  /\ UNCHANGED <<vllm, built, output, prev_len, table, now, last_check, cycles>>

WrapperNext ==
  \/ Tick
  \/ \E c \in WrappedCalls :
       \/ Start(c) \/ BuildFails(c) \/ GenerateOutput(c) \/ StreamOutput(c) \/ Resume(c)
       \/ Finish(c) \/ CycleEnds(c) \/ VllmRaises(c) \/ Abandon(c)
       \/ MockGenerate(c) \/ MockStream(c)

WrapperSpec == WrapperInit /\ [][WrapperNext]_wrapperVars

-----------------------------------------------------------------------------
\* What a stream's consumer holds is the text so far, no token missing or twice,
\* though outputs repeat text and come while it is busy; what it holds at the
\* end is the text; and the table keeps no call that has ended well.
StreamsTrue ==
  \A c \in WrappedCalls :
    /\ vllm /\ c \in Streams => received[c] = Tokens(1, output[c].text)
    /\ vllm /\ state[c] = "done" => received[c] = Tokens(1, output[c].text) /\ output[c].finished
    /\ vllm /\ c \in table => state[c] # "done"

\* "trigger the policy engine on a configurable interval": however many calls end
\* together, the cycles they trigger begin an interval apart, and once a call has
\* ended there was one.
CyclesSpaced ==
  /\ \A n \in 2..Len(cycles) : cycles[n] - cycles[n - 1] >= Interval
  /\ \A c \in WrappedCalls : vllm /\ state[c] \in {"checking", "done"} => cycles # <<>>

\* "Lightweight per-request tracking: request_id -> start_time" of requests in flight
InFlightUnderway == \A c \in table : Underway(c)
=============================================================================
