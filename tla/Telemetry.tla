------------------------------ MODULE Telemetry ------------------------------
(***************************************************************************)
(* What a turn tells about itself: the observation that follows a request  *)
(* into its stream (turn_observability.py), the usage of each call of a    *)
(* provider (usage_accounting.py), and the bounded sink that every thread  *)
(* of the process puts its events into and one thread of its own empties.  *)
(***************************************************************************)
EXTENDS Naturals, Sequences, SequencesExt, FiniteSets

CONSTANTS
  Turn,       \* requests that send a message; the event loop runs them all
  Loop,       \* the thread of the event loop
  Thread,     \* threads that run synchronous routes and passes beside it
  Capacity,   \* of the queue
  MaxCall     \* bound: provider calls of a request

VARIABLES
  turn,       \* turn[t]: how far t has come, and its TurnObservation
  call,       \* call[t]: how many provider calls it made, and whether the last is open
  told,       \* told[t]: the events that t emitted
  out,        \* out[h]: how far thread h is with putting an event into the sink
  sink        \* BufferedLogSink: its attribute thread, its lock, its queue, and the
              \* threads that were ever started

vars == <<turn, call, told, out, sink>>

Producer == Thread \cup {Loop}
Failure == {"none", "failed", "cancelled"}
Event == [kind : {"usage", "turn"}, outcome : {"completed", "interrupted", "failed"}]
Usage(outcome) == [kind |-> "usage", outcome |-> outcome]
Summary(outcome) == [kind |-> "turn", outcome |-> outcome]

TypeOK ==
  /\ turn \in [Turn -> [at : {"new", "running", "returned", "streaming", "over", "dropped"},
                        durable : BOOLEAN, failure : Failure, ending : BOOLEAN]]
  /\ call \in [Turn -> [open : BOOLEAN, number : 0 .. MaxCall]]
  /\ told \in [Turn -> Seq(Event)]
  /\ out \in [Producer -> {"nothing", "look", "lock", "recheck", "start", "put"}]
  /\ sink \in [made : BOOLEAN, holder : SUBSET Producer, queued : 0 .. Capacity, started : Nat]

Init ==
  /\ turn = [t \in Turn |-> [at |-> "new", durable |-> FALSE, failure |-> "none",
                             ending |-> FALSE]]
  /\ call = [t \in Turn |-> [open |-> FALSE, number |-> 0]]
  /\ told = [t \in Turn |-> <<>>]
  /\ out = [h \in Producer |-> "nothing"]
  /\ sink = [made |-> FALSE, holder |-> {}, queued |-> 0, started |-> 0]

-----------------------------------------------------------------------------
(* BufferedLogSink.emit.  A thread goes on when its event is put or lost.  *)

Free(h) == out[h] = "nothing"

Steps(h, from, to) == out[h] = from /\ out' = [out EXCEPT ![h] = to]

Telling == <<turn, call, told>>

\* An event of a stage or a pass in a thread beside the loop.
Emit(h) ==
  /\ h \in Thread /\ Steps(h, "nothing", "look")
  /\ UNCHANGED <<Telling, sink>>

Look(h) ==
  /\ Steps(h, "look", IF sink.made THEN "put" ELSE "lock")
  /\ UNCHANGED <<Telling, sink>>

Lock(h) ==
  /\ sink.holder = {}
  /\ Steps(h, "lock", "recheck")
  /\ sink' = [sink EXCEPT !.holder = {h}]
  /\ UNCHANGED Telling

\* Mutant of the next definition: what was seen before the lock is trusted.
MissingAsSeen == TRUE

Missing == ~ sink.made

\* The attribute is set before the thread is started.
Recheck(h) ==
  /\ Steps(h, "recheck", IF Missing THEN "start" ELSE "put")
  /\ sink' = IF Missing THEN [sink EXCEPT !.made = TRUE] ELSE [sink EXCEPT !.holder = {}]
  /\ UNCHANGED Telling

\* A thread that cannot be started is never tried again; the error ends this
\* event only (passive).
Start(h) ==
  /\ \E starts \in BOOLEAN :
       /\ Steps(h, "start", IF starts THEN "put" ELSE "nothing")
       /\ sink' = [sink EXCEPT !.holder = {}, !.started = IF starts THEN @ + 1 ELSE @]
  /\ UNCHANGED Telling

\* put_nowait: a full queue drops the event.
Put(h) ==
  /\ Steps(h, "put", "nothing")
  /\ sink' = [sink EXCEPT !.queued = IF @ < Capacity THEN @ + 1 ELSE @]
  /\ UNCHANGED Telling

\* _run; what a failing handler does with the event does not come back.
Deliver ==
  /\ sink.started > 0 /\ sink.queued > 0
  /\ sink' = [sink EXCEPT !.queued = @ - 1]
  /\ UNCHANGED <<Telling, out>>

\* The event of a turn, which the loop puts before it does anything else.
Tell(t, event) ==
  /\ told' = [told EXCEPT ![t] = Append(@, event)]
  /\ out' = [out EXCEPT ![Loop] = "look"]

-----------------------------------------------------------------------------
(* RequestUsage: an event for each call of a provider, however it ended.   *)

Works(t) == turn[t].at \in {"running", "streaming"} /\ ~ turn[t].ending /\ Free(Loop)

Enter(t) ==
  /\ Works(t) /\ ~ call[t].open /\ call[t].number < MaxCall
  /\ call' = [call EXCEPT ![t] = [open |-> TRUE, number |-> @.number + 1]]
  /\ UNCHANGED <<turn, out, told, sink>>

Worse(t, category) ==
  IF turn[t].failure = "none" \/ category = "cancelled" THEN category ELSE turn[t].failure

\* __exit__, and what respond and stream add when the call failed: it ends
\* the request unless the route goes on with what it has.
Exit(t, error) ==
  /\ Works(t) /\ call[t].open
  /\ call' = [call EXCEPT ![t].open = FALSE]
  /\ Tell(t, Usage(CASE error = "none" -> "completed" [] error = "failed" -> "failed"
                      [] OTHER -> "interrupted"))
  /\ \E ends \in BOOLEAN :
       turn' = [turn EXCEPT ![t].failure = IF error = "none" THEN @ ELSE Worse(t, error),
                            ![t].ending = error # "none" /\ ends]
  /\ UNCHANGED sink

-----------------------------------------------------------------------------
(* TurnObservation and observe_turn.                                       *)

Begin(t) ==
  /\ turn[t].at = "new"
  /\ turn' = [turn EXCEPT ![t].at = "running"]
  /\ UNCHANGED <<call, out, told, sink>>

\* durable: after the commit of the answer.
Durable(t) ==
  /\ Works(t) /\ ~ call[t].open /\ ~ turn[t].durable
  /\ turn' = [turn EXCEPT ![t].durable = TRUE]
  /\ UNCHANGED <<call, out, told, sink>>

\* A stage or a route fails, before the answer is durable or after it.
Breaks(t, category) ==
  /\ Works(t) /\ ~ call[t].open
  /\ turn' = [turn EXCEPT ![t].failure = Worse(t, category), ![t].ending = TRUE]
  /\ UNCHANGED <<call, out, told, sink>>

Outcome(t) ==
  IF turn[t].durable THEN "completed"
  ELSE IF turn[t].failure = "cancelled" THEN "interrupted" ELSE "failed"

Summarize(t) ==
  /\ turn' = [turn EXCEPT ![t].at = "over"]
  /\ Tell(t, Summary(Outcome(t)))
  /\ UNCHANGED <<call, sink>>

\* A StreamingResponse is summarized by its stream, and what was raised at once.
Summarized(t, streams) ==
  IF streams
  THEN turn' = [turn EXCEPT ![t].at = "returned"] /\ UNCHANGED <<call, out, told, sink>>
  ELSE Summarize(t)

Return(t, streams) ==
  /\ turn[t].at = "running" /\ Free(Loop) /\ ~ call[t].open
  /\ turn[t].ending => ~ streams
  /\ Summarized(t, streams)

Iterate(t) ==
  /\ turn[t].at = "returned" /\ Free(Loop)
  /\ turn' = [turn EXCEPT ![t].at = "streaming"]
  /\ UNCHANGED <<call, out, told, sink>>

\* The client is gone before the stream begins: its generator never runs.
NeverIterated(t) ==
  /\ turn[t].at = "returned" /\ Free(Loop)
  /\ turn' = [turn EXCEPT ![t].at = "dropped"]
  /\ UNCHANGED <<call, out, told, sink>>

StreamEnds(t) ==
  /\ turn[t].at = "streaming" /\ Free(Loop) /\ ~ call[t].open
  /\ Summarize(t)

Tells(t) ==
  \/ Begin(t) \/ Durable(t) \/ Iterate(t) \/ NeverIterated(t) \/ StreamEnds(t)
  \/ \E streams \in BOOLEAN : Return(t, streams)
  \/ \E category \in {"failed", "cancelled"} : Breaks(t, category)
  \/ Enter(t)
  \/ \E error \in Failure : Exit(t, error)

Next ==
  \/ \E t \in Turn : Tells(t)
  \/ \E h \in Producer : Emit(h) \/ Look(h) \/ Lock(h) \/ Recheck(h) \/ Start(h) \/ Put(h)
  \/ Deliver

Spec == Init /\ [][Next]_vars

-----------------------------------------------------------------------------
\* However many threads put their first event at once, one thread empties the
\* queue (BufferedLogSink.emit).
OneConsumer == sink.started <= 1

\* The events of a kind among those that t emitted.
Told(t, kind) == {i \in DOMAIN told[t] : told[t][i].kind = kind}

\* "One event per actual invocation" (report_usage), and one summary after all of them,
\* of a stream as of an answer at once, which says completed just when the answer was
\* durable: failures after the commit do not make a stored answer a failed turn.
ToldOnce ==
  \A t \in Turn :
    /\ Cardinality(Told(t, "usage")) = call[t].number - (IF call[t].open THEN 1 ELSE 0)
    /\ Cardinality(Told(t, "turn")) = (IF turn[t].at = "over" THEN 1 ELSE 0)
    /\ turn[t].at = "over" =>
         /\ Last(told[t]).kind = "turn" /\ ~ call[t].open
         /\ Last(told[t]).outcome = "completed" <=> turn[t].durable
=============================================================================
