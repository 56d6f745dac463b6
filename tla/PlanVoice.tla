------------------------------ MODULE PlanVoice ------------------------------
(***************************************************************************)
(* The daily allowance of call time of one user in one experience: the     *)
(* intervals that track_voice keeps for each connection of a call, the     *)
(* quota receipts they are charged to (voice_receipts), and the pass that  *)
(* ends intervals nobody ends (reconcile).                                 *)
(*                                                                         *)
(* The row of the session is reduced to what accounting reads of it: a new *)
(* connection has a new generation, and the other changes of generation    *)
(* (close, recovery, revocation) leave the row in state "none".  Every     *)
(* action but those of the process runs under the actor lock.              *)
(***************************************************************************)
EXTENDS Integers, FiniteSets

CONSTANTS
  DayLen,     \* ticks of a UTC day
  MaxTime,    \* bound: the clock stops there
  MaxCall,    \* bound: connections
  LeaseTTL, SessionTTL,   \* settings, in ticks
  Limit       \* LIMITS[plan][feature], in ticks

ASSUME PlanVoiceAssumption ==
  {DayLen, MaxTime, MaxCall, LeaseTTL, SessionTTL} \subseteq Nat \ {0} /\ Limit \in Nat

VARIABLES
  now,
  cutover,    \* started_at of the row "enforcement", NotYet without one
  enforcing,  \* the settings of the process: enabled()
  call,       \* the session row, and how its last connection fares
  interval,   \* interval[g]: the row of plan_voice_intervals of generation g
  quota,      \* quota[g][d]: the row "quota:voice:" of plan_usage
  talk        \* history: talk[d], the ticks of day d with a connected row

vars == <<now, cutover, enforcing, call, interval, quota, talk>>

Generation == 1..MaxCall
Day == 0..(MaxTime \div DayLen)
NotYet == MaxTime + 1

Peer == {"gone", "alive", "stopping", "dead"}
Call == [gen: 0..MaxCall, state: {"none", "connecting", "connected"},
         lease: Int, ends: Int, peer: Peer]
Interval == [state: {"none", "open", "ended"}, started: 0..MaxTime, observed: 0..MaxTime]
Receipt == [state: {"none", "pending", "completed"}, amount: Nat]

TypeOK ==
  /\ now \in 0..MaxTime /\ cutover \in 0..NotYet /\ enforcing \in BOOLEAN
  /\ call \in Call
  /\ interval \in [Generation -> Interval]
  /\ quota \in [Generation -> [Day -> Receipt]]
  /\ talk \in [Day -> Nat]

Init ==
  /\ now = 0 /\ cutover = NotYet /\ enforcing = FALSE
  /\ call = [gen |-> 0, state |-> "none", lease |-> 0, ends |-> 0, peer |-> "gone"]
  /\ interval = [g \in Generation |-> [state |-> "none", started |-> 0, observed |-> 0]]
  /\ quota = [g \in Generation |-> [d \in Day |-> [state |-> "none", amount |-> 0]]]
  /\ talk = [d \in Day |-> 0]

-----------------------------------------------------------------------------
\* Receipts.

Least(a, b) == IF a < b THEN a ELSE b
Most(a, b) == IF a > b THEN a ELSE b

\* _segments: the part of [from, to) that lies on day d; a day without a part is
\* not visited.
Segment(from, to, d) ==
  Most(0, Least(to, (d + 1) * DayLen) - Most(from, d * DayLen))

\* The sum of what each connection comes to.
Total(f) ==
  LET upTo[g \in 0..MaxCall] == IF g = 0 THEN 0 ELSE upTo[g - 1] + f[g] IN upTo[MaxCall]

\* Mutant of the next definition: a receipt still pending does not count.
OtherCompleted(g, d) ==
  Total([h \in Generation |-> IF h # g /\ quota[h][d].state = "completed" THEN quota[h][d].amount ELSE 0])

\* What the other connections were charged on the day.
Other(g, d) == Total([h \in Generation |-> IF h = g THEN 0 ELSE quota[h][d].amount])

\* voice_receipts: time since the cutover, clamped to what the others left.
Amount(i, g, d) ==
  LET spoken == Segment(Most(i.started, cutover), i.observed, d)
  IN  IF enforcing THEN Least(spoken, Most(0, Limit - Other(g, d))) ELSE spoken

\* _put, whose where clause keeps a completed receipt from becoming pending.
Put(old, new) == IF old.state \in {"none", "pending", new.state} THEN new ELSE old

Receipts(i, g) ==
  [quota EXCEPT ![g] = [d \in Day |->
     IF cutover # NotYet /\ Segment(Most(i.started, cutover), i.observed, d) > 0
     THEN Put(@[d], [state |-> IF i.state = "ended" THEN "completed" ELSE "pending",
                     amount |-> Amount(i, g, d)])
     ELSE @[d]]]

Write(i, g) ==
  /\ interval' = [interval EXCEPT ![g] = i]
  /\ quota' = Receipts(i, g)

\* The clock of an interval never runs beyond the end of the session.
Stamp == Least(now, call.ends)

\* The early returns of _voice: no interval without a ready event or a heartbeat
\* of a connected row and nothing more once it ended.
Trackable(ready, ending) ==
  /\ interval[call.gen].state # "ended"
  /\ interval[call.gen].state = "none" => ready \/ (~ending /\ call.state = "connected")

\* _voice, before the row changes.
Tracked(ready, ending, recovered) ==
  LET old == interval[call.gen]
      known == old.state # "none"
  IN  [state |-> IF ending THEN "ended" ELSE "open",
       started |-> IF known THEN old.started ELSE Stamp,
       observed |-> IF ~known THEN Stamp
                    ELSE IF recovered THEN old.observed ELSE Most(old.observed, Stamp)]

\* track_voice: part of the caller's transaction under enforcement; otherwise its
\* savepoint may fail and leave the interval and its receipts as they were.
Track(ready, ending, recovered) ==
  \/ /\ Trackable(ready, ending)
     /\ Write(Tracked(ready, ending, recovered), call.gen)
  \/ /\ ~Trackable(ready, ending) \/ ~enforcing
     /\ UNCHANGED <<interval, quota>>

-----------------------------------------------------------------------------
\* The row and its connection.

Charge(d) == Total([g \in Generation |-> quota[g][d].amount])
Today == now \div DayLen

\* voice_remaining, on the receipts as they are now.
Remaining == Limit - Charge(Today)

\* authorize or reconnect, and consume: a new session or the rest of the old one.
Connect ==
  /\ call.state = "none" /\ call.gen < MaxCall
  /\ enforcing => Remaining > 0
  /\ \E e \in {now + SessionTTL, call.ends} :
       /\ e > now
       /\ call' = [gen |-> call.gen + 1, state |-> "connecting", lease |-> LeaseTTL,
                   ends |-> e, peer |-> "alive"]
  /\ UNCHANGED <<now, cutover, enforcing, interval, quota, talk>>

\* owned: the checks of a heartbeat, which renews the lease.
Owned == call.peer = "alive" /\ call.state # "none" /\ call.lease > 0 /\ now < call.ends

\* What the connection does next depends on the charge that owned reads last.
Renewed(state, spent) ==
  call' = [call EXCEPT !.state = state, !.lease = LeaseTTL,
                       !.peer = IF spent THEN "stopping" ELSE "alive"]

Exhausted ==
  enforcing /\ Limit - Total([g \in Generation |-> quota'[g][Today].amount]) <= 0

\* owned(ready=True).
Ready ==
  /\ Owned /\ call.state = "connecting"
  /\ Track(TRUE, FALSE, FALSE)
  /\ Renewed("connected", Exhausted)
  /\ UNCHANGED <<now, cutover, enforcing, talk>>

\* owned of the control loop.
Heartbeat ==
  /\ Owned
  /\ IF call.state = "connected" THEN Track(FALSE, FALSE, FALSE) ELSE UNCHANGED <<interval, quota>>
  /\ Renewed(call.state, Exhausted)
  /\ UNCHANGED <<now, cutover, enforcing, talk>>

\* close_owned; the lease may have run out, the generation has not moved.
Close ==
  /\ call.peer \in {"alive", "stopping"} /\ call.state # "none"
  /\ Track(FALSE, TRUE, FALSE)
  /\ call' = [call EXCEPT !.state = "none", !.peer = "gone"]
  /\ UNCHANGED <<now, cutover, enforcing, talk>>

\* _recover, from the sweeper, authorize or reconnect: what is confirmed stays.
Recover ==
  /\ call.state # "none" /\ (call.lease <= 0 \/ now >= call.ends)
  /\ IF call.state = "connected" THEN Track(FALSE, TRUE, TRUE)
     ELSE UNCHANGED <<interval, quota>>
  /\ call' = [call EXCEPT !.state = "none", !.peer = "gone"]
  /\ UNCHANGED <<now, cutover, enforcing, talk>>

\* revoke, whatever the lease says.
Revoke ==
  /\ call.state # "none"
  /\ Track(FALSE, TRUE, FALSE)
  /\ call' = [call EXCEPT !.state = "none", !.peer = "gone"]
  /\ UNCHANGED <<now, cutover, enforcing, talk>>

\* The process of the connection dies.
Crash ==
  /\ call.peer \in {"alive", "stopping"}
  /\ call' = [call EXCEPT !.peer = "dead"]
  /\ UNCHANGED <<now, cutover, enforcing, interval, quota, talk>>

\* reconcile, for one interval under its actor lock; never in a savepoint.
Orphan(g) == call.gen # g \/ call.state = "none" \/ call.lease <= 0
Reconcile(g) ==
  /\ interval[g].state = "open" /\ Orphan(g)
  /\ Write([interval[g] EXCEPT !.state = "ended"], g)
  /\ UNCHANGED <<now, cutover, enforcing, call, talk>>

-----------------------------------------------------------------------------
InitializeEnforcement ==
  /\ cutover = NotYet /\ cutover' = now
  /\ UNCHANGED <<now, enforcing, call, interval, quota, talk>>

\* A deployment switches the flag; without the cutover every call is refused.
Switch ==
  /\ cutover # NotYet
  /\ enforcing' = ~enforcing
  /\ UNCHANGED <<now, cutover, call, interval, quota, talk>>

Tick ==
  /\ now < MaxTime /\ now' = now + 1
  /\ call' = [call EXCEPT !.lease = Most(0, @ - 1)]
  /\ talk' = IF call.state = "connected" THEN [talk EXCEPT ![Today] = @ + 1] ELSE talk
  /\ UNCHANGED <<cutover, enforcing, interval, quota>>

Next ==
  \/ Connect \/ Ready \/ Heartbeat \/ Close \/ Recover \/ Revoke \/ Crash
  \/ \E g \in Generation : Reconcile(g)
  \/ InitializeEnforcement \/ Switch \/ Tick

Spec == Init /\ [][Next]_vars

-----------------------------------------------------------------------------
\* No transaction under enforcement raises the charge of a day above the allowance,
\* although a heartbeat may be late, an interval of a lost connection may still be
\* open beside the new one, and calls run over midnight.
NeverOvercharged ==
  [][\A d \in Day : enforcing /\ Charge(d)' > Charge(d) => Charge(d)' <= Limit]_vars

\* What a day is charged is never more than the time its calls were connected:
\* reconnect gaps, overlapping generations and repairs add nothing.
ChargedOnce == \A d \in Day : Charge(d) <= talk[d]

\* A settled receipt is never rewritten, whoever comes late: a slow connection that
\* closes after the repair pass, or a repair pass after the close.
SettledStays ==
  [][\A g \in Generation, d \in Day :
       quota[g][d].state = "completed" => quota'[g][d] = quota[g][d]]_vars

\* PLANS_PHASE_3.md: "confirmed lower-bound time is retained, unknown tails are
\* flagged, and never invented": once the process of a connection is dead nothing
\* lengthens its interval.
NeverInvented ==
  [][call.peer = "dead" => interval'[call.gen].observed = interval[call.gen].observed]_vars
=============================================================================
