---------------------------- MODULE LiveSessions ----------------------------
(***************************************************************************)
(* Live voice sessions: the database row of a session (realtime_sessions), *)
(* the websocket connections that lease it (routes/realtime), and the live *)
(* turns those connections admit (realtime_transcripts) and terminate      *)
(* (realtime_responses), next to the text turns of the same conversations. *)
(*                                                                         *)
(* One action is one committed transaction of the code: every function of  *)
(* realtime_sessions takes the actor lock and re-reads the row before it   *)
(* decides, and holds the lock until it commits.  A connection keeps in    *)
(* memory what it was told when it consumed its ticket, so what it knows   *)
(* may be stale whenever it acts again.                                    *)
(*                                                                         *)
(* Deadlines are kept as the time that remains: Tick lowers all of them.   *)
(***************************************************************************)
EXTENDS Integers, FiniteSets

CONSTANTS
  Actor,          \* users
  Session,        \* rows of realtime_sessions, created by Authorize
  Owner,          \* websocket connections; each draws one lease_owner uuid
  Item,           \* provider identities of finalized utterances
  Conversation,   \* conversations, born or still to be created
  TextTurn,       \* HTTP text turns
  None,           \* the NULL of a column
  TicketTTL, LeaseTTL, ReconnectTTL, SessionTTL,   \* settings, in ticks
  MaxGen          \* bound: a reconnect is not requested beyond this generation

ASSUME TimesAssumption ==
  /\ TicketTTL \in Nat \ {0} /\ LeaseTTL \in Nat \ {0}
  /\ ReconnectTTL \in Nat \ {0} /\ SessionTTL \in Nat \ {0}
  /\ MaxGen \in Nat

ASSUME NoneAssumption ==
  /\ None \notin Actor \cup Session \cup Owner \cup Item \cup Conversation
  /\ TextTurn \cap (Session \X Item) = {}

VARIABLES
  row,      \* row[s]: the realtime_sessions row of s
  conn,     \* conn[w]: what the connection w holds in memory
  turn,     \* turn[s][i]: the live turn keyed by session and item
  text,     \* text[x]: an HTTP text turn
  creator,  \* creator[c]: the user a conversation belongs to, None if unborn
  access    \* access[a]: whether resolve_scope lets a talk live

vars == <<row, conn, turn, text, creator, access>>

-----------------------------------------------------------------------------
Leased   == {"connecting", "connected"}
ACTIVE   == {"authorized", "reconnecting"} \cup Leased
TERMINAL == {"ended", "revoked", "failed"}
NoTicket == -1

Row == [state: {"absent"} \cup ACTIVE \cup TERMINAL,
        actor: Actor \cup {None}, conversation: Conversation \cup {None},
        generation: Nat, owner: Owner \cup {None},
        ticket: Int, ticketUsed: BOOLEAN,
        ticketLeft: Int, leaseLeft: Int, graceLeft: Int, lifeLeft: Int]

\* The reason a connection will report to close_owned: what the bridge or the
\* error handlers of connect decided.
Reason == {"transport", "access", "expired", "failed", "ended"}
Conn == [phase: {"new", "connecting", "bridging", "ending", "closing", "gone"},
         session: Session \cup {None}, generation: Nat, ticket: Int,
         output: Item \cup {None}, reason: Reason]

TurnState == {"none", "streaming", "completed", "interrupted"}
Turn == [state: TurnState, claim: Owner \cup {None}]
Text == [state: {"none", "active", "completed", "failed"},
         conversation: Conversation \cup {None}]

TypeOK ==
  /\ row \in [Session -> Row]
  /\ conn \in [Owner -> Conn]
  /\ turn \in [Session -> [Item -> Turn]]
  /\ text \in [TextTurn -> Text]
  /\ creator \in [Conversation -> Actor \cup {None}]
  /\ access \in [Actor -> BOOLEAN]

NoRow  == [state |-> "absent", actor |-> None, conversation |-> None,
           generation |-> 0, owner |-> None, ticket |-> NoTicket,
           ticketUsed |-> FALSE, ticketLeft |-> 0, leaseLeft |-> 0,
           graceLeft |-> 0, lifeLeft |-> 0]
NoConn == [phase |-> "new", session |-> None, generation |-> 0,
           ticket |-> NoTicket, output |-> None, reason |-> "ended"]

Init ==
  /\ row = [s \in Session |-> NoRow]
  /\ conn = [w \in Owner |-> NoConn]
  /\ turn = [s \in Session |-> [i \in Item |-> [state |-> "none", claim |-> None]]]
  /\ text = [x \in TextTurn |-> [state |-> "none", conversation |-> None]]
  /\ creator \in [Conversation -> Actor \cup {None}]
  /\ access \in [Actor -> BOOLEAN]

-----------------------------------------------------------------------------
\* Operations on one row.

Least(a, b) == IF a < b THEN a ELSE b

\* _finish: a terminal row holds no lease, no ticket, and a new generation.
\* Its expiry column stays, but nothing compares it any more.
Finish(r, terminal) ==
  [state |-> terminal, actor |-> r.actor, conversation |-> r.conversation,
   generation |-> r.generation + 1, owner |-> None,
   ticket |-> NoTicket, ticketUsed |-> r.ticketUsed,
   ticketLeft |-> 0, leaseLeft |-> 0, graceLeft |-> 0, lifeLeft |-> 0]

\* The move to "reconnecting" that _recover and close_owned share.
Release(r, grace) ==
  [state |-> "reconnecting", actor |-> r.actor, conversation |-> r.conversation,
   generation |-> r.generation + 1, owner |-> None,
   ticket |-> NoTicket, ticketUsed |-> r.ticketUsed,
   ticketLeft |-> 0, leaseLeft |-> 0, graceLeft |-> grace, lifeLeft |-> r.lifeLeft]

\* The cases in which _recover closes the row.
Lapsed(r) ==
  \/ r.lifeLeft <= 0
  \/ r.state = "authorized" /\ r.ticketLeft <= 0
  \/ r.state = "reconnecting" /\ r.graceLeft <= 0
  \/ r.state \in Leased /\ r.leaseLeft + ReconnectTTL <= 0

\* _recover: applied before a decision is taken on a row.
Recover(r) ==
  IF r.state \notin ACTIVE THEN r
  ELSE IF Lapsed(r) THEN Finish(r, "ended")
  ELSE IF r.state \in Leased /\ r.leaseLeft <= 0
       THEN Release(r, r.leaseLeft + ReconnectTTL)
  ELSE r

\* _ticket: a new ticket replaces the hash; it is named by its generation.
Ticketed(r) ==
  [state |-> r.state, actor |-> r.actor, conversation |-> r.conversation,
   generation |-> r.generation, owner |-> r.owner,
   ticket |-> r.generation, ticketUsed |-> FALSE,
   ticketLeft |-> Least(TicketTTL, r.lifeLeft), leaseLeft |-> r.leaseLeft,
   graceLeft |-> r.graceLeft, lifeLeft |-> r.lifeLeft]

\* The row that authorize inserts.
Created(a, c) ==
  Ticketed([state |-> "authorized", actor |-> a, conversation |-> c,
            generation |-> 0, owner |-> None,
            ticket |-> NoTicket, ticketUsed |-> FALSE,
            ticketLeft |-> 0, leaseLeft |-> 0, graceLeft |-> 0,
            lifeLeft |-> SessionTTL])

\* The row that consume leaves: leased to w, its ticket spent but remembered.
Taken(r, w) ==
  [state |-> "connecting", actor |-> r.actor, conversation |-> r.conversation,
   generation |-> r.generation + 1, owner |-> w,
   ticket |-> r.ticket, ticketUsed |-> TRUE,
   ticketLeft |-> r.ticketLeft, leaseLeft |-> LeaseTTL,
   graceLeft |-> 0, lifeLeft |-> r.lifeLeft]

\* Mutant of the next definition: the filter on the state column lost.
UnansweredAll(turns) ==
  [i \in Item |-> IF turns[i].state # "none"
                  THEN [turns[i] EXCEPT !.state = "interrupted"]
                  ELSE turns[i]]

\* release_unanswered: the active live turns of a session end user-only.
Unanswered(turns) ==
  [i \in Item |-> IF turns[i].state = "streaming"
                  THEN [turns[i] EXCEPT !.state = "interrupted"]
                  ELSE turns[i]]

\* Mutant of the next definition: a turn released without looking at the
\* recovered state.
AfterRecoveryAlways(s) == Unanswered(turn[s])

\* What sweep leaves of the turns of a row it recovers.
AfterRecovery(s) ==
  IF Recover(row[s]).state \in Leased THEN turn[s] ELSE Unanswered(turn[s])

\* reauthorize: time is left and resolve_scope still finds the role.
Authorized(r) == r.lifeLeft > 0 /\ access[r.actor]

\* The ownership test of owned, locked_turn and bind_once.
Fenced(w) ==
  LET r == row[conn[w].session]
  IN  /\ r.owner = w
      /\ r.generation = conn[w].generation
      /\ r.state \in Leased
      /\ r.leaseLeft > 0

\* Whether conversation c has an active live turn, or any active turn.
LiveBusy(c) == \E s \in Session, i \in Item :
                 row[s].conversation = c /\ turn[s][i].state = "streaming"

\* Mutant of the next definition: only one of the two input modes counted.
BusyLive(c) == LiveBusy(c)

Busy(c) == LiveBusy(c) \/ \E x \in TextTurn :
                 text[x].conversation = c /\ text[x].state = "active"

ActiveOf(a) == {s \in Session : row[s].actor = a /\ row[s].state \in ACTIVE}

\* Mutant of the next definition: only a leased session keeps the slot.
SlotFreeOfLeases(a) == \A o \in ActiveOf(a) : Recover(row[o]).state \notin Leased

\* authorize finds no session of the user active after recovering them.
SlotFree(a) == \A o \in ActiveOf(a) : Recover(row[o]).state \notin ACTIVE

\* resolve_scope: the role is found, a named conversation is the user's own.
InScope(a, c) == access[a] /\ (c # None => creator[c] = a)

-----------------------------------------------------------------------------
\* Requests of the browser over HTTP.

\* authorize: recover the actor's old rows, refuse if one stays active (the
\* route rolls everything back), otherwise create a row with its first ticket.
Authorize(a, s, c) ==
  /\ row[s].state = "absent"
  /\ InScope(a, c)
  /\ SlotFree(a)
  /\ row' = [o \in Session |->
               IF o = s THEN Created(a, c)
               ELSE IF o \in ActiveOf(a) THEN Recover(row[o]) ELSE row[o]]
  /\ turn' = [o \in Session |->
               IF o \in ActiveOf(a) THEN Unanswered(turn[o]) ELSE turn[o]]
  /\ UNCHANGED <<conn, text, creator, access>>

\* reconnect, granted: the row is in its grace period; its unanswered turn is
\* released and a replacement ticket fences the earlier ones.
Reconnect(s) ==
  LET r == Recover(row[s])
  IN  /\ r.state = "reconnecting"
      /\ Authorized(r)
      /\ r.generation < MaxGen
      /\ row' = [row EXCEPT ![s] = Ticketed([r EXCEPT !.generation = r.generation + 1])]
      /\ turn' = [turn EXCEPT ![s] = Unanswered(@)]
      /\ UNCHANGED <<conn, text, creator, access>>

\* reconnect, refused with 409: the recovered row is committed before the
\* error is raised, and release_unanswered is not reached.
ReconnectRefused(s) ==
  LET r == Recover(row[s])
  IN  /\ row[s].state # "absent"
      /\ r.state # "reconnecting"
      /\ row' = [row EXCEPT ![s] = r]
      /\ UNCHANGED <<conn, turn, text, creator, access>>

\* revoke, inside the logout or membership transaction: every active row of
\* the actor is closed and its turn released.
Revoke(a, keepsAccess) ==
  /\ access[a]
  /\ access' = [access EXCEPT ![a] = keepsAccess]
  /\ row' = [s \in Session |->
               IF s \in ActiveOf(a) THEN Finish(row[s], "revoked") ELSE row[s]]
  /\ turn' = [s \in Session |->
               IF s \in ActiveOf(a) THEN Unanswered(turn[s]) ELSE turn[s]]
  /\ UNCHANGED <<conn, text, creator>>

\* The scope changes without revoke (an archived Legacy, an unverified user),
\* or is granted again.
ChangeScope(a) ==
  /\ access' = [access EXCEPT ![a] = ~@]
  /\ UNCHANGED <<row, conn, turn, text, creator>>

-----------------------------------------------------------------------------
\* The websocket connection w.

\* What a connection keeps of itself when it stops serving: once it is gone
\* only its identity, for the properties.
Left(k, phase, reason) ==
  [phase |-> phase, session |-> k.session, generation |-> k.generation,
   ticket |-> k.ticket, output |-> None, reason |-> reason]

Gone(k) == Left(k, "gone", "ended")

InSession(w) == conn[w].phase \in {"connecting", "bridging", "ending", "closing"}

\* What consume asks of the row and of the ticket k.
Consumable(r, k) ==
  /\ r.ticket = k
  /\ ~r.ticketUsed
  /\ r.ticketLeft > 0
  /\ r.state \in {"authorized", "reconnecting"}
  /\ r.state = "reconnecting" => r.graceLeft > 0

\* consume: the ticket k is exchanged, once, for the lease of the row.
Consume(w, s, k) ==
  LET r == row[s]
  IN  /\ conn[w].phase = "new"
      /\ Consumable(r, k)
      /\ Authorized(r)
      /\ row' = [row EXCEPT ![s] = Taken(r, w)]
      /\ conn' = [conn EXCEPT ![w] =
                   [phase |-> "connecting", session |-> s,
                    generation |-> r.generation + 1, ticket |-> k,
                    output |-> None, reason |-> "ended"]]
      /\ UNCHANGED <<turn, text, creator, access>>

\* What the error handlers of connect make of a refused transaction.
RefusalOf(w) ==
  IF ~Fenced(w) THEN "access"
  ELSE IF row[conn[w].session].lifeLeft <= 0 THEN "expired" ELSE "failed"

\* A refused owned, admit or terminate unwinds the connection; nothing is
\* written until close_owned, seconds later.
Unwind(w, reason) ==
  /\ conn' = [conn EXCEPT ![w] = Left(conn[w], "closing", reason)]
  /\ UNCHANGED <<row, turn, text, creator, access>>

Holds(w) == Fenced(w) /\ Authorized(row[conn[w].session])

\* owned(ready=True) after the provider connected; then the bridge starts.
Ready(w) ==
  /\ conn[w].phase = "connecting"
  /\ Holds(w)
  /\ row' = [row EXCEPT ![conn[w].session].state = "connected",
                        ![conn[w].session].leaseLeft = LeaseTTL]
  /\ conn' = [conn EXCEPT ![w].phase = "bridging"]
  /\ UNCHANGED <<turn, text, creator, access>>

\* owned: the periodic check renews the lease.
Heartbeat(w) ==
  /\ conn[w].phase \in {"bridging", "ending"}
  /\ Holds(w)
  /\ row' = [row EXCEPT ![conn[w].session].leaseLeft = LeaseTTL]
  /\ UNCHANGED <<conn, turn, text, creator, access>>

\* Any fenced call of the connection finds that it no longer owns the row.
FenceLost(w) ==
  /\ conn[w].phase \in {"connecting", "bridging", "ending"}
  /\ ~Holds(w)
  /\ Unwind(w, RefusalOf(w))

\* bind_once: the conversation bound to the session, or one born for it.
Target(s, c) ==
  \/ row[s].conversation = c
  \/ row[s].conversation = None /\ creator[c] = None

\* admit: bind the conversation if unbound, accept and claim the turn, link
\* the user message.  A redelivered item returns its receipt and a busy
\* conversation refuses the utterance: neither changes anything.
Admit(w, i, c) ==
  LET s == conn[w].session
  IN  /\ conn[w].phase \in {"bridging", "ending"}
      /\ Holds(w)
      /\ row[s].state = "connected"
      /\ turn[s][i].state = "none"
      /\ Target(s, c)
      /\ creator' = [creator EXCEPT ![c] = row[s].actor]
      /\ ~Busy(c)
      /\ row' = [row EXCEPT ![s].conversation = c]
      /\ turn' = [turn EXCEPT ![s][i] = [state |-> "streaming", claim |-> w]]
      /\ conn' = [conn EXCEPT ![w].output =
                    IF conn[w].phase = "bridging" THEN i ELSE @]
      /\ UNCHANGED <<text, access>>

\* terminate: with a playback proof the assistant message and the completion
\* are committed together, without one the turn ends interrupted.
Terminate(w, outcome) ==
  LET s == conn[w].session
      i == conn[w].output
  IN  /\ conn[w].phase = "bridging"
      /\ i # None
      /\ Holds(w)
      /\ row[s].state = "connected"
      /\ turn[s][i].claim = w
      /\ turn' = [turn EXCEPT ![s][i].state = IF @ = "streaming" THEN outcome ELSE @]
      /\ conn' = [conn EXCEPT ![w].output = None]
      /\ UNCHANGED <<row, text, creator, access>>

\* end_call with unfinished speech: the bridge lives on for a second.
EndCall(w) ==
  /\ conn[w].phase = "bridging" /\ conn[w].output = None
  /\ conn' = [conn EXCEPT ![w].phase = "ending"]
  /\ UNCHANGED <<row, turn, text, creator, access>>

\* The connection ends by itself: a lost transport, a failure, a normal end.
Drop(w, reason) ==
  /\ conn[w].phase \in {"connecting", "bridging", "ending"}
  /\ Unwind(w, reason)

\* Mutant of the next definition: any connection may close a leased row.
ClosesAny(w) == row[conn[w].session].state \in Leased

\* The compare of close_owned, which does not look at the lease's expiry.
Closes(w) ==
  LET r == row[conn[w].session]
  IN  r.owner = w /\ r.generation = conn[w].generation

\* Mutant of the next definition: the reason written into the state column.
TerminalOfReason(reason) == reason

TerminalOf(reason) ==
  CASE reason = "access" -> "revoked"
    [] reason = "failed" -> "failed"
    [] OTHER -> "ended"

\* close_owned: only the current lease owner closes the row.  The lease may
\* have run out unnoticed; the reason is corrected if access or time is gone.
CloseOwned(w) ==
  LET s == conn[w].session
      r == row[s]
      reason == IF r.lifeLeft <= 0 THEN "expired"
                ELSE IF ~access[r.actor] THEN "access" ELSE conn[w].reason
  IN  /\ conn[w].phase = "closing"
      /\ conn' = [conn EXCEPT ![w] = Gone(@)]
      /\ IF Closes(w)
         THEN /\ row' = [row EXCEPT ![s] =
                           IF reason = "transport"
                           THEN Release(r, Least(ReconnectTTL, r.lifeLeft))
                           ELSE Finish(r, TerminalOf(reason))]
              /\ turn' = [turn EXCEPT ![s] = Unanswered(@)]
         ELSE UNCHANGED <<row, turn>>
      /\ UNCHANGED <<text, creator, access>>

\* The process dies: nothing it held in memory is written back.
Crash(w) ==
  /\ InSession(w)
  /\ conn' = [conn EXCEPT ![w] = Gone(@)]
  /\ UNCHANGED <<row, turn, text, creator, access>>

-----------------------------------------------------------------------------
\* Text turns, the sweeper, and time.

\* accept_turn and claim_turn of a text request, which respect a live turn.
TextAdmit(x, c) ==
  /\ text[x].state = "none"
  /\ creator[c] # None
  /\ ~LiveBusy(c)
  /\ text' = [text EXCEPT ![x] = [state |-> "active", conversation |-> c]]
  /\ UNCHANGED <<row, conn, turn, creator, access>>

\* finish_turn or fail_turn of a text request.  A process that dies before it
\* reaches either simply never takes this action.
TextFinish(x, outcome) ==
  /\ text[x].state = "active"
  /\ text' = [text EXCEPT ![x].state = outcome]
  /\ UNCHANGED <<row, conn, turn, creator, access>>

\* Mutant of the next definition: only expired leases are looked for.
DueLeases(r) == r.state \in Leased /\ r.leaseLeft <= 0

\* The select of sweep: an active row with a deadline behind it.
Due(r) ==
  /\ r.state \in ACTIVE
  /\ \/ Lapsed(r)
     \/ r.state \in Leased /\ r.leaseLeft <= 0

\* sweep, for one actor: recover the active row, and release its turns unless
\* it is leased.  The select ran earlier, so the row may no longer be due.
Sweep(s) ==
  /\ row[s].state \in ACTIVE
  /\ row' = [row EXCEPT ![s] = Recover(@)]
  /\ turn' = [turn EXCEPT ![s] = AfterRecovery(s)]
  /\ UNCHANGED <<conn, text, creator, access>>

\* A deadline keeps falling until no comparison can change any more.
Count(t, floor) == IF t > floor THEN t - 1 ELSE t

Aged(r) ==
  [state |-> r.state, actor |-> r.actor, conversation |-> r.conversation,
   generation |-> r.generation, owner |-> r.owner,
   ticket |-> r.ticket, ticketUsed |-> r.ticketUsed,
   ticketLeft |-> Count(r.ticketLeft, 0),
   leaseLeft |-> IF r.state \in Leased THEN Count(r.leaseLeft, -ReconnectTTL)
                 ELSE r.leaseLeft,
   graceLeft |-> Count(r.graceLeft, 0), lifeLeft |-> Count(r.lifeLeft, 0)]

Tick ==
  /\ row' = [s \in Session |-> Aged(row[s])]
  /\ UNCHANGED <<conn, turn, text, creator, access>>

Request ==
  \/ \E a \in Actor, s \in Session, c \in Conversation \cup {None} : Authorize(a, s, c)
  \/ \E s \in Session : Reconnect(s) \/ ReconnectRefused(s)
  \/ \E a \in Actor, keeps \in BOOLEAN : Revoke(a, keeps)
  \/ \E a \in Actor : ChangeScope(a)

Connection ==
  \E w \in Owner :
    \/ \E s \in Session, k \in 0..MaxGen : Consume(w, s, k)
    \/ Ready(w) \/ Heartbeat(w) \/ FenceLost(w)
    \/ \E i \in Item, c \in Conversation : Admit(w, i, c)
    \/ \E outcome \in {"completed", "interrupted"} : Terminate(w, outcome)
    \/ EndCall(w)
    \/ \E reason \in {"transport", "failed", "ended"} : Drop(w, reason)
    \/ CloseOwned(w) \/ Crash(w)

Next ==
  \/ Request
  \/ Connection
  \/ \E x \in TextTurn, c \in Conversation : TextAdmit(x, c)
  \/ \E x \in TextTurn, outcome \in {"completed", "failed"} : TextFinish(x, outcome)
  \/ \E s \in Session : Sweep(s)
  \/ Tick

Spec == Init /\ [][Next]_vars

\* The lifespan task sweeps every five seconds, whatever the rest does, and
\* time passes; no request and no connection is assumed to make progress.
FairSpec == /\ Spec
            /\ WF_vars(Tick)
            /\ \A s \in Session : WF_vars(Due(row[s]) /\ Sweep(s))

-----------------------------------------------------------------------------
\* Safety.

\* A user holds at most one session that is not over, whatever interleaving of
\* authorize, sweep and connections closes the old ones: the cross-worker call
\* limit that the unique active_actor_id column backs.
OneActivePerActor ==
  \A s, o \in Session :
    row[s].state \in ACTIVE /\ row[o].state \in ACTIVE /\ row[s].actor = row[o].actor
      => s = o

\* While a live turn waits for its answer no other turn of its conversation is
\* active: neither another utterance nor a text request, although they are
\* admitted by different code (admit, accept_turn) under different locks.
LiveTurnAlone ==
  \A s \in Session, i \in Item : turn[s][i].state = "streaming" =>
    /\ row[s].conversation # None
    /\ \A o \in Session, j \in Item :
         row[o].conversation = row[s].conversation /\ turn[o][j].state = "streaming"
           => o = s /\ j = i
    /\ \A x \in TextTurn :
         text[x].conversation = row[s].conversation => text[x].state # "active"

\* A live turn that waits for its answer has someone to answer it: its session
\* is connected and leased to the connection that admitted it.  The exception
\* is a session that reconnect refused and closed (see ChatFreed).
BusyTurnHasOwner ==
  \A s \in Session, i \in Item : turn[s][i].state = "streaming" =>
    \/ row[s].state = "connected" /\ row[s].owner = turn[s][i].claim
    \/ row[s].state = "ended"

\* The output the controller is playing is the live turn it admitted, and that
\* turn is still open for as long as the connection passes the fence: nothing
\* but the connection itself settles the turn under it.
OutputIsMine ==
  \A w \in Owner :
    LET s == conn[w].session IN
    /\ conn[w].phase \in {"bridging", "ending"}
    /\ conn[w].output # None
    /\ Fenced(w)
    => turn[s][conn[w].output] = [state |-> "streaming", claim |-> w]

\* Every connection of a session got in on a ticket of its own and carries a
\* generation of its own, so a fence that compares generations tells apart any
\* two connections the session ever had.
FencingTokensDistinct ==
  \A w, v \in Owner :
    conn[w].session # None /\ conn[w].session = conn[v].session /\ w # v
      => /\ conn[w].ticket # conn[v].ticket
         /\ conn[w].generation # conn[v].generation

\* A session only ever speaks in a conversation of its own user.
ConversationOfActor ==
  \A s \in Session : row[s].conversation # None => creator[row[s].conversation] = row[s].actor

-----------------------------------------------------------------------------
\* What a step may never do.

\* A connected call whose lease, session and access are good is taken away
\* from its connection only by that connection or by a revocation: a sweep, a
\* reconnect request or a stale connection of the session cannot do it.
LeaseHolderUndisturbed ==
  [][\A s \in Session :
       /\ row[s].state = "connected" /\ row[s].leaseLeft > 0
       /\ row[s].lifeLeft > 0 /\ access[row[s].actor]
       /\ row'[s].owner # row[s].owner
       => \/ conn[row[s].owner].phase = "closing" /\ conn'[row[s].owner].phase = "gone"
          \/ row'[s].state = "revoked"]_vars

\* The controller never replaces the output it is playing by that of a later
\* utterance: it must settle the one before (an interrupted reply would
\* otherwise stay open with nobody to finish it).
OutputNotOverwritten ==
  [][\A w \in Owner : conn[w].output # None =>
       conn'[w].output \in {conn[w].output, None}]_vars

\* Once a session is bound to a conversation it stays bound to it, through
\* reconnects and competing first utterances.
BindingStable ==
  [][\A s \in Session : row[s].conversation # None =>
       row'[s].conversation = row[s].conversation]_vars

\* Whoever takes a session out of the hands of its connection also settles the
\* turn that connection had open, except a refused reconnect request.
FencingReleasesTurns ==
  [][\A s \in Session :
       row[s].state \in Leased /\ row'[s].state \notin Leased
         => \/ \A i \in Item : turn'[s][i].state # "streaming"
            \/ ReconnectRefused(s)]_vars

\* What the fence is for: two connections never hold one ticket or generation, a good
\* lease is not disturbed, a session keeps the conversation it was bound to, and whoever
\* fences a connection settles its turn.
FencingHolds ==
  /\ [](FencingTokensDistinct /\ ConversationOfActor)
  /\ LeaseHolderUndisturbed /\ BindingStable /\ FencingReleasesTurns

\* The answer that is played belongs to the turn that is open: the turn has a
\* connection to answer it, the connection plays it, and nothing replaces it.
OutputHolds == [](BusyTurnHasOwner /\ OutputIsMine) /\ OutputNotOverwritten

-----------------------------------------------------------------------------
\* The turns of live calls and text requests together keep the turn ledger.

LiveTurn == Session \X Item

statusBar ==
  [t \in LiveTurn \cup TextTurn |->
     IF t \in TextTurn THEN text[t].state
     ELSE IF turn[t[1]][t[2]].state = "streaming" THEN "active"
     ELSE turn[t[1]][t[2]].state]

placeBar ==
  [t \in LiveTurn \cup TextTurn |->
     IF t \in TextTurn THEN text[t].conversation
     ELSE IF turn[t[1]][t[2]].state = "none" THEN None
     ELSE row[t[1]].conversation]

Ledger == INSTANCE TurnLedger
            WITH Turn <- LiveTurn \cup TextTurn, status <- statusBar, place <- placeBar

\* Whatever connections, revocations, sweeps and text requests do to the turn
\* table, it is one of the histories the ledger allows.
ImplementsLedger == Ledger!Spec

-----------------------------------------------------------------------------
\* Liveness, and the two statements of the documents that the code breaks.

\* The one call slot of a user is always freed again: every session ends, even
\* if all its connections crash and the browser never comes back.
SlotFreed ==
  \A s \in Session : row[s].state \in ACTIVE ~> row[s].state \in TERMINAL

\* "A crashed connection can never hold a chat busy indefinitely."
ChatFreed ==
  \A s \in Session, i \in Item :
    turn[s][i].state = "streaming" ~> turn[s][i].state # "streaming"
=============================================================================
