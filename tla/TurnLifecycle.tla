---------------------------- MODULE TurnLifecycle ----------------------------
(***************************************************************************)
(* A text turn over HTTP: how turn_lifecycle admits a request under its    *)
(* client key, claims the turn row once, and settles it whatever way the   *)
(* request ends; how the routes place the user and assistant messages in   *)
(* transactions around it; and how turn_effects applies the memory and the *)
(* activity of a completed builder turn under one receipt each.            *)
(*                                                                         *)
(* The row that a request inserts is named by the request.  A step of a    *)
(* request is what it does between two commits or awaits; a process that   *)
(* dies leaves its committed rows as they are and drops its locks.         *)
(***************************************************************************)
EXTENDS Naturals, FiniteSets

CONSTANTS
  Request,       \* HTTP requests that send a message
  Recovery,      \* internal callers that repeat the finalization of a turn
  LiveTurn,      \* turns of live calls, whose own life is LiveSessions'
  Key,           \* values of client_turn_id
  Content,       \* what the request digest distinguishes
  Conversation,
  Builder,       \* the conversations in mode "rya"; the others are a persona's
  None,
  RealtimeEnabled

ASSUME ModeAssumption == Builder \subseteq Conversation /\ RealtimeEnabled \in BOOLEAN

ASSUME NoneAssumption ==
  /\ None \notin Request \cup Recovery \cup LiveTurn \cup Key \cup Conversation
  /\ Request \cap Recovery = {} /\ Request \cap LiveTurn = {}

VARIABLES
  req,       \* req[r]: what the request asks, and how far it has come
  turn,      \* turn[r]: the conversation_turns row that r inserted
  live,      \* live[l]: the row of a live turn
  gate,      \* gate[c]: the request holding the row lock of conversation c
  fin,       \* fin[f]: how far f has come in finalizing a completed turn
  effect,    \* effect[r]: the receipts of the turn r, and what was applied
  writer     \* writer[r]: the finalizer holding the row lock of the turn r

vars == <<req, turn, live, gate, fin, effect, writer>>

Process  == Request \cup Recovery
Terminal == {"completed", "interrupted", "failed"}
Open     == {"pending", "streaming"}

\* What a request asks, and the columns of a turn and of its two receipts.
Asked == [pc: {"new", "checked", "accepted", "claimed", "linked", "finished",
               "replayed", "refused", "failed", "dead"},
          conversation: Conversation \cup {None}, key: Key \cup {None},
          content: Content \cup {None}, sse: BOOLEAN, original: Request \cup {None}]
Row   == [state: {"none"} \cup Open \cup Terminal, user: BOOLEAN, assistant: BOOLEAN]
Effect == [memory: {"none", "applied", "skipped"}, activity: {"none", "counted", "skipped"},
           stored: Nat, contributed: Nat]
Final == [pc: {"idle", "storing", "again", "activity", "over"}, turn: Request \cup {None}]

TypeOK ==
  /\ req \in [Request -> Asked]
  /\ turn \in [Request -> Row]
  /\ live \in [LiveTurn -> [state: {"none", "streaming"} \cup Terminal,
                            conversation: Conversation \cup {None}]]
  /\ gate \in [Conversation -> Request \cup {None}]
  /\ fin \in [Process -> Final]
  /\ effect \in [Request -> Effect]
  /\ writer \in [Request -> Process \cup {None}]

Init ==
  /\ req = [r \in Request |-> [pc |-> "new", conversation |-> None, key |-> None,
                               content |-> None, sse |-> FALSE, original |-> None]]
  /\ turn = [r \in Request |-> [state |-> "none", user |-> FALSE, assistant |-> FALSE]]
  /\ live = [l \in LiveTurn |-> [state |-> "none", conversation |-> None]]
  /\ gate = [c \in Conversation |-> None]
  /\ fin = [f \in Process |-> [pc |-> "idle", turn |-> None]]
  /\ effect = [r \in Request |-> [memory |-> "none", activity |-> "none",
                                  stored |-> 0, contributed |-> 0]]
  /\ writer = [r \in Request |-> None]

-----------------------------------------------------------------------------
\* accept_turn

\* The committed row that the unique key (conversation, client key) leads to.
Existing(c, k) ==
  {o \in Request : /\ k # None /\ req[o].key = k /\ req[o].conversation = c
                   /\ turn[o].state # "none"}

\* existing_result returns the old pair only for a completed turn of the same
\* content, and never over a stream.  Every other duplicate is refused with 409.
Replays(o, content, sse) ==
  turn[o].state = "completed" /\ req[o].content = content /\ ~sse

\* What becomes of the request `asked` when the row of o has its key.
Answered(asked, o) ==
  IF Replays(o, asked.content, asked.sse)
  THEN [asked EXCEPT !.pc = "replayed", !.original = o]
  ELSE [asked EXCEPT !.pc = "refused"]

LiveActive(c) == \E l \in LiveTurn : live[l].conversation = c /\ live[l].state = "streaming"

\* Mutant of the next definition: the admission lock never taken.
Ungated(r, c) == UNCHANGED gate

\* With live calls enabled the admission holds the conversation's row until it
\* commits; otherwise two admissions may overlap.
Gated(r, c) ==
  /\ gate[c] = None
  /\ gate' = IF RealtimeEnabled THEN [gate EXCEPT ![c] = r] ELSE gate

\* The first half of accept_turn: look for the key, then for a live turn.  The
\* admission lock is waited for even by a request that is then turned away.
Check(r, c, k, content, sse) ==
  LET asked == [req[r] EXCEPT !.conversation = c, !.key = k, !.content = content,
                              !.sse = sse]
  IN  /\ req[r].pc = "new"
      /\ \/ /\ gate[c] = None /\ UNCHANGED gate
            /\ \E o \in Existing(c, k) : req' = [req EXCEPT ![r] = Answered(asked, o)]
         \/ /\ gate[c] = None /\ UNCHANGED gate
            /\ Existing(c, k) = {} /\ LiveActive(c)
            /\ req' = [req EXCEPT ![r] = [asked EXCEPT !.pc = "refused"]]
         \/ /\ Gated(r, c)
            /\ Existing(c, k) = {} /\ ~LiveActive(c)
            /\ req' = [req EXCEPT ![r] = [asked EXCEPT !.pc = "checked"]]
      /\ UNCHANGED <<turn, live, fin, effect, writer>>

Release(r) == [c \in Conversation |-> IF gate[c] = r THEN None ELSE gate[c]]

\* Mutant of the next definition: no unique key behind the select.
NotTaken(r) == {}

\* The rows that make the insert of r violate the unique key.
Taken(r) == Existing(req[r].conversation, req[r].key)

\* The second half: insert the pending row and commit.  A key inserted since
\* the first half makes it an IntegrityError, and the old row is the answer.
Insert(r) ==
  /\ req[r].pc = "checked"
  /\ gate' = Release(r)
  /\ IF Taken(r) = {}
     THEN /\ turn' = [turn EXCEPT ![r].state = "pending"]
          /\ req' = [req EXCEPT ![r].pc = "accepted"]
     ELSE /\ \E o \in Taken(r) : req' = [req EXCEPT ![r] = Answered(req[r], o)]
          /\ UNCHANGED turn
  /\ UNCHANGED <<live, fin, effect, writer>>

\* claim_turn, in a transaction of its own.
Claim(r) ==
  /\ req[r].pc = "accepted"
  /\ req' = [req EXCEPT ![r].pc = "claimed"]
  /\ turn' = [turn EXCEPT ![r].state = IF @ = "pending" THEN "streaming" ELSE @]
  /\ UNCHANGED <<live, gate, fin, effect, writer>>

-----------------------------------------------------------------------------
\* The route, after the claim.

\* Whether the user message is committed before the answer is generated.
KeepsUser(r) == req[r].sse

\* link_user: the stream commits the user message here, the JSON route leaves
\* it in the open transaction that the assistant's commit will end.
Link(r) ==
  /\ req[r].pc = "claimed"
  /\ req' = [req EXCEPT ![r].pc = "linked"]
  /\ turn' = [turn EXCEPT ![r].user = KeepsUser(r)]
  /\ UNCHANGED <<live, gate, fin, effect, writer>>

\* finish_turn completes the row that the request claimed, over the assistant
\* message; over any other row it fails and the transaction is rolled back.
Completed(r) ==
  /\ turn[r].state = "streaming"
  /\ turn' = [turn EXCEPT ![r] = [state |-> "completed", user |-> TRUE, assistant |-> TRUE]]

\* complete_turn has effects to apply after a builder's turn, none after a visitor's.
Finalizes(r) == req[r].conversation \in Builder

\* The answer is there: assistant message, links and completion commit together.
Finish(r) ==
  /\ req[r].pc = "linked"
  /\ Completed(r)
  /\ req' = [req EXCEPT ![r].pc = "finished"]
  /\ fin' = [fin EXCEPT ![r].turn = r, ![r].pc = IF Finalizes(r) THEN "idle" ELSE "over"]
  /\ UNCHANGED <<live, gate, effect, writer>>

\* Mutant of the next definition: only rows that were never claimed are closed.
FailsPending(r) == turn[r].state = "pending"

\* What fail_turn asks of the row it closes: open, and claimed by this request.
Fails(r) == turn[r].state = "streaming"

\* The state a turn is closed in.
Outcome(cancelled) == IF cancelled THEN "interrupted" ELSE "failed"

\* lifecycle_guard: the request ends by an error or a cancellation anywhere
\* after its claim, the finalization included.  The open transaction is rolled
\* back; a turn that is already settled stays as it is.
Fail(r, cancelled) ==
  /\ \/ req[r].pc \in {"claimed", "linked"}
     \/ req[r].pc = "finished" /\ fin[r].pc # "over"
  /\ req' = [req EXCEPT ![r].pc = "failed"]
  /\ turn' = [turn EXCEPT ![r].state = IF Fails(r) THEN Outcome(cancelled) ELSE @]
  /\ fin' = [fin EXCEPT ![r].pc = "over"]
  /\ writer' = [t \in Request |-> IF writer[t] = r THEN None ELSE writer[t]]
  /\ UNCHANGED <<live, gate, effect>>

\* The process dies, the database is away when the claim or the failure should
\* be recorded, or a stream is closed before its iterator starts: locks are
\* dropped with the connection, rows stay.
Crash(f) ==
  /\ \/ /\ f \in Request
        /\ req[f].pc \in {"checked", "accepted", "claimed", "linked", "finished"}
        /\ req' = [req EXCEPT ![f].pc = "dead"]
        /\ gate' = Release(f)
     \/ /\ f \in Recovery
        /\ fin[f].pc \notin {"idle", "over"}
        /\ UNCHANGED <<req, gate>>
  /\ fin' = [fin EXCEPT ![f].pc = "over"]
  /\ writer' = [t \in Request |-> IF writer[t] = f THEN None ELSE writer[t]]
  /\ UNCHANGED <<turn, live, effect>>

-----------------------------------------------------------------------------
\* apply_effects

\* lock_turn: the write lock on the turn row, held until commit or rollback.
CanLock(f, t) == writer[t] \in {None, f}

\* Enter the memory effect: with no receipt the memory service is called under
\* the lock; with one, the transaction goes on to the activity effect.
MemoryBegin(f, t) ==
  /\ fin[f].pc = "idle"
  /\ turn[t].state = "completed" /\ req[t].conversation \in Builder
  /\ f \in Request => f = t /\ req[f].pc = "finished"
  /\ CanLock(f, t)
  /\ writer' = [writer EXCEPT ![t] = f]
  /\ fin' = [fin EXCEPT ![f] = [turn |-> t, pc |-> IF effect[t].memory = "none"
                                                 THEN "storing" ELSE "activity"]]
  /\ UNCHANGED <<req, turn, live, gate, effect>>

\* The memory service answered: its changes, if any, commit with the receipt.
MemoryStore(f, changed) ==
  LET t == fin[f].turn
  IN  /\ fin[f].pc = "storing"
      /\ effect' = [effect EXCEPT ![t].memory = IF changed THEN "applied" ELSE "skipped",
                                  ![t].stored = IF changed THEN @ + 1 ELSE @]
      /\ fin' = [fin EXCEPT ![f].pc = "activity"]
      /\ writer' = [writer EXCEPT ![t] = None]
      /\ UNCHANGED <<req, turn, live, gate>>

\* The memory service failed: the rollback gives the lock away for a moment.
MemoryFails(f) ==
  /\ fin[f].pc = "storing"
  /\ fin' = [fin EXCEPT ![f].pc = "again"]
  /\ writer' = [writer EXCEPT ![fin[f].turn] = None]
  /\ UNCHANGED <<req, turn, live, gate, effect>>

\* Mutant of the next definition: the receipt not read again after the rollback.
SkipsBlindly(t) == TRUE

\* After the rollback a receipt is written only if there is still none.
Skips(t) == effect[t].memory = "none"

\* Locked again: record the skipped memory, unless somebody else got there.
MemorySkip(f) ==
  LET t == fin[f].turn
  IN  /\ fin[f].pc = "again"
      /\ CanLock(f, t)
      /\ fin' = [fin EXCEPT ![f].pc = "activity"]
      /\ IF Skips(t)
         THEN effect' = [effect EXCEPT ![t].memory = "skipped"] /\ UNCHANGED writer
         ELSE writer' = [writer EXCEPT ![t] = f] /\ UNCHANGED effect
      /\ UNCHANGED <<req, turn, live, gate>>

\* The activity effect of a turn with effects e: one contribution for a memory
\* that was stored, a receipt in either case, nothing over an older receipt.
Counted(e) ==
  IF e.activity # "none" THEN e
  ELSE IF e.memory = "applied"
  THEN [e EXCEPT !.activity = "counted", !.contributed = @ + 1]
  ELSE [e EXCEPT !.activity = "skipped"]

\* Under the lock again; commit, or rollback over an older receipt.
Activity(f) ==
  LET t == fin[f].turn
  IN  /\ fin[f].pc = "activity"
      /\ CanLock(f, t)
      /\ effect' = [effect EXCEPT ![t] = Counted(@)]
      /\ fin' = [fin EXCEPT ![f].pc = "over"]
      /\ writer' = [writer EXCEPT ![t] = None]
      /\ UNCHANGED <<req, turn, live, gate>>

-----------------------------------------------------------------------------
\* Live turns of the same conversations, as admit and terminate leave them.

TextActive(c) == \E r \in Request : req[r].conversation = c /\ turn[r].state \in Open

LiveAdmit(l, c) ==
  /\ RealtimeEnabled
  /\ live[l].state = "none" /\ gate[c] = None
  /\ ~LiveActive(c) /\ ~TextActive(c)
  /\ live' = [live EXCEPT ![l] = [state |-> "streaming", conversation |-> c]]
  /\ UNCHANGED <<req, turn, gate, fin, effect, writer>>

LiveEnd(l, outcome) ==
  /\ live[l].state = "streaming"
  /\ live' = [live EXCEPT ![l].state = outcome]
  /\ UNCHANGED <<req, turn, gate, fin, effect, writer>>

-----------------------------------------------------------------------------
\* What request r does next when nothing goes wrong.
Serve(r) == Insert(r) \/ Claim(r) \/ Link(r) \/ Finish(r)

\* What finalizer f does once it has entered.
Continue(f) ==
  \/ \E changed \in BOOLEAN : MemoryStore(f, changed)
  \/ MemoryFails(f) \/ MemorySkip(f) \/ Activity(f)

Finalize(f) == Continue(f) \/ \E t \in Request : MemoryBegin(f, t)

Next ==
  \/ \E r \in Request, c \in Conversation, k \in Key \cup {None}, content \in Content,
        sse \in BOOLEAN : Check(r, c, k, content, sse)
  \/ \E r \in Request : Serve(r)
  \/ \E r \in Request, cancelled \in BOOLEAN : Fail(r, cancelled)
  \/ \E f \in Process : Finalize(f) \/ Crash(f)
  \/ \E l \in LiveTurn, c \in Conversation : LiveAdmit(l, c)
  \/ \E l \in LiveTurn, outcome \in Terminal : LiveEnd(l, outcome)

Spec == Init /\ [][Next]_vars

\* An admitted request runs on: its provider call returns, fails or times out,
\* and so does the memory service's.  A recovery caller that entered runs on
\* too.  Nothing makes a request arrive, a live turn end, a recovery caller
\* appear, or a process die.
FairSpec ==
  /\ Spec
  /\ \A r \in Request : WF_vars(Serve(r)) /\ WF_vars(Finalize(r))
  /\ \A f \in Recovery : WF_vars(Continue(f))

-----------------------------------------------------------------------------
\* Safety.

\* A client key admits one turn: however many duplicates race, one row carries
\* the key, so one request generates an answer and stores messages for it.
KeyAdmitsOnce ==
  \A r, o \in Request :
    /\ turn[r].state # "none" /\ turn[o].state # "none"
    /\ req[r].key # None /\ req[r].key = req[o].key
    /\ req[r].conversation = req[o].conversation
    => r = o

\* A duplicate that was answered got, without a second answer being generated,
\* the pair of messages stored for the same text under the same key; and that
\* pair was already complete.
ReplayIsTheSame ==
  \A r \in Request : req[r].pc = "replayed" =>
    LET o == req[r].original
    IN  /\ o # r /\ turn[r].state = "none" /\ turn[o].state = "completed"
        /\ req[o].content = req[r].content /\ req[o].key = req[r].key
        /\ turn[o].user /\ turn[o].assistant

\* No answer is stored without its question, and a turn that failed over the
\* JSON route leaves no question behind for the history.
MessagesMatchState ==
  \A r \in Request :
    /\ turn[r].assistant <=> turn[r].state = "completed"
    /\ turn[r].assistant => turn[r].user
    /\ turn[r].user /\ ~turn[r].assistant => req[r].sse

\* The memory of a turn is stored at most once and contributes at most one
\* activity, and the receipts say exactly what was done, although finalizers of
\* the turn overlap, fail between their two transactions, or die.
EffectsOnce ==
  \A r \in Request :
    /\ effect[r].stored = (IF effect[r].memory = "applied" THEN 1 ELSE 0)
    /\ effect[r].contributed = (IF effect[r].activity = "counted" THEN 1 ELSE 0)
    /\ effect[r].activity # "none" => effect[r].memory # "none"
    /\ effect[r].activity = "counted" => effect[r].memory = "applied"

\* A request under a client key is answered once and alike, whichever of its
\* duplicates arrives first (accept_turn, existing_result).
AnsweredOnce == KeyAdmitsOnce /\ ReplayIsTheSame

-----------------------------------------------------------------------------
\* The rows of text requests and live calls together keep the turn ledger.

Shown(state) == IF state \in Open THEN "active" ELSE state

statusBar ==
  [t \in Request \cup LiveTurn |->
     IF t \in Request THEN Shown(turn[t].state) ELSE Shown(live[t].state)]

placeBar ==
  [t \in Request \cup LiveTurn |->
     IF t \notin Request THEN live[t].conversation
     ELSE IF turn[t].state = "none" THEN None ELSE req[t].conversation]

Ledger == INSTANCE TurnLedger
            WITH Turn <- Request \cup LiveTurn, status <- statusBar, place <- placeBar

\* Whatever requests, guards, crashes and live calls do, the turn table is one
\* of the histories the ledger allows: no turn is settled twice or reopened,
\* and no text turn starts beside a live one.
ImplementsLedger == Ledger!Spec

\* The messages that people see agree with the turns: the links of a row match its
\* state, and the rows together keep the ledger.
MessagesHold == []MessagesMatchState /\ ImplementsLedger

-----------------------------------------------------------------------------
\* Liveness.

\* A turn row is left open only by a process that died: whatever way an admitted
\* request ends, it settles its row.
OpenTurnSettles ==
  \A r \in Request :
    turn[r].state \in Open ~> turn[r].state \in Terminal \/ req[r].pc = "dead"

\* A completed builder turn gets both of its receipts unless its request ended
\* early: the finalizers of one turn never leave it waiting for each other.
EffectsFinish ==
  \A r \in Request :
    req[r].pc = "finished" /\ req[r].conversation \in Builder
      ~> \/ effect[r].memory # "none" /\ effect[r].activity # "none"
         \/ req[r].pc \in {"failed", "dead"}

\* Whatever was begun ends: the row of a turn, and the effects of its completion.
EverythingSettles == OpenTurnSettles /\ EffectsFinish
=============================================================================
