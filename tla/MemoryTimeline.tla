--------------------------- MODULE MemoryTimeline ---------------------------
(***************************************************************************)
(* The canonical memories of one Legacy and the life events that are       *)
(* structured from them: contributions a builder turn stores, edits and    *)
(* deletions of the dashboard, facts preserved from reviewed sources, and  *)
(* the owner's own work on the timeline.                                   *)
(*                                                                         *)
(* Writers of memories hold the row lock of the Legacy; the timeline's     *)
(* routes do not.  A contribution is applied candidate by candidate over   *)
(* the list of active memories it read when it took the lock, a list that  *)
(* only grows while the candidates change the rows.                        *)
(*                                                                         *)
(* A text is what the model of the timeline can tell apart: whether it     *)
(* names the event (a move, a graduation, a career) and the date it        *)
(* states.  Two dates are either equal or incompatible.                    *)
(***************************************************************************)
EXTENDS Naturals, Sequences, SequencesExt, FiniteSets

CONSTANTS
  Memory,       \* row ids, 1..n in the order of insertion
  Text,         \* what memories may say: [event, date, word]
  MaxBatch,     \* bound: candidates of one contribution
  MaxWork       \* bound: steps of the owner on the timeline

NoDate == 0

VARIABLES
  memory,       \* memories: [status, text]
  event,        \* life events: "structured" and one made by the "owner"
  link,         \* life_event_memories, event -> memory -> state
  batch,        \* the contribution that holds the lock, or Free
  work          \* steps of the owner on the timeline so far

vars == <<memory, event, link, batch, work>>

Event == {"structured", "owner"}
Status == {"none", "active", "superseded", "deleted"}
Dates == {t.date : t \in Text} \union {NoDate}

NoText == [event |-> FALSE, date |-> NoDate, word |-> 0]
NoRow == [status |-> "none", text |-> NoText]
NoEvent == [life |-> "none", named |-> FALSE, date |-> NoDate, review |-> "none",
            resolved |-> FALSE]
Free == [held |-> FALSE]

\* memory.py: active_memories
Active(rows) == {m \in Memory : rows[m].status = "active"}

Fresh(rows) == {m \in Memory : rows[m].status = "none" /\ \A k \in 1 .. m - 1 : rows[k].status # "none"}

New(text) == [status |-> "active", text |-> text]

-----------------------------------------------------------------------------
(* The timeline's bookkeeping: tl is [event, link], rows the memories.     *)

Stated(tl, rows, e) ==
  {rows[m].text.date : m \in {k \in Active(rows) : tl.link[e][k] = "active"}} \ {NoDate}

\* Mutant of the next definition: a resolved conflict is looked at again.
RefreshedAlways(tl, rows, e) ==
  IF Cardinality(Stated(tl, rows, e)) > 1 THEN [tl EXCEPT !.event[e].review = "conflict"]
  ELSE IF tl.event[e].review = "conflict" THEN [tl EXCEPT !.event[e].review = "approved"]
  ELSE tl

\* timeline.py: _refresh_conflict
Refreshed(tl, rows, e) ==
  IF tl.event[e].review = "approved" /\ tl.event[e].resolved THEN tl
  ELSE IF Cardinality(Stated(tl, rows, e)) > 1 THEN [tl EXCEPT !.event[e].review = "conflict"]
  ELSE IF tl.event[e].review = "conflict" THEN [tl EXCEPT !.event[e].review = "approved"]
  ELSE tl

\* The rows of a query without ORDER BY come in any order: `first` is the
\* event the database returns first.
Pick(first, choices) == IF first \in choices THEN first ELSE CHOOSE e \in choices : TRUE

Linked(tl, m) == {e \in Event : tl.link[e][m] # "none"}
Titled(tl) == {e \in Event : tl.event[e].life = "active" /\ tl.event[e].named}

\* The event a memory without a link joins; an equal admission key, of an
\* event since deleted or renamed as well, joins that event.
Joined(tl, date, first) ==
  LET same == {e \in Titled(tl) : tl.event[e].date = date}
  IN IF same # {} THEN Pick(first, same)
     ELSE IF Titled(tl) # {} THEN Pick(first, Titled(tl))
     ELSE "structured"

Admitted(tl, date, e) ==
  IF tl.event[e].life # "none" THEN tl
  ELSE [tl EXCEPT !.event[e] = [life |-> "active", named |-> TRUE, date |-> date,
                                review |-> "approved", resolved |-> FALSE]]

Clashing(tl, date, e) ==
  IF tl.event[e].date \in {NoDate, date} \/ date = NoDate THEN tl
  ELSE [tl EXCEPT !.event[e].review = "conflict", !.event[e].resolved = FALSE]

\* timeline.py: structure_memory
Structured(tl, rows, m, first) ==
  LET date == rows[m].text.date
      e == Joined(tl, date, first)
      joined == [Admitted(tl, date, e) EXCEPT !.link[e][m] = "active"]
  IN CASE ~ rows[m].text.event -> tl
       [] rows[m].text.event /\ Linked(tl, m) # {} -> Refreshed(tl, rows, Pick(first, Linked(tl, m)))
       [] OTHER -> Refreshed(Clashing(joined, date, e), rows, e)

\* timeline.py: reconcile_memory
Reconciled(tl, rows, m, first) ==
  LET held == {e \in Event : tl.link[e][m] = "active"}
      dropped == [tl EXCEPT !.link = [e \in Event |->
                    IF e \in held THEN [tl.link[e] EXCEPT ![m] = "stale"] ELSE tl.link[e]]]
  IN IF rows[m].status = "active" THEN Structured(tl, rows, m, first)
     ELSE [dropped EXCEPT !.event = [e \in Event |->
             IF e \in held THEN Refreshed(dropped, rows, e).event[e] ELSE @[e]]]

Timeline == [event |-> event, link |-> link]

SetTimeline(tl) == event' = tl.event /\ link' = tl.link

-----------------------------------------------------------------------------
(* LivingMemoryService.store: the contribution of one builder turn.        *)

\* The lock, then the list of what is active.
StoreBegin ==
  /\ ~ batch.held
  /\ batch' = [held |-> TRUE, rows |-> memory, active |-> Active(memory), changed |-> <<>>,
               left |-> MaxBatch]
  /\ UNCHANGED <<memory, event, link, work>>

Noted(changed, m) == IF Contains(changed, m) THEN changed ELSE Append(changed, m)

\* Several rows are noted in the order of their ids.
AllNoted(changed, ms) ==
  LET upTo[m \in 0 .. Cardinality(Memory)] ==
        IF m = 0 THEN changed ELSE IF m \in ms THEN Noted(upTo[m - 1], m) ELSE upTo[m - 1]
  IN upTo[Cardinality(Memory)]

\* An exact duplicate among the memories that were active at the start.
Known(b, text, related) == \E m \in b.active \ related : b.rows[m].text = text

Rewritten(b, m, text) ==
  [b EXCEPT !.rows[m].text = text, !.changed = Noted(@, m)]

Added(b, m, text) ==
  [b EXCEPT !.rows[m] = New(text), !.active = @ \union {m}, !.changed = Noted(@, m)]

Marked(b, ms, status) ==
  [b EXCEPT !.rows = [m \in Memory |-> IF m \in ms THEN [b.rows[m] EXCEPT !.status = status] ELSE b.rows[m]],
            !.changed = AllNoted(@, ms)]

\* The ways one candidate may go.  `similar` are the memories close enough to
\* count as the same fact; the extraction is asked to cite no memory with a
\* new fact and one with an enrichment.
Applied(b, op, text, related, m) ==
  LET similar == b.active \ related
      fall == IF op = "delete" THEN {}
              ELSE {Rewritten(b, s, text) : s \in similar} \union {b}
      fresh == IF m \in Fresh(b.rows) THEN {Added(b, m, text)} ELSE {}
  IN IF op = "delete" THEN {Marked(b, related, "deleted")}
     ELSE IF Known(b, text, related) THEN {b}
     ELSE IF op = "enrich" /\ related # {} THEN {Rewritten(b, s, text) : s \in related}
     ELSE IF op = "correct" /\ related # {} THEN
       {[Marked(c[1], related, "superseded") EXCEPT !.changed = Noted(@, c[2])] :
          c \in {<<b, s>> : s \in similar} \union {<<f, m>> : f \in fresh}}
     ELSE fall \union fresh

\* One candidate of the contribution.
StoreCandidate(op, text, related) ==
  /\ batch.held /\ batch.left > 0
  /\ related \subseteq batch.active
  /\ op = "new" => related = {}
  /\ op = "enrich" => Cardinality(related) <= 1
  /\ \E m \in Fresh(batch.rows) \union {0} :
       \E b \in Applied(batch, op, text, related, m) : batch' = [b EXCEPT !.left = @ - 1]
  /\ UNCHANGED <<memory, event, link, work>>

\* The memories that changed and are still active are reconciled one after the other.
AllReconciled(tl, rows, changed, first) ==
  LET upTo[n \in 0 .. Len(changed)] ==
        IF n = 0 THEN tl
        ELSE IF rows[changed[n]].status = "active" THEN Reconciled(upTo[n - 1], rows, changed[n], first)
        ELSE upTo[n - 1]
  IN upTo[Len(changed)]

\* The end of `store' with commit=False and the commit of turn_effects.
StoreCommit ==
  /\ batch.held
  /\ \E first \in Event : SetTimeline(AllReconciled(Timeline, batch.rows, batch.changed, first))
  /\ memory' = batch.rows
  /\ batch' = Free
  /\ UNCHANGED work

\* The provider or the database fails, or the process dies.
StoreRollback == batch.held /\ batch' = Free /\ UNCHANGED <<memory, event, link, work>>

-----------------------------------------------------------------------------
(* The dashboard and the promotion of reviewed sources.                    *)

\* Mutant of the next definition: equal texts are not looked for again.
TwinUnchecked(m, text) == FALSE

Twin(m, text) == \E k \in Active(memory) \ {m} : memory[k].text = text

\* memory.py: edit
Edit(m, text) ==
  /\ ~ batch.held
  /\ memory[m].status = "active" /\ memory[m].text # text
  /\ ~ Twin(m, text)
  /\ memory' = [memory EXCEPT ![m].text = text]
  /\ \E first \in Event : SetTimeline(Reconciled(Timeline, memory', m, first))
  /\ UNCHANGED <<batch, work>>

\* memory.py: delete_memory; the row was active when the request read it
\* without the lock, and is not looked at again.
Delete(m) ==
  /\ ~ batch.held
  /\ memory[m].status \in {"active", "superseded"}
  /\ memory' = [memory EXCEPT ![m].status = "deleted"]
  /\ \E first \in Event : SetTimeline(Reconciled(Timeline, memory', m, first))
  /\ UNCHANGED <<batch, work>>

\* memory.py: preserve_reviewed_source
Preserve(text) ==
  /\ ~ batch.held
  /\ \A k \in Active(memory) : memory[k].text # text
  /\ \E m \in Fresh(memory) : memory' = [memory EXCEPT ![m] = New(text)]
  /\ UNCHANGED <<event, link, batch, work>>

-----------------------------------------------------------------------------
(* The owner's timeline routes, which take no lock.  They do not read what *)
(* an open contribution has changed, and it reads nothing of theirs before *)
(* it commits: taking them between contributions only loses no behaviour.  *)

Work == ~ batch.held /\ work < MaxWork /\ work' = work + 1

Create(named, date, ms) ==
  /\ event["owner"].life = "none"
  /\ ms \subseteq Active(memory)
  /\ event' = [event EXCEPT !["owner"] =
                 [life |-> "active", named |-> named, date |-> date, resolved |-> FALSE,
                  review |-> IF ms = {} THEN "needs_review" ELSE "approved"]]
  /\ link' = [link EXCEPT !["owner"] = [m \in Memory |-> IF m \in ms THEN "active" ELSE @[m]]]
  /\ Work /\ UNCHANGED <<memory, batch>>

Patch(e, named, date) ==
  /\ event[e].life # "none"
  /\ event' = [event EXCEPT ![e].named = named, ![e].date = date]
  /\ Work /\ UNCHANGED <<memory, link, batch>>

Archive(e) ==
  /\ event[e].life # "none"
  /\ event' = [event EXCEPT ![e].life = "deleted", ![e].review = "archived"]
  /\ Work /\ UNCHANGED <<memory, link, batch>>

\* review_timeline_event; its "archive" is Archive.
Approve(e) ==
  /\ event[e].life # "none"
  /\ event' = [event EXCEPT ![e].review = "approved"]
  /\ Work /\ UNCHANGED <<memory, link, batch>>

Resolve(e) ==
  /\ event[e].life # "none"
  /\ event' = [event EXCEPT ![e].review = "approved", ![e].resolved = TRUE]
  /\ Work /\ UNCHANGED <<memory, link, batch>>

-----------------------------------------------------------------------------
Init ==
  /\ memory = [m \in Memory |-> NoRow]
  /\ event = [e \in Event |-> NoEvent]
  /\ link = [e \in Event |-> [m \in Memory |-> "none"]]
  /\ batch = Free
  /\ work = 0

Contribution ==
  \/ StoreBegin \/ StoreCommit \/ StoreRollback
  \/ \E op \in {"new", "enrich", "correct", "delete"}, text \in Text, related \in SUBSET Memory :
       StoreCandidate(op, text, related)

Dashboard ==
  \/ \E m \in Memory, text \in Text : Edit(m, text)
  \/ \E m \in Memory : Delete(m)
  \/ \E text \in Text : Preserve(text)

Owner ==
  \/ \E named \in BOOLEAN, date \in Dates, ms \in SUBSET Memory : Create(named, date, ms)
  \/ \E e \in Event, named \in BOOLEAN, date \in Dates : Patch(e, named, date)
  \/ \E e \in Event : Archive(e) \/ Approve(e) \/ Resolve(e)

Next == Contribution \/ Dashboard \/ Owner

Spec == Init /\ [][Next]_vars

-----------------------------------------------------------------------------
\* Type invariant: rows, events, links and the open contribution have the
\* types their columns promise, and rows are used in the order of their ids.
TypeOK ==
  /\ memory \in [Memory -> [status : Status, text : Text \union {NoText}]]
  /\ event \in [Event -> [life : {"none", "active", "deleted"}, named : BOOLEAN, date : Dates,
                          review : {"none", "approved", "needs_review", "conflict", "archived"},
                          resolved : BOOLEAN]]
  /\ link \in [Event -> [Memory -> {"none", "active", "stale"}]]
  /\ work \in 0 .. MaxWork
  /\ batch.held => batch.left \in 0 .. MaxBatch /\ batch.rows \in [Memory -> [status : Status, text : Text \union {NoText}]]

\* No two active memories of a Legacy say the same, however contributions,
\* edits and preserved facts interleave: every writer looks for an equal text
\* after it took the lock of the Legacy (memory.py `store', `edit',
\* `preserve_reviewed_source').
NoTwins ==
  \A m, k \in Active(memory) : m # k => memory[m].text # memory[k].text

\* What the owner resolved stays resolved until another memory joins the
\* event: an edit or a deletion of a memory that supports it already does not
\* open the conflict again (timeline.py `_refresh_conflict').
ResolutionHolds ==
  [][\A e \in Event :
       event[e].resolved /\ event[e].review = "approved" /\ event'[e].review = "conflict"
         => \E m \in Memory : link[e][m] = "none" /\ link'[e][m] = "active"]_vars

\* An approved structured event states a date that an active memory which
\* supports it states.
DatesAreSupported ==
  event["structured"].review = "approved" /\ event["structured"].date # NoDate
    => event["structured"].date \in Stated(Timeline, memory, "structured")
=============================================================================
