----------------------------- MODULE StoryDrafts -----------------------------
(***************************************************************************)
(* One story of a Legacy: generations that hold the row lock of the story  *)
(* across the provider calls, owner edits, publication, and the session    *)
(* hook that marks the story stale when a fact it rests on changes.        *)
(*                                                                         *)
(* A request first loads the story without a lock and then selects it FOR  *)
(* UPDATE; the second select waits but does not refresh what the session   *)
(* has loaded, so a request acts on the row as it was before the wait and  *)
(* an assignment that equals the loaded value writes nothing.              *)
(***************************************************************************)
EXTENDS Naturals, Sequences

CONSTANTS Caller,      \* requests of the owner
          Key,         \* generation request keys
          Fact,        \* memories, events and evidence a chapter may rest on
          MaxVersion,  \* bound on the versions of the story
          MaxChange,   \* bound on the changes of one fact
          None

VARIABLES fact,      \* committed version of each fact
          changing,  \* a transaction that has flushed a change of a fact
          row,       \* the stories row
          version,   \* its story_versions with their support links, by number
          caller,    \* a request: what it asked, loaded and has prepared
          holder     \* who holds the row lock of the story

vars == <<fact, changing, row, version, caller, holder>>

Number == 0..MaxVersion
Rests == [Fact -> 0..MaxChange \cup {None}]
Bare == [f \in Fact |-> None]
Row == [current : Number, stale : BOOLEAN, shown : {"draft", "published", "archived"}, active : BOOLEAN]
NoRow == [current |-> 0, stale |-> FALSE, shown |-> "draft", active |-> TRUE]
Version == [key : Key \cup {None}, ready : {"ready", "superseded", "failed"}, from : Number, on : Rests]
Op == {"generate", "edit", "publish", "unpublish", "archive"}
Resting == [at |-> "idle", op |-> "generate", key |-> None, chapter |-> 0,
            row |-> NoRow, number |-> 0, on |-> Bare]

TypeOK ==
  /\ fact \in [Fact -> 0..MaxChange]
  /\ changing \in [fact : Fact \cup {None}, linked : BOOLEAN]
  /\ row \in Row
  /\ Len(version) <= MaxVersion /\ \A n \in 1..Len(version) : version[n] \in Version
  /\ caller \in [Caller -> [at : {"idle", "asked", "writing", "failing"}, op : Op, key : Key \cup {None},
                            chapter : Number, row : Row, number : Number, on : Rests]]
  /\ holder \in Caller \cup {None}

Init ==
  /\ fact = [f \in Fact |-> 0] /\ changing = [fact |-> None, linked |-> FALSE]
  /\ row = NoRow /\ version = <<>>
  /\ caller = [c \in Caller |-> Resting] /\ holder = None

Links(f) == \E n \in 1..Len(version) : version[n].on[f] # None

(***************************************************************************)
(* Requests.                                                               *)
(***************************************************************************)
\* The route loads an active story; an edit names a chapter of some version.
Ask(c, op, k, chapter) ==
  /\ caller[c].at = "idle" /\ row.active
  /\ op = "generate" <=> k # None
  /\ IF op = "edit" THEN chapter \in 1..Len(version) /\ version[chapter].ready # "failed" ELSE chapter = 0
  /\ caller' = [caller EXCEPT ![c] = [Resting EXCEPT !.at = "asked", !.op = op, !.key = k,
                                                     !.chapter = chapter, !.row = row]]
  /\ UNCHANGED <<fact, changing, row, version, holder>>

Locks(c, op) == caller[c].at = "asked" /\ caller[c].op = op /\ holder = None
Done(c) == caller' = [caller EXCEPT ![c] = Resting]
\* What the request loaded before it waited for the lock.
Loaded(c) == caller[c].row

Answered(k) == \E n \in 1..Len(version) : version[n].key = k

\* A repeated key is answered by the story as it is, or by its failure.
Replay(c) ==
  /\ Locks(c, "generate") /\ Answered(caller[c].key) /\ Done(c)
  /\ UNCHANGED <<fact, changing, row, version, holder>>

\* The facts are read and the number is taken; the provider chooses what it rests on.
Write(c) ==
  /\ Locks(c, "generate") /\ ~Answered(caller[c].key) /\ Len(version) < MaxVersion
  /\ holder' = c
  /\ \E chosen \in SUBSET Fact :
       caller' = [caller EXCEPT ![c].at = "writing", ![c].number = Len(version) + 1,
                                ![c].on = [f \in Fact |-> IF f \in chosen THEN fact[f] ELSE None]]
  /\ UNCHANGED <<fact, changing, row, version>>

\* Mutant of the next definition: the row is compared with itself.
NewestNow(c) == TRUE
\* The version that was current when the request was made still is.
Newest(c) == row.current = Loaded(c).current \/ row.current = 0

\* An assignment that equals the loaded value is no change for the session.
Fresh(c) == IF Loaded(c).stale THEN FALSE ELSE row.stale
Drafted(c, ready) == [key |-> caller[c].key, ready |-> ready, from |-> Loaded(c).current, on |-> caller[c].on]

Accept(c) ==
  /\ caller[c].at = "writing" /\ Newest(c)
  /\ version' = Append(version, Drafted(c, "ready"))
  /\ row' = [row EXCEPT !.current = caller[c].number, !.stale = Fresh(c)]
  /\ holder' = None /\ Done(c)
  /\ UNCHANGED <<fact, changing>>

Supersede(c) ==
  /\ caller[c].at = "writing" /\ ~Newest(c)
  /\ version' = Append(version, Drafted(c, "superseded"))
  /\ holder' = None /\ Done(c)
  /\ UNCHANGED <<fact, changing, row>>

\* Provider or audit fail: the rollback gives up the lock ...
Fail(c) ==
  /\ caller[c].at = "writing"
  /\ caller' = [caller EXCEPT ![c].at = "failing"] /\ holder' = None
  /\ UNCHANGED <<fact, changing, row, version>>

\* ... before the failure is recorded, unless its number or key is taken by then.
Record(c) ==
  /\ caller[c].at = "failing" /\ holder = None /\ Done(c)
  /\ version' = IF Len(version) >= caller[c].number \/ Answered(caller[c].key) THEN version
                ELSE Append(version, [key |-> caller[c].key, ready |-> "failed",
                                      from |-> Loaded(c).current, on |-> Bare])
  /\ UNCHANGED <<fact, changing, row, holder>>

\* The process dies: its transaction is rolled back.
Crash(c) ==
  /\ caller[c].at \in {"writing", "failing"} /\ Done(c)
  /\ holder' = IF holder = c THEN None ELSE holder
  /\ UNCHANGED <<fact, changing, row, version>>

\* A copy of the loaded current version with one chapter rewritten.
Edit(c) ==
  /\ Locks(c, "edit") /\ caller[c].chapter = Loaded(c).current /\ Len(version) < MaxVersion
  /\ version' = Append(version, [key |-> None, ready |-> "ready", from |-> Loaded(c).current,
                                 on |-> version[Loaded(c).current].on])
  /\ row' = [row EXCEPT !.current = Len(version) + 1, !.stale = Fresh(c)]
  /\ Done(c)
  /\ UNCHANGED <<fact, changing, holder>>

\* The chapter is not one of the loaded current version.
EditRefused(c) ==
  /\ Locks(c, "edit") /\ caller[c].chapter # Loaded(c).current /\ Done(c)
  /\ UNCHANGED <<fact, changing, row, version, holder>>

\* Publication and its end: refused for an archived story, or one without a loaded version.
Show(c, op, shown) ==
  /\ Locks(c, op) /\ Done(c)
  /\ row' = IF row.active /\ (op = "publish" => Loaded(c).current # 0) /\ shown # Loaded(c).shown
              THEN [row EXCEPT !.shown = shown] ELSE row
  /\ UNCHANGED <<fact, changing, version, holder>>

Archive(c) ==
  /\ Locks(c, "archive") /\ Done(c)
  /\ row' = IF row.active
              THEN [row EXCEPT !.active = FALSE,
                               !.shown = IF Loaded(c).shown = "archived" THEN @ ELSE "archived"] ELSE row
  /\ UNCHANGED <<fact, changing, version, holder>>

(***************************************************************************)
(* The hook of a transaction that changes a fact.                          *)
(***************************************************************************)
\* The committed support links are looked up when the change is flushed.
Flush(f) ==
  /\ changing.fact = None /\ fact[f] < MaxChange
  /\ changing' = [fact |-> f, linked |-> Links(f)]
  /\ UNCHANGED <<fact, row, version, caller, holder>>

Marks(f) == changing.linked

\* Marking the story waits for its lock; the change is seen with its mark.
CommitChange(f) ==
  /\ changing.fact = f
  /\ Marks(f) => holder = None
  /\ fact' = [fact EXCEPT ![f] = @ + 1]
  /\ row' = IF Marks(f) THEN [row EXCEPT !.stale = TRUE] ELSE row
  /\ changing' = [fact |-> None, linked |-> FALSE]
  /\ UNCHANGED <<version, caller, holder>>

(***************************************************************************)
(* The specification.                                                      *)
(***************************************************************************)
AskDraft(c) ==
  \/ \E op \in Op, k \in Key \cup {None}, chapter \in Number : Ask(c, op, k, chapter)
  \/ Replay(c) \/ Write(c) \/ Accept(c) \/ Supersede(c) \/ Fail(c) \/ Record(c) \/ Crash(c)
  \/ Edit(c) \/ EditRefused(c) \/ Archive(c)
  \/ Show(c, "publish", "published") \/ Show(c, "unpublish", "draft")

Next ==
  \/ \E c \in Caller : AskDraft(c)
  \/ \E f \in Fact : Flush(f) \/ CommitChange(f)

Spec == Init /\ [][Next]_vars

(***************************************************************************)
(* Properties.                                                             *)
(***************************************************************************)
\* "A newer owner edit/version must win even if this provider request was stale"
\* (generate): a generated version becomes current only in the place of the version
\* its request saw, whoever it waited behind.
NewestWins ==
  [][row'.current # row.current /\ version'[row'.current].key # None =>
       version'[row'.current].from = row.current]_vars

\* "A generation or edit cannot silently overwrite an owner edit or a newer version"
\* (docs/L18_PHASE_A_ARCHITECTURE.md:77): what becomes current was made from what was.
BuiltOnCurrent ==
  [][row'.current # row.current => version'[row'.current].from = row.current]_vars

\* "Story generation versus underlying memory correction results in stale/review-needed
\* handling" (docs/L18_PHASE_A_ARCHITECTURE.md:394): a story that is not marked rests on
\* the facts as they are.
StaleIsMarked ==
  row.current # 0 /\ ~row.stale =>
    \A f \in Fact : version[row.current].on[f] \in {None, fact[f]}
=============================================================================
