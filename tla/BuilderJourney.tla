--------------------------- MODULE BuilderJourney ---------------------------
(***************************************************************************)
(* One day of one Legacy's builder journey: the activity row that keeps    *)
(* the streak (services/progression.record_builder_activity), the day's    *)
(* question, and the conversation a person starts from it.                 *)
(*                                                                         *)
(* A turn's effect records its contribution under the Legacy's lock and    *)
(* commits it with its receipt; an edit on the dashboard records its own   *)
(* with no lock, and tries once more when another row for the day came     *)
(* first.  Requests read, and commit later; which question is asked, the   *)
(* percentages and the length of the streak are computed from these rows.  *)
(***************************************************************************)
EXTENDS Naturals, Sequences, FiniteSets

CONSTANTS
  Person,      \* people who build this Legacy
  Req,         \* requests that may run at a time
  MaxWork      \* bound: contributions and questions of the day

VARIABLES
  count,       \* contribution_count of the day's row, 0 for no row
  firsts,      \* committed contributions that were told they came first
  question,    \* the day's questions, oldest first
  talk,        \* (person, question) pairs with a conversation
  lock,        \* requests that hold the Legacy's lock
  req          \* requests between their reads and their commits

vars == <<count, firsts, question, talk, lock, req>>

Idle == [at |-> "idle", locks |-> FALSE, saw |-> 0, first |-> FALSE, asked |-> 0, who |-> "nobody"]

TypeOK ==
  /\ count \in 0 .. MaxWork /\ firsts \in 0 .. MaxWork
  /\ question \in Seq({"pending", "answered", "skipped"}) /\ Len(question) <= MaxWork
  /\ talk \subseteq Person \X (1 .. MaxWork)
  /\ lock \subseteq Req /\ Cardinality(lock) <= 1
  /\ req \in [Req -> [at : {"idle", "record", "ask", "skip", "talk"}, locks : BOOLEAN, saw : 0 .. MaxWork,
                      first : BOOLEAN, asked : 0 .. MaxWork, who : Person \union {"nobody"}]]

Init ==
  /\ count = 0 /\ firsts = 0
  /\ question = <<>> /\ talk = {}
  /\ lock = {}
  /\ req = [q \in Req |-> Idle]

Newest == Len(question)
Open == {i \in DOMAIN question : question[i] = "pending"}
\* The newest question that still waits, 0 for none.
Waiting == IF Open = {} THEN 0 ELSE CHOOSE i \in Open : \A j \in Open : j <= i

Begins(q, row) == req[q] = Idle /\ req' = [req EXCEPT ![q] = row]
Ends(q) == req' = [req EXCEPT ![q] = Idle] /\ lock' = lock \ {q}

-----------------------------------------------------------------------------
(* Contributions.                                                          *)

\* Mutant of the next definition: the Legacy is read without FOR UPDATE.
LegacyFreeAlways == TRUE

LegacyFree == lock = {}

\* apply_effects, and the acceptance of a media candidate, lock the Legacy;
\* a memory edited or deleted on the dashboard does not.
Record(q, locks) ==
  /\ count < MaxWork
  /\ locks => LegacyFree
  /\ lock' = IF locks THEN lock \cup {q} ELSE lock
  /\ Begins(q, [Idle EXCEPT !.at = "record", !.locks = locks, !.saw = count, !.first = count = 0,
                            !.asked = Waiting])
  /\ UNCHANGED <<count, firsts, question, talk>>

\* IntegrityError: what the row and the question are by now.
Again(q) == [req[q] EXCEPT !.saw = count, !.asked = Waiting, !.first = FALSE]

\* The row is added, or counts one more than was read; the question that was
\* read as waiting is answered.  Where another row came first, the dashboard
\* reads again and a turn's effect is rolled back.
Save(q) ==
  /\ req[q].at = "record" /\ req[q].saw < MaxWork
  /\ IF req[q].saw = 0 /\ count > 0
       THEN /\ IF req[q].locks THEN Ends(q) ELSE req' = [req EXCEPT ![q] = Again(q)] /\ UNCHANGED lock
            /\ UNCHANGED <<count, firsts, question>>
       ELSE /\ count' = req[q].saw + 1
            /\ firsts' = IF req[q].first THEN firsts + 1 ELSE firsts
            /\ question' = IF req[q].asked = 0 THEN question ELSE [question EXCEPT ![req[q].asked] = "answered"]
            /\ Ends(q)
  /\ UNCHANGED talk

-----------------------------------------------------------------------------
(* The day's question.                                                     *)

\* daily_prompt makes one where none waits and none was answered.
Ask(q) ==
  /\ Newest < MaxWork
  /\ Newest \in DOMAIN question => question[Newest] = "skipped"
  /\ Begins(q, [Idle EXCEPT !.at = "ask"])
  /\ UNCHANGED <<count, firsts, question, talk, lock>>

Asked(q) ==
  /\ req[q].at = "ask" /\ Newest < MaxWork
  /\ question' = Append(question, "pending")
  /\ Ends(q)
  /\ UNCHANGED <<count, firsts, talk>>

\* skip_daily_prompt, of a question read as waiting, whatever it is by now.
Skip(q, i) ==
  /\ i \in Open
  /\ Begins(q, [Idle EXCEPT !.at = "skip", !.asked = i])
  /\ UNCHANGED <<count, firsts, question, talk, lock>>

Skipped(q) ==
  /\ req[q].at = "skip"
  /\ question' = [question EXCEPT ![req[q].asked] = "skipped"]
  /\ Ends(q)
  /\ UNCHANGED <<count, firsts, talk>>

\* start_from_daily_prompt: the question waits and this person has no
\* conversation from it; a second one is refused by a unique constraint.
Start(q, p, i) ==
  /\ i \in Open /\ <<p, i>> \notin talk
  /\ Begins(q, [Idle EXCEPT !.at = "talk", !.asked = i, !.who = p])
  /\ UNCHANGED <<count, firsts, question, talk, lock>>

Started(q) ==
  /\ req[q].at = "talk"
  /\ talk' = talk \union {<<req[q].who, req[q].asked>>}
  /\ Ends(q)
  /\ UNCHANGED <<count, firsts, question>>

Fail(q) == req[q] # Idle /\ Ends(q) /\ UNCHANGED <<count, firsts, question, talk>>

Next ==
  \E q \in Req :
    \/ \E locks \in BOOLEAN : Record(q, locks)
    \/ \E i \in 1 .. MaxWork : Skip(q, i) \/ \E p \in Person : Start(q, p, i)
    \/ Save(q) \/ Ask(q) \/ Asked(q) \/ Skipped(q) \/ Started(q) \/ Fail(q)

Spec == Init /\ [][Next]_vars

-----------------------------------------------------------------------------
\* The day's milestone is told once: of all contributions that commit, in
\* turns and on the dashboard, one at most hears that it was the first
\* (was_first_today, TurnCompletionResult.today_just_completed).
FirstOnce == firsts <= 1 /\ (count > 0 => firsts = 1)
=============================================================================
