----------------------------- MODULE TurnLedger -----------------------------
(***************************************************************************)
(* What the conversation_turns table promises, whoever writes it.  A turn  *)
(* is accepted into a conversation at most once, is active until it is     *)
(* settled, and is settled once.  An active live turn is alone in its      *)
(* conversation; text turns of one conversation may overlap.               *)
(*                                                                         *)
(* LiveSessions and TurnLifecycle are shown to implement this ledger.      *)
(***************************************************************************)
CONSTANTS
  Turn,          \* rows, one for each turn key
  LiveTurn,      \* those admitted from a live call
  Conversation,
  None

VARIABLES
  status,        \* status[t]: the state column, "active" for pending or streaming
  place          \* place[t]: the conversation that t was accepted into

ledger == <<status, place>>

Outcome == {"completed", "interrupted", "failed"}
Status  == {"none", "active"} \cup Outcome

LedgerTypeOK ==
  /\ status \in [Turn -> Status]
  /\ place \in [Turn -> Conversation \cup {None}]

Init ==
  /\ status = [t \in Turn |-> "none"]
  /\ place = [t \in Turn |-> None]

Active(c) == {t \in Turn : place[t] = c /\ status[t] = "active"}

\* accept_turn: a live turn wants the conversation for itself, a text turn only
\* respects a live one.
Accept(t, c) ==
  /\ status[t] = "none"
  /\ IF t \in LiveTurn THEN Active(c) = {} ELSE Active(c) \cap LiveTurn = {}
  /\ status' = [status EXCEPT ![t] = "active"]
  /\ place' = [place EXCEPT ![t] = c]

\* finish_turn, fail_turn, terminate, release_unanswered: active turns end.
Settle(T, outcome) ==
  /\ \A t \in T : status[t] = "active"
  /\ status' = [t \in Turn |-> IF t \in T THEN outcome ELSE status[t]]
  /\ UNCHANGED place

Next ==
  \/ \E t \in Turn, c \in Conversation : Accept(t, c)
  \/ \E T \in SUBSET Turn, outcome \in Outcome : Settle(T, outcome)

Spec == Init /\ [][Next]_ledger

\* An active live turn shares its conversation with no other active turn: the
\* guarantee the browser's "one answer at a time" rests on.
LiveAlone ==
  \A t, u \in Turn :
    t \in LiveTurn /\ status[t] = "active" /\ status[u] = "active" /\ place[t] = place[u] => t = u
=============================================================================
