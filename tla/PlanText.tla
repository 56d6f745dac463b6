------------------------------ MODULE PlanText ------------------------------
(***************************************************************************)
(* The daily allowance of text turns of one user in one experience: the    *)
(* admission that reserves a turn (turn_lifecycle.admit, plan_enforcement),*)
(* the receipts that follow the turn (plan_usage.track_turn), and the pass *)
(* that repairs receipts which shadow accounting lost (reconcile).         *)
(*                                                                         *)
(* One action is one transaction; the advisory lock of an admission is     *)
(* held until its commit.  The repair pass reads its batch of turns before *)
(* it writes their receipts, so what it writes may be stale.               *)
(***************************************************************************)
EXTENDS Integers, FiniteSets

CONSTANTS
  Turn,        \* ids of conversation_turns, in order of their creation
  Limit,       \* LIMITS[plan][feature]
  BatchSize,   \* batch_size of reconcile
  MaxDay       \* bound: days of the model

ASSUME PlanTextAssumption ==
  /\ Turn \subseteq Nat \ {0} /\ IsFiniteSet(Turn)
  /\ Limit \in Nat /\ BatchSize \in Nat \ {0} /\ MaxDay \in Nat

VARIABLES
  day,        \* the current UTC day
  marker,     \* whether the cutover row "enforcement" exists
  enforcing,  \* the settings of the process: enabled()
  turn,       \* turn[t]: a row of conversation_turns
  receipt,    \* receipt[t]: the rows "turn:" and "quota:turn:" of plan_usage
  cursor,     \* cursor_turn_id of the row "shadow"
  seen        \* the batch that a running repair pass has read

vars == <<day, marker, enforcing, turn, receipt, cursor, seen>>

\* "failed" stands for failed and interrupted, which the receipts treat alike.
Open     == {"pending", "streaming"}
Terminal == {"completed", "failed"}
\* The states of a receipt; an open turn of either state is "pending" in it.
Receipt  == {"none", "pending"} \cup Terminal

\* since: accepted at or after the cutover.  reserved: admitted by check_text.
\* gone: the conversation was deleted, and the row with it.
NoTurn == [state |-> "none", day |-> 0, since |-> FALSE, reserved |-> FALSE, gone |-> FALSE]
TurnRow == [state: {"none"} \cup Open \cup Terminal, day: 0..MaxDay, since: BOOLEAN,
            reserved: BOOLEAN, gone: BOOLEAN]

Init ==
  /\ day = 0 /\ marker = FALSE /\ enforcing = FALSE
  /\ turn = [t \in Turn |-> NoTurn]
  /\ receipt = [t \in Turn |-> [shadow |-> "none", quota |-> "none"]]
  /\ cursor = 0 /\ seen = <<>>

-----------------------------------------------------------------------------
\* Receipts.

\* Mutant of the next definition: the upsert without its where clause.
PutAlways(old, new) == new

\* _put: a terminal receipt does not regress to pending.
Put(old, new) == IF old \in {"none", "pending", new} THEN new ELSE old

\* _turn: both receipts follow the state of the row; no quota receipt for a turn
\* accepted before the cutover.
StateOf(row) == IF row.state \in Terminal THEN row.state ELSE "pending"
Kept(old, row) ==
  [shadow |-> Put(old.shadow, StateOf(row)),
   quota  |-> IF marker /\ row.since THEN Put(old.quota, StateOf(row)) ELSE old.quota]

\* track_turn: part of the caller's transaction under enforcement; otherwise its
\* savepoint may fail and leave the receipts as they were.
Track(t, row) ==
  \/ receipt' = [receipt EXCEPT ![t] = Kept(@, row)]
  \/ ~enforcing /\ UNCHANGED receipt

\* totals: amount and reserved of the quota receipts of a day, deleted turns included.
Charged(d) == {t \in Turn : turn[t].day = d /\ receipt[t].quota \in {"pending", "completed"}}

\* check_text.
Room == Cardinality(Charged(day)) < Limit

-----------------------------------------------------------------------------
\* The turns.

Present(t) == turn[t].state # "none" /\ ~turn[t].gone
Fresh == {t \in Turn : turn[t].state = "none" /\ \A u \in Turn : u < t => turn[u].state # "none"}

\* admit under enforcement: the turn and its reservation commit together.
AdmitReserved(t) ==
  /\ t \in Fresh /\ enforcing /\ Room
  /\ LET row == [state |-> "pending", day |-> day, since |-> TRUE, reserved |-> TRUE, gone |-> FALSE]
     IN  /\ turn' = [turn EXCEPT ![t] = row]
         /\ receipt' = [receipt EXCEPT ![t] = Kept(@, row)]
  /\ UNCHANGED <<day, marker, enforcing, cursor, seen>>

\* admit in the shadow period: no check, and no receipt before the claim.
AdmitShadow(t) ==
  /\ t \in Fresh /\ ~enforcing
  /\ turn' = [turn EXCEPT ![t] = [state |-> "pending", day |-> day, since |-> marker,
                                  reserved |-> FALSE, gone |-> FALSE]]
  /\ UNCHANGED <<day, marker, enforcing, receipt, cursor, seen>>

Move(t, from, to) ==
  /\ Present(t) /\ turn[t].state = from
  /\ turn' = [turn EXCEPT ![t].state = to]
  /\ Track(t, [turn[t] EXCEPT !.state = to])
  /\ UNCHANGED <<day, marker, enforcing, cursor, seen>>

\* claim_turn.
Claim(t) == Move(t, "pending", "streaming")
\* finish_turn with the saved reply, and fail_turn of the guard.
Settle(t) == \E to \in Terminal : Move(t, "streaming", to)

\* delete_conversation: rows of the conversation go, receipts have no key to it.
Delete(t) ==
  /\ Present(t)
  /\ turn' = [turn EXCEPT ![t].gone = TRUE]
  /\ UNCHANGED <<day, marker, enforcing, receipt, cursor, seen>>

-----------------------------------------------------------------------------
\* The repair pass.

Eligible == {t \in Turn : Present(t) /\ t > cursor}
Batch == {t \in Eligible : Cardinality({u \in Eligible : u < t}) < BatchSize}

\* reconcile up to its select.
RepairRead ==
  /\ DOMAIN seen = {} /\ Batch # {}
  /\ seen' = [t \in Batch |-> turn[t]]
  /\ UNCHANGED <<day, marker, enforcing, turn, receipt, cursor>>

Last(S) == CHOOSE t \in S : \A u \in S : u <= t

\* The cursor after a pass: the last turn of a full batch, else the start again.
NextCursor == IF Cardinality(DOMAIN seen) = BatchSize THEN Last(DOMAIN seen) ELSE 0

\* reconcile from its loop to the commit.
RepairWrite ==
  /\ DOMAIN seen # {}
  /\ receipt' = [t \in Turn |-> IF t \in DOMAIN seen THEN Kept(receipt[t], seen[t]) ELSE receipt[t]]
  /\ cursor' = NextCursor
  /\ seen' = <<>>
  /\ UNCHANGED <<day, marker, enforcing, turn>>

\* A pass that finds nothing beyond the cursor starts over.
RepairWrap ==
  /\ DOMAIN seen = {} /\ Batch = {} /\ cursor # 0
  /\ cursor' = NextCursor
  /\ UNCHANGED <<day, marker, enforcing, turn, receipt, seen>>

\* The process dies during a pass: nothing of it is written.
RepairCrash ==
  /\ DOMAIN seen # {}
  /\ seen' = <<>>
  /\ UNCHANGED <<day, marker, enforcing, turn, receipt, cursor>>

-----------------------------------------------------------------------------
\* initialize-enforcement of the operator script; idempotent.
InitializeEnforcement ==
  /\ ~marker /\ marker' = TRUE
  /\ UNCHANGED <<day, enforcing, turn, receipt, cursor, seen>>

\* A deployment sets the flag; without the marker it would refuse every turn.
Enable ==
  /\ marker /\ ~enforcing /\ enforcing' = TRUE
  /\ UNCHANGED <<day, marker, turn, receipt, cursor, seen>>

\* The operational escape hatch.
Disable ==
  /\ enforcing /\ enforcing' = FALSE
  /\ UNCHANGED <<day, marker, turn, receipt, cursor, seen>>

NextDay ==
  /\ day < MaxDay /\ day' = day + 1
  /\ UNCHANGED <<marker, enforcing, turn, receipt, cursor, seen>>

TurnStep(t) == AdmitReserved(t) \/ AdmitShadow(t) \/ Claim(t) \/ Settle(t) \/ Delete(t)
Repair == RepairRead \/ RepairWrite \/ RepairWrap
Next ==
  \/ \E t \in Turn : TurnStep(t)
  \/ Repair \/ RepairCrash
  \/ InitializeEnforcement \/ Enable \/ Disable \/ NextDay

Spec == Init /\ [][Next]_vars

\* recover_usage runs a pass every 15 seconds and catches its errors; a process
\* that dies during passes is restarted and in the end completes one.
FairSpec == Spec /\ WF_vars(RepairRead) /\ SF_vars(RepairWrite) /\ WF_vars(RepairWrap)

-----------------------------------------------------------------------------
TypeOK ==
  /\ day \in 0..MaxDay /\ marker \in BOOLEAN /\ enforcing \in BOOLEAN
  /\ turn \in [Turn -> TurnRow]
  /\ receipt \in [Turn -> [shadow: Receipt, quota: Receipt]]
  /\ cursor \in Turn \cup {0}
  /\ DOMAIN seen \subseteq Turn

\* Text turns that were admitted under enforcement and are open or answered never
\* exceed the allowance of the day they were accepted on, whatever was deleted
\* since, whichever way the flag was switched, and however stale a repair was.
AllowanceHolds ==
  \A d \in 0..MaxDay :
    Cardinality({t \in Turn : turn[t].day = d /\ turn[t].reserved
                   /\ turn[t].state \in Open \cup {"completed"}}) <= Limit

\* A settled receipt keeps what it says, whatever a repair pass read before the
\* turn settled and writes after it: no charge is taken back or made twice.
NoRegress ==
  [][\A t \in Turn : receipt[t].quota \in Terminal => receipt'[t].quota = receipt[t].quota]_vars

\* Text turns admitted under enforcement stay within the allowance of their day, and a
\* settled receipt is never written again (plan_enforcement.py, plan_usage.py).
TextHolds == []AllowanceHolds /\ NoRegress

\* Every settled turn whose row is kept gets its settled receipts in the end, in
\* whatever pass its id comes up, although shadow accounting lost them.
ReceiptsSettle ==
  \A t \in Turn :
    (Present(t) /\ turn[t].state \in Terminal) ~>
      (turn[t].gone \/ (/\ receipt[t].shadow = turn[t].state
                        /\ (marker /\ turn[t].since) => receipt[t].quota = turn[t].state))
=============================================================================
