--------------------------- MODULE Records_proofs ---------------------------
(***************************************************************************)
(* The allowance of text turns, the setup of Legacies, the day of a        *)
(* builder, the telemetry of turns and the memories of a Legacy, as        *)
(* MCRecords composes them: for any turns, callers, persons, rows, texts   *)
(* and threads, any limits and any bounds.                                 *)
(*                                                                         *)
(* A part that does not move stutters, so AllSpec implies the              *)
(* specification of each part, and each has an inductive invariant of its  *)
(* own: Inv, SetupInv, JourneyInv, TellingInv and MemoryInv.               *)
(***************************************************************************)
EXTENDS MCRecords, FiniteSetTheorems, SequenceTheorems, WellFoundedInduction, TLAPS

-----------------------------------------------------------------------------
(* PlanText: the allowance of text turns, for any set of turns, any limit, *)
(* any batch of the repair pass and any number of days.                    *)
(*                                                                         *)
(* That the allowance holds is not inductive: admission counts receipts,   *)
(* and the allowance is about turns.  The invariant says what ties them.   *)
(* A turn that was reserved and is open or answered has a receipt that     *)
(* counts; a settled receipt says what its turn came to; and what a repair *)
(* pass has read is an earlier state of the turn, so a stale write can     *)
(* neither free the reservation of an open turn nor settle it.             *)

USE PlanTextAssumption

Quota == {"none", "pending"} \cup Terminal

\* The rows of one turn: the turn, its receipts, and what a repair pass read of it.
Consistent(t) ==
  /\ turn[t].state = "none" => t \notin DOMAIN seen /\ ~turn[t].reserved
                               /\ receipt[t].quota = "none"
  /\ turn[t].reserved /\ turn[t].state \in Open \cup {"completed"}
       => receipt[t].quota \in {"pending", "completed"}
  /\ receipt[t].quota \in Terminal => turn[t].state = receipt[t].quota

\* What a repair pass has read of a turn is an earlier state of it.
Earlier(t) ==
  /\ seen[t] \in TurnRow /\ seen[t].state # "none"
  /\ seen[t].state \in Terminal => turn[t].state = seen[t].state

Inv ==
  /\ TypeOK /\ (enforcing => marker)
  /\ \A t \in Turn : Consistent(t)
  /\ \A t \in DOMAIN seen : Earlier(t)
  /\ AllowanceHolds

\* The turns that the allowance of a day is spent on.
Held(d) == {t \in Turn : turn[t].day = d /\ turn[t].reserved
                          /\ turn[t].state \in Open \cup {"completed"}}

-----------------------------------------------------------------------------
\* Receipts.

\* The state of a row is a state of a receipt, and a receipt stays one.
LEMMA PutType ==
  ASSUME NEW old \in Receipt, NEW new \in Receipt
  PROVE  Put(old, new) \in Receipt /\ Put(old, new) \in {old, new}
BY DEF Put

\* A settled receipt is kept by whatever is put (_put of plan_usage.py).
LEMMA PutKeeps ==
  ASSUME NEW old \in Terminal, NEW new \in Receipt
  PROVE  Put(old, new) = old
BY DEF Put, Terminal, Receipt

\* The receipts of a turn after _turn.
LEMMA KeptType ==
  ASSUME NEW old \in [shadow: Receipt, quota: Receipt], NEW row \in TurnRow, row.state # "none"
  PROVE  /\ StateOf(row) \in Receipt
         /\ Kept(old, row) \in [shadow: Receipt, quota: Receipt]
         /\ Kept(old, row).quota \in {old.quota, Put(old.quota, StateOf(row))}
<1>1. StateOf(row) \in Receipt
  BY DEF StateOf, Receipt
<1>2. /\ Put(old.shadow, StateOf(row)) \in Receipt
      /\ Put(old.quota, StateOf(row)) \in Receipt
  BY <1>1, PutType
<1>3. QED
  BY <1>1, <1>2 DEF Kept

-----------------------------------------------------------------------------
\* A finite set of numbers, if not empty, has a largest one: Last is one of them.
LEMMA LastIsIn ==
  ASSUME NEW S, S \subseteq Nat, IsFiniteSet(S), S # {}
  PROVE  Last(S) \in S
<1> DEFINE Above(t) == {u \in S : u > t}
<1> DEFINE All == {Above(t) : t \in S}
<1>1. All \subseteq FiniteSubsetsOf(S)
  <2>1. SUFFICES ASSUME NEW t \in S PROVE IsFiniteSet(Above(t)) /\ Above(t) \in SUBSET S
    BY <2>1 DEF FiniteSubsetsOf
  <2>2. Above(t) \in SUBSET S
    OBVIOUS
  <2>3. QED
    BY <2>2, FS_Subset
<1>2. All # {}
  OBVIOUS
<1>3. PICK X \in All : \A Y \in All : <<Y, X>> \notin StrictSubsetOrdering(S)
  <2> HIDE DEF All
  <2>1. QED
    BY <1>1, <1>2, FS_StrictSubsetOrderingWellFounded, WFMin
<1>4. PICK t \in S : X = Above(t)
  BY <1>3
<1>5. ASSUME NEW u \in S, u > t PROVE FALSE
  <2>0. u \in Nat /\ t \in Nat /\ \A v \in S : v \in Nat
    OBVIOUS
  <2>1. Above(u) \subseteq Above(t) /\ u \in Above(t) /\ u \notin Above(u)
    <3>1. \A v \in S : v > u => v > t
      BY <1>5, <2>0
    <3>2. ~(u > u)
      BY <2>0
    <3>3. QED
      BY <1>5, <3>1, <3>2
  <2>2. Above(u) \in All /\ Above(u) \in SUBSET S /\ X \in SUBSET S
    BY <1>4
  <2>3. <<Above(u), X>> \in StrictSubsetOrdering(S)
    <3> HIDE DEF Above
    <3>1. QED
      BY <2>1, <2>2, <1>4 DEF StrictSubsetOrdering
  <2>4. QED
    BY <2>2, <2>3, <1>3
<1>6. \A u \in S : u <= t
  BY <1>5
<1>7. QED
  BY <1>6 DEF Last

\* The cursor of the repair pass is a turn or the start.
LEMMA NextCursorType ==
  ASSUME TypeOK
  PROVE  NextCursor \in Turn \cup {0}
<1>1. DOMAIN seen \subseteq Turn /\ IsFiniteSet(DOMAIN seen) /\ DOMAIN seen \subseteq Nat
  BY FS_Subset DEF TypeOK
<1>2. CASE Cardinality(DOMAIN seen) = BatchSize
  <2>1. DOMAIN seen # {}
    BY <1>2, FS_EmptySet
  <2>2. Last(DOMAIN seen) \in DOMAIN seen
    BY <1>1, <2>1, LastIsIn
  <2>3. QED
    BY <1>1, <1>2, <2>2 DEF NextCursor
<1>3. QED
  BY <1>2 DEF NextCursor

-----------------------------------------------------------------------------
\* Nothing is admitted at the start.
LEMMA InitInv == Init => Inv
<1> SUFFICES ASSUME Init PROVE Inv
  OBVIOUS
<1>1. DOMAIN seen = {}
  BY DEF Init
<1>2. NoTurn \in TurnRow
  BY DEF NoTurn, TurnRow
<1>3. TypeOK
  <2>1. receipt \in [Turn -> [shadow: Receipt, quota: Receipt]]
    BY DEF Init, Receipt
  <2>2. turn \in [Turn -> TurnRow]
    BY <1>2 DEF Init
  <2>3. day \in 0..MaxDay /\ cursor \in Turn \cup {0}
    BY DEF Init
  <2>4. marker \in BOOLEAN /\ enforcing \in BOOLEAN
    BY Zenon DEF Init
  <2>5. QED
    BY <1>1, <2>1, <2>2, <2>3, <2>4 DEF TypeOK
<1>4. \A t \in Turn : turn[t].state = "none" /\ ~turn[t].reserved /\ receipt[t].quota = "none"
  BY DEF Init, NoTurn
<1>5. \A t \in Turn : Consistent(t)
  BY <1>1, <1>4 DEF Consistent, Open, Terminal
<1>6. AllowanceHolds
  <2>1. \A d : Held(d) = {}
    BY <1>4 DEF Held
  <2>2. QED
    BY <2>1, FS_EmptySet DEF AllowanceHolds, Held
<1>7. QED
  BY <1>1, <1>3, <1>5, <1>6 DEF Inv, Init

\* The days that no turn joins keep within the allowance.
LEMMA AllowanceKept ==
  ASSUME AllowanceHolds, \A d \in 0..MaxDay : Held(d)' \subseteq Held(d)
  PROVE  AllowanceHolds'
<1> SUFFICES ASSUME NEW d \in 0..MaxDay PROVE Cardinality(Held(d)') <= Limit
  BY DEF AllowanceHolds, Held
<1>1. IsFiniteSet(Held(d)) /\ Held(d)' \subseteq Held(d)
  BY FS_Subset DEF Held
<1>2. Cardinality(Held(d)) <= Limit
  BY DEF AllowanceHolds, Held
<1>3. Cardinality(Held(d)') <= Cardinality(Held(d)) /\ IsFiniteSet(Held(d)')
  BY <1>1, FS_Subset
<1>4. Cardinality(Held(d)) \in Nat /\ Cardinality(Held(d)') \in Nat
  BY <1>1, <1>3, FS_CardinalityType
<1>5. QED
  BY <1>2, <1>3, <1>4

\* Room for one more turn: what a day holds is charged, so there is room for it.
LEMMA AllowanceJoined ==
  ASSUME Inv, Room, NEW t \in Turn,
         \A d \in 0..MaxDay : Held(d)' \subseteq (IF d = day THEN Held(d) \cup {t} ELSE Held(d))
  PROVE  AllowanceHolds'
<1> SUFFICES ASSUME NEW d \in 0..MaxDay PROVE Cardinality(Held(d)') <= Limit
  BY DEF AllowanceHolds, Held
<1>0. IsFiniteSet(Held(d)) /\ IsFiniteSet(Charged(d))
  BY FS_Subset DEF Held, Charged
<1>1. Held(d) \subseteq Charged(d)
  BY DEF Held, Charged, Inv, Consistent
<1>2. Cardinality(Held(d)) <= Cardinality(Charged(d))
  BY <1>0, <1>1, FS_Subset
<1>3. Cardinality(Held(d)) \in Nat /\ Cardinality(Charged(d)) \in Nat /\ Cardinality(Held(d)) <= Limit
  BY <1>0, FS_CardinalityType DEF Inv, AllowanceHolds, Held
<1>4. CASE d = day
  <2>1. Cardinality(Held(d)) + 1 <= Limit
    BY <1>2, <1>3, <1>4 DEF Room
  <2>2. /\ IsFiniteSet(Held(d) \cup {t})
        /\ Cardinality(Held(d) \cup {t}) <= Cardinality(Held(d)) + 1
        /\ Cardinality(Held(d) \cup {t}) \in Nat
    <3>1. /\ IsFiniteSet(Held(d) \cup {t})
          /\ Cardinality(Held(d) \cup {t})
               = IF t \in Held(d) THEN Cardinality(Held(d)) ELSE Cardinality(Held(d)) + 1
      BY <1>0, FS_AddElement
    <3>2. QED
      BY <1>3, <3>1
  <2>3. /\ IsFiniteSet(Held(d)')
        /\ Cardinality(Held(d)') <= Cardinality(Held(d) \cup {t})
    BY <1>4, <2>2, FS_Subset
  <2>4. Cardinality(Held(d)') \in Nat
    BY <2>3, FS_CardinalityType
  <2>5. QED
    BY <1>3, <2>1, <2>2, <2>3, <2>4
<1>5. CASE d # day
  <2>1. Held(d)' \subseteq Held(d)
    BY <1>5
  <2>2. IsFiniteSet(Held(d)') /\ Cardinality(Held(d)') <= Cardinality(Held(d))
    BY <1>0, <2>1, FS_Subset
  <2>3. Cardinality(Held(d)') \in Nat
    BY <2>2, FS_CardinalityType
  <2>4. QED
    BY <1>3, <2>2, <2>3
<1>6. QED
  BY <1>4, <1>5

-----------------------------------------------------------------------------
\* The steps of a turn.

\* A turn whose rows do not change stays consistent.
LEMMA Untouched ==
  ASSUME NEW u \in Turn, Consistent(u), (u \in DOMAIN seen => Earlier(u)),
         turn'[u] = turn[u], receipt'[u] = receipt[u], UNCHANGED seen
  PROVE  Consistent(u)' /\ (u \in DOMAIN seen' => Earlier(u)')
BY DEF Consistent, Earlier

\* The turn that an admission inserts: no repair pass has read it.
LEMMA AdmitReservedInv ==
  ASSUME Inv, NEW t \in Turn, AdmitReserved(t)
  PROVE  Inv'
<1> DEFINE row == [state |-> "pending", day |-> day, since |-> TRUE, reserved |-> TRUE, gone |-> FALSE]
<1>1. /\ turn[t].state = "none" /\ Room /\ marker /\ UNCHANGED <<day, marker, enforcing, cursor, seen>>
      /\ turn' = [turn EXCEPT ![t] = row]
      /\ receipt' = [receipt EXCEPT ![t] = Kept(@, row)]
  BY DEF Inv, AdmitReserved, Fresh
<1>2. TypeOK /\ Consistent(t) /\ t \notin DOMAIN seen /\ receipt[t].quota = "none"
  BY <1>1 DEF Inv, Consistent
<1>3. row \in TurnRow /\ row.state # "none" /\ row.since /\ row.reserved /\ row.day = day
      /\ StateOf(row) = "pending"
  BY <1>2 DEF TypeOK, TurnRow, Open, Terminal, StateOf
<1> HIDE DEF row
<1>4. receipt[t] \in [shadow: Receipt, quota: Receipt]
  BY <1>2 DEF TypeOK
<1>5. Kept(receipt[t], row) \in [shadow: Receipt, quota: Receipt]
  BY <1>3, <1>4, KeptType
<1>6. Kept(receipt[t], row).quota = "pending"
  BY <1>1, <1>2, <1>3 DEF Kept, Put
<1>7. turn'[t] = row /\ receipt'[t] = Kept(receipt[t], row)
  BY <1>1, <1>2 DEF TypeOK
<1>8. \A u \in Turn \ {t} : turn'[u] = turn[u] /\ receipt'[u] = receipt[u]
  BY <1>1, <1>2 DEF TypeOK
<1>9. TypeOK'
  BY <1>1, <1>2, <1>3, <1>5 DEF TypeOK
<1>10. Consistent(t)'
  BY <1>3, <1>6, <1>7, <1>1, <1>2 DEF Consistent, Terminal, row
<1>11. \A u \in Turn \ {t} : Consistent(u)' /\ (u \in DOMAIN seen' => Earlier(u)')
  BY <1>1, <1>8, Untouched DEF Inv
<1>12. \A u \in DOMAIN seen' : Earlier(u)'
  BY <1>1, <1>2, <1>9, <1>11 DEF TypeOK
<1>13. \A d \in 0..MaxDay : Held(d)' \subseteq (IF d = day THEN Held(d) \cup {t} ELSE Held(d))
  BY <1>3, <1>7, <1>8 DEF Held
<1>14. AllowanceHolds'
  BY <1>1, <1>13, AllowanceJoined
<1>15. QED
  BY <1>1, <1>9, <1>10, <1>11, <1>12, <1>14 DEF Inv

\* A turn of the shadow period reserves nothing.
LEMMA AdmitShadowInv ==
  ASSUME Inv, NEW t \in Turn, AdmitShadow(t)
  PROVE  Inv'
<1> DEFINE row == [state |-> "pending", day |-> day, since |-> marker, reserved |-> FALSE, gone |-> FALSE]
<1>1. /\ turn[t].state = "none" /\ UNCHANGED <<day, marker, enforcing, receipt, cursor, seen>>
      /\ turn' = [turn EXCEPT ![t] = row]
  BY DEF AdmitShadow, Fresh
<1>2. TypeOK /\ Consistent(t) /\ t \notin DOMAIN seen /\ receipt[t].quota = "none"
  BY <1>1 DEF Inv, Consistent
<1>3. row \in TurnRow /\ row.state # "none" /\ ~row.reserved
  BY <1>2 DEF TypeOK, TurnRow, Open
<1> HIDE DEF row
<1>4. turn'[t] = row /\ \A u \in Turn \ {t} : turn'[u] = turn[u]
  BY <1>1, <1>2 DEF TypeOK
<1>5. TypeOK'
  BY <1>1, <1>2, <1>3 DEF TypeOK
<1>6. Consistent(t)'
  BY <1>1, <1>2, <1>3, <1>4 DEF Consistent, Terminal
<1>7. \A u \in Turn \ {t} : Consistent(u)' /\ (u \in DOMAIN seen' => Earlier(u)')
  BY <1>1, <1>4, Untouched DEF Inv
<1>8. \A u \in DOMAIN seen' : Earlier(u)'
  BY <1>1, <1>2, <1>5, <1>7 DEF TypeOK
<1>9. \A d \in 0..MaxDay : Held(d)' \subseteq Held(d)
  BY <1>3, <1>4 DEF Held
<1>10. AllowanceHolds'
  BY <1>9, AllowanceKept DEF Inv
<1>11. QED
  BY <1>1, <1>5, <1>6, <1>7, <1>8, <1>10 DEF Inv

\* An open turn has no settled receipt, so the receipt that is put is the one kept.
LEMMA MoveInv ==
  ASSUME Inv, NEW t \in Turn, NEW from \in Open, NEW to \in (Open \cup Terminal) \ {"pending"},
         Move(t, from, to)
  PROVE  Inv'
<1> DEFINE row == [turn[t] EXCEPT !.state = to]
<1>1. /\ turn[t].state \in Open /\ UNCHANGED <<day, marker, enforcing, cursor, seen>>
      /\ turn' = [turn EXCEPT ![t].state = to]
      /\ receipt' = [receipt EXCEPT ![t] = Kept(@, row)] \/ UNCHANGED receipt
  BY DEF Move, Track
<1>2. TypeOK /\ Consistent(t) /\ turn[t] \in TurnRow /\ receipt[t] \in [shadow: Receipt, quota: Receipt]
  BY DEF Inv, TypeOK
<1>3. /\ row \in TurnRow /\ row.state = to /\ row.reserved = turn[t].reserved /\ row.day = turn[t].day
      /\ row.state # "none"
  BY <1>2 DEF TurnRow, Open, Terminal
<1>4. turn'[t] = row /\ \A u \in Turn \ {t} : turn'[u] = turn[u] /\ receipt'[u] = receipt[u]
  BY <1>1, <1>2 DEF TypeOK
<1>5. turn' \in [Turn -> TurnRow]
  BY <1>1, <1>2, <1>3 DEF TypeOK
<1> HIDE DEF row
<1>6. /\ Kept(receipt[t], row) \in [shadow: Receipt, quota: Receipt]
      /\ Kept(receipt[t], row).quota \in {receipt[t].quota, Put(receipt[t].quota, StateOf(row))}
  BY <1>2, <1>3, KeptType
<1>7. receipt[t].quota \in {"none", "pending"}
  BY <1>1, <1>2 DEF Consistent, Open, Terminal, Receipt
<1>8. /\ receipt' \in [Turn -> [shadow: Receipt, quota: Receipt]]
      /\ receipt'[t].quota \in {receipt[t].quota, StateOf(row)}
  <2>1. CASE UNCHANGED receipt
    BY <1>2, <2>1 DEF TypeOK
  <2>2. CASE receipt' = [receipt EXCEPT ![t] = Kept(@, row)]
    BY <1>2, <1>6, <1>7, <2>2 DEF TypeOK, Put
  <2>3. QED
    BY <1>1, <2>1, <2>2
<1>9. TypeOK'
  BY <1>1, <1>2, <1>5, <1>8 DEF TypeOK
<1>10. Consistent(t)'
  <2>1. receipt'[t].quota \in Terminal => receipt'[t].quota = to
    BY <1>3, <1>7, <1>8 DEF StateOf, Terminal
  <2>2. turn'[t].reserved /\ to \in Open \cup {"completed"} => receipt'[t].quota \in {"pending", "completed"}
    <3>1. turn[t].reserved => receipt[t].quota = "pending"
      BY <1>1, <1>2, <1>7 DEF Consistent
    <3>2. to \in Open \cup {"completed"} => StateOf(row) \in {"pending", "completed"}
      BY <1>3 DEF StateOf, Open, Terminal
    <3>3. QED
      BY <1>3, <1>4, <1>8, <3>1, <3>2
  <2>3. QED
    BY <1>3, <1>4, <2>1, <2>2 DEF Consistent
<1>11. \A u \in Turn \ {t} : Consistent(u)' /\ (u \in DOMAIN seen' => Earlier(u)')
  BY <1>1, <1>4, Untouched DEF Inv
<1>12. t \in DOMAIN seen' => Earlier(t)'
  BY <1>1, <1>3 DEF Inv, Earlier, Open, Terminal
<1>13. \A u \in DOMAIN seen' : Earlier(u)'
  BY <1>1, <1>9, <1>11, <1>12 DEF TypeOK
<1>14. \A d \in 0..MaxDay : Held(d)' \subseteq Held(d)
  BY <1>1, <1>3, <1>4 DEF Held
<1>15. AllowanceHolds'
  BY <1>14, AllowanceKept DEF Inv
<1>16. QED
  BY <1>1, <1>9, <1>10, <1>11, <1>13, <1>15 DEF Inv

\* A deleted row keeps what it was in the receipts.
LEMMA DeleteInv ==
  ASSUME Inv, NEW t \in Turn, Delete(t)
  PROVE  Inv'
<1>1. /\ UNCHANGED <<day, marker, enforcing, receipt, cursor, seen>>
      /\ turn' = [turn EXCEPT ![t].gone = TRUE]
  BY DEF Delete
<1>2. TypeOK /\ turn[t] \in TurnRow
  BY DEF Inv, TypeOK
<1>3. /\ turn' \in [Turn -> TurnRow]
      /\ \A u \in Turn : /\ turn'[u].state = turn[u].state /\ turn'[u].day = turn[u].day
                         /\ turn'[u].reserved = turn[u].reserved
  BY <1>1, <1>2 DEF TypeOK, TurnRow
<1>4. TypeOK'
  BY <1>1, <1>2, <1>3 DEF TypeOK
<1>5. \A u \in Turn : Consistent(u)'
  BY <1>1, <1>3 DEF Inv, Consistent
<1>6. \A u \in DOMAIN seen' : Earlier(u)'
  BY <1>1, <1>2, <1>3 DEF Inv, Earlier, TypeOK
<1>7. AllowanceHolds'
  <2>1. \A d \in 0..MaxDay : Held(d)' \subseteq Held(d)
    BY <1>3 DEF Held
  <2>2. QED
    BY <2>1, AllowanceKept DEF Inv
<1>8. QED
  BY <1>1, <1>4, <1>5, <1>6, <1>7 DEF Inv

-----------------------------------------------------------------------------
\* The repair pass.

\* What a pass reads is the turn as it is.
LEMMA RepairReadInv ==
  ASSUME Inv, RepairRead
  PROVE  Inv'
<1>1. /\ seen' = [t \in Batch |-> turn[t]] /\ UNCHANGED <<day, marker, enforcing, turn, receipt, cursor>>
      /\ \A t \in Batch : t \in Turn /\ turn[t].state # "none"
  BY DEF RepairRead, Batch, Eligible, Present
<1>2. DOMAIN seen' = Batch /\ \A t \in Batch : seen'[t] = turn[t]
  BY <1>1
<1>3. TypeOK'
  BY <1>1, <1>2 DEF Inv, TypeOK
<1>4. \A t \in Turn : Consistent(t)'
  BY <1>1, <1>2 DEF Inv, Consistent
<1>5. \A t \in DOMAIN seen' : Earlier(t)'
  BY <1>1, <1>2 DEF Inv, TypeOK, Earlier
<1>6. AllowanceHolds'
  BY <1>1 DEF Inv, AllowanceHolds
<1>7. QED
  BY <1>1, <1>3, <1>4, <1>5, <1>6 DEF Inv

\* What a pass writes of a turn: the receipt of an earlier state of it, unless a
\* settled receipt is already there.
LEMMA RepairedReceipt ==
  ASSUME Inv, NEW t \in DOMAIN seen
  PROVE  /\ Kept(receipt[t], seen[t]) \in [shadow: Receipt, quota: Receipt]
         /\ LET q == Kept(receipt[t], seen[t]).quota
            IN  /\ q \in Terminal => turn[t].state = q
                /\ receipt[t].quota \in {"pending", "completed"} /\ turn[t].state # "failed"
                     => q \in {"pending", "completed"}
<1>1. /\ t \in Turn /\ Consistent(t) /\ Earlier(t)
      /\ receipt[t] \in [shadow: Receipt, quota: Receipt]
  BY DEF Inv, TypeOK
<1>2. /\ StateOf(seen[t]) \in Receipt
      /\ Kept(receipt[t], seen[t]) \in [shadow: Receipt, quota: Receipt]
      /\ Kept(receipt[t], seen[t]).quota \in {receipt[t].quota, Put(receipt[t].quota, StateOf(seen[t]))}
  BY <1>1, KeptType DEF Earlier
<1>3. StateOf(seen[t]) = "pending" \/ (StateOf(seen[t]) \in Terminal /\ turn[t].state = StateOf(seen[t]))
  BY <1>1 DEF Earlier, StateOf
<1>4. Put(receipt[t].quota, StateOf(seen[t])) \in {receipt[t].quota, StateOf(seen[t])}
  BY <1>1, <1>2, PutType
<1>5. receipt[t].quota \in Terminal => turn[t].state = receipt[t].quota
  BY <1>1 DEF Consistent
<1>6. QED
  BY <1>2, <1>3, <1>4, <1>5 DEF Terminal

\* A stale write settles no open turn and frees no reservation.
LEMMA RepairWriteInv ==
  ASSUME Inv, RepairWrite
  PROVE  Inv'
<1>1. /\ receipt' = [t \in Turn |-> IF t \in DOMAIN seen THEN Kept(receipt[t], seen[t]) ELSE receipt[t]]
      /\ cursor' = NextCursor /\ seen' = <<>> /\ UNCHANGED <<day, marker, enforcing, turn>>
  BY DEF RepairWrite
<1>2. DOMAIN seen' = {}
  BY <1>1
<1>3. TypeOK /\ NextCursor \in Turn \cup {0}
  BY NextCursorType DEF Inv
<1>4. receipt' \in [Turn -> [shadow: Receipt, quota: Receipt]]
  <2>1. SUFFICES ASSUME NEW t \in Turn PROVE receipt'[t] \in [shadow: Receipt, quota: Receipt]
    BY <1>1
  <2>2. CASE t \in DOMAIN seen
    BY <1>1, <2>2, RepairedReceipt
  <2>3. CASE t \notin DOMAIN seen
    BY <1>1, <1>3, <2>3 DEF TypeOK
  <2>4. QED
    BY <2>2, <2>3
<1>5. TypeOK'
  BY <1>1, <1>2, <1>3, <1>4 DEF TypeOK
<1>6. ASSUME NEW t \in Turn PROVE Consistent(t)'
  <2>1. Consistent(t)
    BY DEF Inv
  <2>2. CASE t \in DOMAIN seen
    <3>1. receipt'[t] = Kept(receipt[t], seen[t])
      BY <1>1, <2>2
    <3>2. turn[t].state # "none"
      BY <2>1, <2>2 DEF Consistent
    <3>3. QED
      BY <1>1, <2>1, <2>2, <3>1, <3>2, RepairedReceipt DEF Consistent, Open
  <2>3. CASE t \notin DOMAIN seen
    <3>1. receipt'[t] = receipt[t]
      BY <1>1, <2>3
    <3>2. QED
      BY <1>1, <1>2, <2>1, <3>1 DEF Consistent
  <2>4. QED
    BY <2>2, <2>3
<1>7. AllowanceHolds'
  BY <1>1 DEF Inv, AllowanceHolds
<1>8. QED
  BY <1>1, <1>2, <1>5, <1>6, <1>7 DEF Inv

-----------------------------------------------------------------------------
\* The steps that touch neither a turn nor a receipt.
LEMMA OtherInv ==
  ASSUME Inv, UNCHANGED <<turn, receipt>>, TypeOK', (enforcing' => marker'),
         DOMAIN seen' = {} \/ UNCHANGED seen
  PROVE  Inv'
<1>1. \A t \in Turn : Consistent(t)'
  BY DEF Inv, Consistent
<1>2. \A t \in DOMAIN seen' : Earlier(t)'
  BY DEF Inv, Earlier
<1>3. AllowanceHolds'
  BY DEF Inv, AllowanceHolds
<1>4. QED
  BY <1>1, <1>2, <1>3 DEF Inv

\* Every step keeps the invariant.
LEMMA InvStep == Inv /\ [Next]_vars => Inv'
<1> SUFFICES ASSUME Inv, [Next]_vars PROVE Inv'
  OBVIOUS
<1>1. TypeOK /\ (enforcing => marker)
  BY DEF Inv
<1>2. ASSUME NEW t \in Turn, TurnStep(t) PROVE Inv'
  <2>1. CASE Claim(t)
    BY <2>1, MoveInv DEF Claim, Open, Terminal
  <2>2. ASSUME NEW to \in Terminal, Move(t, "streaming", to) PROVE Inv'
    BY <2>2, MoveInv DEF Open, Terminal
  <2>3. CASE Settle(t)
    BY <2>2, <2>3 DEF Settle
  <2>4. QED
    BY <1>2, <2>1, <2>3, AdmitReservedInv, AdmitShadowInv, DeleteInv DEF TurnStep
<1>3. CASE RepairWrap
  BY <1>1, <1>3, NextCursorType, OtherInv DEF RepairWrap, TypeOK
<1>4. CASE RepairCrash
  <2>1. DOMAIN seen' = {} /\ UNCHANGED <<day, marker, enforcing, turn, receipt, cursor>>
    BY <1>4 DEF RepairCrash
  <2>2. QED
    BY <1>1, <2>1, OtherInv DEF TypeOK
<1>5. CASE InitializeEnforcement
  BY <1>1, <1>5, OtherInv DEF InitializeEnforcement, TypeOK
<1>6. CASE Enable
  BY <1>1, <1>6, OtherInv DEF Enable, TypeOK
<1>7. CASE Disable
  BY <1>1, <1>7, OtherInv DEF Disable, TypeOK
<1>8. CASE NextDay
  <2>1. day + 1 \in 0..MaxDay
    BY <1>1, <1>8 DEF NextDay, TypeOK
  <2>2. QED
    BY <1>1, <1>8, <2>1, OtherInv DEF NextDay, TypeOK
<1>9. CASE UNCHANGED vars
  BY <1>1, <1>9, OtherInv DEF vars, TypeOK
<1>10. QED
  BY <1>2, <1>3, <1>4, <1>5, <1>6, <1>7, <1>8, <1>9, RepairReadInv, RepairWriteInv
  DEF Next, Repair

\* What an admission counts and what a repair pass writes agree with the turns, in every
\* reachable state (check_text, track_turn, reconcile).
THEOREM Invariant == Spec => []Inv
BY InitInv, InvStep, PTL DEF Spec

\* Rows, receipts and the cursor of the repair pass have their types.
THEOREM TypeCorrect == Spec => []TypeOK
<1>1. Inv => TypeOK
  BY DEF Inv
<1>2. QED
  BY <1>1, Invariant, PTL

-----------------------------------------------------------------------------
\* A settled receipt is kept by every step: a turn that moves has none, and what
\* the repair pass puts over one is what it already says.
LEMMA ReceiptsKept ==
  ASSUME Inv, [Next]_vars, NEW t \in Turn, receipt[t].quota \in Terminal
  PROVE  receipt'[t].quota = receipt[t].quota
<1>1. TypeOK /\ Consistent(t)
  BY DEF Inv
<1>2. /\ receipt \in [Turn -> [shadow: Receipt, quota: Receipt]] /\ receipt[t].quota \in Receipt
      /\ turn[t].state \in Terminal
  BY <1>1 DEF TypeOK, Consistent
<1>3. ASSUME NEW row, StateOf(row) \in Receipt
      PROVE  Kept(receipt[t], row).quota = receipt[t].quota
  BY <1>2, <1>3, PutKeeps DEF Kept
<1>4. ASSUME NEW u \in Turn, u # t, NEW row,
             receipt' = [receipt EXCEPT ![u] = Kept(@, row)] \/ UNCHANGED receipt
      PROVE  receipt'[t] = receipt[t]
  BY <1>2, <1>4
<1>5. ASSUME NEW u \in Turn, TurnStep(u) PROVE receipt'[t].quota = receipt[t].quota
  <2>1. ASSUME NEW from \in Open, NEW to, Move(u, from, to) PROVE receipt'[t] = receipt[t]
    <3>1. u # t
      BY <1>2, <2>1 DEF Move, Open, Terminal
    <3>2. QED
      BY <2>1, <3>1, <1>4 DEF Move, Track
  <2>2. CASE Claim(u) \/ Settle(u)
    BY <2>1, <2>2 DEF Claim, Settle, Open
  <2>3. CASE AdmitReserved(u)
    <3>1. u # t
      BY <1>2, <2>3 DEF AdmitReserved, Fresh, Terminal
    <3>2. QED
      BY <2>3, <3>1, <1>4 DEF AdmitReserved
  <2>4. CASE AdmitShadow(u) \/ Delete(u)
    BY <2>4 DEF AdmitShadow, Delete
  <2>5. QED
    BY <1>5, <2>2, <2>3, <2>4 DEF TurnStep
<1>6. CASE RepairWrite
  <2>1. receipt'[t] = IF t \in DOMAIN seen THEN Kept(receipt[t], seen[t]) ELSE receipt[t]
    BY <1>6 DEF RepairWrite
  <2>2. CASE t \in DOMAIN seen
    <3>1. StateOf(seen[t]) \in Receipt
      BY <2>2, KeptType, <1>2 DEF Inv, Earlier
    <3>2. QED
      BY <2>1, <2>2, <3>1, <1>3
  <2>3. QED
    BY <2>1, <2>2
<1>7. QED
  BY <1>5, <1>6 DEF Next, Repair, RepairRead, RepairWrap, RepairCrash, InitializeEnforcement,
                    Enable, Disable, NextDay, vars

\* The allowance of text turns holds on every day and a settled receipt is final
\* (plan_enforcement.py, plan_usage.py), for any number of turns and any limit,
\* through deletions, switches of the flag, lost receipts and stale repairs.
THEOREM AllowanceIsKept == Spec => TextHolds
<1>1. Inv => AllowanceHolds
  BY DEF Inv
<1>2. Inv /\ [Next]_vars
        => [\A t \in Turn : receipt[t].quota \in Terminal => receipt'[t].quota = receipt[t].quota]_vars
  BY ReceiptsKept
<1>3. QED
  BY <1>1, <1>2, Invariant, PTL DEF Spec, TextHolds, NoRegress

HIDE PlanTextAssumption

-----------------------------------------------------------------------------
(* LegacySetup.                                                            *)

Fields == {"target", "relation", "name"}

\* Whoever works on a new Legacy of an enforced plan is alone with the person's
\* row, and has found room for it.
AloneAdmitted ==
  enforced =>
    /\ \A p, q \in holder : p = q
    /\ \A q \in Caller : req[q].at = "admitted" => q \in holder /\ Cardinality(Setup!Made) < OwnedLimit

\* What a message has read of a Legacy is an earlier state of it, and what was
\* known then is known now.
HeardEarlier ==
  \A q \in Caller : req[q].at = "heard" =>
    /\ req[q].of \in Setup!Made /\ req[q].read.status # "free"
    /\ \A c \in Fields : req[q].read[c] # "unknown" => legacy[req[q].of][c] # "unknown"

SetupInv ==
  /\ Setup!TypeOK /\ AloneAdmitted /\ HeardEarlier
  /\ Setup!CapacityHolds /\ Setup!ActiveIsComplete

LEMMA SetupCardinality == ASSUME NEW S PROVE Setup!Cardinality(S) = Cardinality(S)
BY DEF Setup!Cardinality, Cardinality, Setup!IsFiniteSet, IsFiniteSet

LEMMA MadeFinite == IsFiniteSet(Setup!Made) /\ Cardinality(Setup!Made) \in Nat
<1>1. MaxLegacy \in Nat
  BY MCRecordsAssumption
<1>2. IsFiniteSet(Setup!Legacies)
  BY <1>1, FS_Interval DEF Setup!Legacies
<1>. QED
  BY <1>2, FS_Subset, FS_CardinalityType DEF Setup!Made

LEMMA SetupInit == Setup!Init => SetupInv
<1>. SUFFICES ASSUME Setup!Init PROVE SetupInv
  OBVIOUS
<1>n. Setup!Nobody \in Setup!Identity
  BY DEF Setup!Nobody, Setup!Identity
<1>1. Setup!TypeOK
  <2>1. legacy \in [Setup!Legacies -> Setup!Identity]
    BY <1>n DEF Setup!Init
  <2>2. active \in 0 .. MaxLegacy /\ 0 \in 0 .. MaxLegacy
    BY MCRecordsAssumption DEF Setup!Init
  <2>3. Setup!Idle \in [at : {"idle", "looked", "admitted", "heard"},
                        path : {"none", "setup", "bootstrap", "first"},
                        of : 0 .. MaxLegacy, read : Setup!Identity]
    BY <1>n, <2>2 DEF Setup!Idle
  <2>. QED
    BY <2>1, <2>2, <2>3 DEF Setup!Init, Setup!TypeOK
<1>2. Setup!Made = {}
  BY DEF Setup!Init, Setup!Made, Setup!Nobody
<1>3. Setup!CapacityHolds /\ AloneAdmitted
  <2>1. Cardinality(Setup!Made) = 0 /\ 0 <= OwnedLimit
    BY <1>2, FS_EmptySet, MCRecordsAssumption
  <2>2. \A q \in Caller : req[q].at = "idle"
    BY DEF Setup!Init, Setup!Idle
  <2>3. holder = {}
    BY DEF Setup!Init
  <2>4. Setup!CapacityHolds
    BY <2>1, SetupCardinality DEF Setup!CapacityHolds
  <2>. QED
    BY <2>2, <2>3, <2>4 DEF AloneAdmitted
<1>4. HeardEarlier /\ Setup!ActiveIsComplete
  BY DEF Setup!Init, HeardEarlier, Setup!ActiveIsComplete, Setup!Idle, Setup!Nobody
<1>. QED
  BY <1>1, <1>3, <1>4 DEF SetupInv

\* What a message makes of what was read: nothing that was known is lost, and a
\* Legacy becomes active only when everything is known (apply_setup_message).
LEMMA FilledIn ==
  ASSUME NEW i \in Setup!Identity, NEW m \in Setup!Messages
  PROVE  /\ Setup!Filled(i, m) \in Setup!Identity
         /\ \A c \in Fields : i[c] # "unknown" => Setup!Filled(i, m)[c] # "unknown"
         /\ Setup!Filled(i, m).status \in {i.status, "active"}
         /\ i.status # "collecting_identity" => Setup!Filled(i, m) = i
         /\ i.status = "collecting_identity" /\ Setup!Filled(i, m).status = "active" =>
              \A c \in Fields : Setup!Filled(i, m)[c] # "unknown"
<1>1. /\ m.target \in {"unknown", "self", "other"} /\ m.relation \in {"unknown", "self", "relative"}
      /\ m.name \in {"unknown", "known"}
  BY DEF Setup!Messages
<1>. QED
  BY <1>1 DEF Setup!Filled, Setup!Identity, Setup!Complete, Fields

Asked == [at : {"idle", "looked", "admitted", "heard"}, path : {"none", "setup", "bootstrap", "first"},
          of : 0 .. MaxLegacy, read : Setup!Identity]

\* A step that leaves the Legacies alone, and what the requests heard.
LEMMA SameLegacies ==
  ASSUME SetupInv, UNCHANGED <<enforced, legacy>>, Setup!TypeOK', AloneAdmitted',
         \A q \in Caller : req'[q].at = "heard" =>
           \/ req'[q] = req[q]
           \/ req'[q].of \in Setup!Made /\ req'[q].read = legacy[req'[q].of]
  PROVE  SetupInv'
<1>1. Setup!Made' = Setup!Made
  BY DEF Setup!Made, Setup!Legacies
<1>2. Setup!CapacityHolds' /\ Setup!ActiveIsComplete'
  BY <1>1 DEF SetupInv, Setup!CapacityHolds, Setup!ActiveIsComplete, Setup!Legacies
<1>3. HeardEarlier'
  <2>. SUFFICES ASSUME NEW q \in Caller, req'[q].at = "heard"
                PROVE  /\ req'[q].of \in Setup!Made /\ req'[q].read.status # "free"
                       /\ \A c \in Fields : req'[q].read[c] # "unknown" => legacy[req'[q].of][c] # "unknown"
    BY <1>1 DEF HeardEarlier
  <2>1. CASE req'[q] = req[q]
    BY <2>1 DEF SetupInv, HeardEarlier
  <2>2. CASE req'[q].of \in Setup!Made /\ req'[q].read = legacy[req'[q].of]
    BY <2>2 DEF Setup!Made
  <2>. QED
    BY <2>1, <2>2
<1>. QED
  BY <1>2, <1>3 DEF SetupInv

LEMMA SetupTyped ==
  ASSUME SetupInv
  PROVE  /\ req \in [Caller -> Asked] /\ holder \subseteq Caller /\ Setup!Idle \in Asked
         /\ Setup!Made \subseteq 1 .. MaxLegacy /\ legacy \in [1 .. MaxLegacy -> Setup!Identity]
         /\ Setup!Nobody \in Setup!Identity /\ 0 \in 0 .. MaxLegacy /\ 1 .. MaxLegacy \subseteq 0 .. MaxLegacy
<1>1. 0 \in 0 .. MaxLegacy /\ 1 .. MaxLegacy \subseteq 0 .. MaxLegacy
  BY MCRecordsAssumption
<1>2. Setup!Nobody \in Setup!Identity
  BY DEF Setup!Nobody, Setup!Identity
<1>3. Setup!Idle \in Asked
  BY <1>1, <1>2 DEF Setup!Idle, Asked
<1>. QED
  BY <1>1, <1>2, <1>3 DEF SetupInv, Setup!TypeOK, Asked, Setup!Made, Setup!Legacies

\* A request ends: nothing new is heard or admitted.
LEMMA EndsAlone ==
  ASSUME SetupInv, NEW q \in Caller, Setup!Ends(q), UNCHANGED enforced,
         Setup!Made' = Setup!Made \/ (enforced => holder \subseteq {q})
  PROVE  /\ req' \in [Caller -> Asked] /\ holder' \subseteq Caller /\ AloneAdmitted'
         /\ \A p \in Caller : req'[p].at \in {"admitted", "heard"} => p # q /\ req'[p] = req[p]
<1>1. req' = [req EXCEPT ![q] = Setup!Idle] /\ holder' = holder \ {q} /\ Setup!Idle.at = "idle"
  BY DEF Setup!Ends, Setup!Idle
<1>2. req' \in [Caller -> Asked] /\ holder' \subseteq Caller
  BY <1>1, SetupTyped
<1>3. \A p \in Caller : req'[p].at \in {"admitted", "heard"} => p # q /\ req'[p] = req[p]
  BY <1>1, SetupTyped
<1>4. AloneAdmitted'
  BY <1>1, <1>3 DEF AloneAdmitted, SetupInv
<1>. QED
  BY <1>2, <1>3, <1>4

LEMMA SetupNext == SetupInv /\ [Setup!Next]_setup => SetupInv'
<1>. SUFFICES ASSUME SetupInv, [Setup!Next]_setup PROVE SetupInv'
  OBVIOUS
<1>t. /\ req \in [Caller -> Asked] /\ holder \subseteq Caller /\ Setup!Idle \in Asked
      /\ Setup!Made \subseteq 1 .. MaxLegacy /\ legacy \in [1 .. MaxLegacy -> Setup!Identity]
      /\ Setup!Nobody \in Setup!Identity /\ 0 \in 0 .. MaxLegacy /\ 1 .. MaxLegacy \subseteq 0 .. MaxLegacy
  BY SetupTyped
<1>m. UNCHANGED legacy => Setup!Made' = Setup!Made
  BY DEF Setup!Made, Setup!Legacies
<1>1. ASSUME NEW q \in Caller, NEW path \in {"setup", "bootstrap", "first"}, Setup!Look(q, path)
      PROVE  SetupInv'
  <2>a. PICK pointer \in Setup!Made \cup {0} : \E l \in Setup!Finds(path, pointer) :
          req' = [req EXCEPT ![q] = [at |-> "looked", path |-> path, of |-> l, read |-> Setup!Nobody]]
    BY <1>1 DEF Setup!Look
  <2>1. PICK l \in Setup!Finds(path, pointer) :
          req' = [req EXCEPT ![q] = [at |-> "looked", path |-> path, of |-> l, read |-> Setup!Nobody]]
    BY <2>a
  <2>2. l \in 0 .. MaxLegacy
    <3>1. Setup!Collecting \subseteq Setup!Made /\ pointer \in 0 .. MaxLegacy
      BY <1>t DEF Setup!Collecting
    <3>. QED
      BY <3>1, <1>t DEF Setup!Finds
  <2>3. [at |-> "looked", path |-> path, of |-> l, read |-> Setup!Nobody] \in Asked
    BY <2>2, <1>t DEF Asked
  <2>4. req' \in [Caller -> Asked] /\ req'[q].at = "looked" /\ \A p \in Caller \ {q} : req'[p] = req[p]
    BY <2>1, <2>3, <1>t
  <2>5. /\ holder' \subseteq Caller /\ holder \subseteq holder' /\ UNCHANGED <<enforced, legacy, active>>
        /\ holder # {} => holder' = holder
        /\ holder' \subseteq holder \cup {q}
    <3>1. path = "bootstrap" => holder = {}
      BY <1>1 DEF Setup!Look
    <3>2. holder' = IF path = "bootstrap" THEN holder \cup {q} ELSE holder
      BY <1>1 DEF Setup!Look
    <3>3. UNCHANGED <<enforced, legacy, active>>
      BY <1>1 DEF Setup!Look
    <3>. QED
      BY <3>1, <3>2, <3>3, <1>t
  <2>6. AloneAdmitted'
    BY <2>4, <2>5, <1>m DEF AloneAdmitted, SetupInv
  <2>. QED
    BY <2>4, <2>5, <2>6, SameLegacies DEF SetupInv, Setup!TypeOK, Asked, Setup!Legacies
<1>2. ASSUME NEW q \in Caller, Setup!Select(q) PROVE SetupInv'
  <2>1. Setup!Ends(q) /\ UNCHANGED <<enforced, legacy>> /\ active' \in 0 .. MaxLegacy
    BY <1>2, <1>t DEF Setup!Select, Asked
  <2>. QED
    BY <2>1, <1>m, EndsAlone, SameLegacies DEF SetupInv, Setup!TypeOK, Asked, Setup!Legacies
<1>3. ASSUME NEW q \in Caller, Setup!Admit(q) PROVE SetupInv'
  <2>1. UNCHANGED <<enforced, legacy, active>> /\ req[q].at = "looked"
    BY <1>3 DEF Setup!Admit
  <2>2. CASE Setup!Ends(q)
    BY <2>1, <2>2, <1>m, EndsAlone, SameLegacies DEF SetupInv, Setup!TypeOK, Asked, Setup!Legacies
  <2>3. CASE req' = [req EXCEPT ![q].at = "admitted"]
    <3>1. req' \in [Caller -> Asked] /\ req'[q].at = "admitted" /\ \A p \in Caller \ {q} : req'[p] = req[p]
      BY <2>3, <1>t DEF Asked
    <3>2. holder' \subseteq Caller
      BY <1>3, <1>t DEF Setup!Admit, Setup!Ends
    <3>3. CASE ~ enforced
      BY <3>1, <3>2, <3>3, <2>1, SameLegacies DEF AloneAdmitted, SetupInv, Setup!TypeOK, Asked, Setup!Legacies
    <3>4. CASE enforced
      <4>1. CASE holder \subseteq {q} /\ Cardinality(Setup!Made) < OwnedLimit /\ holder' = holder \cup {q}
        <5>1. AloneAdmitted'
          BY <4>1, <3>1, <1>m, <2>1 DEF AloneAdmitted, SetupInv
        <5>. QED
          BY <3>1, <3>2, <5>1, <2>1, SameLegacies DEF SetupInv, Setup!TypeOK, Asked, Setup!Legacies
      <4>. QED
        BY <1>3, <3>4, <2>2, <4>1, SetupCardinality DEF Setup!Admit, Setup!Alone
    <3>. QED
      BY <3>3, <3>4
  <2>. QED
    BY <1>3, <2>2, <2>3 DEF Setup!Admit
<1>4. ASSUME NEW q \in Caller, Setup!Create(q) PROVE SetupInv'
  <2>1. PICK l \in (1 .. MaxLegacy) \ Setup!Made :
          /\ legacy' = [legacy EXCEPT ![l] = [Setup!Nobody EXCEPT !.status = "collecting_identity"]]
          /\ active' = l
    BY <1>4 DEF Setup!Create, Setup!Legacies
  <2>2. req[q].at = "admitted" /\ Setup!Ends(q) /\ UNCHANGED enforced
    BY <1>4 DEF Setup!Create
  <2>3. enforced => holder = {q} /\ Cardinality(Setup!Made) < OwnedLimit
    BY <2>2 DEF SetupInv, AloneAdmitted
  <2>4. [Setup!Nobody EXCEPT !.status = "collecting_identity"] \in Setup!Identity
    BY DEF Setup!Nobody, Setup!Identity
  <2>5. /\ legacy' \in [1 .. MaxLegacy -> Setup!Identity] /\ legacy'[l].status = "collecting_identity"
        /\ legacy[l].status = "free"
        /\ \A k \in 1 .. MaxLegacy : k # l => legacy'[k] = legacy[k]
    BY <2>1, <2>4, <1>t DEF Setup!Nobody, Setup!Made, Setup!Legacies
  <2>6. Setup!Made' = Setup!Made \cup {l}
    BY <2>5 DEF Setup!Made, Setup!Legacies
  <2>7. Setup!TypeOK'
    BY <2>1, <2>2, <2>3, <2>5, <1>t, EndsAlone DEF SetupInv, Setup!TypeOK, Asked, Setup!Legacies
  <2>8. Setup!CapacityHolds'
    <3>1. Cardinality(Setup!Made \cup {l}) = Cardinality(Setup!Made) + 1
      BY FS_AddElement, MadeFinite
    <3>. QED
      BY <3>1, <2>2, <2>3, <2>6, MadeFinite, SetupCardinality, MCRecordsAssumption DEF Setup!CapacityHolds
  <2>e. \A p \in Caller : req'[p].at \in {"admitted", "heard"} => p # q /\ req'[p] = req[p]
    BY <2>2, <2>3, EndsAlone
  <2>9. HeardEarlier'
    <3>. SUFFICES ASSUME NEW p \in Caller, req'[p].at = "heard"
                  PROVE  /\ req[p].of \in Setup!Made' /\ req[p].read.status # "free"
                         /\ \A c \in Fields : req[p].read[c] # "unknown" => legacy'[req[p].of][c] # "unknown"
      BY <2>e DEF HeardEarlier
    <3>1. req[p].at = "heard" /\ req[p].of \in Setup!Made
      BY <2>e DEF SetupInv, HeardEarlier
    <3>2. legacy'[req[p].of] = legacy[req[p].of]
      BY <3>1, <2>5, <1>t
    <3>. QED
      BY <3>1, <3>2, <2>6 DEF SetupInv, HeardEarlier
  <2>10. Setup!ActiveIsComplete'
    BY <2>5 DEF Setup!ActiveIsComplete, SetupInv, Setup!Legacies
  <2>. QED
    BY <2>2, <2>3, <2>7, <2>8, <2>9, <2>10, EndsAlone DEF SetupInv
<1>5. ASSUME NEW q \in Caller, NEW l \in Setup!Legacies, Setup!Hear(q, l) PROVE SetupInv'
  <2>1. /\ req' = [req EXCEPT ![q] = [at |-> "heard", path |-> "none", of |-> l, read |-> legacy[l]]]
        /\ l \in Setup!Made /\ UNCHANGED <<enforced, legacy, active, holder>>
    BY <1>5 DEF Setup!Hear
  <2>2. [at |-> "heard", path |-> "none", of |-> l, read |-> legacy[l]] \in Asked
    BY <2>1, <1>t DEF Asked
  <2>3. /\ req' \in [Caller -> Asked] /\ req'[q].at = "heard" /\ req'[q].of = l /\ req'[q].read = legacy[l]
        /\ \A p \in Caller \ {q} : req'[p] = req[p]
    BY <2>1, <2>2, <1>t
  <2>4. AloneAdmitted'
    BY <2>1, <2>3, <1>m DEF AloneAdmitted, SetupInv
  <2>. QED
    BY <2>1, <2>3, <2>4, SameLegacies DEF SetupInv, Setup!TypeOK, Asked, Setup!Legacies
<1>6. ASSUME NEW q \in Caller, Setup!Tell(q) PROVE SetupInv'
  <2>. DEFINE l == req[q].of
              read == req[q].read
  <2>1. /\ req[q].at = "heard" /\ l \in Setup!Made /\ l \in 1 .. MaxLegacy /\ read \in Setup!Identity
        /\ read.status # "free" /\ legacy[l].status # "free"
        /\ \A c \in Fields : read[c] # "unknown" => legacy[l][c] # "unknown"
    BY <1>6, <1>t DEF Setup!Tell, SetupInv, HeardEarlier, Asked, Setup!Made
  <2>2. PICK m \in Setup!Messages :
          legacy' = [legacy EXCEPT ![l] =
            [c \in DOMAIN read |-> IF Setup!Filled(read, m)[c] = read[c] THEN legacy[l][c]
                                   ELSE Setup!Filled(read, m)[c]]]
    BY <1>6 DEF Setup!Tell
  <2>. DEFINE new == Setup!Filled(read, m)
              now == [c \in DOMAIN read |-> IF new[c] = read[c] THEN legacy[l][c] ELSE new[c]]
  <2>3. /\ new \in Setup!Identity
        /\ \A c \in Fields : read[c] # "unknown" => new[c] # "unknown"
        /\ new.status \in {read.status, "active"}
        /\ read.status # "collecting_identity" => new = read
        /\ read.status = "collecting_identity" /\ new.status = "active" =>
             \A c \in Fields : new[c] # "unknown"
    BY <2>1, FilledIn
  <2>4. /\ now \in Setup!Identity
        /\ now.status = (IF new.status = read.status THEN legacy[l].status ELSE new.status)
        /\ \A c \in Fields : now[c] = IF new[c] = read[c] THEN legacy[l][c] ELSE new[c]
    <3>1. legacy[l] \in Setup!Identity
      BY <2>1, <1>t
    <3>. HIDE DEF new, read, l
    <3>2. DOMAIN read = {"status", "target", "relation", "name"}
      BY <2>1 DEF Setup!Identity
    <3>. QED
      BY <2>1, <2>3, <3>1, <3>2 DEF Setup!Identity, Fields
  <2>5. legacy' \in [1 .. MaxLegacy -> Setup!Identity] /\ legacy'[l] = now /\ now.status # "free"
        /\ \A k \in 1 .. MaxLegacy : k # l => legacy'[k] = legacy[k]
    <3>1. legacy' = [legacy EXCEPT ![l] = now]
      BY <2>2
    <3>. HIDE DEF new, read, l, now
    <3>. QED
      BY <3>1, <2>1, <2>3, <2>4, <1>t
  <2>6. Setup!Made' = Setup!Made
    <3>. HIDE DEF new, read, l, now
    <3>. QED
      BY <2>1, <2>5 DEF Setup!Made, Setup!Legacies
  <2>7. Setup!Ends(q) /\ UNCHANGED <<enforced, active>>
    BY <1>6 DEF Setup!Tell
  <2>8. \A c \in Fields : legacy[l][c] # "unknown" => legacy'[l][c] # "unknown"
    <3>. HIDE DEF new, read, l, now
    <3>. QED
      BY <2>1, <2>3, <2>4, <2>5
  <2>9. HeardEarlier'
    <3>. HIDE DEF new, read, l, now
    <3>1. \A k \in 1 .. MaxLegacy : \A c \in Fields : legacy[k][c] # "unknown" => legacy'[k][c] # "unknown"
      BY <2>5, <2>8
    <3>2. \A p \in Caller : req'[p].at \in {"admitted", "heard"} => p # q /\ req'[p] = req[p]
      BY <2>6, <2>7, EndsAlone
    <3>3. SUFFICES ASSUME NEW p \in Caller, req'[p].at = "heard"
                  PROVE  /\ req[p].of \in Setup!Made' /\ req[p].read.status # "free"
                         /\ \A c \in Fields : req[p].read[c] # "unknown" => legacy'[req[p].of][c] # "unknown"
      BY <3>2 DEF HeardEarlier
    <3>4. req[p].at = "heard" /\ req[p].of \in Setup!Made
      BY <3>2, <3>3 DEF SetupInv, HeardEarlier
    <3>. QED
      BY <3>1, <3>4, <2>6, <1>t DEF SetupInv, HeardEarlier
  <2>10. Setup!ActiveIsComplete'
    <3>. HIDE DEF new, read, l, now
    <3>1. SUFFICES ASSUME legacy'[l].status = "active" PROVE \A c \in Fields : legacy'[l][c] # "unknown"
      BY <2>5 DEF Setup!ActiveIsComplete, SetupInv, Setup!Legacies, Fields
    <3>2. CASE legacy[l].status = "active"
      BY <3>2, <2>1, <2>8 DEF Setup!ActiveIsComplete, SetupInv, Setup!Legacies, Fields
    <3>3. CASE legacy[l].status # "active"
      BY <3>1, <3>3, <2>1, <2>3, <2>4, <2>5
    <3>. QED
      BY <3>2, <3>3
  <2>11. Setup!CapacityHolds'
    BY <2>6, <2>7 DEF Setup!CapacityHolds, SetupInv
  <2>12. AloneAdmitted' /\ req' \in [Caller -> Asked] /\ holder' \subseteq Caller
    BY <2>6, <2>7, EndsAlone
  <2>13. Setup!TypeOK'
    BY <2>5, <2>7, <2>12 DEF SetupInv, Setup!TypeOK, Asked, Setup!Legacies
  <2>. QED
    BY <2>9, <2>10, <2>11, <2>12, <2>13 DEF SetupInv
<1>7. ASSUME NEW q \in Caller, Setup!Fail(q) PROVE SetupInv'
  <2>1. Setup!Ends(q) /\ UNCHANGED <<enforced, legacy, active>>
    BY <1>7 DEF Setup!Fail
  <2>. QED
    BY <2>1, <1>m, EndsAlone, SameLegacies DEF SetupInv, Setup!TypeOK, Asked, Setup!Legacies
<1>8. CASE Setup!Choose
  <2>1. active' \in 0 .. MaxLegacy /\ UNCHANGED <<enforced, legacy, holder, req>>
    BY <1>8, <1>t DEF Setup!Choose
  <2>2. AloneAdmitted'
    BY <2>1, <1>m DEF AloneAdmitted, SetupInv
  <2>. QED
    BY <2>1, <2>2, SameLegacies DEF SetupInv, Setup!TypeOK, Asked, Setup!Legacies
<1>9. CASE UNCHANGED setup
  <2>1. UNCHANGED <<enforced, legacy, active, holder, req>>
    BY <1>9 DEF setup
  <2>2. AloneAdmitted'
    BY <2>1, <1>m DEF AloneAdmitted, SetupInv
  <2>. QED
    BY <2>1, <2>2, SameLegacies DEF SetupInv, Setup!TypeOK, Asked, Setup!Legacies
<1>. QED
  BY <1>1, <1>2, <1>3, <1>4, <1>5, <1>6, <1>7, <1>8, <1>9 DEF Setup!Next, Setup!Paths

-----------------------------------------------------------------------------
(* BuilderJourney.                                                         *)

\* A contribution that saw no row will be told that it comes first, and only
\* such a one; a row that was seen is still there.
SawTheRow ==
  \A q \in Caller : visit[q].at = "record" =>
    /\ visit[q].first <=> visit[q].saw = 0
    /\ visit[q].saw > 0 => count > 0

Visits == [at : {"idle", "record", "ask", "skip", "talk"}, locks : BOOLEAN, saw : 0 .. DayWork,
           first : BOOLEAN, asked : 0 .. DayWork, who : Person \union {"nobody"}]

\* What was read as waiting is a question of the day.
ReadQuestion ==
  \A q \in Caller :
    /\ visit[q].asked <= Len(question)
    /\ visit[q].at \in {"skip", "talk"} => visit[q].asked > 0
    /\ visit[q].at = "talk" => visit[q].who \in Person

JourneyRows ==
  /\ count \in 0 .. DayWork /\ firsts \in 0 .. DayWork
  /\ question \in Seq({"pending", "answered", "skipped"}) /\ Len(question) <= DayWork
  /\ conversation \subseteq Person \X (1 .. DayWork)

JourneyInv ==
  /\ JourneyRows
  /\ lock \subseteq Caller /\ \A p, q \in lock : p = q
  /\ visit \in [Caller -> Visits]
  /\ ReadQuestion /\ SawTheRow
  /\ firsts = IF count = 0 THEN 0 ELSE 1

LEMMA JourneyCardinality == ASSUME NEW S PROVE Journey!Cardinality(S) = Cardinality(S)
BY DEF Journey!Cardinality, Cardinality, Journey!IsFiniteSet, IsFiniteSet

LEMMA JourneyTyped == JourneyInv => Journey!TypeOK
<1>. SUFFICES ASSUME JourneyInv PROVE Journey!TypeOK
  OBVIOUS
<1>1. Cardinality(lock) <= 1
  <2>1. lock = {} \/ \E q \in Caller : lock = {q}
    BY DEF JourneyInv
  <2>2. CASE lock = {}
    BY <2>2, FS_EmptySet
  <2>3. ASSUME NEW q \in Caller, lock = {q} PROVE Cardinality(lock) <= 1
    <3>1. Cardinality({q}) = 1
      BY FS_Singleton
    <3>. QED
      BY <2>3, <3>1
  <2>. QED
    BY <2>1, <2>2, <2>3
<1>. QED
  BY <1>1, JourneyCardinality DEF JourneyInv, JourneyRows, Journey!TypeOK, Visits

LEMMA IdleVisit == Journey!Idle \in Visits
BY MCRecordsAssumption DEF Journey!Idle, Visits

LEMMA JourneyInit == Journey!Init => JourneyInv
<1>. SUFFICES ASSUME Journey!Init PROVE JourneyInv
  OBVIOUS
<1>1. count = 0 /\ firsts = 0 /\ question = <<>> /\ conversation = {} /\ lock = {}
      /\ visit = [q \in Caller |-> Journey!Idle]
  BY DEF Journey!Init
<1>2. JourneyRows
  <2>1. DayWork \in Nat
    BY MCRecordsAssumption
  <2>. QED
    BY <1>1, <2>1 DEF JourneyRows
<1>3. visit \in [Caller -> Visits]
  BY <1>1, IdleVisit
<1>4. ReadQuestion /\ SawTheRow
  BY <1>1 DEF ReadQuestion, SawTheRow, Journey!Idle
<1>. QED
  BY <1>1, <1>2, <1>3, <1>4 DEF JourneyInv

\* A question that is read as waiting is one of the day.
LEMMA WaitingIsAsked ==
  ASSUME JourneyRows
  PROVE  /\ Journey!Waiting \in 0 .. Len(question)
         /\ Journey!Open \subseteq 1 .. Len(question)
<1>1. Len(question) \in Nat /\ DOMAIN question = 1 .. Len(question)
  BY DEF JourneyRows
<1>2. Journey!Open \subseteq 1 .. Len(question)
  BY <1>1 DEF Journey!Open
<1>3. CASE Journey!Open = {}
  BY <1>1, <1>2, <1>3 DEF Journey!Waiting
<1>4. CASE Journey!Open # {}
  <2>1. IsFiniteSet(Journey!Open) /\ Journey!Open \subseteq Nat
    <3>1. IsFiniteSet(1 .. Len(question))
      BY <1>1, FS_Interval
    <3>2. IsFiniteSet(Journey!Open)
      BY <1>2, <3>1, FS_Subset
    <3>. QED
      BY <1>1, <1>2, <3>2
  <2>2. Last(Journey!Open) \in Journey!Open
    BY <1>4, <2>1, LastIsIn
  <2>3. Journey!Waiting = Last(Journey!Open)
    BY <1>4 DEF Journey!Waiting, Last
  <2>4. Journey!Waiting \in 1 .. Len(question)
    BY <1>2, <2>2, <2>3
  <2>. QED
    BY <1>1, <1>2, <2>4
<1>. QED
  BY <1>2, <1>3, <1>4

\* A request begins, and reads what there is.
LEMMA VisitBegins ==
  ASSUME JourneyInv, NEW q \in Caller, NEW row \in Visits, Journey!Begins(q, row),
         UNCHANGED <<count, firsts, question, conversation>>,
         lock' \subseteq Caller, \A p, r \in lock' : p = r,
         row.asked <= Len(question),
         row.at \in {"skip", "talk"} => row.asked > 0,
         row.at = "talk" => row.who \in Person,
         row.at = "record" => (row.first <=> row.saw = 0) /\ row.saw = count
  PROVE  JourneyInv'
<1>1. visit' = [visit EXCEPT ![q] = row]
  BY DEF Journey!Begins
<1>2. visit' \in [Caller -> Visits] /\ visit'[q] = row /\ \A p \in Caller : p # q => visit'[p] = visit[p]
  BY <1>1 DEF JourneyInv
<1>3. ReadQuestion'
  BY <1>2 DEF JourneyInv, ReadQuestion
<1>4. SawTheRow'
  BY <1>2 DEF JourneyInv, SawTheRow
<1>. QED
  BY <1>2, <1>3, <1>4 DEF JourneyInv, JourneyRows

\* A request ends; the rows are as they were or counted once more.
LEMMA VisitEnds ==
  ASSUME JourneyInv, NEW q \in Caller, Journey!Ends(q), JourneyRows',
         Len(question)' >= Len(question), count > 0 => count' > 0,
         firsts' = IF count' = 0 THEN 0 ELSE 1
  PROVE  JourneyInv'
<1>1. visit' = [visit EXCEPT ![q] = Journey!Idle] /\ lock' = lock \ {q}
  BY DEF Journey!Ends
<1>2. /\ visit' \in [Caller -> Visits] /\ visit'[q] = Journey!Idle
      /\ \A p \in Caller : p # q => visit'[p] = visit[p]
  BY <1>1, IdleVisit DEF JourneyInv
<1>3. Len(question) \in Nat /\ Len(question)' \in Nat /\ \A p \in Caller : visit[p].asked \in Nat
  BY MCRecordsAssumption DEF JourneyInv, JourneyRows, Visits
<1>4. ReadQuestion'
  BY <1>2, <1>3 DEF JourneyInv, ReadQuestion, Journey!Idle
<1>5. SawTheRow'
  BY <1>2 DEF JourneyInv, SawTheRow, Journey!Idle
<1>. QED
  BY <1>1, <1>2, <1>4, <1>5 DEF JourneyInv

LEMMA JourneyNext == JourneyInv /\ [Journey!Next]_journey => JourneyInv'
<1>. SUFFICES ASSUME JourneyInv, [Journey!Next]_journey PROVE JourneyInv'
  OBVIOUS
<1>r. /\ JourneyRows /\ visit \in [Caller -> Visits] /\ lock \subseteq Caller /\ (\A p, r \in lock : p = r)
      /\ Len(question) \in Nat /\ count \in Nat /\ DayWork \in Nat /\ Journey!Idle \in Visits
      /\ firsts = IF count = 0 THEN 0 ELSE 1
      /\ Len(question) <= DayWork /\ count <= DayWork
  BY MCRecordsAssumption, IdleVisit DEF JourneyInv, JourneyRows
<1>1. ASSUME NEW q \in Caller, NEW locks \in BOOLEAN, Journey!Record(q, locks) PROVE JourneyInv'
  <2>. DEFINE row == [Journey!Idle EXCEPT !.at = "record", !.locks = locks, !.saw = count,
                                          !.first = count = 0, !.asked = Journey!Waiting]
  <2>1. /\ Journey!Begins(q, row) /\ UNCHANGED <<count, firsts, question, conversation>>
        /\ locks => lock = {}
        /\ lock' = IF locks THEN lock \cup {q} ELSE lock
    BY <1>1 DEF Journey!Record, Journey!LegacyFree
  <2>2. Journey!Waiting \in 0 .. DayWork /\ Journey!Waiting <= Len(question)
    BY <1>r, WaitingIsAsked
  <2>3. /\ row \in Visits /\ row.at = "record" /\ row.saw = count /\ (row.first <=> count = 0)
        /\ row.asked = Journey!Waiting
    <3>2. count \in 0 .. DayWork /\ (count = 0) \in BOOLEAN
      BY <1>r DEF JourneyRows
    <3>. QED
      BY <3>2, <2>2, <1>r DEF Visits, Journey!Idle
  <2>. HIDE DEF row
  <2>4. lock' \subseteq Caller /\ \A p, r \in lock' : p = r
    BY <2>1, <1>r
  <2>. QED
    BY <2>1, <2>2, <2>3, <2>4, VisitBegins
<1>2. ASSUME NEW q \in Caller, Journey!Save(q) PROVE JourneyInv'
  <2>1. /\ visit[q].at = "record" /\ visit[q].saw < DayWork /\ visit[q] \in Visits
        /\ UNCHANGED conversation
    BY <1>2, <1>r DEF Journey!Save
  <2>2. /\ visit[q].saw \in Nat /\ visit[q].asked \in Nat /\ visit[q].asked <= Len(question)
        /\ (visit[q].first <=> visit[q].saw = 0) /\ (visit[q].saw > 0 => count > 0)
    BY <2>1, <1>r DEF JourneyInv, ReadQuestion, SawTheRow, Visits
  <2>3. CASE visit[q].saw = 0 /\ count > 0 /\ visit[q].locks
    <3>1. Journey!Ends(q) /\ UNCHANGED <<count, firsts, question>>
      BY <1>2, <2>3 DEF Journey!Save
    <3>. QED
      BY <3>1, <2>1, <1>r, VisitEnds DEF JourneyRows
  <2>4. CASE visit[q].saw = 0 /\ count > 0 /\ ~ visit[q].locks
    <3>1. visit' = [visit EXCEPT ![q] = Journey!Again(q)] /\ UNCHANGED <<lock, count, firsts, question>>
      BY <1>2, <2>4 DEF Journey!Save
    <3>2. Journey!Waiting \in 0 .. DayWork /\ Journey!Waiting <= Len(question)
      BY <1>r, WaitingIsAsked
    <3>3. /\ Journey!Again(q) \in Visits /\ Journey!Again(q).at = "record" /\ Journey!Again(q).saw = count
          /\ Journey!Again(q).first = FALSE /\ Journey!Again(q).asked = Journey!Waiting
      <4>1. count \in 0 .. DayWork
        BY <1>r DEF JourneyRows
      <4>. QED
        BY <2>1, <3>2, <4>1 DEF Journey!Again, Visits
    <3>4. /\ visit' \in [Caller -> Visits] /\ visit'[q] = Journey!Again(q)
          /\ \A p \in Caller : p # q => visit'[p] = visit[p]
      BY <3>1, <3>3, <1>r
    <3>5. ReadQuestion'
      BY <3>1, <3>2, <3>3, <3>4 DEF JourneyInv, ReadQuestion
    <3>6. SawTheRow'
      BY <2>4, <3>1, <3>3, <3>4 DEF JourneyInv, SawTheRow
    <3>. QED
      BY <3>1, <3>4, <3>5, <3>6, <2>1 DEF JourneyInv, JourneyRows
  <2>5. CASE ~ (visit[q].saw = 0 /\ count > 0)
    <3>1. /\ count' = visit[q].saw + 1
          /\ firsts' = IF visit[q].first THEN firsts + 1 ELSE firsts
          /\ question' = IF visit[q].asked = 0 THEN question
                         ELSE [question EXCEPT ![visit[q].asked] = "answered"]
          /\ Journey!Ends(q)
      BY <1>2, <2>5 DEF Journey!Save
    <3>2. /\ question' \in Seq({"pending", "answered", "skipped"}) /\ Len(question') = Len(question)
      BY <3>1, <2>2, <1>r DEF JourneyRows
    <3>3. count' \in 0 .. DayWork /\ count' > 0 /\ firsts' = 1
      BY <2>1, <2>2, <2>5, <3>1, <1>r
    <3>4. JourneyRows'
      BY <2>1, <3>2, <3>3, <1>r DEF JourneyRows
    <3>. QED
      BY <3>1, <3>2, <3>3, <3>4, <1>r, VisitEnds
  <2>. QED
    BY <2>3, <2>4, <2>5
<1>3. ASSUME NEW q \in Caller, Journey!Ask(q) PROVE JourneyInv'
  <2>. DEFINE row == [Journey!Idle EXCEPT !.at = "ask"]
  <2>1. Journey!Begins(q, row) /\ UNCHANGED <<count, firsts, question, conversation, lock>>
    BY <1>3 DEF Journey!Ask
  <2>2. row \in Visits /\ row.at = "ask" /\ row.asked = 0
    BY <1>r DEF Visits, Journey!Idle
  <2>. HIDE DEF row
  <2>. QED
    BY <2>1, <2>2, <1>r, VisitBegins
<1>4. ASSUME NEW q \in Caller, Journey!Asked(q) PROVE JourneyInv'
  <2>1. /\ Len(question) < DayWork /\ question' = Append(question, "pending") /\ Journey!Ends(q)
        /\ UNCHANGED <<count, firsts, conversation>>
    BY <1>4 DEF Journey!Asked, Journey!Newest
  <2>2. question' \in Seq({"pending", "answered", "skipped"}) /\ Len(question') = Len(question) + 1
    BY <2>1 DEF JourneyInv, JourneyRows
  <2>3. JourneyRows'
    BY <2>1, <2>2, <1>r DEF JourneyRows
  <2>. QED
    BY <2>1, <2>2, <2>3, <1>r, VisitEnds
<1>5. ASSUME NEW q \in Caller, NEW i \in 1 .. DayWork, Journey!Skip(q, i) PROVE JourneyInv'
  <2>. DEFINE row == [Journey!Idle EXCEPT !.at = "skip", !.asked = i]
  <2>1. /\ Journey!Begins(q, row) /\ UNCHANGED <<count, firsts, question, conversation, lock>>
        /\ i \in Journey!Open
    BY <1>5 DEF Journey!Skip
  <2>2. row \in Visits /\ row.at = "skip" /\ row.asked = i
    <3>2. i \in 0 .. DayWork /\ 0 \in 0 .. DayWork
      BY <1>r
    <3>. QED
      BY <3>2 DEF Visits, Journey!Idle
  <2>. HIDE DEF row
  <2>3. i \in 1 .. Len(question)
    BY <2>1, <1>r, WaitingIsAsked
  <2>. QED
    BY <2>1, <2>2, <2>3, <1>r, VisitBegins
<1>6. ASSUME NEW q \in Caller, Journey!Skipped(q) PROVE JourneyInv'
  <2>1. /\ question' = [question EXCEPT ![visit[q].asked] = "skipped"] /\ Journey!Ends(q)
        /\ UNCHANGED <<count, firsts, conversation>> /\ visit[q].at = "skip"
    BY <1>6 DEF Journey!Skipped
  <2>2. visit[q].asked \in 1 .. Len(question)
    BY <2>1, <1>r DEF JourneyInv, ReadQuestion, Visits
  <2>3. question' \in Seq({"pending", "answered", "skipped"}) /\ Len(question') = Len(question)
    BY <2>1, <2>2, <1>r DEF JourneyRows
  <2>4. JourneyRows'
    BY <2>1, <2>3, <1>r DEF JourneyRows
  <2>. QED
    BY <2>1, <2>3, <2>4, <1>r, VisitEnds
<1>7. ASSUME NEW q \in Caller, NEW p \in Person, NEW i \in 1 .. DayWork, Journey!Start(q, p, i)
      PROVE  JourneyInv'
  <2>. DEFINE row == [Journey!Idle EXCEPT !.at = "talk", !.asked = i, !.who = p]
  <2>1. /\ Journey!Begins(q, row) /\ UNCHANGED <<count, firsts, question, conversation, lock>>
        /\ i \in Journey!Open
    BY <1>7 DEF Journey!Start
  <2>2. row \in Visits /\ row.at = "talk" /\ row.asked = i /\ row.who = p
    <3>2. i \in 0 .. DayWork /\ 0 \in 0 .. DayWork
      BY <1>r
    <3>. QED
      BY <3>2 DEF Visits, Journey!Idle
  <2>. HIDE DEF row
  <2>3. i \in 1 .. Len(question)
    BY <2>1, <1>r, WaitingIsAsked
  <2>. QED
    BY <2>1, <2>2, <2>3, <1>r, VisitBegins
<1>8. ASSUME NEW q \in Caller, Journey!Started(q) PROVE JourneyInv'
  <2>1. /\ conversation' = conversation \union {<<visit[q].who, visit[q].asked>>} /\ Journey!Ends(q)
        /\ UNCHANGED <<count, firsts, question>> /\ visit[q].at = "talk"
    BY <1>8 DEF Journey!Started
  <2>2. visit[q].asked \in 1 .. DayWork /\ visit[q].who \in Person
    BY <2>1, <1>r DEF JourneyInv, ReadQuestion, Visits
  <2>3. JourneyRows'
    BY <2>1, <2>2, <1>r DEF JourneyRows
  <2>. QED
    BY <2>1, <2>3, <1>r, VisitEnds
<1>9. ASSUME NEW q \in Caller, Journey!Fail(q) PROVE JourneyInv'
  <2>1. Journey!Ends(q) /\ UNCHANGED <<count, firsts, question, conversation>>
    BY <1>9 DEF Journey!Fail
  <2>. QED
    BY <2>1, <1>r, VisitEnds DEF JourneyRows
<1>10. CASE UNCHANGED journey
  BY <1>10 DEF journey, JourneyInv, JourneyRows, ReadQuestion, SawTheRow
<1>. QED
  BY <1>1, <1>2, <1>3, <1>4, <1>5, <1>6, <1>7, <1>8, <1>9, <1>10 DEF Journey!Next

-----------------------------------------------------------------------------
(* Telemetry.                                                              *)

\* Whoever looks again or starts the thread holds the lock, alone; the thread was
\* not started before it is recorded, and not twice.
SinkInv ==
  /\ \A h \in Telling!Producer : putting[h] \in {"recheck", "start"} <=> h \in sink.holder
  /\ \A g, h \in sink.holder : g = h
  /\ \A h \in Telling!Producer : ~ sink.made \/ putting[h] = "start" => sink.started = 0
  /\ \A h \in Telling!Producer : putting[h] = "start" => sink.made
  /\ sink.started <= 1

\* No call is open while a turn is between its parts or over.
ClosedBetween ==
  \A t \in Chat : observed[t].at \notin {"running", "streaming"} => ~ provider[t].open

TellingInv == Telling!TypeOK /\ SinkInv /\ ClosedBetween /\ Telling!ToldOnce

Turns == [at : {"new", "running", "returned", "streaming", "over", "dropped"},
          durable : BOOLEAN, failure : Telling!Failure, ending : BOOLEAN]
Calls == [open : BOOLEAN, number : 0 .. Called]
Sinks == [made : BOOLEAN, holder : SUBSET Telling!Producer, queued : 0 .. Capacity, started : Nat]
Puts == {"nothing", "look", "lock", "recheck", "start", "put"}

LEMMA TellingTyped ==
  Telling!TypeOK <=>
    /\ observed \in [Chat -> Turns] /\ provider \in [Chat -> Calls]
    /\ told \in [Chat -> Seq(Telling!Event)]
    /\ putting \in [Telling!Producer -> Puts] /\ sink \in Sinks
BY DEF Telling!TypeOK, Turns, Calls, Sinks, Puts

LEMMA TellingCardinality == ASSUME NEW S PROVE Telling!Cardinality(S) = Cardinality(S)
BY DEF Telling!Cardinality, Cardinality, Telling!IsFiniteSet, IsFiniteSet

LEMMA TellingInit == Telling!Init => TellingInv
<1>. SUFFICES ASSUME Telling!Init PROVE TellingInv
  OBVIOUS
<1>1. /\ observed = [t \in Chat |-> [at |-> "new", durable |-> FALSE, failure |-> "none", ending |-> FALSE]]
      /\ provider = [t \in Chat |-> [open |-> FALSE, number |-> 0]]
      /\ told = [t \in Chat |-> <<>>]
      /\ putting = [h \in Telling!Producer |-> "nothing"]
      /\ sink = [made |-> FALSE, holder |-> {}, queued |-> 0, started |-> 0]
  BY DEF Telling!Init
<1>n. Called \in Nat /\ Capacity \in Nat /\ 0 \in 0 .. Called /\ 0 \in 0 .. Capacity
  BY MCRecordsAssumption
<1>2. Telling!TypeOK
  <2>1. observed \in [Chat -> Turns]
    BY <1>1 DEF Turns, Telling!Failure
  <2>2. provider \in [Chat -> Calls]
    BY <1>1, <1>n DEF Calls
  <2>3. told \in [Chat -> Seq(Telling!Event)]
    BY <1>1
  <2>4. putting \in [Telling!Producer -> Puts] /\ sink \in Sinks
    BY <1>1, <1>n DEF Puts, Sinks
  <2>. QED
    BY <2>1, <2>2, <2>3, <2>4, TellingTyped
<1>3. SinkInv
  BY <1>1 DEF SinkInv
<1>4. ClosedBetween
  BY <1>1 DEF ClosedBetween
<1>5. Telling!ToldOnce
  <2>. SUFFICES ASSUME NEW t \in Chat
                PROVE  /\ Cardinality(Telling!Told(t, "usage")) = 0
                       /\ Cardinality(Telling!Told(t, "turn")) = 0
    BY <1>1, TellingCardinality DEF Telling!ToldOnce
  <2>1. \A kind : Telling!Told(t, kind) = {}
    BY <1>1 DEF Telling!Told
  <2>. QED
    BY <2>1, FS_EmptySet
<1>. QED
  BY <1>2, <1>3, <1>4, <1>5 DEF TellingInv

\* What one event more adds to the events of a kind.
LEMMA OneMore ==
  ASSUME NEW t \in Chat, NEW event_ \in Telling!Event, NEW kind,
         told \in [Chat -> Seq(Telling!Event)], told' = [told EXCEPT ![t] = Append(told[t], event_)]
  PROVE  /\ told' \in [Chat -> Seq(Telling!Event)]
         /\ Cardinality(Telling!Told(t, kind)) \in Nat
         /\ Cardinality(Telling!Told(t, kind)') =
              Cardinality(Telling!Told(t, kind)) + (IF event_.kind = kind THEN 1 ELSE 0)
         /\ Telling!Last(told'[t]) = event_
         /\ \A u \in Chat : u # t => told'[u] = told[u]
<1>. DEFINE s == told[t]
            n == Len(s)
            r == Append(s, event_)
<1>1. s \in Seq(Telling!Event) /\ n \in Nat /\ DOMAIN s = 1 .. n
  OBVIOUS
<1>2. /\ r \in Seq(Telling!Event) /\ DOMAIN r = 1 .. n + 1 /\ Len(r) = n + 1
      /\ r[n + 1] = event_ /\ \A i \in 1 .. n : r[i] = s[i]
  BY <1>1, AppendProperties
<1>3. told' \in [Chat -> Seq(Telling!Event)] /\ told'[t] = r /\ \A u \in Chat : u # t => told'[u] = told[u]
  BY <1>2
<1>. HIDE DEF r, n
<1>4. Telling!Told(t, kind) = {i \in 1 .. n : s[i].kind = kind}
  BY <1>1 DEF Telling!Told
<1>5. Telling!Told(t, kind)' = {i \in 1 .. n + 1 : r[i].kind = kind}
  BY <1>2, <1>3 DEF Telling!Told
<1>6. IsFiniteSet(Telling!Told(t, kind)) /\ Cardinality(Telling!Told(t, kind)) \in Nat
  <2>1. IsFiniteSet(1 .. n)
    BY <1>1, FS_Interval
  <2>2. IsFiniteSet(Telling!Told(t, kind))
    BY <2>1, <1>4, FS_Subset
  <2>. QED
    BY <2>2, FS_CardinalityType
<1>7. CASE event_.kind = kind
  <2>1. Telling!Told(t, kind)' = Telling!Told(t, kind) \cup {n + 1} /\ n + 1 \notin Telling!Told(t, kind)
    BY <1>1, <1>2, <1>4, <1>5, <1>7
  <2>2. Cardinality(Telling!Told(t, kind) \cup {n + 1}) = Cardinality(Telling!Told(t, kind)) + 1
    BY <2>1, <1>6, FS_AddElement
  <2>. QED
    BY <2>1, <2>2, <1>2, <1>3, <1>6, <1>7 DEF Telling!Last
<1>8. CASE event_.kind # kind
  <2>1. Telling!Told(t, kind)' = Telling!Told(t, kind)
    BY <1>1, <1>2, <1>4, <1>5, <1>8
  <2>. QED
    BY <2>1, <1>2, <1>3, <1>6, <1>8 DEF Telling!Last
<1>. QED
  BY <1>7, <1>8

\* The turn t tells one event more, of one kind.
OnceFor(t) ==
  /\ Cardinality(Telling!Told(t, "usage")) = provider[t].number - (IF provider[t].open THEN 1 ELSE 0)
  /\ Cardinality(Telling!Told(t, "turn")) = (IF observed[t].at = "over" THEN 1 ELSE 0)
  /\ observed[t].at = "over" =>
       /\ Telling!Last(told[t]).kind = "turn" /\ ~ provider[t].open
       /\ Telling!Last(told[t]).outcome = "completed" <=> observed[t].durable

LEMMA OnceForEach == Telling!ToldOnce <=> \A t \in Chat : OnceFor(t)
BY TellingCardinality DEF Telling!ToldOnce, OnceFor

\* A step of the turn t, or of none, that emits nothing.
LEMMA NothingTold ==
  ASSUME Telling!ToldOnce, NEW t \in Chat, UNCHANGED told,
         \A u \in Chat : u # t => observed'[u] = observed[u] /\ provider'[u] = provider[u],
         provider[t].number - (IF provider[t].open THEN 1 ELSE 0)
           = provider'[t].number - (IF provider'[t].open THEN 1 ELSE 0),
         observed[t].at # "over" /\ observed'[t].at # "over"
  PROVE  Telling!ToldOnce'
<1>1. \A u \in Chat : OnceFor(u)
  BY OnceForEach
<1>2. \A kind : \A u \in Chat : Telling!Told(u, kind)' = Telling!Told(u, kind)
  BY DEF Telling!Told
<1>3. \A u \in Chat : OnceFor(u)'
  BY <1>1, <1>2 DEF OnceFor
<1>. QED
  BY <1>3, TellingCardinality DEF Telling!ToldOnce, OnceFor

\* The loop puts the event of a turn while it has no other under way.
LEMMA TellSink ==
  ASSUME TellingInv, NEW t \in Chat, NEW event_ \in Telling!Event, Telling!Tell(t, event_),
         Telling!Free(Loop), UNCHANGED sink
  PROVE  SinkInv' /\ putting' \in [Telling!Producer -> Puts] /\ told' = [told EXCEPT ![t] = Append(told[t], event_)]
<1>1. putting' = [putting EXCEPT ![Loop] = "look"] /\ putting[Loop] = "nothing" /\ Loop \in Telling!Producer
  BY DEF Telling!Tell, Telling!Free, Telling!Producer
<1>2. putting \in [Telling!Producer -> Puts]
  BY TellingTyped DEF TellingInv
<1>3. told' = [told EXCEPT ![t] = Append(told[t], event_)]
  BY DEF Telling!Tell
<1>. QED
  BY <1>1, <1>2, <1>3 DEF TellingInv, SinkInv, Puts

\* A step of the turns that emits nothing and leaves the sink alone.
LEMMA SilentStep ==
  ASSUME TellingInv, NEW t \in Chat, UNCHANGED <<told, putting, sink>>,
         NEW row \in Turns, NEW made \in Calls,
         observed' = [observed EXCEPT ![t] = row], provider' = [provider EXCEPT ![t] = made],
         row.at \notin {"running", "streaming"} => ~ made.open,
         provider[t].number - (IF provider[t].open THEN 1 ELSE 0) = made.number - (IF made.open THEN 1 ELSE 0),
         observed[t].at # "over", row.at # "over"
  PROVE  TellingInv'
<1>1. observed \in [Chat -> Turns] /\ provider \in [Chat -> Calls]
  BY TellingTyped DEF TellingInv
<1>2. /\ observed' \in [Chat -> Turns] /\ provider' \in [Chat -> Calls]
      /\ observed'[t] = row /\ provider'[t] = made
      /\ \A u \in Chat : u # t => observed'[u] = observed[u] /\ provider'[u] = provider[u]
  BY <1>1
<1>3. Telling!TypeOK'
  BY <1>2, TellingTyped DEF TellingInv, Telling!TypeOK, Turns, Calls
<1>4. SinkInv'
  BY DEF TellingInv, SinkInv
<1>5. ClosedBetween'
  BY <1>2 DEF TellingInv, ClosedBetween
<1>6. Telling!ToldOnce'
  BY <1>2, NothingTold DEF TellingInv
<1>. QED
  BY <1>3, <1>4, <1>5, <1>6 DEF TellingInv

\* The end of a turn: its summary.
LEMMA SummaryStep ==
  ASSUME TellingInv, NEW t \in Chat, Telling!Summarize(t), Telling!Free(Loop), ~ provider[t].open,
         observed[t].at # "over"
  PROVE  TellingInv'
<1>. DEFINE row == [observed[t] EXCEPT !.at = "over"]
            e == Telling!Summary(Telling!Outcome(t))
<1>1. /\ observed \in [Chat -> Turns] /\ provider \in [Chat -> Calls]
      /\ told \in [Chat -> Seq(Telling!Event)]
  BY TellingTyped DEF TellingInv
<1>2. observed' = [observed EXCEPT ![t] = row] /\ Telling!Tell(t, e) /\ UNCHANGED <<provider, sink>>
  BY DEF Telling!Summarize
<1>3. row \in Turns /\ row.at = "over" /\ row.durable = observed[t].durable
  BY <1>1 DEF Turns
<1>4. e \in Telling!Event /\ e.kind = "turn" /\ (e.outcome = "completed" <=> observed[t].durable)
  BY DEF Telling!Summary, Telling!Outcome, Telling!Event
<1>. HIDE DEF row, e
<1>5. /\ observed' \in [Chat -> Turns] /\ observed'[t] = row
      /\ \A u \in Chat : u # t => observed'[u] = observed[u]
  BY <1>1, <1>2, <1>3
<1>6. SinkInv' /\ putting' \in [Telling!Producer -> Puts] /\ told' = [told EXCEPT ![t] = Append(told[t], e)]
  BY <1>2, <1>4, TellSink
<1>7. \A kind :
         /\ told' \in [Chat -> Seq(Telling!Event)]
         /\ Cardinality(Telling!Told(t, kind)) \in Nat
         /\ Cardinality(Telling!Told(t, kind)') =
              Cardinality(Telling!Told(t, kind)) + (IF e.kind = kind THEN 1 ELSE 0)
         /\ Telling!Last(told'[t]) = e
         /\ \A u \in Chat : u # t => told'[u] = told[u]
  BY <1>1, <1>4, <1>6, OneMore
<1>8. Telling!TypeOK'
  <2>1. provider' \in [Chat -> Calls] /\ sink' \in Sinks
    BY <1>2, TellingTyped DEF TellingInv
  <2>. QED
    BY <1>5, <1>6, <1>7, <2>1 DEF Telling!TypeOK, Turns, Calls, Sinks, Puts
<1>9. ClosedBetween'
  BY <1>2, <1>3, <1>5 DEF TellingInv, ClosedBetween
<1>10. ASSUME NEW u \in Chat PROVE OnceFor(u)'
  <2>1. OnceFor(u) /\ OnceFor(t)
    BY OnceForEach DEF TellingInv
  <2>2. CASE u = t
    BY <2>1, <2>2, <1>2, <1>3, <1>4, <1>5, <1>7 DEF OnceFor
  <2>3. CASE u # t
    <3>1. told'[u] = told[u] /\ observed'[u] = observed[u] /\ provider'[u] = provider[u]
      BY <2>3, <1>2, <1>5, <1>7
    <3>2. \A kind : Telling!Told(u, kind)' = Telling!Told(u, kind)
      BY <3>1 DEF Telling!Told
    <3>. QED
      BY <2>1, <3>1, <3>2 DEF OnceFor
  <2>. QED
    BY <2>2, <2>3
<1>11. Telling!ToldOnce'
  BY <1>10, TellingCardinality DEF Telling!ToldOnce, OnceFor
<1>. QED
  BY <1>6, <1>8, <1>9, <1>11 DEF TellingInv

\* A step inside the sink: no turn moves.
LEMMA SinkStep ==
  ASSUME TellingInv, UNCHANGED <<observed, provider, told>>,
         putting' \in [Telling!Producer -> Puts], sink' \in Sinks, SinkInv'
  PROVE  TellingInv'
<1>1. Telling!TypeOK'
  BY TellingTyped DEF TellingInv, Telling!TypeOK, Turns, Calls, Puts, Sinks
<1>2. ClosedBetween'
  BY DEF TellingInv, ClosedBetween
<1>3. Telling!ToldOnce'
  BY DEF TellingInv, Telling!ToldOnce, Telling!Told
<1>. QED
  BY <1>1, <1>2, <1>3 DEF TellingInv

LEMMA SinkSteps ==
  ASSUME TellingInv, NEW h \in Telling!Producer,
         \/ Telling!Emit(h) \/ Telling!Look(h) \/ Telling!Lock(h)
         \/ Telling!Recheck(h) \/ Telling!Start(h) \/ Telling!Put(h)
  PROVE  TellingInv'
<1>t. putting \in [Telling!Producer -> Puts] /\ sink \in Sinks /\ SinkInv
  BY TellingTyped DEF TellingInv
<1>u. UNCHANGED <<observed, provider, told>>
  BY DEF Telling!Emit, Telling!Look, Telling!Lock, Telling!Recheck, Telling!Start, Telling!Put,
         Telling!Telling
<1>1. CASE Telling!Emit(h) \/ Telling!Look(h)
  <2>1. PICK to \in {"look", "put", "lock"} :
          /\ putting[h] \in {"nothing", "look"} /\ putting' = [putting EXCEPT ![h] = to]
          /\ UNCHANGED sink
    BY <1>1 DEF Telling!Emit, Telling!Look, Telling!Steps
  <2>2. putting' \in [Telling!Producer -> Puts] /\ SinkInv'
    BY <1>t, <2>1 DEF SinkInv, Puts
  <2>. QED
    BY <1>t, <1>u, <2>1, <2>2, SinkStep
<1>2. CASE Telling!Lock(h)
  <2>1. /\ sink.holder = {} /\ putting[h] = "lock" /\ putting' = [putting EXCEPT ![h] = "recheck"]
        /\ sink' = [sink EXCEPT !.holder = {h}]
    BY <1>2 DEF Telling!Lock, Telling!Steps
  <2>2. /\ sink' \in Sinks /\ sink'.holder = {h} /\ sink'.made = sink.made
        /\ sink'.started = sink.started
    BY <1>t, <2>1 DEF Sinks
  <2>3. putting' \in [Telling!Producer -> Puts] /\ SinkInv'
    BY <1>t, <2>1, <2>2 DEF SinkInv, Puts
  <2>. QED
    BY <1>u, <2>2, <2>3, SinkStep
<1>3. CASE Telling!Recheck(h)
  <2>1. /\ putting[h] = "recheck"
        /\ putting' = [putting EXCEPT ![h] = IF ~ sink.made THEN "start" ELSE "put"]
        /\ sink' = IF ~ sink.made THEN [sink EXCEPT !.made = TRUE] ELSE [sink EXCEPT !.holder = {}]
    BY <1>3 DEF Telling!Recheck, Telling!Steps, Telling!Missing
  <2>2. h \in sink.holder /\ sink.holder = {h} /\ (~ sink.made => sink.started = 0)
    BY <1>t, <2>1 DEF SinkInv, Sinks
  <2>3. putting' \in [Telling!Producer -> Puts]
    BY <1>t, <2>1 DEF Puts
  <2>4. CASE ~ sink.made
    <3>1. /\ sink' \in Sinks /\ sink'.holder = sink.holder /\ sink'.made
          /\ sink'.started = sink.started
      BY <1>t, <2>1, <2>4 DEF Sinks
    <3>2. SinkInv'
      BY <1>t, <2>1, <2>2, <2>4, <3>1 DEF SinkInv, Puts
    <3>. QED
      BY <1>u, <2>3, <3>1, <3>2, SinkStep
  <2>5. CASE sink.made
    <3>1. /\ sink' \in Sinks /\ sink'.holder = {} /\ sink'.made
          /\ sink'.started = sink.started
      BY <1>t, <2>1, <2>5 DEF Sinks
    <3>2. SinkInv'
      BY <1>t, <2>1, <2>2, <2>5, <3>1 DEF SinkInv, Puts
    <3>. QED
      BY <1>u, <2>3, <3>1, <3>2, SinkStep
  <2>. QED
    BY <2>4, <2>5
<1>4. CASE Telling!Start(h)
  <2>1. PICK starts \in BOOLEAN :
          /\ putting[h] = "start" /\ putting' = [putting EXCEPT ![h] = IF starts THEN "put" ELSE "nothing"]
          /\ sink' = [sink EXCEPT !.holder = {},
                                 !.started = IF starts THEN sink.started + 1 ELSE sink.started]
    BY <1>4 DEF Telling!Start, Telling!Steps
  <2>2. sink.holder = {h} /\ sink.started = 0 /\ sink.made
    BY <1>t, <2>1 DEF SinkInv, Sinks
  <2>3. /\ sink' \in Sinks /\ sink'.holder = {} /\ sink'.made /\ sink'.started \in {0, 1}
    <3>1. CASE starts
      <4>1. sink' = [sink EXCEPT !.holder = {}, !.started = 1]
        BY <2>1, <2>2, <3>1
      <4>. QED
        BY <1>t, <2>2, <4>1 DEF Sinks
    <3>2. CASE ~ starts
      <4>1. sink' = [sink EXCEPT !.holder = {}, !.started = 0]
        BY <2>1, <2>2, <3>2
      <4>. QED
        BY <1>t, <2>2, <4>1 DEF Sinks
    <3>. QED
      BY <3>1, <3>2
  <2>4. putting' \in [Telling!Producer -> Puts] /\ SinkInv'
    BY <1>t, <2>1, <2>2, <2>3 DEF SinkInv, Puts
  <2>. QED
    BY <1>u, <2>3, <2>4, SinkStep
<1>5. CASE Telling!Put(h)
  <2>1. /\ putting[h] = "put" /\ putting' = [putting EXCEPT ![h] = "nothing"]
        /\ sink' = [sink EXCEPT !.queued = IF sink.queued < Capacity THEN sink.queued + 1 ELSE sink.queued]
    BY <1>5 DEF Telling!Put, Telling!Steps
  <2>2. /\ sink' \in Sinks /\ sink'.holder = sink.holder /\ sink'.made = sink.made
        /\ sink'.started = sink.started
    <3>1. Capacity \in Nat
      BY MCRecordsAssumption
    <3>. QED
      BY <1>t, <2>1, <3>1 DEF Sinks
  <2>3. putting' \in [Telling!Producer -> Puts] /\ SinkInv'
    BY <1>t, <2>1, <2>2 DEF SinkInv, Puts
  <2>. QED
    BY <1>u, <2>2, <2>3, SinkStep
<1>. QED
  BY <1>1, <1>2, <1>3, <1>4, <1>5

LEMMA DeliverStep == TellingInv /\ Telling!Deliver => TellingInv'
<1>. SUFFICES ASSUME TellingInv, Telling!Deliver PROVE TellingInv'
  OBVIOUS
<1>1. /\ sink.queued > 0 /\ sink' = [sink EXCEPT !.queued = sink.queued - 1]
      /\ UNCHANGED <<observed, provider, told, putting>>
  BY DEF Telling!Deliver, Telling!Telling
<1>t. putting \in [Telling!Producer -> Puts] /\ sink \in Sinks /\ SinkInv /\ Capacity \in Nat
  BY TellingTyped, MCRecordsAssumption DEF TellingInv
<1>2. /\ sink' \in Sinks /\ sink'.holder = sink.holder /\ sink'.made = sink.made
      /\ sink'.started = sink.started
  BY <1>t, <1>1 DEF Sinks
<1>3. SinkInv'
  BY <1>t, <1>1, <1>2 DEF SinkInv
<1>. QED
  BY <1>t, <1>1, <1>2, <1>3, SinkStep

\* A call of a provider ends and is told.
LEMMA ExitStep ==
  ASSUME TellingInv, NEW t \in Chat, NEW error \in Telling!Failure, Telling!Exit(t, error)
  PROVE  TellingInv'
<1>. DEFINE e == Telling!Usage(CASE error = "none" -> "completed" [] error = "failed" -> "failed"
                                 [] OTHER -> "interrupted")
<1>1. /\ observed \in [Chat -> Turns] /\ provider \in [Chat -> Calls]
      /\ told \in [Chat -> Seq(Telling!Event)]
  BY TellingTyped DEF TellingInv
<1>2. /\ observed[t].at \in {"running", "streaming"} /\ Telling!Free(Loop) /\ provider[t].open
      /\ provider' = [provider EXCEPT ![t].open = FALSE] /\ Telling!Tell(t, e) /\ UNCHANGED sink
  BY DEF Telling!Exit, Telling!Works
<1>3. PICK ends \in BOOLEAN :
        observed' = [observed EXCEPT ![t].failure = IF error = "none" THEN observed[t].failure
                                                    ELSE Telling!Worse(t, error),
                                     ![t].ending = error # "none" /\ ends]
  BY DEF Telling!Exit
<1>4. e \in Telling!Event /\ e.kind = "usage"
  BY DEF Telling!Usage, Telling!Event
<1>. HIDE DEF e
<1>5. /\ observed' \in [Chat -> Turns] /\ observed'[t].at = observed[t].at
      /\ \A u \in Chat : u # t => observed'[u] = observed[u]
  <2>1. Telling!Worse(t, error) \in Telling!Failure
    BY <1>1 DEF Telling!Worse, Turns
  <2>. DEFINE row == [observed[t] EXCEPT !.failure = IF error = "none" THEN observed[t].failure
                                                     ELSE Telling!Worse(t, error),
                                         !.ending = error # "none" /\ ends]
  <2>2. row \in Turns /\ row.at = observed[t].at
    BY <1>1, <2>1 DEF Turns
  <2>3. observed' = [observed EXCEPT ![t] = row]
    BY <1>3
  <2>. HIDE DEF row
  <2>. QED
    BY <1>1, <2>2, <2>3
<1>6. /\ provider' \in [Chat -> Calls] /\ provider'[t] = [open |-> FALSE, number |-> provider[t].number]
      /\ \A u \in Chat : u # t => provider'[u] = provider[u]
  BY <1>1, <1>2 DEF Calls
<1>7. SinkInv' /\ putting' \in [Telling!Producer -> Puts] /\ told' = [told EXCEPT ![t] = Append(told[t], e)]
  BY <1>2, <1>4, TellSink
<1>8. \A kind :
         /\ told' \in [Chat -> Seq(Telling!Event)]
         /\ Cardinality(Telling!Told(t, kind)) \in Nat
         /\ Cardinality(Telling!Told(t, kind)') =
              Cardinality(Telling!Told(t, kind)) + (IF e.kind = kind THEN 1 ELSE 0)
         /\ Telling!Last(told'[t]) = e
         /\ \A u \in Chat : u # t => told'[u] = told[u]
  BY <1>1, <1>4, <1>7, OneMore
<1>9. Telling!TypeOK'
  <2>1. sink' \in Sinks
    BY <1>2, TellingTyped DEF TellingInv
  <2>. QED
    BY <1>5, <1>6, <1>7, <1>8, <2>1 DEF Telling!TypeOK, Turns, Calls, Sinks, Puts
<1>10. ClosedBetween'
  BY <1>5, <1>6 DEF TellingInv, ClosedBetween
<1>11. ASSUME NEW u \in Chat PROVE OnceFor(u)'
  <2>1. OnceFor(u) /\ OnceFor(t)
    BY OnceForEach DEF TellingInv
  <2>2. CASE u = t
    <3>1. provider[t].number \in Nat
      BY <1>1 DEF Calls
    <3>2. Cardinality(Telling!Told(t, "usage")) = provider[t].number - 1
      BY <2>1, <1>2 DEF OnceFor
    <3>3. Cardinality(Telling!Told(t, "usage")') = provider[t].number - 1 + 1
      BY <3>2, <1>4, <1>8
    <3>4. Cardinality(Telling!Told(t, "turn")') = 0 /\ observed'[t].at # "over"
      BY <2>1, <1>2, <1>4, <1>5, <1>8 DEF OnceFor
    <3>. QED
      BY <2>2, <3>1, <3>3, <3>4, <1>6 DEF OnceFor
  <2>3. CASE u # t
    <3>1. told'[u] = told[u] /\ observed'[u] = observed[u] /\ provider'[u] = provider[u]
      BY <2>3, <1>5, <1>6, <1>8
    <3>2. \A kind : Telling!Told(u, kind)' = Telling!Told(u, kind)
      BY <3>1 DEF Telling!Told
    <3>. QED
      BY <2>1, <3>1, <3>2 DEF OnceFor
  <2>. QED
    BY <2>2, <2>3
<1>12. Telling!ToldOnce'
  BY <1>11, TellingCardinality DEF Telling!ToldOnce, OnceFor
<1>. QED
  BY <1>7, <1>9, <1>10, <1>12 DEF TellingInv

LEMMA TellingNext == TellingInv /\ [Telling!Next]_telemetry => TellingInv'
<1>. SUFFICES ASSUME TellingInv, [Telling!Next]_telemetry PROVE TellingInv'
  OBVIOUS
<1>1. ASSUME NEW t \in Chat, Telling!Tells(t) PROVE TellingInv'
  <2>t. observed[t] \in Turns /\ provider[t] \in Calls /\ observed \in [Chat -> Turns]
        /\ provider \in [Chat -> Calls] /\ provider = [provider EXCEPT ![t] = provider[t]]
    BY TellingTyped DEF TellingInv
  <2>c. observed[t].at \notin {"running", "streaming"} => ~ provider[t].open
    BY DEF TellingInv, ClosedBetween
  <2>1. CASE Telling!Begin(t) \/ Telling!Iterate(t) \/ Telling!NeverIterated(t)
    <3>1. PICK at \in {"running", "streaming", "dropped"} :
            /\ observed[t].at \in {"new", "returned"} /\ observed' = [observed EXCEPT ![t].at = at]
            /\ UNCHANGED <<provider, putting, told, sink>>
      BY <2>1 DEF Telling!Begin, Telling!Iterate, Telling!NeverIterated
    <3>. DEFINE row == [observed[t] EXCEPT !.at = at]
    <3>2. row \in Turns /\ row.at = at /\ observed' = [observed EXCEPT ![t] = row]
      BY <2>t, <3>1 DEF Turns
    <3>. HIDE DEF row
    <3>3. /\ row.at \notin {"running", "streaming"} => ~ provider[t].open
          /\ observed[t].at # "over" /\ row.at # "over" /\ provider' = [provider EXCEPT ![t] = provider[t]]
      BY <2>t, <2>c, <3>1, <3>2
    <3>. QED
      BY <2>t, <3>1, <3>2, <3>3, SilentStep
  <2>2. CASE Telling!Durable(t)
    <3>1. /\ observed[t].at \in {"running", "streaming"} /\ ~ provider[t].open
          /\ observed' = [observed EXCEPT ![t].durable = TRUE]
          /\ UNCHANGED <<provider, putting, told, sink>>
      BY <2>2 DEF Telling!Durable, Telling!Works
    <3>. DEFINE row == [observed[t] EXCEPT !.durable = TRUE]
    <3>2. row \in Turns /\ row.at = observed[t].at /\ observed' = [observed EXCEPT ![t] = row]
      BY <2>t, <3>1 DEF Turns
    <3>. HIDE DEF row
    <3>3. /\ row.at \notin {"running", "streaming"} => ~ provider[t].open
          /\ observed[t].at # "over" /\ row.at # "over" /\ provider' = [provider EXCEPT ![t] = provider[t]]
      BY <2>t, <2>c, <3>1, <3>2
    <3>4. UNCHANGED <<told, putting, sink>>
      BY <3>1
    <3>. QED
      BY <2>t, <3>2, <3>3, <3>4, SilentStep
  <2>3. ASSUME NEW category \in {"failed", "cancelled"}, Telling!Breaks(t, category) PROVE TellingInv'
    <3>1. /\ observed[t].at \in {"running", "streaming"} /\ ~ provider[t].open
          /\ observed' = [observed EXCEPT ![t].failure = Telling!Worse(t, category), ![t].ending = TRUE]
          /\ UNCHANGED <<provider, putting, told, sink>>
      BY <2>3 DEF Telling!Breaks, Telling!Works
    <3>. DEFINE row == [observed[t] EXCEPT !.failure = Telling!Worse(t, category), !.ending = TRUE]
    <3>2. Telling!Worse(t, category) \in Telling!Failure
      BY <2>t DEF Telling!Worse, Turns, Telling!Failure
    <3>3. row \in Turns /\ row.at = observed[t].at
      BY <2>t, <3>2 DEF Turns
    <3>4. observed' = [observed EXCEPT ![t] = row]
      BY <3>1
    <3>. HIDE DEF row
    <3>5. /\ row.at \notin {"running", "streaming"} => ~ provider[t].open
          /\ observed[t].at # "over" /\ row.at # "over" /\ provider' = [provider EXCEPT ![t] = provider[t]]
      BY <2>t, <3>1, <3>3
    <3>6. UNCHANGED <<told, putting, sink>>
      BY <3>1
    <3>. QED
      BY <2>t, <3>3, <3>4, <3>5, <3>6, SilentStep
  <2>4. CASE Telling!Enter(t)
    <3>1. /\ observed[t].at \in {"running", "streaming"} /\ ~ provider[t].open
          /\ provider[t].number < Called
          /\ provider' = [provider EXCEPT ![t] = [open |-> TRUE, number |-> provider[t].number + 1]]
          /\ UNCHANGED <<observed, putting, told, sink>>
      BY <2>4 DEF Telling!Enter, Telling!Works
    <3>. DEFINE made == [open |-> TRUE, number |-> provider[t].number + 1]
    <3>2. /\ made \in Calls /\ made.open /\ made.number = provider[t].number + 1
          /\ provider[t].number \in Nat
      BY <2>t, <3>1, MCRecordsAssumption DEF Calls
    <3>3. provider' = [provider EXCEPT ![t] = made] /\ observed' = [observed EXCEPT ![t] = observed[t]]
      BY <2>t, <3>1
    <3>4. provider[t].number - (IF provider[t].open THEN 1 ELSE 0) = made.number - (IF made.open THEN 1 ELSE 0)
      BY <3>1, <3>2
    <3>. HIDE DEF made
    <3>5. /\ observed[t].at \notin {"running", "streaming"} => ~ made.open
          /\ observed[t].at # "over"
      BY <3>1
    <3>. QED
      BY <2>t, <3>1, <3>2, <3>3, <3>4, <3>5, SilentStep
  <2>5. ASSUME NEW error \in Telling!Failure, Telling!Exit(t, error) PROVE TellingInv'
    BY <2>5, ExitStep
  <2>6. CASE Telling!StreamEnds(t)
    BY <2>6, SummaryStep DEF Telling!StreamEnds
  <2>7. ASSUME NEW streams \in BOOLEAN, Telling!Return(t, streams) PROVE TellingInv'
    <3>1. /\ observed[t].at = "running" /\ Telling!Free(Loop) /\ ~ provider[t].open
          /\ Telling!Summarized(t, streams)
      BY <2>7 DEF Telling!Return
    <3>2. CASE ~ streams
      BY <3>1, <3>2, SummaryStep DEF Telling!Summarized
    <3>3. CASE streams
      <4>1. observed' = [observed EXCEPT ![t].at = "returned"] /\ UNCHANGED <<provider, putting, told, sink>>
        BY <3>1, <3>3 DEF Telling!Summarized
      <4>. DEFINE row == [observed[t] EXCEPT !.at = "returned"]
      <4>2. row \in Turns /\ row.at = "returned" /\ observed' = [observed EXCEPT ![t] = row]
        BY <2>t, <4>1 DEF Turns
      <4>. HIDE DEF row
      <4>3. /\ row.at \notin {"running", "streaming"} => ~ provider[t].open
            /\ observed[t].at # "over" /\ row.at # "over" /\ provider' = [provider EXCEPT ![t] = provider[t]]
        BY <2>t, <3>1, <4>1, <4>2
      <4>4. UNCHANGED <<told, putting, sink>>
        BY <4>1
      <4>. QED
        BY <2>t, <4>2, <4>3, <4>4, SilentStep
    <3>. QED
      BY <3>2, <3>3
  <2>. QED
    BY <1>1, <2>1, <2>2, <2>3, <2>4, <2>5, <2>6, <2>7 DEF Telling!Tells
<1>2. CASE UNCHANGED telemetry
  <2>1. UNCHANGED <<observed, provider, told, putting, sink>>
    BY <1>2 DEF telemetry
  <2>2. putting \in [Telling!Producer -> Puts] /\ sink \in Sinks
    BY TellingTyped DEF TellingInv
  <2>3. SinkInv'
    BY <2>1 DEF TellingInv, SinkInv
  <2>. QED
    BY <2>1, <2>2, <2>3, SinkStep
<1>. QED
  BY <1>1, <1>2, SinkSteps, DeliverStep DEF Telling!Next

-----------------------------------------------------------------------------
(* MemoryTimeline, for any set of rows that is numbered from one on, any   *)
(* texts and any dates.  The contribution that holds the lock knows of     *)
(* every active row, so it cannot make twins; and whatever the bookkeeping *)
(* of the timeline passes on keeps what the owner settled, unless a memory *)
(* joins the event.                                                        *)

\* A set of numbers that goes on to the end has them all: of the sets of those below a
\* number that is missing some is the smallest.
LEMMA Climb ==
  ASSUME NEW N \in Nat, NEW S \in SUBSET (0 .. N), 0 \in S, \A n \in S : n < N => n + 1 \in S
  PROVE  S = 0 .. N
<1>. DEFINE T == (0 .. N) \ S
            Below(t) == {u \in T : u < t}
            All == {Below(t) : t \in T}
<1>1. IsFiniteSet(T) /\ T \subseteq 0 .. N
  <2>1. T \subseteq 0 .. N
    OBVIOUS
  <2>2. IsFiniteSet(0 .. N)
    BY FS_Interval
  <2>. HIDE DEF T
  <2>. QED
    BY <2>1, <2>2, FS_Subset
<1>2. SUFFICES ASSUME T # {} PROVE FALSE
  BY <1>2
<1>3. All \subseteq FiniteSubsetsOf(T) /\ All # {}
  <2>1. ASSUME NEW t \in T PROVE Below(t) \in SUBSET T /\ IsFiniteSet(Below(t))
    BY <1>1, FS_Subset
  <2>. QED
    BY <1>2, <2>1 DEF FiniteSubsetsOf
<1>4. PICK X \in All : \A Y \in All : <<Y, X>> \notin StrictSubsetOrdering(T)
  <2>. HIDE DEF All
  <2>. QED
    BY <1>1, <1>3, FS_StrictSubsetOrderingWellFounded, WFMin
<1>5. PICK t \in T : X = Below(t)
  BY <1>4
<1>6. t \in 1 .. N /\ t - 1 \in 0 .. N
  <2>1. t \in 0 .. N /\ t # 0
    BY <1>1
  <2>. QED
    BY <2>1
<1>7. t - 1 \in T
  <2>1. t \notin S /\ t - 1 < N /\ (t - 1) + 1 = t
    BY <1>6
  <2>2. t - 1 \notin S
    BY <2>1
  <2>. QED
    BY <1>6, <2>2
<1>8. Below(t - 1) \subseteq Below(t) /\ t - 1 \in Below(t) /\ t - 1 \notin Below(t - 1)
  <2>1. \A u \in T : u \in Int
    BY <1>1
  <2>2. t - 1 \in Int /\ t \in Int /\ t - 1 < t /\ ~ (t - 1 < t - 1)
    BY <1>6
  <2>3. \A u \in Int : u < t - 1 => u < t
    BY <2>2
  <2>. HIDE DEF T
  <2>. QED
    BY <1>7, <2>1, <2>2, <2>3
<1>9. Below(t - 1) \in All /\ Below(t - 1) \in SUBSET T /\ X \in SUBSET T
  BY <1>5, <1>7
<1>10. <<Below(t - 1), X>> \in StrictSubsetOrdering(T)
  <2>. HIDE DEF Below, T
  <2>. QED
    BY <1>5, <1>8, <1>9 DEF StrictSubsetOrdering
<1>. QED
  BY <1>4, <1>9, <1>10

\* The rows as the tables keep them.
MemoryRow == [status : Timeline!Status, text : Said \union {Timeline!NoText}]

EventRow ==
  [life : {"none", "active", "deleted"}, named : BOOLEAN, date : Timeline!Dates,
   review : {"none", "approved", "needs_review", "conflict", "archived"}, resolved : BOOLEAN]

\* The events and the links, as the timeline's bookkeeping passes them on.
Timelines ==
  [event : [Timeline!Event -> EventRow], link : [Timeline!Event -> [Row -> {"none", "active", "stale"}]]]

\* The owner resolved the event.
Settled(tl, e) == tl.event[e].resolved /\ tl.event[e].review = "approved"

\* Nothing but a memory that joins it takes an event from what the owner settled.
StaysSettled(tl, after) ==
  /\ \A e \in Timeline!Event : \A m \in Row :
       after.link[e][m] = tl.link[e][m] \/ (tl.link[e][m] = "none" /\ after.link[e][m] = "active")
  /\ \A e \in Timeline!Event :
       Settled(tl, e) =>
         Settled(after, e) \/ \E m \in Row : tl.link[e][m] = "none" /\ after.link[e][m] = "active"

LEMMA KeptTwice ==
  ASSUME NEW t1, NEW t2, NEW t3, StaysSettled(t1, t2), StaysSettled(t2, t3) PROVE StaysSettled(t1, t3)
<1>1. ASSUME NEW e \in Timeline!Event, NEW m \in Row
      PROVE  /\ t3.link[e][m] = t1.link[e][m] \/ (t1.link[e][m] = "none" /\ t3.link[e][m] = "active")
             /\ t1.link[e][m] = "none" /\ t2.link[e][m] = "active" => t3.link[e][m] = "active"
             /\ t2.link[e][m] = "none" => t1.link[e][m] = "none"
  BY DEF StaysSettled
<1>2. ASSUME NEW e \in Timeline!Event, Settled(t1, e)
      PROVE  Settled(t3, e) \/ \E m \in Row : t1.link[e][m] = "none" /\ t3.link[e][m] = "active"
  <2>1. CASE \E m \in Row : t1.link[e][m] = "none" /\ t2.link[e][m] = "active"
    BY <1>1, <2>1
  <2>2. CASE Settled(t2, e)
    <3>1. Settled(t3, e) \/ \E m \in Row : t2.link[e][m] = "none" /\ t3.link[e][m] = "active"
      BY <2>2 DEF StaysSettled
    <3>. QED
      BY <1>1, <3>1
  <2>. QED
    BY <1>2, <2>1, <2>2 DEF StaysSettled
<1>. QED
  BY <1>1, <1>2 DEF StaysSettled

\* A second look at an event changes its review, and not if it is settled.
LEMMA RefreshedKeeps ==
  ASSUME NEW tl \in Timelines, NEW rows, NEW e \in Timeline!Event
  PROVE  /\ Timeline!Refreshed(tl, rows, e) \in Timelines
         /\ Timeline!Refreshed(tl, rows, e).link = tl.link
         /\ \A f \in Timeline!Event : f # e => Timeline!Refreshed(tl, rows, e).event[f] = tl.event[f]
         /\ Settled(tl, e) => Timeline!Refreshed(tl, rows, e) = tl
<1>. DEFINE t == Timeline!Refreshed(tl, rows, e)
<1>1. tl.event \in [Timeline!Event -> EventRow]
  BY DEF Timelines
<1>2. \/ t = tl
      \/ ~ Settled(tl, e)
         /\ \E review \in {"conflict", "approved"} : t = [tl EXCEPT !.event[e].review = review]
  BY DEF Timeline!Refreshed, Settled
<1>. HIDE DEF t
<1>3. ASSUME NEW review \in {"conflict", "approved"}, t = [tl EXCEPT !.event[e].review = review]
      PROVE  /\ t \in Timelines /\ t.link = tl.link
             /\ \A f \in Timeline!Event : f # e => t.event[f] = tl.event[f]
  <2>. DEFINE row == [tl.event[e] EXCEPT !.review = review]
  <2>1. row \in EventRow
    BY <1>1 DEF EventRow
  <2>2. t = [tl EXCEPT !.event = [tl.event EXCEPT ![e] = row]]
    BY <1>3
  <2>. HIDE DEF row
  <2>3. [tl.event EXCEPT ![e] = row] \in [Timeline!Event -> EventRow]
        /\ \A f \in Timeline!Event : f # e => [tl.event EXCEPT ![e] = row][f] = tl.event[f]
    BY <1>1, <2>1
  <2>. QED
    BY <2>2, <2>3 DEF Timelines
<1>. QED
  BY <1>2, <1>3 DEF t

LEMMA RefreshedIsKept ==
  ASSUME NEW tl \in Timelines, NEW rows, NEW e \in Timeline!Event
  PROVE  StaysSettled(tl, Timeline!Refreshed(tl, rows, e))
<1>. DEFINE t == Timeline!Refreshed(tl, rows, e)
<1>1. /\ t.link = tl.link
      /\ \A f \in Timeline!Event : f # e => t.event[f] = tl.event[f]
      /\ Settled(tl, e) => t = tl
  BY RefreshedKeeps
<1>. HIDE DEF t
<1>2. \A f \in Timeline!Event : Settled(tl, f) => Settled(t, f)
  BY <1>1 DEF Settled
<1>3. StaysSettled(tl, t)
  BY <1>1, <1>2 DEF StaysSettled
<1>. QED
  BY <1>3 DEF t

LEMMA JoinedIsEvent ==
  ASSUME NEW tl, NEW date, NEW first \in Timeline!Event
  PROVE  /\ Timeline!Joined(tl, date, first) \in Timeline!Event
         /\ \A m : Timeline!Linked(tl, m) # {} =>
                    Timeline!Pick(first, Timeline!Linked(tl, m)) \in Timeline!Event
<1>1. ASSUME NEW S \in SUBSET Timeline!Event, S # {} PROVE Timeline!Pick(first, S) \in Timeline!Event
  BY <1>1 DEF Timeline!Pick
<1>2. Timeline!Titled(tl) \in SUBSET Timeline!Event
      /\ {e \in Timeline!Titled(tl) : tl.event[e].date = date} \in SUBSET Timeline!Event
  BY DEF Timeline!Titled
<1>3. Timeline!Joined(tl, date, first) \in Timeline!Event
  BY <1>1, <1>2 DEF Timeline!Joined, Timeline!Event
<1>4. \A m : Timeline!Linked(tl, m) \in SUBSET Timeline!Event
  BY DEF Timeline!Linked
<1>. QED
  BY <1>1, <1>3, <1>4

\* A memory that joins an event is the reason for what becomes of it.
LEMMA StructuredKeeps ==
  ASSUME NEW tl \in Timelines, NEW rows \in [Row -> MemoryRow], NEW m \in Row, NEW first \in Timeline!Event
  PROVE  /\ Timeline!Structured(tl, rows, m, first) \in Timelines
         /\ StaysSettled(tl, Timeline!Structured(tl, rows, m, first))
<1>. DEFINE date == rows[m].text.date
            e == Timeline!Joined(tl, date, first)
            admitted == Timeline!Admitted(tl, date, e)
            joined == [admitted EXCEPT !.link[e][m] = "active"]
            clashing == Timeline!Clashing(joined, date, e)
            s == Timeline!Structured(tl, rows, m, first)
<1>1. CASE ~ rows[m].text.event
  <2>1. s = tl
    BY <1>1 DEF Timeline!Structured
  <2>. HIDE DEF s
  <2>2. s \in Timelines /\ StaysSettled(tl, s)
    BY <2>1 DEF StaysSettled
  <2>. QED
    BY <2>2 DEF s
<1>2. CASE rows[m].text.event /\ Timeline!Linked(tl, m) # {}
  <2>1. s = Timeline!Refreshed(tl, rows, Timeline!Pick(first, Timeline!Linked(tl, m)))
    BY <1>2 DEF Timeline!Structured
  <2>2. Timeline!Pick(first, Timeline!Linked(tl, m)) \in Timeline!Event
    BY <1>2, JoinedIsEvent
  <2>. HIDE DEF s
  <2>3. s \in Timelines /\ StaysSettled(tl, s)
    BY <2>1, <2>2, RefreshedKeeps, RefreshedIsKept
  <2>. QED
    BY <2>3 DEF s
<1>3. CASE rows[m].text.event /\ Timeline!Linked(tl, m) = {}
  <2>1. s = Timeline!Refreshed(clashing, rows, e)
    BY <1>3 DEF Timeline!Structured
  <2>2. e \in Timeline!Event
    BY JoinedIsEvent
  <2>3. date \in Timeline!Dates
    <3>1. rows[m].text \in Said \union {Timeline!NoText}
      BY DEF MemoryRow
    <3>. QED
      BY <3>1 DEF Timeline!Dates, Timeline!NoText, Timeline!NoDate
  <2>4. tl.link[e][m] = "none"
    BY <1>3, <2>2 DEF Timeline!Linked
  <2>. HIDE DEF date, e
  <2>5. /\ admitted \in Timelines /\ admitted.link = tl.link
        /\ \A f \in Timeline!Event : f # e => admitted.event[f] = tl.event[f]
    <3>1. CASE admitted = tl
      BY <3>1
    <3>2. CASE admitted # tl
      <4>. DEFINE row == [life |-> "active", named |-> TRUE, date |-> date, review |-> "approved",
                          resolved |-> FALSE]
      <4>1. admitted = [tl EXCEPT !.event = [tl.event EXCEPT ![e] = row]]
        BY <3>2 DEF Timeline!Admitted
      <4>2. row \in EventRow
        BY <2>3 DEF EventRow
      <4>. HIDE DEF row
      <4>3. [tl.event EXCEPT ![e] = row] \in [Timeline!Event -> EventRow]
            /\ \A f \in Timeline!Event : f # e => [tl.event EXCEPT ![e] = row][f] = tl.event[f]
        BY <2>2, <4>2 DEF Timelines
      <4>. HIDE DEF admitted
      <4>. QED
        BY <4>1, <4>3 DEF Timelines
    <3>. QED
      BY <3>1, <3>2
  <2>. HIDE DEF admitted
  <2>6. /\ joined \in Timelines /\ joined.event = admitted.event
        /\ joined.link[e][m] = "active"
        /\ \A f \in Timeline!Event : \A k \in Row : f # e \/ k # m => joined.link[f][k] = tl.link[f][k]
    <3>. DEFINE l == [admitted.link EXCEPT ![e][m] = "active"]
    <3>1. joined = [admitted EXCEPT !.link = l]
      BY <2>5
    <3>2. admitted.link \in [Timeline!Event -> [Row -> {"none", "active", "stale"}]]
      BY <2>5 DEF Timelines
    <3>3. /\ l \in [Timeline!Event -> [Row -> {"none", "active", "stale"}]] /\ l[e][m] = "active"
          /\ \A f \in Timeline!Event : \A k \in Row : f # e \/ k # m => l[f][k] = admitted.link[f][k]
      BY <2>2, <3>2
    <3>. HIDE DEF l, joined
    <3>4. joined \in Timelines /\ joined.event = admitted.event /\ joined.link = l
      BY <2>5, <3>1, <3>3 DEF Timelines
    <3>. QED
      BY <2>5, <3>3, <3>4
  <2>. HIDE DEF joined
  <2>7. /\ clashing \in Timelines /\ clashing.link = joined.link
        /\ \A f \in Timeline!Event : f # e => clashing.event[f] = joined.event[f]
    <3>1. CASE clashing = joined
      BY <2>6, <3>1
    <3>t. joined.event \in [Timeline!Event -> EventRow]
      BY <2>6 DEF Timelines
    <3>2. CASE clashing # joined
      <4>. DEFINE row == [joined.event[e] EXCEPT !.review = "conflict", !.resolved = FALSE]
      <4>1. clashing = [joined EXCEPT !.event = [joined.event EXCEPT ![e] = row]]
        <5>1. clashing = [joined EXCEPT !.event[e].review = "conflict", !.event[e].resolved = FALSE]
          BY <3>2 DEF Timeline!Clashing
        <5>2. joined \in Timelines
          BY <2>6
        <5>3. joined.event[e] \in EventRow
          BY <2>2, <5>2 DEF Timelines
        <5>. HIDE DEF clashing
        <5>. QED
          BY <2>2, <5>1, <5>2, <5>3 DEF Timelines, EventRow
      <4>2. row \in EventRow
        BY <2>2, <3>t DEF EventRow
      <4>. HIDE DEF row
      <4>3. [joined.event EXCEPT ![e] = row] \in [Timeline!Event -> EventRow]
            /\ \A f \in Timeline!Event : f # e => [joined.event EXCEPT ![e] = row][f] = joined.event[f]
        BY <2>2, <3>t, <4>2
      <4>. HIDE DEF clashing
      <4>. QED
        BY <2>6, <4>1, <4>3 DEF Timelines
    <3>. QED
      BY <3>1, <3>2
  <2>. HIDE DEF clashing, s
  <2>8. s \in Timelines /\ s.link = joined.link /\ \A f \in Timeline!Event : f # e => s.event[f] = tl.event[f]
    BY <2>1, <2>2, <2>5, <2>6, <2>7, RefreshedKeeps
  <2>9. StaysSettled(tl, s)
    <3>1. \A f \in Timeline!Event : \A k \in Row :
            s.link[f][k] = tl.link[f][k] \/ (tl.link[f][k] = "none" /\ s.link[f][k] = "active")
      BY <2>2, <2>4, <2>6, <2>8
    <3>2. tl.link[e][m] = "none" /\ s.link[e][m] = "active"
      BY <2>4, <2>6, <2>8
    <3>3. \A f \in Timeline!Event : f # e /\ Settled(tl, f) => Settled(s, f)
      BY <2>8 DEF Settled
    <3>. QED
      BY <3>1, <3>2, <3>3 DEF StaysSettled
  <2>. QED
    BY <2>8, <2>9 DEF s
<1>. QED
  BY <1>1, <1>2, <1>3

\* The memories of a contribution are reconciled one after the other.
LEMMA AllReconciledKeeps ==
  ASSUME NEW tl \in Timelines, NEW rows \in [Row -> MemoryRow], NEW changed \in Seq(Row),
         NEW first \in Timeline!Event
  PROVE  /\ Timeline!AllReconciled(tl, rows, changed, first) \in Timelines
         /\ StaysSettled(tl, Timeline!AllReconciled(tl, rows, changed, first))
<1>. DEFINE step(n, t) == IF rows[changed[n]].status = "active"
                          THEN Timeline!Reconciled(t, rows, changed[n], first) ELSE t
            UpTo(n, t) == t = [k \in 0 .. n |-> IF k = 0 THEN tl ELSE step(k, t[k - 1])]
            N == Len(changed)
            S == {n \in 0 .. N : \E t : UpTo(n, t)}
            all2 == CHOOSE t : t = [n \in 0 .. N |-> IF n = 0 THEN tl ELSE step(n, t[n - 1])]
<1>1. N \in Nat /\ \A n \in 1 .. N : changed[n] \in Row
  BY LenProperties, ElementOfSeq
<1>2. Timeline!AllReconciled(tl, rows, changed, first) = all2[N]
  BY DEF Timeline!AllReconciled
<1>3. ASSUME NEW n \in 1 .. N, NEW t \in Timelines PROVE step(n, t) \in Timelines /\ StaysSettled(t, step(n, t))
  <2>1. changed[n] \in Row
    BY <1>1
  <2>2. CASE rows[changed[n]].status = "active"
    <3>1. step(n, t) = Timeline!Structured(t, rows, changed[n], first)
      BY <2>2 DEF Timeline!Reconciled
    <3>. HIDE DEF step
    <3>. QED
      BY <2>1, <3>1, StructuredKeeps
  <2>3. CASE rows[changed[n]].status # "active"
    <3>1. step(n, t) = t
      BY <2>3
    <3>. HIDE DEF step
    <3>. QED
      BY <3>1 DEF StaysSettled
  <2>. QED
    BY <2>2, <2>3
<1>. HIDE DEF step, N
<1>4. 0 \in S
  <2>. DEFINE z == [k \in 0 .. 0 |-> tl]
  <2>1. \A k \in 0 .. 0 : z[k] = IF k = 0 THEN tl ELSE step(k, z[k - 1])
    OBVIOUS
  <2>2. z = [k \in 0 .. 0 |-> z[k]]
    OBVIOUS
  <2>3. UpTo(0, z)
    <3>. HIDE DEF z
    <3>. QED
      BY <2>1, <2>2
  <2>. HIDE DEF z, UpTo
  <2>. QED
    BY <1>1, <2>3
<1>5. ASSUME NEW n \in S, n < N PROVE n + 1 \in S
  <2>1. PICK t : UpTo(n, t)
    OBVIOUS
  <2>. DEFINE u == [k \in 0 .. (n + 1) |-> IF k = n + 1 THEN step(n + 1, t[n]) ELSE t[k]]
  <2>2. n \in Nat /\ n + 1 \in 0 .. N
    BY <1>1, <1>5
  <2>3. ASSUME NEW k \in 0 .. (n + 1) PROVE u[k] = IF k = 0 THEN tl ELSE step(k, u[k - 1])
    <3>1. CASE k = n + 1
      <4>1. k # 0 /\ k - 1 = n /\ n \in 0 .. (n + 1) /\ n # n + 1
        BY <2>2, <3>1
      <4>2. u[k] = step(n + 1, t[n]) /\ u[n] = t[n]
        BY <3>1, <4>1
      <4>. QED
        BY <3>1, <4>1, <4>2
    <3>2. CASE k # n + 1
      <4>1. k \in 0 .. n
        BY <2>2, <3>2
      <4>2. k # 0 => k - 1 \in 0 .. (n + 1) /\ k - 1 # n + 1
        BY <2>2, <4>1
      <4>3. u[k] = t[k] /\ (k # 0 => u[k - 1] = t[k - 1])
        BY <3>2, <4>2
      <4>4. t[k] = IF k = 0 THEN tl ELSE step(k, t[k - 1])
        BY <2>1, <4>1
      <4>. QED
        BY <4>3, <4>4
    <3>. QED
      BY <3>1, <3>2
  <2>4. UpTo(n + 1, u)
    <3>1. u = [k \in 0 .. (n + 1) |-> u[k]]
      OBVIOUS
    <3>. HIDE DEF u
    <3>. QED
      BY <2>3, <3>1
  <2>. HIDE DEF u, UpTo
  <2>. QED
    BY <2>2, <2>4
<1>6. \E t : UpTo(N, t)
  <2>. HIDE DEF UpTo
  <2>1. S \in SUBSET (0 .. N)
    OBVIOUS
  <2>2. N \in S
    <3>. HIDE DEF S
    <3>1. S = 0 .. N
      BY <1>1, <1>4, <1>5, <2>1, Climb
    <3>. QED
      BY <1>1, <3>1
  <2>. QED
    BY <2>2
<1>7. all2 = [n \in 0 .. N |-> IF n = 0 THEN tl ELSE step(n, all2[n - 1])]
  BY <1>6
<1>. HIDE DEF all2, S
<1>8. all2[0] = tl /\ \A n \in 1 .. N : all2[n] = step(n, all2[n - 1])
  BY <1>1, <1>7
<1>. DEFINE G == {n \in 0 .. N : all2[n] \in Timelines /\ StaysSettled(tl, all2[n])}
<1>9. 0 \in G
  BY <1>1, <1>8 DEF StaysSettled
<1>10. ASSUME NEW n \in G, n < N PROVE n + 1 \in G
  <2>1. n + 1 \in 1 .. N /\ n + 1 \in 0 .. N /\ (n + 1) - 1 = n
    BY <1>1, <1>10
  <2>2. all2[n + 1] = step(n + 1, all2[n])
    BY <1>8, <2>1
  <2>3. all2[n] \in Timelines /\ StaysSettled(tl, all2[n])
    OBVIOUS
  <2>4. step(n + 1, all2[n]) \in Timelines /\ StaysSettled(all2[n], step(n + 1, all2[n]))
    BY <1>3, <2>1, <2>3
  <2>5. StaysSettled(tl, step(n + 1, all2[n]))
    BY <2>3, <2>4, KeptTwice
  <2>. QED
    BY <2>1, <2>2, <2>4, <2>5
<1>11. N \in G
  <2>1. G \in SUBSET (0 .. N)
    OBVIOUS
  <2>. HIDE DEF G
  <2>2. G = 0 .. N
    BY <1>1, <1>9, <1>10, <2>1, Climb
  <2>. QED
    BY <1>1, <2>2
<1>. QED
  BY <1>2, <1>11

\* What a contribution notes of its changes names rows.
LEMMA NotedIsSeq ==
  ASSUME NEW changed \in Seq(Row), NEW m \in Row PROVE Timeline!Noted(changed, m) \in Seq(Row)
<1>1. Append(changed, m) \in Seq(Row)
  BY AppendProperties
<1>2. Timeline!Noted(changed, m) \in {changed, Append(changed, m)}
  BY DEF Timeline!Noted
<1>. QED
  BY <1>1, <1>2

\* No two active rows say the same.
Apart(rows) ==
  \A m, k \in Row : rows[m].status = "active" /\ rows[k].status = "active" /\ m # k =>
    rows[m].text # rows[k].text

\* The contribution that holds the lock: it knows of every row that is active.
Contributions ==
  [held : {TRUE}, rows : [Row -> MemoryRow], active : SUBSET Row, changed : Seq(Row),
   left : 0 .. MaxBatch]

Knows(b) == Timeline!Active(b.rows) \subseteq b.active /\ Apart(b.rows)

LEMMA ApartIsNoTwins == Apart(memory) <=> NoTwins
BY DEF Apart, NoTwins, Timeline!NoTwins, Timeline!Active

LEMMA TimelineCardinality == ASSUME NEW S PROVE Timeline!Cardinality(S) = Cardinality(S)
BY DEF Timeline!Cardinality, Cardinality, Timeline!IsFiniteSet, IsFiniteSet

\* Several rows are noted one after the other.
LEMMA AllNotedIsSeq ==
  ASSUME NEW changed \in Seq(Row), NEW ms PROVE Timeline!AllNoted(changed, ms) \in Seq(Row)
<1>. DEFINE step(k, t) == IF k \in ms THEN Timeline!Noted(t, k) ELSE t
            UpTo(n, t) == t = [k \in 0 .. n |-> IF k = 0 THEN changed ELSE step(k, t[k - 1])]
            N == Timeline!Cardinality(Row)
            S == {n \in 0 .. N : \E t : UpTo(n, t)}
            noted == CHOOSE t : t = [m \in 0 .. N |-> IF m = 0 THEN changed ELSE step(m, t[m - 1])]
<1>1. N \in Nat /\ \A n \in 1 .. N : n \in Row
  <2>1. N = Cardinality(Row) /\ Cardinality(Row) \in Nat
    BY MCRecordsAssumption, TimelineCardinality, FS_CardinalityType
  <2>. HIDE DEF N
  <2>. QED
    BY <2>1, MCRecordsAssumption
<1>2. Timeline!AllNoted(changed, ms) = noted[N]
  BY DEF Timeline!AllNoted
<1>3. ASSUME NEW n \in 1 .. N, NEW t \in Seq(Row) PROVE step(n, t) \in Seq(Row)
  <2>1. Timeline!Noted(t, n) \in Seq(Row)
    BY <1>1, NotedIsSeq
  <2>. QED
    BY <2>1
<1>. HIDE DEF step, N
<1>4. 0 \in S
  <2>. DEFINE z == [k \in 0 .. 0 |-> changed]
  <2>1. \A k \in 0 .. 0 : z[k] = IF k = 0 THEN changed ELSE step(k, z[k - 1])
    OBVIOUS
  <2>2. z = [k \in 0 .. 0 |-> z[k]]
    OBVIOUS
  <2>3. UpTo(0, z)
    <3>. HIDE DEF z
    <3>. QED
      BY <2>1, <2>2
  <2>. HIDE DEF z, UpTo
  <2>. QED
    BY <1>1, <2>3
<1>5. ASSUME NEW n \in S, n < N PROVE n + 1 \in S
  <2>1. PICK t : UpTo(n, t)
    OBVIOUS
  <2>. DEFINE u == [k \in 0 .. (n + 1) |-> IF k = n + 1 THEN step(n + 1, t[n]) ELSE t[k]]
  <2>2. n \in Nat /\ n + 1 \in 0 .. N
    BY <1>1, <1>5
  <2>3. ASSUME NEW k \in 0 .. (n + 1) PROVE u[k] = IF k = 0 THEN changed ELSE step(k, u[k - 1])
    <3>1. CASE k = n + 1
      <4>1. k # 0 /\ k - 1 = n /\ n \in 0 .. (n + 1) /\ n # n + 1
        BY <2>2, <3>1
      <4>2. u[k] = step(n + 1, t[n]) /\ u[n] = t[n]
        BY <3>1, <4>1
      <4>. QED
        BY <3>1, <4>1, <4>2
    <3>2. CASE k # n + 1
      <4>1. k \in 0 .. n
        BY <2>2, <3>2
      <4>2. k # 0 => k - 1 \in 0 .. (n + 1) /\ k - 1 # n + 1
        BY <2>2, <4>1
      <4>3. u[k] = t[k] /\ (k # 0 => u[k - 1] = t[k - 1])
        BY <3>2, <4>2
      <4>4. t[k] = IF k = 0 THEN changed ELSE step(k, t[k - 1])
        BY <2>1, <4>1
      <4>. QED
        BY <4>3, <4>4
    <3>. QED
      BY <3>1, <3>2
  <2>4. UpTo(n + 1, u)
    <3>1. u = [k \in 0 .. (n + 1) |-> u[k]]
      OBVIOUS
    <3>. HIDE DEF u
    <3>. QED
      BY <2>3, <3>1
  <2>. HIDE DEF u, UpTo
  <2>. QED
    BY <2>2, <2>4
<1>6. \E t : UpTo(N, t)
  <2>. HIDE DEF UpTo
  <2>1. S \in SUBSET (0 .. N)
    OBVIOUS
  <2>2. N \in S
    <3>. HIDE DEF S
    <3>1. S = 0 .. N
      BY <1>1, <1>4, <1>5, <2>1, Climb
    <3>. QED
      BY <1>1, <3>1
  <2>. QED
    BY <2>2
<1>7. noted = [n \in 0 .. N |-> IF n = 0 THEN changed ELSE step(n, noted[n - 1])]
  BY <1>6
<1>. HIDE DEF noted, S
<1>8. noted[0] = changed /\ \A n \in 1 .. N : noted[n] = step(n, noted[n - 1])
  BY <1>1, <1>7
<1>. DEFINE G == {n \in 0 .. N : noted[n] \in Seq(Row)}
<1>9. 0 \in G
  BY <1>1, <1>8
<1>10. ASSUME NEW n \in G, n < N PROVE n + 1 \in G
  <2>1. n + 1 \in 1 .. N /\ n + 1 \in 0 .. N /\ (n + 1) - 1 = n
    BY <1>1, <1>10
  <2>2. noted[n + 1] = step(n + 1, noted[n]) /\ noted[n] \in Seq(Row)
    BY <1>8, <2>1
  <2>3. step(n + 1, noted[n]) \in Seq(Row)
    BY <1>3, <2>1, <2>2
  <2>. QED
    BY <2>1, <2>2, <2>3
<1>11. N \in G
  <2>1. G \in SUBSET (0 .. N)
    OBVIOUS
  <2>. HIDE DEF G
  <2>2. G = 0 .. N
    BY <1>1, <1>9, <1>10, <2>1, Climb
  <2>. QED
    BY <1>1, <2>2
<1>. QED
  BY <1>2, <1>11

\* What becomes of the open contribution while one candidate is applied to it.
Contribution ==
  [held : {TRUE}, rows : [Row -> MemoryRow], active : SUBSET Row, changed : Seq(Row),
   left : {batch.left}]

\* The text of one row is written, and no other active row says it.
LEMMA RewrittenKnows ==
  ASSUME NEW b \in Contribution, Knows(b), NEW s \in Row, NEW said \in Said,
         \A k \in b.active \ {s} : b.rows[k].text # said
  PROVE  /\ Timeline!Rewritten(b, s, said) \in Contribution
         /\ Knows(Timeline!Rewritten(b, s, said))
<1>. DEFINE row == [b.rows[s] EXCEPT !.text = said]
            rows == [b.rows EXCEPT ![s] = row]
            d == Timeline!Noted(b.changed, s)
            n == Timeline!Rewritten(b, s, said)
<1>1. b.rows \in [Row -> MemoryRow] /\ b.active \subseteq Row /\ b.left = batch.left
  BY DEF Contribution
<1>2. row \in MemoryRow /\ row.status = b.rows[s].status /\ row.text = said
  BY <1>1 DEF MemoryRow
<1>3. rows \in [Row -> MemoryRow] /\ rows[s] = row /\ \A k \in Row : k # s => rows[k] = b.rows[k]
  BY <1>1, <1>2
<1>4. n = [b EXCEPT !.rows = rows, !.changed = d]
  BY <1>1 DEF Timeline!Rewritten, Contribution
<1>d. d \in Seq(Row)
  BY NotedIsSeq DEF Contribution
<1>. HIDE DEF row, rows, d, n
<1>5. n \in Contribution /\ n.rows = rows /\ n.active = b.active
  BY <1>1, <1>3, <1>4, <1>d DEF Contribution
<1>6. Knows(n)
  <2>1. Timeline!Active(rows) = Timeline!Active(b.rows)
    BY <1>2, <1>3 DEF Timeline!Active
  <2>2. Apart(rows)
    BY <1>1, <1>2, <1>3 DEF Knows, Apart, Timeline!Active
  <2>. QED
    BY <2>1, <2>2, <1>5 DEF Knows
<1>. QED
  BY <1>5, <1>6 DEF n

\* What adding a row makes of the contribution.
LEMMA AddedRows ==
  ASSUME NEW b \in Contribution, NEW m \in Row, NEW said \in Said
  PROVE  /\ Timeline!Added(b, m, said) \in Contribution
         /\ Timeline!Added(b, m, said).rows = [b.rows EXCEPT ![m] = Timeline!New(said)]
         /\ Timeline!Added(b, m, said).active = b.active \union {m}
<1>. DEFINE rows == [b.rows EXCEPT ![m] = Timeline!New(said)]
            d == Timeline!Noted(b.changed, m)
            n == Timeline!Added(b, m, said)
<1>1. b.rows \in [Row -> MemoryRow] /\ b.active \subseteq Row /\ b.left = batch.left
  BY DEF Contribution
<1>2. Timeline!New(said) \in MemoryRow
  BY DEF MemoryRow, Timeline!New, Timeline!Status
<1>3. rows \in [Row -> MemoryRow]
  BY <1>1, <1>2
<1>4. n = [b EXCEPT !.rows = rows, !.active = b.active \union {m}, !.changed = d]
  BY <1>1 DEF Timeline!Added, Contribution
<1>d. d \in Seq(Row)
  BY NotedIsSeq DEF Contribution
<1>. HIDE DEF rows, d, n
<1>5. n \in Contribution /\ n.rows = rows /\ n.active = b.active \union {m}
  BY <1>1, <1>3, <1>4, <1>d DEF Contribution
<1>. QED
  BY <1>5 DEF n, rows

\* A row that was never used is added, and no active row says its text.
LEMMA AddedKnows ==
  ASSUME NEW b \in Contribution, Knows(b), NEW m \in Row, NEW said \in Said,
         \A k \in Timeline!Active(b.rows) \ {m} : b.rows[k].text # said
  PROVE  /\ Timeline!Added(b, m, said) \in Contribution
         /\ Knows(Timeline!Added(b, m, said))
<1>. DEFINE n == Timeline!Added(b, m, said)
<1>1. b.rows \in [Row -> MemoryRow] /\ b.active \subseteq Row
  BY DEF Contribution
<1>2. /\ n \in Contribution
      /\ n.rows = [b.rows EXCEPT ![m] = Timeline!New(said)] /\ n.active = b.active \union {m}
  BY AddedRows
<1>. HIDE DEF n
<1>3. n.rows[m].text = said /\ \A k \in Row : k # m => n.rows[k] = b.rows[k]
  BY <1>1, <1>2 DEF Timeline!New
<1>4. Timeline!Active(n.rows) \subseteq n.active
  BY <1>2, <1>3 DEF Timeline!Active, Knows
<1>5. Apart(n.rows)
  BY <1>1, <1>3 DEF Knows, Apart, Timeline!Active
<1>. QED
  BY <1>2, <1>4, <1>5 DEF Knows, n

\* Rows that are given up are not active any more.
LEMMA MarkedKnows ==
  ASSUME NEW b \in Contribution, NEW ms \in SUBSET Row,
         NEW status \in {"superseded", "deleted"}, Timeline!Active(b.rows) \subseteq b.active,
         \A m, k \in Timeline!Active(b.rows) \ ms : m # k => b.rows[m].text # b.rows[k].text
  PROVE  /\ Timeline!Marked(b, ms, status) \in Contribution
         /\ Knows(Timeline!Marked(b, ms, status))
<1>. DEFINE rows == [m \in Row |-> IF m \in ms THEN [b.rows[m] EXCEPT !.status = status] ELSE b.rows[m]]
            d == Timeline!AllNoted(b.changed, ms)
            n == Timeline!Marked(b, ms, status)
<1>1. b.rows \in [Row -> MemoryRow] /\ b.active \subseteq Row /\ b.left = batch.left
  BY DEF Contribution
<1>2. \A m \in Row : [b.rows[m] EXCEPT !.status = status] \in MemoryRow
                     /\ [b.rows[m] EXCEPT !.status = status].status = status
  BY <1>1 DEF MemoryRow, Timeline!Status
<1>3. /\ rows \in [Row -> MemoryRow]
      /\ \A m \in Row : IF m \in ms THEN rows[m].status = status ELSE rows[m] = b.rows[m]
  BY <1>1, <1>2
<1>4. n = [b EXCEPT !.rows = rows, !.changed = d]
  BY <1>1 DEF Timeline!Marked, Contribution
<1>d. d \in Seq(Row)
  BY AllNotedIsSeq DEF Contribution
<1>. HIDE DEF rows, d, n
<1>5. n \in Contribution /\ n.rows = rows /\ n.active = b.active
  BY <1>1, <1>3, <1>4, <1>d DEF Contribution
<1>6. Knows(n)
  <2>1. Timeline!Active(rows) = Timeline!Active(b.rows) \ ms
    BY <1>3 DEF Timeline!Active
  <2>2. Apart(rows)
    BY <1>1, <1>3, <2>1 DEF Apart, Timeline!Active
  <2>. QED
    BY <2>1, <2>2, <1>5 DEF Knows
<1>. QED
  BY <1>5, <1>6 DEF n

\* Whichever way a candidate goes, what results keeps its rows apart
\* (LivingMemoryService.store looks for an equal text among what it knows).
LEMMA AppliedKnows ==
  ASSUME NEW b \in Contribution, Knows(b),
         NEW op \in {"new", "enrich", "correct", "delete"}, NEW said \in Said, NEW related \in SUBSET b.active,
         op = "new" => related = {}, op = "enrich" => \A m, k \in related : m = k,
         NEW m \in Timeline!Fresh(b.rows) \union {0}, NEW a \in Timeline!Applied(b, op, said, related, m)
  PROVE  a \in Contribution /\ Knows(a)
<1>1. b.rows \in [Row -> MemoryRow] /\ b.active \subseteq Row /\ related \in SUBSET Row
      /\ Timeline!Active(b.rows) \subseteq b.active /\ Apart(b.rows)
  BY DEF Contribution, Knows
<1>f. Timeline!Fresh(b.rows) \subseteq Row
  BY DEF Timeline!Fresh
<1>2. CASE op = "delete"
  <2>1. a = Timeline!Marked(b, related, "deleted")
    BY <1>2 DEF Timeline!Applied
  <2>2. \A k, l \in Timeline!Active(b.rows) \ related : k # l => b.rows[k].text # b.rows[l].text
    BY <1>1 DEF Apart, Timeline!Active
  <2>. QED
    BY <1>1, <2>1, <2>2, MarkedKnows
<1>3. CASE op # "delete" /\ Timeline!Known(b, said, related)
  <2>1. a = b
    BY <1>3 DEF Timeline!Applied
  <2>. QED
    BY <2>1
<1>. DEFINE Unknown == op # "delete" /\ ~ Timeline!Known(b, said, related)
<1>u. Unknown => \A k \in b.active \ related : b.rows[k].text # said
  BY DEF Timeline!Known
<1>4. CASE Unknown /\ op = "enrich" /\ related # {}
  <2>1. PICK s \in related : a = Timeline!Rewritten(b, s, said)
    BY <1>4 DEF Timeline!Applied
  <2>2. related = {s}
    BY <1>4
  <2>. QED
    BY <1>1, <1>4, <1>u, <2>1, <2>2, RewrittenKnows
<1>5. CASE Unknown /\ op = "correct" /\ related # {}
  <2>1. PICK f, x : /\ a = [Timeline!Marked(f, related, "superseded") EXCEPT !.changed = Timeline!Noted(@, x)]
                    /\ f = b \/ (m \in Timeline!Fresh(b.rows) /\ f = Timeline!Added(b, m, said))
                    /\ x \in Row
    <3>. DEFINE similar == b.active \ related
                fresh == IF m \in Timeline!Fresh(b.rows) THEN {Timeline!Added(b, m, said)} ELSE {}
    <3>1. a \in {[Timeline!Marked(g[1], related, "superseded") EXCEPT !.changed = Timeline!Noted(@, g[2])] :
                   g \in {<<b, s>> : s \in similar} \union {<<h, m>> : h \in fresh}}
      BY <1>5 DEF Timeline!Applied
    <3>2. PICK g \in {<<b, s>> : s \in similar} \union {<<h, m>> : h \in fresh} :
            a = [Timeline!Marked(g[1], related, "superseded") EXCEPT !.changed = Timeline!Noted(@, g[2])]
      BY <3>1
    <3>3. /\ g[1] = b \/ (m \in Timeline!Fresh(b.rows) /\ g[1] = Timeline!Added(b, m, said))
          /\ g[2] \in similar \/ (m \in Timeline!Fresh(b.rows) /\ g[2] = m)
      BY <3>2
    <3>4. g[2] \in Row
      BY <1>1, <1>f, <3>3
    <3>. QED
      BY <3>2, <3>3, <3>4
  <2>. DEFINE n == Timeline!Marked(f, related, "superseded")
  <2>2. n \in Contribution /\ Knows(n)
    <3>1. CASE f = b
      <4>1. \A k, l \in Timeline!Active(b.rows) \ related : k # l => b.rows[k].text # b.rows[l].text
        BY <1>1 DEF Apart, Timeline!Active
      <4>. QED
        BY <1>1, <3>1, <4>1, MarkedKnows
    <3>2. CASE m \in Timeline!Fresh(b.rows) /\ f = Timeline!Added(b, m, said)
      <4>1. /\ f.rows = [b.rows EXCEPT ![m] = Timeline!New(said)] /\ f.active = b.active \union {m}
            /\ f \in Contribution
        BY <3>2, <1>1, <1>f, AddedRows
      <4>2. f.rows[m].text = said /\ \A k \in Row : k # m => f.rows[k] = b.rows[k]
        BY <4>1, <1>1, <1>f, <3>2 DEF Timeline!New
      <4>3. Timeline!Active(f.rows) \subseteq f.active
        BY <4>1, <4>2, <1>1 DEF Timeline!Active
      <4>4. \A k, l \in Timeline!Active(f.rows) \ related : k # l => f.rows[k].text # f.rows[l].text
        BY <4>2, <1>1, <1>5, <1>u DEF Apart, Timeline!Active
      <4>. QED
        BY <4>1, <4>3, <4>4, <1>1, MarkedKnows
    <3>. QED
      BY <2>1, <3>1, <3>2
  <2>. HIDE DEF n
  <2>3. a \in Contribution /\ a.rows = n.rows /\ a.active = n.active
    <3>1. a = [n EXCEPT !.changed = Timeline!Noted(n.changed, x)]
      BY <2>1 DEF n
    <3>2. Timeline!Noted(n.changed, x) \in Seq(Row)
      BY <2>1, <2>2, NotedIsSeq DEF Contribution
    <3>. QED
      BY <2>2, <3>1, <3>2 DEF Contribution
  <2>. QED
    BY <2>2, <2>3 DEF Knows
<1>6. CASE Unknown /\ ~ (op \in {"enrich", "correct"} /\ related # {})
  <2>1. related = {}
    BY <1>6
  <2>2. \/ a = b
        \/ \E s \in b.active : a = Timeline!Rewritten(b, s, said)
        \/ m \in Timeline!Fresh(b.rows) /\ a = Timeline!Added(b, m, said)
    BY <1>6, <2>1 DEF Timeline!Applied
  <2>3. ASSUME NEW s \in b.active, a = Timeline!Rewritten(b, s, said)
        PROVE  a \in Contribution /\ Knows(a)
    BY <2>3, <1>1, <1>6, <1>u, <2>1, RewrittenKnows
  <2>4. CASE m \in Timeline!Fresh(b.rows) /\ a = Timeline!Added(b, m, said)
    BY <2>4, <1>1, <1>6, <1>f, <1>u, <2>1, AddedKnows
  <2>5. CASE a = b
    BY <2>5
  <2>. QED
    BY <2>2, <2>3, <2>4, <2>5
<1>. QED
  BY <1>2, <1>3, <1>4, <1>5, <1>6

LEMMA AtMostOneRelated ==
  ASSUME NEW related \in SUBSET Row, Timeline!Cardinality(related) <= 1
  PROVE  \A m, k \in related : m = k
<1>1. IsFiniteSet(related) /\ Cardinality(related) <= 1
  BY MCRecordsAssumption, FS_Subset, TimelineCardinality
<1>. SUFFICES ASSUME NEW m \in related, NEW k \in related, m # k PROVE FALSE
  OBVIOUS
<1>2. IsFiniteSet({m, k}) /\ Cardinality({m, k}) = 2
  <2>1. IsFiniteSet({m}) /\ Cardinality({m}) = 1
    BY FS_Singleton
  <2>2. {m, k} = {m} \union {k} /\ k \notin {m}
    OBVIOUS
  <2>. QED
    BY <2>1, <2>2, FS_AddElement
<1>3. Cardinality({m, k}) <= Cardinality(related)
  BY <1>1, FS_Subset
<1>4. Cardinality(related) \in Nat
  BY <1>1, FS_CardinalityType
<1>. QED
  BY <1>1, <1>2, <1>3, <1>4

MemoryInv ==
  /\ memory \in [Row -> MemoryRow] /\ Apart(memory)
  /\ Timeline!Timeline \in Timelines /\ work \in 0 .. OwnerWork
  /\ batch = Timeline!Free \/ (batch \in Contributions /\ Knows(batch))

\* What no step does to the timeline, as ResolutionHolds says it.
ResolutionStep ==
  \A e \in Timeline!Event :
    event[e].resolved /\ event[e].review = "approved" /\ event'[e].review = "conflict"
      => \E m \in Row : link[e][m] = "none" /\ link'[e][m] = "active"

\* The timeline after a step, and what the step left of it.
Booked == Timeline!Timeline' \in Timelines /\ work' \in 0 .. OwnerWork /\ ResolutionStep

LEMMA MemoryInit == Timeline!Init => MemoryInv
<1>. SUFFICES ASSUME Timeline!Init PROVE MemoryInv
  OBVIOUS
<1>1. memory = [m \in Row |-> Timeline!NoRow] /\ batch = Timeline!Free /\ work = 0
      /\ event = [e \in Timeline!Event |-> Timeline!NoEvent]
      /\ link = [e \in Timeline!Event |-> [m \in Row |-> "none"]]
  BY DEF Timeline!Init
<1>2. Timeline!NoRow \in MemoryRow /\ Timeline!NoRow.status = "none"
  BY DEF Timeline!NoRow, MemoryRow, Timeline!Status
<1>3. Timeline!NoEvent \in EventRow
  BY DEF Timeline!NoEvent, EventRow, Timeline!Dates
<1>4. Timeline!Timeline \in Timelines
  BY <1>1, <1>3 DEF Timeline!Timeline, Timelines
<1>5. memory \in [Row -> MemoryRow] /\ Apart(memory)
  BY <1>1, <1>2 DEF Apart
<1>. QED
  BY <1>1, <1>4, <1>5, MCRecordsAssumption DEF MemoryInv

\* A step that does not touch the timeline.
LEMMA Unbooked ==
  ASSUME MemoryInv, UNCHANGED <<event, link, work>> PROVE Booked
<1>1. Timeline!Timeline' = Timeline!Timeline
  BY DEF Timeline!Timeline
<1>2. ResolutionStep
  BY DEF ResolutionStep
<1>. QED
  BY <1>1, <1>2 DEF Booked, MemoryInv

\* A step that passes the timeline through its bookkeeping.
LEMMA Bookkept ==
  ASSUME MemoryInv, work' = work, NEW tl \in Timelines, Timeline!SetTimeline(tl),
         \/ StaysSettled(Timeline!Timeline, tl)
         \/ \A e \in Timeline!Event : Settled(Timeline!Timeline, e) => tl.event[e] = event[e]
  PROVE  Booked
<1>1. event' = tl.event /\ link' = tl.link
  BY DEF Timeline!SetTimeline
<1>2. Timeline!Timeline' = tl
  BY <1>1 DEF Timeline!Timeline, Timelines
<1>3. Timeline!Timeline.event = event /\ Timeline!Timeline.link = link
  BY DEF Timeline!Timeline
<1>4. ResolutionStep
  <2>. SUFFICES ASSUME NEW e \in Timeline!Event, event[e].resolved, event[e].review = "approved",
                       event'[e].review = "conflict"
                PROVE  \E m \in Row : link[e][m] = "none" /\ link'[e][m] = "active"
    BY DEF ResolutionStep
  <2>1. Settled(Timeline!Timeline, e) /\ ~ Settled(tl, e) /\ tl.event[e] # event[e]
    BY <1>1, <1>3 DEF Settled
  <2>. QED
    BY <2>1, <1>1, <1>3 DEF StaysSettled
<1>. QED
  BY <1>2, <1>4 DEF Booked, MemoryInv

LEMMA BeginKeeps == MemoryInv /\ Timeline!StoreBegin => MemoryInv' /\ Booked
<1>. SUFFICES ASSUME MemoryInv, Timeline!StoreBegin PROVE MemoryInv' /\ Booked
  OBVIOUS
<1>1. /\ batch' = [held |-> TRUE, rows |-> memory, active |-> Timeline!Active(memory),
                   changed |-> <<>>, left |-> MaxBatch]
      /\ memory' = memory /\ UNCHANGED <<event, link, work>>
  BY DEF Timeline!StoreBegin
<1>2. Timeline!Active(memory) \subseteq Row /\ <<>> \in Seq(Row)
  BY EmptySeq DEF Timeline!Active
<1>3. batch' \in Contributions
  BY <1>1, <1>2, MCRecordsAssumption DEF MemoryInv, Contributions
<1>4. /\ batch'.rows = memory /\ batch'.active = Timeline!Active(memory)
  BY <1>1
<1>5. Knows(batch')
  BY <1>4 DEF MemoryInv, Knows
<1>6. Booked
  BY <1>1, Unbooked
<1>7. memory' \in [Row -> MemoryRow] /\ Apart(memory')
  BY <1>1 DEF MemoryInv
<1>. QED
  BY <1>3, <1>5, <1>6, <1>7 DEF MemoryInv, Booked

LEMMA CandidateKeeps ==
  ASSUME NEW op \in {"new", "enrich", "correct", "delete"}, NEW said \in Said,
         NEW related \in SUBSET Row, MemoryInv, Timeline!StoreCandidate(op, said, related)
  PROVE  MemoryInv' /\ Booked
<1>1. /\ batch.held /\ batch.left > 0 /\ related \subseteq batch.active
      /\ op = "new" => related = {}
      /\ op = "enrich" => Timeline!Cardinality(related) <= 1
      /\ memory' = memory /\ UNCHANGED <<event, link, work>>
  BY DEF Timeline!StoreCandidate
<1>2. batch \in Contributions /\ Knows(batch)
  BY <1>1 DEF MemoryInv, Timeline!Free
<1>3. batch \in Contribution /\ batch.left \in 0 .. MaxBatch
  BY <1>2 DEF Contributions, Contribution
<1>4. PICK m \in Timeline!Fresh(batch.rows) \union {0} :
        \E b \in Timeline!Applied(batch, op, said, related, m) : batch' = [b EXCEPT !.left = @ - 1]
  BY DEF Timeline!StoreCandidate
<1>5. PICK b \in Timeline!Applied(batch, op, said, related, m) : batch' = [b EXCEPT !.left = @ - 1]
  BY <1>4
<1>6. op = "enrich" => \A k, l \in related : k = l
  BY <1>1, AtMostOneRelated
<1>7. b \in Contribution /\ Knows(b)
  BY <1>1, <1>2, <1>3, <1>6, AppliedKnows
<1>8. b.left - 1 \in 0 .. MaxBatch
  BY <1>1, <1>3, <1>7, MCRecordsAssumption DEF Contribution
<1>9. batch' \in Contributions /\ batch'.rows = b.rows /\ batch'.active = b.active
  BY <1>5, <1>7, <1>8 DEF Contribution, Contributions
<1>10. Knows(batch')
  BY <1>7, <1>9 DEF Knows
<1>11. Booked
  BY <1>1, Unbooked
<1>12. memory' \in [Row -> MemoryRow] /\ Apart(memory')
  BY <1>1 DEF MemoryInv
<1>. QED
  BY <1>9, <1>10, <1>11, <1>12 DEF MemoryInv, Booked

LEMMA CommitKeeps ==
  MemoryInv /\ (Timeline!StoreCommit \/ Timeline!StoreRollback) => MemoryInv' /\ Booked
<1>1. ASSUME MemoryInv, Timeline!StoreCommit PROVE MemoryInv' /\ Booked
  <2>1. batch.held /\ memory' = batch.rows /\ batch' = Timeline!Free /\ work' = work
    BY <1>1 DEF Timeline!StoreCommit
  <2>2. batch \in Contributions /\ Knows(batch)
    BY <1>1, <2>1 DEF MemoryInv, Timeline!Free
  <2>3. batch.rows \in [Row -> MemoryRow] /\ batch.changed \in Seq(Row) /\ Apart(batch.rows)
    BY <2>2 DEF Contributions, Knows
  <2>4. PICK first \in Timeline!Event :
          Timeline!SetTimeline(Timeline!AllReconciled(Timeline!Timeline, batch.rows, batch.changed, first))
    BY <1>1 DEF Timeline!StoreCommit
  <2>. DEFINE tl == Timeline!AllReconciled(Timeline!Timeline, batch.rows, batch.changed, first)
  <2>5. Timeline!Timeline \in Timelines
    BY <1>1 DEF MemoryInv
  <2>6. tl \in Timelines /\ StaysSettled(Timeline!Timeline, tl) /\ Timeline!SetTimeline(tl)
    BY <2>3, <2>4, <2>5, AllReconciledKeeps
  <2>. HIDE DEF tl
  <2>7. Booked
    BY <1>1, <2>1, <2>6, Bookkept
  <2>8. memory' \in [Row -> MemoryRow] /\ Apart(memory')
    BY <2>1, <2>3
  <2>. QED
    BY <2>1, <2>7, <2>8 DEF MemoryInv, Booked
<1>2. ASSUME MemoryInv, Timeline!StoreRollback PROVE MemoryInv' /\ Booked
  <2>1. memory' = memory /\ batch' = Timeline!Free /\ UNCHANGED <<event, link, work>>
    BY <1>2 DEF Timeline!StoreRollback
  <2>2. Booked
    BY <1>2, <2>1, Unbooked
  <2>3. memory' \in [Row -> MemoryRow] /\ Apart(memory')
    BY <1>2, <2>1 DEF MemoryInv
  <2>. QED
    BY <2>1, <2>2, <2>3 DEF MemoryInv, Booked
<1>. QED
  BY <1>1, <1>2

\* An active memory is structured again, one that is not leaves the events it supports.
LEMMA ReconciledKeeps ==
  ASSUME NEW tl \in Timelines, NEW rows \in [Row -> MemoryRow], NEW m \in Row, NEW first \in Timeline!Event
  PROVE  LET t == Timeline!Reconciled(tl, rows, m, first)
         IN  /\ t \in Timelines
             /\ \/ StaysSettled(tl, t)
                \/ \A e \in Timeline!Event : Settled(tl, e) => t.event[e] = tl.event[e]
<1>. DEFINE held == {e \in Timeline!Event : tl.link[e][m] = "active"}
            links == [e \in Timeline!Event |->
                        IF e \in held THEN [tl.link[e] EXCEPT ![m] = "stale"] ELSE tl.link[e]]
            dropped == [tl EXCEPT !.link = links]
            again(e) == Timeline!Refreshed(dropped, rows, e).event[e]
            events == [e \in Timeline!Event |-> IF e \in held THEN again(e) ELSE dropped.event[e]]
            t == Timeline!Reconciled(tl, rows, m, first)
<1>1. CASE rows[m].status = "active"
  <2>1. t = Timeline!Structured(tl, rows, m, first)
    BY <1>1 DEF Timeline!Reconciled
  <2>. HIDE DEF t
  <2>2. t \in Timelines /\ StaysSettled(tl, t)
    BY <2>1, StructuredKeeps
  <2>. QED
    BY <2>2 DEF t
<1>2. CASE rows[m].status # "active"
  <2>1. t = [dropped EXCEPT !.event = events]
    BY <1>2 DEF Timeline!Reconciled
  <2>2. links \in [Timeline!Event -> [Row -> {"none", "active", "stale"}]]
    BY DEF Timelines
  <2>. HIDE DEF links
  <2>3. dropped \in Timelines /\ dropped.event = tl.event
    BY <2>2 DEF Timelines
  <2>. HIDE DEF dropped
  <2>4. ASSUME NEW e \in Timeline!Event
        PROVE  again(e) \in EventRow /\ (Settled(tl, e) => again(e) = tl.event[e])
    <3>1. /\ Timeline!Refreshed(dropped, rows, e) \in Timelines
          /\ Settled(dropped, e) => Timeline!Refreshed(dropped, rows, e) = dropped
      BY <2>3, RefreshedKeeps
    <3>2. Settled(tl, e) => Settled(dropped, e)
      BY <2>3 DEF Settled
    <3>. QED
      BY <2>3, <3>1, <3>2 DEF Timelines
  <2>. HIDE DEF again, held, t
  <2>5. tl.event \in [Timeline!Event -> EventRow]
    BY DEF Timelines
  <2>6. /\ events \in [Timeline!Event -> EventRow]
        /\ \A e \in Timeline!Event : Settled(tl, e) => events[e] = tl.event[e]
    BY <2>3, <2>4, <2>5
  <2>. HIDE DEF events
  <2>7. t \in Timelines /\ t.event = events
    BY <2>1, <2>3, <2>6 DEF Timelines
  <2>. QED
    BY <2>6, <2>7 DEF t
<1>. QED
  BY <1>1, <1>2

\* A step that reconciles one memory.
LEMMA ReconciledBooks ==
  ASSUME MemoryInv, work' = work, memory' \in [Row -> MemoryRow], NEW m \in Row, NEW first \in Timeline!Event,
         Timeline!SetTimeline(Timeline!Reconciled(Timeline!Timeline, memory', m, first))
  PROVE  Booked
<1>. DEFINE t == Timeline!Reconciled(Timeline!Timeline, memory', m, first)
<1>1. Timeline!Timeline \in Timelines /\ Timeline!Timeline.event = event
  BY DEF MemoryInv, Timeline!Timeline
<1>2. /\ t \in Timelines /\ Timeline!SetTimeline(t)
      /\ \/ StaysSettled(Timeline!Timeline, t)
         \/ \A e \in Timeline!Event : Settled(Timeline!Timeline, e) => t.event[e] = event[e]
  BY <1>1, ReconciledKeeps
<1>. HIDE DEF t
<1>. QED
  BY <1>2, Bookkept

LEMMA EditKeeps ==
  ASSUME NEW m \in Row, NEW said \in Said, MemoryInv, Timeline!Edit(m, said)
  PROVE  MemoryInv' /\ Booked
<1>1. /\ ~ batch.held /\ batch' = batch /\ work' = work
      /\ memory[m].status = "active"
      /\ \A k \in Timeline!Active(memory) \ {m} : memory[k].text # said
      /\ memory' = [memory EXCEPT ![m].text = said]
      /\ \E first \in Timeline!Event :
           Timeline!SetTimeline(Timeline!Reconciled(Timeline!Timeline, memory', m, first))
  BY DEF Timeline!Edit, Timeline!Twin
<1>. DEFINE row == [memory[m] EXCEPT !.text = said]
<1>2. row \in MemoryRow /\ row.text = said /\ row.status = "active"
  BY <1>1 DEF MemoryInv, MemoryRow
<1>3. memory' = [memory EXCEPT ![m] = row]
  BY <1>1
<1>. HIDE DEF row
<1>4. /\ memory' \in [Row -> MemoryRow] /\ memory'[m] = row
      /\ \A k \in Row : k # m => memory'[k] = memory[k]
  BY <1>2, <1>3 DEF MemoryInv
<1>5. Apart(memory')
  BY <1>1, <1>2, <1>4 DEF MemoryInv, Apart, Timeline!Active
<1>6. batch' = Timeline!Free
  BY <1>1 DEF MemoryInv, Contributions
<1>7. Booked
  BY <1>1, <1>4, ReconciledBooks
<1>. QED
  BY <1>4, <1>5, <1>6, <1>7 DEF MemoryInv, Booked

LEMMA DeleteKeeps ==
  ASSUME NEW m \in Row, MemoryInv, Timeline!Delete(m)
  PROVE  MemoryInv' /\ Booked
<1>1. /\ ~ batch.held /\ batch' = batch /\ work' = work /\ memory' = [memory EXCEPT ![m].status = "deleted"]
      /\ \E first \in Timeline!Event :
           Timeline!SetTimeline(Timeline!Reconciled(Timeline!Timeline, memory', m, first))
  BY DEF Timeline!Delete
<1>. DEFINE row == [memory[m] EXCEPT !.status = "deleted"]
<1>2. row \in MemoryRow /\ row.status = "deleted"
  BY DEF MemoryInv, MemoryRow, Timeline!Status
<1>3. memory' = [memory EXCEPT ![m] = row]
  BY <1>1
<1>. HIDE DEF row
<1>4. /\ memory' \in [Row -> MemoryRow] /\ memory'[m] = row
      /\ \A k \in Row : k # m => memory'[k] = memory[k]
  BY <1>2, <1>3 DEF MemoryInv
<1>5. Apart(memory')
  BY <1>2, <1>4 DEF MemoryInv, Apart
<1>6. batch' = Timeline!Free
  BY <1>1 DEF MemoryInv, Contributions
<1>7. Booked
  BY <1>1, <1>4, ReconciledBooks
<1>. QED
  BY <1>4, <1>5, <1>6, <1>7 DEF MemoryInv, Booked

LEMMA PreserveKeeps ==
  ASSUME NEW said \in Said, MemoryInv, Timeline!Preserve(said)
  PROVE  MemoryInv' /\ Booked
<1>1. /\ ~ batch.held /\ batch' = batch /\ UNCHANGED <<event, link, work>>
      /\ \A k \in Timeline!Active(memory) : memory[k].text # said
      /\ \E m \in Timeline!Fresh(memory) : memory' = [memory EXCEPT ![m] = Timeline!New(said)]
  BY DEF Timeline!Preserve
<1>2. PICK m \in Row : memory' = [memory EXCEPT ![m] = Timeline!New(said)]
  BY <1>1 DEF Timeline!Fresh
<1>3. Timeline!New(said) \in MemoryRow /\ Timeline!New(said).text = said
  BY DEF MemoryRow, Timeline!New, Timeline!Status
<1>4. /\ memory' \in [Row -> MemoryRow] /\ memory'[m] = Timeline!New(said)
      /\ \A k \in Row : k # m => memory'[k] = memory[k]
  BY <1>2, <1>3 DEF MemoryInv
<1>5. Apart(memory')
  BY <1>1, <1>3, <1>4 DEF MemoryInv, Apart, Timeline!Active
<1>6. batch' = Timeline!Free
  BY <1>1 DEF MemoryInv, Contributions
<1>7. Booked
  BY <1>1, Unbooked
<1>. QED
  BY <1>4, <1>5, <1>6, <1>7 DEF MemoryInv, Booked

\* A route of the owner rewrites one event and does not put it in conflict.
LEMMA OwnerBooks ==
  ASSUME MemoryInv, Timeline!Work, NEW e \in Timeline!Event, NEW row \in EventRow,
         row.review = event[e].review \/ row.review # "conflict",
         event' = [event EXCEPT ![e] = row],
         link' \in [Timeline!Event -> [Row -> {"none", "active", "stale"}]]
  PROVE  Booked
<1>1. event \in [Timeline!Event -> EventRow] /\ work \in 0 .. OwnerWork
  BY DEF MemoryInv, Timeline!Timeline, Timelines
<1>2. work' \in 0 .. OwnerWork
  BY <1>1, MCRecordsAssumption DEF Timeline!Work
<1>3. /\ event' \in [Timeline!Event -> EventRow] /\ event'[e] = row
      /\ \A f \in Timeline!Event : f # e => event'[f] = event[f]
  BY <1>1
<1>4. Timeline!Timeline' \in Timelines
  BY <1>3 DEF Timeline!Timeline, Timelines
<1>5. ResolutionStep
  BY <1>3 DEF ResolutionStep
<1>. QED
  BY <1>2, <1>4, <1>5 DEF Booked

LEMMA OwnerKeeps == MemoryInv /\ Timeline!Owner => MemoryInv' /\ Booked
<1>. SUFFICES ASSUME MemoryInv, Timeline!Owner PROVE MemoryInv' /\ Booked
  OBVIOUS
<1>1. memory' = memory /\ batch' = batch /\ ~ batch.held /\ Timeline!Work
  BY DEF Timeline!Owner, Timeline!Create, Timeline!Patch, Timeline!Archive, Timeline!Approve,
         Timeline!Resolve, Timeline!Work
<1>2. /\ event \in [Timeline!Event -> EventRow]
      /\ link \in [Timeline!Event -> [Row -> {"none", "active", "stale"}]]
  BY DEF MemoryInv, Timeline!Timeline, Timelines
<1>3. Booked
  <2>1. ASSUME NEW named \in BOOLEAN, NEW date \in Timeline!Dates, NEW ms \in SUBSET Row,
               Timeline!Create(named, date, ms)
        PROVE  Booked
    <3>. DEFINE row == [life |-> "active", named |-> named, date |-> date, resolved |-> FALSE,
                        review |-> IF ms = {} THEN "needs_review" ELSE "approved"]
    <3>1. event' = [event EXCEPT !["owner"] = row] /\ "owner" \in Timeline!Event
      BY <2>1 DEF Timeline!Create, Timeline!Event
    <3>2. row \in EventRow /\ row.review # "conflict"
      BY DEF EventRow
    <3>3. link' \in [Timeline!Event -> [Row -> {"none", "active", "stale"}]]
      BY <1>2, <2>1 DEF Timeline!Create
    <3>. HIDE DEF row
    <3>. QED
      BY <1>1, <3>1, <3>2, <3>3, OwnerBooks
  <2>2. ASSUME NEW e \in Timeline!Event, NEW named \in BOOLEAN, NEW date \in Timeline!Dates,
               Timeline!Patch(e, named, date)
        PROVE  Booked
    <3>. DEFINE row == [event[e] EXCEPT !.named = named, !.date = date]
    <3>1. event' = [event EXCEPT ![e] = row] /\ link' = link
      BY <1>2, <2>2 DEF Timeline!Patch, EventRow
    <3>2. row \in EventRow /\ row.review = event[e].review
      BY <1>2 DEF EventRow
    <3>. HIDE DEF row
    <3>. QED
      BY <1>1, <1>2, <3>1, <3>2, OwnerBooks
  <2>3. ASSUME NEW e \in Timeline!Event, Timeline!Archive(e) PROVE Booked
    <3>. DEFINE row == [event[e] EXCEPT !.life = "deleted", !.review = "archived"]
    <3>1. event' = [event EXCEPT ![e] = row] /\ link' = link
      BY <1>2, <2>3 DEF Timeline!Archive, EventRow
    <3>2. row \in EventRow /\ row.review # "conflict"
      BY <1>2 DEF EventRow
    <3>. HIDE DEF row
    <3>. QED
      BY <1>1, <1>2, <3>1, <3>2, OwnerBooks
  <2>4. ASSUME NEW e \in Timeline!Event, Timeline!Approve(e) PROVE Booked
    <3>. DEFINE row == [event[e] EXCEPT !.review = "approved"]
    <3>1. event' = [event EXCEPT ![e] = row] /\ link' = link
      BY <1>2, <2>4 DEF Timeline!Approve, EventRow
    <3>2. row \in EventRow /\ row.review # "conflict"
      BY <1>2 DEF EventRow
    <3>. HIDE DEF row
    <3>. QED
      BY <1>1, <1>2, <3>1, <3>2, OwnerBooks
  <2>5. ASSUME NEW e \in Timeline!Event, Timeline!Resolve(e) PROVE Booked
    <3>. DEFINE row == [event[e] EXCEPT !.review = "approved", !.resolved = TRUE]
    <3>1. event' = [event EXCEPT ![e] = row] /\ link' = link
      BY <1>2, <2>5 DEF Timeline!Resolve, EventRow
    <3>2. row \in EventRow /\ row.review # "conflict"
      BY <1>2 DEF EventRow
    <3>. HIDE DEF row
    <3>. QED
      BY <1>1, <1>2, <3>1, <3>2, OwnerBooks
  <2>. QED
    BY <2>1, <2>2, <2>3, <2>4, <2>5 DEF Timeline!Owner
<1>4. batch = Timeline!Free
  BY <1>1 DEF MemoryInv, Contributions
<1>5. batch' = Timeline!Free /\ memory' \in [Row -> MemoryRow] /\ Apart(memory')
  BY <1>1, <1>4 DEF MemoryInv
<1>. QED
  BY <1>3, <1>5 DEF MemoryInv, Booked

LEMMA MemoryNext == MemoryInv /\ [Timeline!Next]_timeline => MemoryInv' /\ [ResolutionStep]_timeline
<1>. SUFFICES ASSUME MemoryInv, [Timeline!Next]_timeline PROVE MemoryInv' /\ [ResolutionStep]_timeline
  OBVIOUS
<1>1. CASE Timeline!Contribution
  <2>1. CASE \E op \in {"new", "enrich", "correct", "delete"}, said \in Said, related \in SUBSET Row :
               Timeline!StoreCandidate(op, said, related)
    BY <2>1, CandidateKeeps DEF Booked
  <2>. QED
    BY <1>1, <2>1, BeginKeeps, CommitKeeps DEF Timeline!Contribution, Booked
<1>2. CASE Timeline!Dashboard
  BY <1>2, EditKeeps, DeleteKeeps, PreserveKeeps DEF Timeline!Dashboard, Booked
<1>3. CASE Timeline!Owner
  BY <1>3, OwnerKeeps DEF Booked
<1>4. CASE UNCHANGED timeline
  BY <1>4 DEF timeline, MemoryInv, Apart, Contributions, Knows, Timeline!Timeline
<1>. QED
  BY <1>1, <1>2, <1>3, <1>4 DEF Timeline!Next

\* The invariant has the rows, the events and the contribution of their types.
LEMMA MemoryTyped == MemoryInv => Timeline!TypeOK
<1>. SUFFICES ASSUME MemoryInv PROVE Timeline!TypeOK
  OBVIOUS
<1>1. /\ event \in [Timeline!Event -> EventRow]
      /\ link \in [Timeline!Event -> [Row -> {"none", "active", "stale"}]]
  BY DEF MemoryInv, Timeline!Timeline, Timelines
<1>2. batch.held => batch \in Contributions
  BY DEF MemoryInv, Timeline!Free
<1>. QED
  BY <1>1, <1>2 DEF MemoryInv, Timeline!TypeOK, MemoryRow, EventRow, Contributions

-----------------------------------------------------------------------------
(* What AllSpec says of the parts together.                                *)

RecordsInv == SetupInv /\ JourneyInv /\ TellingInv /\ MemoryInv

LEMMA EachBegins == AllInit => Init /\ RecordsInv
BY SetupInit, JourneyInit, TellingInit, MemoryInit DEF AllInit, RecordsInv

LEMMA EachSteps ==
  [AllNext]_all =>
    /\ [Next]_vars /\ [Setup!Next]_setup /\ [Journey!Next]_journey
    /\ [Telling!Next]_telemetry /\ [Timeline!Next]_timeline
BY DEF AllNext, all, text

LEMMA RecordsKept == RecordsInv /\ [AllNext]_all => RecordsInv' /\ [ResolutionStep]_timeline
BY EachSteps, SetupNext, JourneyNext, TellingNext, MemoryNext DEF RecordsInv

\* Each part keeps its invariant (legacy_setup.py, progression.py, turn_observability.py,
\* memory.py).
THEOREM EachPartHolds == AllSpec => []RecordsInv
<1>1. AllInit => RecordsInv
  BY EachBegins
<1>. QED
  BY <1>1, RecordsKept, PTL DEF AllSpec

\* No two active memories of a Legacy say the same, whatever contributions apply to which
\* related memories and however edits, deletions and preserved facts come between them
\* (memory.py).
THEOREM NoTwinsKept == AllSpec => []NoTwins
<1>1. RecordsInv => NoTwins
  BY ApartIsNoTwins DEF RecordsInv, MemoryInv
<1>. QED
  BY <1>1, EachPartHolds, PTL

\* What the owner resolved stays resolved until another memory joins the event, however
\* contributions, edits and deletions are reconciled (timeline.py `_refresh_conflict',
\* `structure_memory', `reconcile_memory').
THEOREM ResolutionIsKept == AllSpec => ResolutionHolds
<1>1. [][ResolutionStep]_timeline => Timeline!ResolutionHolds
  <2>1. [ResolutionStep]_timeline =>
          [\A e \in Timeline!Event :
             event[e].resolved /\ event[e].review = "approved" /\ event'[e].review = "conflict"
               => \E m \in Row : link[e][m] = "none" /\ link'[e][m] = "active"]_(Timeline!vars)
    BY DEF ResolutionStep, timeline, Timeline!vars
  <2>. QED
    BY <2>1, PTL DEF Timeline!ResolutionHolds
<1>. QED
  BY <1>1, RecordsKept, EachPartHolds, PTL DEF AllSpec, ResolutionHolds

\* For any number of callers and any limit no person gets more Legacies than an enforced
\* plan has room for, an active Legacy has everything the setup asks for, and one
\* contribution a day is told that it came first (legacy_setup.py, progression.py).
THEOREM BuildingIsSafe == AllSpec => []BuildingHolds
<1>1. RecordsInv => BuildingHolds
  BY DEF RecordsInv, SetupInv, JourneyInv, JourneyRows, BuildingHolds, Journey!FirstOnce
<1>. QED
  BY <1>1, EachPartHolds, PTL

\* For any number of turns, calls and threads one thread empties the queue, and a turn
\* tells of each call and of its own end once (turn_observability.py, usage_accounting.py).
THEOREM TelemetryIsTold == AllSpec => []TelemetryHolds
<1>1. RecordsInv => TelemetryHolds
  BY DEF RecordsInv, TellingInv, SinkInv, TelemetryHolds, Telling!OneConsumer
<1>. QED
  BY <1>1, EachPartHolds, PTL

\* The rows, requests, queues, events and transactions of every part have their types.
THEOREM RecordsTyped == AllSpec => []RecordsTypeOK
<1>1. AllSpec => Spec
  <2>1. AllInit => Init
    BY EachBegins
  <2>2. [AllNext]_all => [Next]_vars
    BY EachSteps
  <2>. QED
    BY <2>1, <2>2, PTL DEF AllSpec, Spec
<1>2. (JourneyInv => Journey!TypeOK) /\ (MemoryInv => Timeline!TypeOK)
  BY JourneyTyped, MemoryTyped
<1>3. RecordsInv /\ TypeOK => RecordsTypeOK
  BY <1>2 DEF RecordsInv, SetupInv, TellingInv, RecordsTypeOK
<1>. QED
  BY <1>1, <1>3, TypeCorrect, EachPartHolds, PTL
=============================================================================
