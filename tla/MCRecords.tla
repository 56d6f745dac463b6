------------------------------ MODULE MCRecords ------------------------------
(***************************************************************************)
(* Small instances of five components that keep an account's records and   *)
(* share no variables, checked one after the other in one run of TLC:      *)
(* `part` says which of them moves, the others stay as they began.         *)
(***************************************************************************)
EXTENDS PlanText, Sequences

CONSTANTS Caller, Person,
          Row, Date, MaxBatch, OwnerWork,      \* of the timeline
          OwnedLimit, MaxLegacy,                     \* of the setup
          DayWork,                             \* of the journey
          Chat, Loop, Thread, Capacity, Called \* of the telemetry

ASSUME MCRecordsAssumption ==
  /\ {MaxBatch, OwnerWork, OwnedLimit, MaxLegacy, DayWork, Capacity, Called} \subseteq Nat
  /\ IsFiniteSet(Row) /\ Row = 1 .. Cardinality(Row)

VARIABLES part,
          memory, event, link, batch, work,
          enforced, legacy, active, holder, req,
          count, firsts, question, conversation, lock, visit,
          observed, provider, told, putting, sink

text == vars
timeline == <<memory, event, link, batch, work>>
setup == <<enforced, legacy, active, holder, req>>
journey == <<count, firsts, question, conversation, lock, visit>>
telemetry == <<observed, provider, told, putting, sink>>
all == <<part, text, timeline, setup, journey, telemetry>>

\* Texts that tell of the event on each date, and one that tells of none.
Said == {[event |-> TRUE, date |-> d, word |-> 1] : d \in Date}
          \union {[event |-> FALSE, date |-> 0, word |-> 1]}

Timeline == INSTANCE MemoryTimeline WITH Memory <- Row, MaxWork <- OwnerWork, Text <- Said

Setup == INSTANCE LegacySetup WITH Req <- Caller, Limit <- OwnedLimit

Journey == INSTANCE BuilderJourney WITH
             Req <- Caller, MaxWork <- DayWork, req <- visit, talk <- conversation

Telling == INSTANCE Telemetry WITH
             Turn <- Chat, MaxCall <- Called, turn <- observed, call <- provider, out <- putting

AllInit ==
  /\ part \in {"text", "timeline", "setup", "journey", "telemetry"}
  /\ Init /\ Timeline!Init /\ Setup!Init /\ Journey!Init /\ Telling!Init
  /\ part /= "setup" => enforced

AllNext ==
  /\ UNCHANGED part
  /\ \/ part = "text" /\ Next /\ UNCHANGED <<timeline, setup, journey, telemetry>>
     \/ part = "timeline" /\ Timeline!Next /\ UNCHANGED <<text, setup, journey, telemetry>>
     \/ part = "setup" /\ Setup!Next /\ UNCHANGED <<text, timeline, journey, telemetry>>
     \/ part = "journey" /\ Journey!Next /\ UNCHANGED <<text, timeline, setup, telemetry>>
     \/ part = "telemetry" /\ Telling!Next /\ UNCHANGED <<text, timeline, setup, journey>>

AllSpec == AllInit /\ [][AllNext]_all

\* The columns, the transactions and the requests of each component have their types.
RecordsTypeOK ==
  /\ part = "text" => TypeOK
  /\ part = "timeline" => Timeline!TypeOK
  /\ part = "setup" => Setup!TypeOK
  /\ part = "journey" => Journey!TypeOK
  /\ part = "telemetry" => Telling!TypeOK

\* No two active memories of a Legacy say the same (memory.py).
NoTwins == Timeline!NoTwins

\* What the owner resolved on the timeline stays resolved until another memory joins
\* the event (timeline.py).
ResolutionHolds == Timeline!ResolutionHolds

\* No person gets more Legacies than an enforced plan has room for, a Legacy that
\* became active has everything the setup asks for, and one contribution a day is told
\* that it came first (legacy_setup.py, progression.py).
BuildingHolds == Setup!CapacityHolds /\ Setup!ActiveIsComplete /\ Journey!FirstOnce

\* One thread empties the queue of events, and a turn tells of each call it made and of
\* its own end once (turn_observability.py, usage_accounting.py).
TelemetryHolds == Telling!OneConsumer /\ Telling!ToldOnce
=============================================================================
