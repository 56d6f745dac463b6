------------------------------ MODULE MCIntake ------------------------------
(***************************************************************************)
(* Small instances of two components that take in what people send and     *)
(* share no variables: media sources with their review, and messages of a  *)
(* builder and a persona chat beside a live call.  They are checked one    *)
(* after the other in one run of TLC: `part` says which of them moves, the *)
(* other one stays as it began.                                            *)
(***************************************************************************)
EXTENDS MediaPipeline, TLC

CONSTANTS LiveTurn, Key, Content

VARIABLES part, req, turn, live, gate, fin, effect, writer

media == vars
messages == <<req, turn, live, gate, fin, effect, writer>>
both == <<part, media, messages>>

Turns == INSTANCE TurnLifecycle WITH
           Request <- Tab, Recovery <- {}, Conversation <- {"builder", "persona"}, Builder <- {"builder"},
           RealtimeEnabled <- TRUE

BothInit ==
  /\ part \in {"media", "messages"}
  /\ Init /\ Turns!Init
  /\ part = "messages" => adapter = "local" /\ portrait = "none"

BothNext ==
  /\ UNCHANGED part
  /\ \/ part = "media" /\ Next /\ UNCHANGED messages
     \/ part = "messages" /\ Turns!Next /\ UNCHANGED media

BothSpec == BothInit /\ [][BothNext]_both

Sym == Permutations(Worker) \cup Permutations(Tab)

\* The rows, the workers, the tabs and the requests have their types.
IntakeTypeOK ==
  /\ part = "media" => TypeOK
  /\ part = "messages" => Turns!TypeOK

\* Message links match the state of their turn, and the turn table is one of the
\* histories the ledger allows (turn_lifecycle.py, the message routes).
MessagesHold == Turns!MessagesHold
=============================================================================
