----------------------------- MODULE LegacySetup -----------------------------
(***************************************************************************)
(* How one person's Legacies come to be: the three ways to make or find a  *)
(* Legacy that still collects its identity (POST /legacies/setup, POST     *)
(* /legacies/setup/bootstrap, and the first conversation), and the         *)
(* messages that fill in whom it is about (services/legacy_setup), which   *)
(* may arrive in several conversations at once.                            *)
(*                                                                         *)
(* A message is heard as what extract_legacy_identity finds in it.  A      *)
(* route reads the Legacy when it begins and writes the columns it changed *)
(* when it commits: at once in the streaming route, after the assistant's  *)
(* answer in the other one, which also drops them when the answer fails.   *)
(***************************************************************************)
EXTENDS Naturals, FiniteSets

CONSTANTS
  Req,        \* requests that may run at a time
  MaxLegacy,  \* bound: Legacies ever made
  Limit       \* the plan's capacity of owned Legacies

VARIABLES
  enforced,   \* plans_enforcement_enabled
  legacy,     \* the person's Legacies
  active,     \* users.active_legacy_id, 0 for none
  holder,     \* requests that hold the person's row or the plan's lock
  req         \* requests in progress

vars == <<enforced, legacy, active, holder, req>>

Legacies == 1 .. MaxLegacy
Nobody == [status |-> "free", target |-> "unknown", relation |-> "unknown", name |-> "unknown"]
Identity == [status : {"free", "collecting_identity", "active"}, target : {"unknown", "self", "other"},
             relation : {"unknown", "self", "relative"}, name : {"unknown", "known"}]
Idle == [at |-> "idle", path |-> "none", of |-> 0, read |-> Nobody]

TypeOK ==
  /\ enforced \in BOOLEAN
  /\ legacy \in [Legacies -> Identity]
  /\ active \in 0 .. MaxLegacy
  /\ holder \subseteq Req
  /\ req \in [Req -> [at : {"idle", "looked", "admitted", "heard"}, path : {"none", "setup", "bootstrap", "first"},
                      of : 0 .. MaxLegacy, read : Identity]]

Init ==
  /\ enforced \in BOOLEAN
  /\ legacy = [l \in Legacies |-> Nobody]
  /\ active = 0
  /\ holder = {}
  /\ req = [q \in Req |-> Idle]

-----------------------------------------------------------------------------
(* Making and finding Legacies.                                            *)

Made == {l \in Legacies : legacy[l].status # "free"}
Collecting == {l \in Made : legacy[l].status = "collecting_identity"}

\* pending_or_new_legacy: nothing to do where the selected Legacy still
\* collects, else any that does, or none; the first conversation is content
\* with an active one, and POST /legacies/setup always wants a new one.
Finds(path, seen) ==
  CASE path = "setup" -> {0}
    [] path = "first" /\ seen \in Made -> {}
    [] seen \in Collecting -> {}
    [] OTHER -> IF Collecting = {} THEN {0} ELSE Collecting

\* bootstrap_legacy_setup locks the person's row before it looks; the pointer
\* it goes by is the one the request was authenticated with.
Look(q, path) ==
  /\ req[q] = Idle
  /\ path = "bootstrap" => holder = {}
  /\ holder' = IF path = "bootstrap" THEN holder \union {q} ELSE holder
  /\ \E seen \in Made \union {0} : \E l \in Finds(path, seen) :
       req' = [req EXCEPT ![q] = [at |-> "looked", path |-> path, of |-> l, read |-> Nobody]]
  /\ UNCHANGED <<enforced, legacy, active>>

Ends(q) == req' = [req EXCEPT ![q] = Idle] /\ holder' = holder \ {q}

\* A Legacy that was found becomes the selected one.
Select(q) ==
  /\ req[q].at = "looked" /\ req[q].of # 0
  /\ active' = req[q].of
  /\ Ends(q)
  /\ UNCHANGED <<enforced, legacy>>

\* Mutant of the next definition: the capacity is checked beside the others.
AloneNever(q) == TRUE

\* SELECT ... FOR UPDATE of the person, and the plan's advisory lock.
Alone(q) == holder \subseteq {q}

\* create_collecting_legacy, under enforcement: lock, then the capacity.
Admit(q) ==
  /\ req[q].at = "looked" /\ req[q].of = 0
  /\ \/ ~ enforced /\ UNCHANGED holder
        /\ req' = [req EXCEPT ![q].at = "admitted"]
     \/ /\ enforced /\ Alone(q)
        /\ IF Cardinality(Made) < Limit
             THEN holder' = holder \union {q} /\ req' = [req EXCEPT ![q].at = "admitted"]
             ELSE Ends(q)
  /\ UNCHANGED <<enforced, legacy, active>>

Create(q) ==
  /\ req[q].at = "admitted"
  /\ \E l \in Legacies \ Made :
       /\ \A k \in Legacies : k < l => k \in Made
       /\ legacy' = [legacy EXCEPT ![l] = [Nobody EXCEPT !.status = "collecting_identity"]]
       /\ active' = l
  /\ Ends(q)
  /\ UNCHANGED enforced

\* POST /legacies/{id}/select.
Choose ==
  /\ \E l \in Made : active' = l
  /\ UNCHANGED <<enforced, legacy, holder, req>>

-----------------------------------------------------------------------------
(* Messages.                                                               *)

\* What a message may say: whether it is about the writer, whose relative it
\* is about, and a name; the account's own name counts as one said in a
\* message about the writer.
Messages ==
  {m \in [target : {"unknown", "self", "other"}, relation : {"unknown", "self", "relative"},
           name : {"unknown", "known"}] :
     /\ m.target = "self" <=> m.relation = "self"
     /\ m.target = "unknown" => m.relation = "unknown"
     /\ m.target = "other" /\ m.relation = "unknown" => m.name = "unknown"}

\* missing_setup_fields is empty.
Complete(i) ==
  /\ i.target # "unknown" /\ i.name # "unknown"
  /\ i.target = "other" => i.relation # "unknown"

\* apply_setup_message: only what is missing is filled in, and a bare name
\* only where it is known whom the Legacy is about.
Filled(i, m) ==
  LET target == IF i.target = "unknown" THEN m.target ELSE i.target
      relation == IF target = "self" THEN "self"
                  ELSE IF target = "other" /\ i.relation = "unknown" /\ m.relation # "self" THEN m.relation
                  ELSE i.relation
      name == IF i.name = "unknown" /\ (i.target # "unknown" \/ m.target # "unknown") THEN m.name ELSE i.name
      all == [status |-> i.status, target |-> target, relation |-> relation, name |-> name] IN
  IF i.status # "collecting_identity" THEN i
  ELSE IF Complete(all) THEN [all EXCEPT !.status = "active"] ELSE all

Hear(q, l) ==
  /\ req[q] = Idle /\ l \in Made
  /\ req' = [req EXCEPT ![q] = [at |-> "heard", path |-> "none", of |-> l, read |-> legacy[l]]]
  /\ UNCHANGED <<enforced, legacy, active, holder>>

\* The commit writes the columns that differ from what was read.
Tell(q) ==
  /\ req[q].at = "heard"
  /\ \E m \in Messages :
       LET read == req[q].read  new == Filled(read, m) IN
       legacy' = [legacy EXCEPT ![req[q].of] =
                    [c \in DOMAIN read |-> IF new[c] = read[c] THEN @[c] ELSE new[c]]]
  /\ Ends(q)
  /\ UNCHANGED <<enforced, active>>

Fail(q) ==
  /\ req[q] # Idle /\ Ends(q)
  /\ UNCHANGED <<enforced, legacy, active>>

Paths(q) == (\E path \in {"setup", "bootstrap", "first"} : Look(q, path)) \/ Select(q) \/ Admit(q) \/ Create(q)

Next ==
  \/ \E q \in Req : Paths(q) \/ Tell(q) \/ Fail(q) \/ \E l \in Legacies : Hear(q, l)
  \/ Choose

Spec == Init /\ [][Next]_vars

-----------------------------------------------------------------------------
\* However many ways to a new Legacy run at a time, an enforced plan's
\* capacity is never exceeded (create_collecting_legacy, check_capacity).
CapacityHolds == enforced => Cardinality(Made) <= Limit

\* A Legacy that became active has everything the setup asks for, and is
\* never asked again, whichever of several messages wrote each column.
ActiveIsComplete ==
  \A l \in Legacies : legacy[l].status = "active" =>
    "unknown" \notin {legacy[l].target, legacy[l].relation, legacy[l].name}

\* What is known of a Legacy is one answer: it is about its owner exactly
\* when the relationship says so, whichever messages wrote the columns.
IdentityIsOneAnswer ==
  \A l \in Legacies : legacy[l].target = "self" <=> legacy[l].relation = "self"
=============================================================================
