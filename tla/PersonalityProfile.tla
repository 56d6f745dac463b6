------------------------- MODULE PersonalityProfile -------------------------
(***************************************************************************)
(* The derived personality profile of one Legacy: every change of a memory *)
(* invalidates it in the same transaction, leased workers derive it again  *)
(* outside any lock, and the dashboard and the persona read it in several  *)
(* statements.                                                             *)
(*                                                                         *)
(* The evidence is three version counters: the memories with their support *)
(* (mem), the entities they mention (ent) and the conversations they came  *)
(* from (prov).  A profile is the evidence it was derived from.            *)
(***************************************************************************)
EXTENDS Naturals

CONSTANTS Worker,     \* personality worker processes
          Reader,     \* requests that show or use the profile
          MaxChange,  \* bound on the changes of the evidence
          MaxFaults,  \* bound on crashes, failed builds and leases lost while busy
          None

ASSUME BoundsAssumption == MaxChange \in Nat /\ MaxFaults \in Nat
ASSUME NoneAssumption == None \notin Worker

VARIABLES facts,   \* the committed evidence
          row,     \* legacy_personality_profiles; gen = 0 while there is no row
          build,   \* a worker's claim and what it has read so far
          reader,  \* a request and what it has read so far
          faults

vars == <<facts, row, build, reader, faults>>

Version == 0..MaxChange
Evidence == [mem : Version, ent : Version, prov : Version]
Nothing == [mem |-> 0, ent |-> 0, prov |-> 0]
Row == [gen : Nat, built : Nat, status : {"pending", "building", "ready", "failed"},
        profile : Evidence \cup {None}, token : Worker \cup {None}, live : BOOLEAN, due : BOOLEAN]
NoRow == [gen |-> 0, built |-> 0, status |-> "pending", profile |-> None,
          token |-> None, live |-> FALSE, due |-> TRUE]
Resting == [at |-> "idle", gen |-> 0, read |-> Nothing]
NotReading == [at |-> "idle", gen |-> 0, profile |-> Nothing, read |-> Nothing]

TypeOK ==
  /\ facts \in Evidence
  /\ row \in Row
  /\ row.live => row.token # None
  /\ build \in [Worker -> [at : {"idle", "claimed", "reading", "half", "derived", "stale",
                                 "failing", "failed", "outdated"},
                           gen : Nat, read : Evidence]]
  /\ reader \in [Reader -> [at : {"idle", "opened", "half", "read", "shown"},
                            gen : Nat, profile : Evidence, read : Evidence]]
  /\ faults \in 0..MaxFaults

\* A Legacy from before the profiles has a memory and no row.
Init ==
  /\ \E mem \in {0, 1} \cap Version : facts = [mem |-> mem, ent |-> 0, prov |-> 0]
  /\ row = NoRow
  /\ build = [w \in Worker |-> Resting] /\ reader = [r \in Reader |-> NotReading]
  /\ faults = 0

Fault == faults < MaxFaults /\ faults' = faults + 1

(***************************************************************************)
(* Changes of the evidence.                                                *)
(***************************************************************************)
\* Mutant of the next definition: a build that is under way is not outdated.
InvalidatedSameGeneration(r) ==
  [gen |-> IF r.gen = 0 THEN 1 ELSE r.gen, built |-> r.built, status |-> "pending", profile |-> None,
   token |-> r.token, live |-> r.live, due |-> TRUE]
\* A live lease is kept until its worker releases it or it expires.
Invalidated(r) ==
  [gen |-> r.gen + 1, built |-> r.built, status |-> "pending", profile |-> None,
   token |-> r.token, live |-> r.live, due |-> TRUE]

Changing == facts.mem + facts.ent + facts.prov < MaxChange

ChangeMemory ==
  /\ Changing
  /\ facts' = [facts EXCEPT !.mem = @ + 1] /\ row' = Invalidated(row)
  /\ UNCHANGED <<build, reader, faults>>

ChangeEntity ==
  /\ Changing
  /\ facts' = [facts EXCEPT !.ent = @ + 1] /\ row' = Invalidated(row)
  /\ UNCHANGED <<build, reader, faults>>

\* Deleting a conversation lets the database clear the memories' reference to it.
DeleteConversation ==
  /\ facts.mem > 0 /\ Changing
  /\ facts' = [facts EXCEPT !.prov = @ + 1]
  /\ UNCHANGED <<row, build, reader, faults>>

\* An operator queues a Legacy that has memories and no row.
EnqueueExisting ==
  /\ row.gen = 0 /\ facts.mem > 0
  /\ row' = Invalidated(row)
  /\ UNCHANGED <<facts, build, reader, faults>>

(***************************************************************************)
(* The worker.                                                             *)
(***************************************************************************)
\* Mutant of the next definition: a lease is only ended by its worker.
AvailableFree == row.gen > 0 /\ row.status # "ready" /\ row.token = None /\ row.due
Available == row.gen > 0 /\ row.status # "ready" /\ ~row.live /\ row.due

Claim(w) ==
  /\ build[w].at = "idle" /\ Available
  /\ row' = [gen |-> row.gen, built |-> row.built, status |-> "building", profile |-> row.profile,
             token |-> w, live |-> TRUE, due |-> row.due]
  /\ build' = [build EXCEPT ![w] = [at |-> "claimed", gen |-> row.gen, read |-> Nothing]]
  /\ UNCHANGED <<facts, reader, faults>>

Goes(w, at) == build' = [build EXCEPT ![w] = [at |-> at, gen |-> build[w].gen, read |-> build[w].read]]
Rests(w) == build' = [build EXCEPT ![w] = Resting]

\* The claim is compared with the row before the evidence is read.
Check(w) ==
  /\ build[w].at = "claimed"
  /\ Goes(w, IF row.token = w /\ row.gen = build[w].gen THEN "reading" ELSE "stale")
  /\ UNCHANGED <<facts, row, reader, faults>>

\* The memories and their entities are two statements without a lock.
ReadMemories(w) ==
  /\ build[w].at = "reading"
  /\ build' = [build EXCEPT ![w] = [at |-> "half", gen |-> build[w].gen,
                                    read |-> [mem |-> facts.mem, ent |-> 0, prov |-> facts.prov]]]
  /\ UNCHANGED <<facts, row, reader, faults>>

ReadEntities(w) ==
  /\ build[w].at = "half"
  /\ build' = [build EXCEPT ![w] = [at |-> "derived", gen |-> build[w].gen,
       read |-> [mem |-> build[w].read.mem, ent |-> facts.ent, prov |-> build[w].read.prov]]]
  /\ UNCHANGED <<facts, row, reader, faults>>

Publishable(w) == row.token = w /\ row.live /\ row.gen = build[w].gen

Publish(w) ==
  /\ build[w].at = "derived" /\ Publishable(w)
  /\ row' = [gen |-> row.gen, built |-> build[w].gen, status |-> "ready", profile |-> build[w].read,
             token |-> None, live |-> FALSE, due |-> TRUE]
  /\ Rests(w)
  /\ UNCHANGED <<facts, reader, faults>>

PublishRefused(w) ==
  /\ build[w].at = "derived" /\ ~Publishable(w)
  /\ Goes(w, "stale")
  /\ UNCHANGED <<facts, row, reader, faults>>

\* Mutant of the next definition: the expiry of the released lease stays.
ReleasedTokenOnly(status, profile, due) ==
  [gen |-> row.gen, built |-> row.built, status |-> status, profile |-> profile,
   token |-> None, live |-> row.live, due |-> due]
Released(status, profile, due) ==
  [gen |-> row.gen, built |-> row.built, status |-> status, profile |-> profile,
   token |-> None, live |-> FALSE, due |-> due]

ReleaseStale(w) ==
  /\ build[w].at = "stale" /\ Rests(w)
  /\ row' = IF row.token = w THEN Released("pending", row.profile, row.due) ELSE row
  /\ UNCHANGED <<facts, reader, faults>>

\* Reading, deriving or validating raises.
Breaks(w) ==
  /\ build[w].at \in {"reading", "half", "derived"}
  /\ Goes(w, "failing")
  /\ Fault
  /\ UNCHANGED <<facts, row, reader>>

\* The failure reads the row and updates it if its generation is still the one read.
FailReads(w) ==
  /\ build[w].at = "failing"
  /\ IF row.token = w
       THEN build' = [build EXCEPT ![w] = [at |-> IF row.gen = build[w].gen THEN "failed" ELSE "outdated",
                                           gen |-> row.gen, read |-> Nothing]]
       ELSE Rests(w)
  /\ UNCHANGED <<facts, row, reader, faults>>

FailWrites(w) ==
  /\ build[w].at \in {"failed", "outdated"} /\ Rests(w)
  /\ row' = IF row.token # w \/ row.gen # build[w].gen THEN row
            ELSE IF build[w].at = "failed" THEN Released("failed", None, FALSE)
            ELSE Released("pending", None, TRUE)
  /\ UNCHANGED <<facts, reader, faults>>

\* The worker process dies: its lease stays until it expires.
Crash(w) ==
  /\ build[w].at # "idle" /\ Rests(w)
  /\ Fault
  /\ UNCHANGED <<facts, row, reader>>

\* A lease that ends under a worker that is still busy counts as a fault.
LeaseExpires ==
  /\ row.live
  /\ row' = [row EXCEPT !.live = FALSE]
  /\ IF \E w \in Worker : build[w].at # "idle" /\ row.token = w THEN Fault ELSE UNCHANGED faults
  /\ UNCHANGED <<facts, build, reader>>

BackoffEnds ==
  /\ ~row.due /\ row' = [row EXCEPT !.due = TRUE]
  /\ UNCHANGED <<facts, build, reader, faults>>

(***************************************************************************)
(* The readers: dashboard and persona style, several statements each.      *)
(***************************************************************************)
Served == row.gen > 0 /\ row.status = "ready" /\ row.built = row.gen /\ row.profile # None

ReadProfile(r) ==
  /\ reader[r].at = "idle" /\ Served
  /\ reader' = [reader EXCEPT ![r] = [at |-> "opened", gen |-> row.gen, profile |-> row.profile,
                                      read |-> Nothing]]
  /\ UNCHANGED <<facts, row, build, faults>>

LoadMemories(r) ==
  /\ reader[r].at = "opened"
  /\ reader' = [reader EXCEPT ![r] = [at |-> "half", gen |-> reader[r].gen, profile |-> reader[r].profile,
                                      read |-> [mem |-> facts.mem, ent |-> 0, prov |-> facts.prov]]]
  /\ UNCHANGED <<facts, row, build, faults>>

LoadEntities(r) ==
  /\ reader[r].at = "half"
  /\ reader' = [reader EXCEPT ![r] = [at |-> "read", gen |-> reader[r].gen, profile |-> reader[r].profile,
       read |-> [mem |-> reader[r].read.mem, ent |-> facts.ent, prov |-> reader[r].read.prov]]]
  /\ UNCHANGED <<facts, row, build, faults>>

Validated(r) == reader[r].profile = reader[r].read
\* Mutant of the next definition: no second look at the row.
LatestAnyhow(r) == row.gen > 0
Latest(r) == Served /\ row.gen = reader[r].gen

Show(r) ==
  /\ reader[r].at = "read" /\ Validated(r) /\ Latest(r)
  /\ reader' = [reader EXCEPT ![r] = [at |-> "shown", gen |-> reader[r].gen,
                                      profile |-> reader[r].profile, read |-> reader[r].read]]
  /\ UNCHANGED <<facts, row, build, faults>>

\* Answered as stale, or the answer has been sent.
Close(r) ==
  /\ reader[r].at = "shown" \/ (reader[r].at = "read" /\ ~(Validated(r) /\ Latest(r)))
  /\ reader' = [reader EXCEPT ![r] = NotReading]
  /\ UNCHANGED <<facts, row, build, faults>>

(***************************************************************************)
(* The specification.                                                      *)
(***************************************************************************)
Change == ChangeMemory \/ ChangeEntity \/ DeleteConversation \/ EnqueueExisting
Build(w) == Check(w) \/ ReadMemories(w) \/ ReadEntities(w) \/ Publish(w) \/ PublishRefused(w)
            \/ ReleaseStale(w) \/ FailReads(w) \/ FailWrites(w)
Read(r) == ReadProfile(r) \/ LoadMemories(r) \/ LoadEntities(r) \/ Show(r) \/ Close(r)

Next ==
  \/ Change \/ LeaseExpires \/ BackoffEnds
  \/ \E w \in Worker : Claim(w) \/ Build(w) \/ Breaks(w) \/ Crash(w)
  \/ \E r \in Reader : Read(r)

Spec == Init /\ [][Next]_vars

\* The workers poll for ever and go on with what they claimed, and time passes.
Fairness ==
  /\ \A w \in Worker : WF_vars(Build(w))
  /\ WF_vars(\E w \in Worker : Claim(w))
  /\ WF_vars(LeaseExpires) /\ WF_vars(BackoffEnds)

FairSpec == Spec /\ Fairness

(***************************************************************************)
(* Properties.                                                             *)
(***************************************************************************)
\* What the freshness gate lets through was derived from the memories and entities
\* as they are now: neither a torn read, nor a worker that lost its lease, nor a build
\* that was overtaken by a change is ever served (current_profile against build).
ProfileIsTrue ==
  Served => row.profile.mem = facts.mem /\ row.profile.ent = facts.ent

\* A request answers with a profile of the facts as they are when its last check runs,
\* whatever changed, was rebuilt or was invalidated between its statements
\* (read_personality_dashboard, select_personality_style).
ShownIsFresh ==
  [][\A r \in Reader : reader[r].at # "shown" /\ reader'[r].at = "shown" =>
       reader'[r].profile.mem = facts.mem /\ reader'[r].profile.ent = facts.ent]_vars

\* A profile that was invalidated is derived again, through crashes, failed builds and
\* leases that end under a busy worker (the worker's claims and releases).
RebuildHappens == (row.gen > 0 /\ row.status # "ready") ~> row.status = "ready"

\* "ORM hooks cover the current application mutation mechanism" (docs/l13-phase-b.md):
\* a profile that is marked ready is one the readers' validation accepts.
ReadyIsAccepted == Served => row.profile = facts
=============================================================================
