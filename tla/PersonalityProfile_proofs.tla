---------------------- MODULE PersonalityProfile_proofs ----------------------
(***************************************************************************)
(* The personality profile: type correctness, the truth of what is served  *)
(* and of what is shown, for any number of workers and readers.            *)
(***************************************************************************)
EXTENDS PersonalityProfile, TLAPS

(***************************************************************************)
(* The invariant.  A generation names one state of memories and entities:  *)
(* what was read under the generation the row still has is still true.     *)
(***************************************************************************)
\* Nobody holds a generation the row has not reached.
NoFuture ==
  /\ \A w \in Worker : build[w].gen <= row.gen
  /\ \A r \in Reader : reader[r].gen <= row.gen

\* What a build has read under the present generation is true.
ReadIsTrue ==
  \A w \in Worker : build[w].gen = row.gen =>
    /\ build[w].at \in {"half", "derived"} => build[w].read.mem = facts.mem
    /\ build[w].at = "derived" => build[w].read.ent = facts.ent

\* A profile a reader holds under the present generation is true.
HeldIsTrue ==
  \A r \in Reader : reader[r].gen = row.gen /\ reader[r].at # "idle" =>
    reader[r].profile.mem = facts.mem /\ reader[r].profile.ent = facts.ent

Truth == NoFuture /\ ReadIsTrue /\ HeldIsTrue /\ ProfileIsTrue

(***************************************************************************)
(* Types.                                                                  *)
(***************************************************************************)
LEMMA NothingIsEvidence == Nothing \in Evidence
BY BoundsAssumption DEF Nothing, Evidence, Version

LEMMA InitTyped == Init => TypeOK
<1> SUFFICES ASSUME Init PROVE TypeOK OBVIOUS
<1>1. facts \in Evidence
  BY BoundsAssumption DEF Init, Evidence, Version
<1>2. row \in Row /\ (row.live => row.token # None)
  BY DEF Init, Row, NoRow
<1>3. build \in [Worker -> [at : {"idle", "claimed", "reading", "half", "derived", "stale",
                                  "failing", "failed", "outdated"}, gen : Nat, read : Evidence]]
  BY NothingIsEvidence DEF Init, Resting
<1>4. reader \in [Reader -> [at : {"idle", "opened", "half", "read", "shown"},
                             gen : Nat, profile : Evidence, read : Evidence]]
  BY NothingIsEvidence DEF Init, NotReading
<1>5. faults \in 0..MaxFaults
  BY BoundsAssumption DEF Init
<1> QED BY <1>1, <1>2, <1>3, <1>4, <1>5 DEF TypeOK

\* The places a build and a reader can be in.
BuildPlace == {"idle", "claimed", "reading", "half", "derived", "stale", "failing", "failed", "outdated"}
ReadPlace == {"idle", "opened", "half", "read", "shown"}

LEMMA FactsStep ==
  ASSUME TypeOK, Change
  PROVE  facts' \in Evidence /\ row' \in Row /\ (row'.live => row'.token # None)
<1>1. Invalidated(row) \in Row /\ (Invalidated(row).live => Invalidated(row).token # None)
  BY DEF TypeOK, Row, Invalidated
<1>2. facts \in Evidence /\ facts.mem \in Nat /\ facts.ent \in Nat /\ facts.prov \in Nat
  BY BoundsAssumption DEF TypeOK, Evidence, Version
<1>3. CASE ChangeMemory
  <2>1. facts.mem + 1 \in Version
    BY <1>2, <1>3, BoundsAssumption DEF ChangeMemory, Changing, Version
  <2> QED BY <1>1, <1>2, <1>3, <2>1 DEF ChangeMemory, Evidence
<1>4. CASE ChangeEntity
  <2>1. facts.ent + 1 \in Version
    BY <1>2, <1>4, BoundsAssumption DEF ChangeEntity, Changing, Version
  <2> QED BY <1>1, <1>2, <1>4, <2>1 DEF ChangeEntity, Evidence
<1>5. CASE DeleteConversation
  <2>1. facts.prov + 1 \in Version
    BY <1>2, <1>5, BoundsAssumption DEF DeleteConversation, Changing, Version
  <2> QED BY <1>2, <1>5, <2>1 DEF DeleteConversation, Evidence, TypeOK
<1>6. CASE EnqueueExisting
  BY <1>1, <1>2, <1>6 DEF EnqueueExisting
<1> QED BY <1>3, <1>4, <1>5, <1>6 DEF Change

LEMMA RowStep ==
  ASSUME TypeOK, NEW w \in Worker, Claim(w) \/ Build(w)
  PROVE  row' \in Row /\ (row'.live => row'.token # None)
<1>1. CASE Claim(w)
  BY <1>1, NoneAssumption DEF Claim, TypeOK, Row
<1>2. CASE Publish(w)
  BY <1>2 DEF Publish, TypeOK, Row
<1>3. ASSUME NEW status \in {"pending", "failed"}, NEW due \in BOOLEAN, NEW profile \in Evidence \cup {None}
      PROVE  Released(status, profile, due) \in Row /\ ~Released(status, profile, due).live
  BY <1>3 DEF Released, TypeOK, Row
<1>4. CASE ReleaseStale(w)
  BY <1>3, <1>4 DEF ReleaseStale, TypeOK, Row
<1>5. CASE FailWrites(w)
  BY <1>3, <1>5 DEF FailWrites, TypeOK
<1>6. CASE Check(w) \/ ReadMemories(w) \/ ReadEntities(w) \/ PublishRefused(w) \/ FailReads(w)
  BY <1>6 DEF Check, ReadMemories, ReadEntities, PublishRefused, FailReads, TypeOK
<1> QED BY <1>1, <1>2, <1>4, <1>5, <1>6 DEF Build

LEMMA BuildStep ==
  ASSUME TypeOK, NEW w \in Worker, Claim(w) \/ Build(w) \/ Breaks(w) \/ Crash(w)
  PROVE  build' \in [Worker -> [at : BuildPlace, gen : Nat, read : Evidence]]
<1>1. build \in [Worker -> [at : BuildPlace, gen : Nat, read : Evidence]] /\ row.gen \in Nat /\ facts \in Evidence
  BY DEF TypeOK, BuildPlace, Row
<1>2. ASSUME NEW at \in BuildPlace
      PROVE  Goes(w, at) => build' \in [Worker -> [at : BuildPlace, gen : Nat, read : Evidence]]
  BY <1>1, <1>2 DEF Goes
<1>3. Rests(w) => build' \in [Worker -> [at : BuildPlace, gen : Nat, read : Evidence]]
  BY <1>1, NothingIsEvidence DEF Rests, Resting, BuildPlace
<1>4. CASE Claim(w)
  BY <1>1, <1>4, NothingIsEvidence DEF Claim, BuildPlace
<1>5. CASE Check(w) \/ PublishRefused(w) \/ Breaks(w)
  BY <1>2, <1>5 DEF Check, PublishRefused, Breaks, BuildPlace
<1>6. CASE ReadMemories(w)
  <2>1. [mem |-> facts.mem, ent |-> 0, prov |-> facts.prov] \in Evidence
    BY <1>1, BoundsAssumption DEF Evidence, Version
  <2> QED BY <1>1, <1>6, <2>1 DEF ReadMemories, BuildPlace
<1>7. CASE ReadEntities(w)
  <2>1. [mem |-> build[w].read.mem, ent |-> facts.ent, prov |-> build[w].read.prov] \in Evidence
    BY <1>1 DEF Evidence
  <2> QED BY <1>1, <1>7, <2>1 DEF ReadEntities, BuildPlace
<1>8. CASE Publish(w) \/ ReleaseStale(w) \/ FailWrites(w) \/ Crash(w)
  BY <1>3, <1>8 DEF Publish, ReleaseStale, FailWrites, Crash
<1>9. CASE FailReads(w)
  BY <1>1, <1>3, <1>9, NothingIsEvidence DEF FailReads, BuildPlace
<1> QED BY <1>4, <1>5, <1>6, <1>7, <1>8, <1>9 DEF Build

LEMMA ReaderStep ==
  ASSUME TypeOK, NEW r \in Reader, Read(r)
  PROVE  reader' \in [Reader -> [at : ReadPlace, gen : Nat, profile : Evidence, read : Evidence]]
<1>1. reader \in [Reader -> [at : ReadPlace, gen : Nat, profile : Evidence, read : Evidence]]
      /\ row.gen \in Nat /\ facts \in Evidence /\ row.profile \in Evidence \cup {None}
  BY DEF TypeOK, ReadPlace, Row
<1>2. CASE ReadProfile(r)
  BY <1>1, <1>2, NothingIsEvidence DEF ReadProfile, Served, ReadPlace
<1>3. CASE LoadMemories(r)
  <2>1. [mem |-> facts.mem, ent |-> 0, prov |-> facts.prov] \in Evidence
    BY <1>1, BoundsAssumption DEF Evidence, Version
  <2> QED BY <1>1, <1>3, <2>1 DEF LoadMemories, ReadPlace
<1>4. CASE LoadEntities(r)
  <2>1. [mem |-> reader[r].read.mem, ent |-> facts.ent, prov |-> reader[r].read.prov] \in Evidence
    BY <1>1 DEF Evidence
  <2> QED BY <1>1, <1>4, <2>1 DEF LoadEntities, ReadPlace
<1>5. CASE Show(r)
  BY <1>1, <1>5 DEF Show, ReadPlace
<1>6. CASE Close(r)
  BY <1>1, <1>6, NothingIsEvidence DEF Close, NotReading, ReadPlace
<1> QED BY <1>2, <1>3, <1>4, <1>5, <1>6 DEF Read

LEMMA TypeStep == TypeOK /\ [Next]_vars => TypeOK'
<1> SUFFICES ASSUME TypeOK, [Next]_vars PROVE TypeOK' OBVIOUS
<1>0. Fault => faults' \in 0..MaxFaults
  BY BoundsAssumption DEF Fault, TypeOK
<1>1. CASE Change
  BY <1>1, FactsStep DEF Change, ChangeMemory, ChangeEntity, DeleteConversation, EnqueueExisting, TypeOK
<1>2. CASE LeaseExpires
  BY <1>0, <1>2 DEF LeaseExpires, TypeOK, Row
<1>3. CASE BackoffEnds
  BY <1>3 DEF BackoffEnds, TypeOK, Row
<1>4. ASSUME NEW w \in Worker, Claim(w) \/ Build(w) PROVE TypeOK'
  <2>1. UNCHANGED <<facts, reader, faults>>
    BY <1>4 DEF Claim, Build, Check, ReadMemories, ReadEntities, Publish, PublishRefused, ReleaseStale,
                FailReads, FailWrites
  <2> QED BY <1>4, <2>1, RowStep, BuildStep DEF TypeOK, BuildPlace
<1>5. ASSUME NEW w \in Worker, Breaks(w) \/ Crash(w) PROVE TypeOK'
  <2>1. UNCHANGED <<facts, row, reader>> /\ Fault
    BY <1>5 DEF Breaks, Crash
  <2> QED BY <1>0, <1>5, <2>1, BuildStep DEF TypeOK, BuildPlace
<1>6. ASSUME NEW r \in Reader, Read(r) PROVE TypeOK'
  <2>1. UNCHANGED <<facts, row, build, faults>>
    BY <1>6 DEF Read, ReadProfile, LoadMemories, LoadEntities, Show, Close
  <2> QED BY <1>6, <2>1, ReaderStep DEF TypeOK, ReadPlace
<1>7. CASE UNCHANGED vars
  BY <1>7 DEF vars, TypeOK
<1> QED BY <1>1, <1>2, <1>3, <1>4, <1>5, <1>6, <1>7 DEF Next

\* The row, the workers' claims and the readers' answers keep the types the columns
\* promise, for any number of workers and readers (personality_worker, models/personality).
THEOREM TypeCorrect == Spec => []TypeOK
<1> QED BY InitTyped, TypeStep, PTL DEF Spec

(***************************************************************************)
(* Truth.                                                                  *)
(***************************************************************************)
LEMMA InitTrue == Init => Truth
BY DEF Init, Truth, NoFuture, ReadIsTrue, HeldIsTrue, ProfileIsTrue, Served, NoRow, Resting, NotReading

\* A change of memories or entities starts a generation nobody has seen.
LEMMA InvalidatedIsTrue ==
  ASSUME TypeOK, Truth, row' = Invalidated(row), UNCHANGED <<build, reader>>
  PROVE  Truth'
<1>1. row.gen \in Nat /\ row'.gen = row.gen + 1 /\ row'.status = "pending"
  BY DEF Invalidated, TypeOK, Row
<1>2. (\A w \in Worker : build[w].gen \in Nat) /\ (\A r \in Reader : reader[r].gen \in Nat)
  BY DEF TypeOK
<1>3. NoFuture' /\ (\A w \in Worker : build'[w].gen # row'.gen) /\ (\A r \in Reader : reader'[r].gen # row'.gen)
  BY <1>1, <1>2 DEF Truth, NoFuture
<1>4. ~Served'
  BY <1>1 DEF Served
<1> QED BY <1>3, <1>4 DEF Truth, ReadIsTrue, HeldIsTrue, ProfileIsTrue

\* A step that leaves the facts and the generation, and serves nothing new, keeps the
\* truth of everything it does not touch.
LEMMA Unaffected ==
  ASSUME TypeOK, Truth, facts'.mem = facts.mem, facts'.ent = facts.ent, row'.gen = row.gen,
         Served' => Served /\ row'.profile = row.profile
  PROVE  /\ ProfileIsTrue'
         /\ build' = build => ReadIsTrue' /\ (\A w \in Worker : build'[w].gen <= row'.gen)
         /\ reader' = reader => HeldIsTrue' /\ (\A r \in Reader : reader'[r].gen <= row'.gen)
BY DEF Truth, NoFuture, ReadIsTrue, HeldIsTrue, ProfileIsTrue

LEMMA BuildTrue ==
  ASSUME TypeOK, Truth, NEW w \in Worker, Claim(w) \/ Build(w) \/ Breaks(w) \/ Crash(w)
  PROVE  Truth'
<1>0. build \in [Worker -> [at : BuildPlace, gen : Nat, read : Evidence]] /\ row.gen \in Nat
  BY DEF TypeOK, BuildPlace, Row
<1>1. facts' = facts /\ reader' = reader /\ row'.gen = row.gen
  BY DEF Claim, Build, Check, ReadMemories, ReadEntities, Publish, PublishRefused, ReleaseStale,
         FailReads, FailWrites, Breaks, Crash, Released
<1>2. (\A v \in Worker : build'[v].gen <= row'.gen) /\ ReadIsTrue'
  <2>1. ASSUME NEW v \in Worker, v # w PROVE build'[v] = build[v]
    BY <1>0, <2>1 DEF Claim, Build, Check, ReadMemories, ReadEntities, Publish, PublishRefused, ReleaseStale,
                 FailReads, FailWrites, Breaks, Crash, Goes, Rests
  <2>2. /\ build'[w].gen <= row.gen
        /\ build'[w].gen = row.gen =>
             /\ build'[w].at \in {"half", "derived"} => build'[w].read.mem = facts.mem
             /\ build'[w].at = "derived" => build'[w].read.ent = facts.ent
    <3>1. CASE Claim(w) \/ Check(w) \/ PublishRefused(w) \/ Breaks(w)
      BY <1>0, <3>1 DEF Claim, Check, PublishRefused, Breaks, Goes, Truth, NoFuture
    <3>2. CASE ReadMemories(w)
      BY <1>0, <3>2 DEF ReadMemories, Truth, NoFuture
    <3>3. CASE ReadEntities(w)
      BY <1>0, <3>3 DEF ReadEntities, Truth, NoFuture, ReadIsTrue
    <3>4. CASE Publish(w) \/ ReleaseStale(w) \/ FailWrites(w) \/ Crash(w)
      <4>1. Rests(w)
        BY <3>4 DEF Publish, ReleaseStale, FailWrites, Crash
      <4>2. build'[w] = Resting
        BY <1>0, <4>1 DEF Rests
      <4> QED BY <1>0, <4>2 DEF Resting
    <3>5. CASE FailReads(w)
      BY <1>0, <3>5 DEF FailReads, Rests, Resting
    <3> QED BY <3>1, <3>2, <3>3, <3>4, <3>5 DEF Build
  <2> QED BY <1>1, <2>1, <2>2 DEF Truth, NoFuture, ReadIsTrue
<1>3. ProfileIsTrue'
  <2>1. CASE Publish(w)
    BY <1>0, <1>1, <2>1 DEF Publish, Publishable, ProfileIsTrue, Truth, ReadIsTrue
  <2>2. CASE ReleaseStale(w) \/ FailWrites(w) \/ Claim(w)
    <3>1. row' = row \/ row'.status # "ready"
      BY <2>2 DEF ReleaseStale, FailWrites, Claim, Released
    <3> QED BY <1>1, <3>1 DEF ProfileIsTrue, Served, Truth
  <2>3. CASE Check(w) \/ ReadMemories(w) \/ ReadEntities(w) \/ PublishRefused(w) \/ FailReads(w) \/ Breaks(w) \/ Crash(w)
    BY <1>1, <2>3 DEF Check, ReadMemories, ReadEntities, PublishRefused, FailReads, Breaks, Crash,
                      ProfileIsTrue, Served, Truth
  <2> QED BY <2>1, <2>2, <2>3 DEF Build
<1> QED BY <1>1, <1>2, <1>3 DEF Truth, NoFuture, HeldIsTrue

LEMMA ReadTrue ==
  ASSUME TypeOK, Truth, NEW r \in Reader, Read(r)
  PROVE  Truth'
<1>0. reader \in [Reader -> [at : ReadPlace, gen : Nat, profile : Evidence, read : Evidence]] /\ row.gen \in Nat
  BY DEF TypeOK, ReadPlace, Row
<1>1. UNCHANGED <<facts, row, build>>
  BY DEF Read, ReadProfile, LoadMemories, LoadEntities, Show, Close
<1>2. ASSUME NEW q \in Reader, q # r PROVE reader'[q] = reader[q]
  BY <1>0, <1>2 DEF Read, ReadProfile, LoadMemories, LoadEntities, Show, Close
<1>3. /\ reader'[r].gen <= row.gen
      /\ reader'[r].gen = row.gen /\ reader'[r].at # "idle" =>
           reader'[r].profile.mem = facts.mem /\ reader'[r].profile.ent = facts.ent
  <2>1. CASE ReadProfile(r)
    BY <1>0, <2>1 DEF ReadProfile, ProfileIsTrue, Truth
  <2>2. CASE LoadMemories(r) \/ LoadEntities(r) \/ Show(r)
    BY <1>0, <2>2 DEF LoadMemories, LoadEntities, Show, Truth, NoFuture, HeldIsTrue
  <2>3. CASE Close(r)
    BY <1>0, <2>3 DEF Close, NotReading
  <2> QED BY <2>1, <2>2, <2>3 DEF Read
<1> QED BY <1>1, <1>2, <1>3 DEF Truth, NoFuture, ReadIsTrue, HeldIsTrue, ProfileIsTrue, Served

LEMMA TruthStep == TypeOK /\ Truth /\ [Next]_vars => Truth'
<1> SUFFICES ASSUME TypeOK, Truth, [Next]_vars PROVE Truth' OBVIOUS
<1>1. CASE ChangeMemory \/ ChangeEntity \/ EnqueueExisting
  BY <1>1, InvalidatedIsTrue DEF ChangeMemory, ChangeEntity, EnqueueExisting
<1>2. CASE DeleteConversation \/ LeaseExpires \/ BackoffEnds
  <2>1. UNCHANGED <<build, reader>> /\ facts'.mem = facts.mem /\ facts'.ent = facts.ent /\ row'.gen = row.gen
        /\ (Served' => Served /\ row'.profile = row.profile)
    BY <1>2 DEF DeleteConversation, LeaseExpires, BackoffEnds, TypeOK, Evidence, Row, Served
  <2> QED BY <2>1, Unaffected DEF Truth, NoFuture
<1>3. CASE \E w \in Worker : Claim(w) \/ Build(w) \/ Breaks(w) \/ Crash(w)
  BY <1>3, BuildTrue
<1>4. CASE \E r \in Reader : Read(r)
  BY <1>4, ReadTrue
<1>5. CASE UNCHANGED vars
  BY <1>5 DEF vars, Truth, NoFuture, ReadIsTrue, HeldIsTrue, ProfileIsTrue, Served
<1> QED BY <1>1, <1>2, <1>3, <1>4, <1>5 DEF Next, Change

LEMMA AlwaysTrue == Spec => [](TypeOK /\ Truth)
<1>1. Init => TypeOK /\ Truth
  BY InitTyped, InitTrue
<1>2. TypeOK /\ Truth /\ [Next]_vars => (TypeOK /\ Truth)'
  BY TypeStep, TruthStep
<1> QED BY <1>1, <1>2, PTL DEF Spec

\* Whatever the freshness gate lets through was derived from the memories and entities
\* of now, for any number of workers, crashes and lost leases (build, current_profile).
THEOREM ServedIsTrue == Spec => []ProfileIsTrue
<1>1. Truth => ProfileIsTrue
  BY DEF Truth
<1> QED BY <1>1, AlwaysTrue, PTL

\* A request never answers with a profile of facts that have changed by the time of its
\* last check (read_personality_dashboard, select_personality_style).
THEOREM AnswersAreFresh == Spec => ShownIsFresh
<1>1. TypeOK /\ Truth /\ [Next]_vars =>
        [\A r \in Reader : reader[r].at # "shown" /\ reader'[r].at = "shown" =>
           reader'[r].profile.mem = facts.mem /\ reader'[r].profile.ent = facts.ent]_vars
  <2> SUFFICES ASSUME TypeOK, Truth, Next, NEW r \in Reader, reader[r].at # "shown", reader'[r].at = "shown"
               PROVE  reader'[r].profile.mem = facts.mem /\ reader'[r].profile.ent = facts.ent
    OBVIOUS
  <2>0. reader \in [Reader -> [at : ReadPlace, gen : Nat, profile : Evidence, read : Evidence]]
    BY DEF TypeOK, ReadPlace
  <2>1. PICK q \in Reader : Read(q)
    <3>1. ~UNCHANGED reader
      OBVIOUS
    <3> QED BY <3>1 DEF Next, Change, ChangeMemory, ChangeEntity, DeleteConversation, EnqueueExisting,
                   LeaseExpires, BackoffEnds, Claim, Build, Check, ReadMemories, ReadEntities, Publish,
                   PublishRefused, ReleaseStale, FailReads, FailWrites, Breaks, Crash
  <2>2. Show(r)
    BY <2>0, <2>1 DEF Read, ReadProfile, LoadMemories, LoadEntities, Show, Close, NotReading
  <2>3. reader[r].profile.mem = facts.mem /\ reader[r].profile.ent = facts.ent
    BY <2>2 DEF Show, Latest, Truth, HeldIsTrue
  <2> QED BY <2>0, <2>2, <2>3 DEF Show
<1> QED BY <1>1, AlwaysTrue, PTL DEF Spec, ShownIsFresh
=============================================================================
