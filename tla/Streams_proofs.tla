---------------------------- MODULE Streams_proofs ----------------------------
(***************************************************************************)
(* A call with its provider, an object store and the access to a Legacy,   *)
(* as MCStreams composes them: for any number of utterances, frames and    *)
(* spoken items, any writers, any sizes of the listing, any people, roles  *)
(* and invitations.                                                        *)
(*                                                                         *)
(* A part that does not move stutters, so AllSpec implies the              *)
(* specification of each part.  The bridge and the store have inductive    *)
(* invariants, BridgeInv and StoreInv; AccessInv is what a request has     *)
(* read.                                                                   *)
(***************************************************************************)
EXTENDS MCStreams, SequenceTheorems, FiniteSetTheorems, WellFoundedInduction, TLAPS

-----------------------------------------------------------------------------
(* LiveBridge.                                                             *)

\* An utterance has a turn, or was reported, when the order of the transcripts
\* has passed it; the turns stand in that order.
HearInv ==
  /\ \A u \in Utterance : turns[u] # "none" <=> u <= tail
  /\ \A i \in DOMAIN order : i <= order[i] /\ order[i] <= tail
  /\ \A i, j \in DOMAIN order : i < j => order[i] < order[j]

\* Nobody has spoken of an utterance that has no turn.
FreshInv ==
  \A u \in Utterance : turns[u] = "none" =>
    /\ \A p \in Phase : remote[u][p] = "none"
    /\ u \notin retired /\ sent[u] = 0
    /\ \A m \in mailbox : m[2] # u

\* The output is that of an admitted turn which has not been told to stop; it is
\* audible when frames were sent and ended when its response is.
OutInv ==
  /\ active # 0 => turns[active] # "none" /\ active \notin retired
  /\ active = 0 => task = "none" /\ out = NoOutput
  /\ ~ open => active = 0
  /\ \A u \in Utterance : played[u] <= sent[u]
  /\ \A p \in DOMAIN out.parts : out.parts[p].audible => sent[active] > 0
  /\ out.ended => remote[active]["audio"] = "done" /\ sent[active] > 0

\* The provider speaks for the active output only, and will speak only for it or
\* for one that is to be stopped when it is announced.
RemoteInv ==
  \A u \in Utterance : \A p \in Phase :
    /\ remote[u][p] = "live" => active = u
    /\ remote[u][p] = "asked" => active = u \/ u \in retired

\* Preparation, planning, tools, answer: one after the other, each asked for once.
BrainInv ==
  active # 0 =>
    /\ task = "prepare" \/ <<"prepared", active>> \in mailbox => remote[active]["tools"] = "none"
    /\ task = "prepare" => <<"prepared", active>> \notin mailbox
    /\ task = "tools" \/ <<"tools_ready", active>> \in mailbox \/ remote[active]["audio"] # "none" =>
         remote[active]["tools"] = "done"
    /\ task = "tools" => <<"tools_ready", active>> \notin mailbox
    /\ remote[active]["audio"] # "none" => task # "tools" /\ <<"tools_ready", active>> \notin mailbox

BridgeInv == TypeOK /\ HearInv /\ FreshInv /\ OutInv /\ RemoteInv /\ BrainInv /\ CompletedMeansPlayed

\* EndedIsSilent, of one step.
SilentStep ==
  \A u \in Utterance : turns[u] \in Over =>
    /\ \A p \in Phase : remote'[u][p] = "asked" => remote[u][p] = "asked"
    /\ sent'[u] # sent[u] => revoked

\* What a step of the bridge has to do.
Kept == BridgeInv' /\ SilentStep

LEMMA BoundedSeq ==
  ASSUME NEW S, NEW m \in Nat, NEW s
  PROVE  s \in UNION {[1..n -> S] : n \in 0..m} <=> s \in Seq(S) /\ Len(s) <= m
<1>1. ASSUME s \in Seq(S), Len(s) <= m PROVE s \in UNION {[1..n -> S] : n \in 0..m}
  <2>1. Len(s) \in 0..m /\ s \in [1..Len(s) -> S]
    BY <1>1, LenProperties
  <2>2. QED
    BY <2>1
<1>2. ASSUME NEW n \in 0..m, s \in [1..n -> S] PROVE s \in Seq(S) /\ Len(s) <= m
  BY <1>2
<1>3. QED
  BY <1>1, <1>2

\* A finite set of natural numbers has a largest one, and a smallest one: of the sets
\* of those above a member some is the smallest.
LEMMA MaxIsIn ==
  ASSUME NEW S \in SUBSET Nat, IsFiniteSet(S), S # {}
  PROVE  Max(S) \in S /\ \A x \in S : x <= Max(S)
<1> DEFINE Above(t) == {u \in S : u > t}
<1> DEFINE All == {Above(t) : t \in S}
<1>1. All \subseteq FiniteSubsetsOf(S) /\ All # {}
  <2>1. SUFFICES ASSUME NEW t \in S PROVE IsFiniteSet(Above(t)) /\ Above(t) \in SUBSET S
    BY <2>1 DEF FiniteSubsetsOf
  <2>2. Above(t) \in SUBSET S
    OBVIOUS
  <2>3. QED
    BY <2>2, FS_Subset
<1>2. PICK X \in All : \A Y \in All : <<Y, X>> \notin StrictSubsetOrdering(S)
  <2> HIDE DEF All
  <2>1. QED
    BY <1>1, FS_StrictSubsetOrderingWellFounded, WFMin
<1>3. PICK t \in S : X = Above(t)
  BY <1>2
<1>4. ASSUME NEW u \in S, u > t PROVE FALSE
  <2>1. \A v \in S : v \in Nat
    OBVIOUS
  <2>2. \A v \in S : v > u => v > t
    BY <1>4, <2>1
  <2>3. ~ (u > u)
    BY <2>1
  <2>4. Above(u) \subseteq Above(t) /\ u \in Above(t) /\ u \notin Above(u)
    BY <1>4, <2>2, <2>3
  <2>5. Above(u) \in All /\ Above(u) \in SUBSET S /\ X \in SUBSET S
    BY <1>3
  <2>6. <<Above(u), X>> \in StrictSubsetOrdering(S)
    <3> HIDE DEF Above
    <3>1. QED
      BY <1>3, <2>4, <2>5 DEF StrictSubsetOrdering
  <2>7. QED
    BY <1>2, <2>5, <2>6
<1>5. \A u \in S : u <= t
  BY <1>4
<1>6. QED
  BY <1>5 DEF Max

LEMMA MinIsIn ==
  ASSUME NEW S \in SUBSET Nat, IsFiniteSet(S), S # {}
  PROVE  Min(S) \in S /\ \A x \in S : Min(S) <= x
<1> DEFINE m == Max(S)
<1> DEFINE R == {m - x : x \in S}
<1>1. m \in Nat /\ \A x \in S : x \in Nat /\ x <= m
  BY MaxIsIn
<1> HIDE DEF m
<1>2. \A x \in S : m - x \in 0 .. m
  BY <1>1
<1>3. R \in SUBSET Nat /\ R # {} /\ IsFiniteSet(R)
  <2>1. R \in SUBSET (0 .. m) /\ R # {}
    BY <1>2
  <2>2. IsFiniteSet(0 .. m)
    BY <1>1, FS_Interval
  <2>3. \A y \in 0 .. m : y \in Nat
    BY <1>1
  <2>4. IsFiniteSet(R)
    BY <2>1, <2>2, FS_Subset
  <2>5. QED
    BY <2>1, <2>3, <2>4
<1>4. PICK k \in S : m - k = Max(R)
  BY <1>3, MaxIsIn
<1>5. \A x \in S : m - x <= m - k
  <2> HIDE DEF R
  <2>1. \A y \in R : y <= m - k
    BY <1>3, <1>4, MaxIsIn
  <2>2. QED
    BY <2>1 DEF R
<1>6. \A x \in S : k <= x
  BY <1>1, <1>5
<1>7. QED
  BY <1>6 DEF Min

\* Nothing goes out.
LEMMA NoOutputTyped == NoOutput \in Output /\ DOMAIN NoOutput.parts = {} /\ ~ NoOutput.ended
<1>1. <<>> \in UNION {[1..n -> Part] : n \in 0..MaxParts}
  BY BoundedSeq, EmptySeq, LiveBridgeAssumption
<1>2. DOMAIN NoOutput.parts = {}
  BY DEF NoOutput
<1>3. QED
  BY <1>1, <1>2, LiveBridgeAssumption DEF NoOutput, Output

\* Twice the same stage for a step that asks for nothing and sends nothing.
LEMMA NothingAsked ==
  ASSUME sent' = sent, \A u \in Utterance : \A p \in Phase : remote'[u][p] = "asked" => remote[u][p] = "asked"
  PROVE  SilentStep
BY DEF SilentStep

LEMMA StillTyped ==
  ASSUME TypeOK, UNCHANGED <<open, revoked, order>>,
         ending' \in BOOLEAN,
         items' \in [Utterance -> Item], tail' \in 0..Items,
         turns' \in [Utterance -> {"none", "refused", "streaming"} \cup Over],
         active' \in 0..Items, out' \in Output, task' \in {"none", "prepare", "tools"},
         mailbox' \subseteq {"prepared", "tools_ready", "tool_error", "failed"} \X Utterance,
         retired' \subseteq Utterance, remote' \in [Utterance -> [Phase -> Stage]],
         sent' \in [Utterance -> 0..MaxFrames], sealed' \subseteq Utterance,
         played' \in [Utterance -> 0..MaxFrames],
         active' # 0 => turns'[active'] = "streaming" \/ revoked
  PROVE  TypeOK'
<1>1. (order \in UNION {[1..n -> Utterance] : n \in 0..Items})'
  BY DEF TypeOK
<1>2. open' \in BOOLEAN /\ revoked' \in BOOLEAN
  BY DEF TypeOK
<1>3. (active # 0 => turns[active] = "streaming" \/ revoked)'
  OBVIOUS
<1>4. QED
  BY <1>1, <1>2, <1>3 DEF TypeOK

LEMMA ShutKeeps == ASSUME BridgeInv, Shut PROVE Kept
<1> USE DEF Shut, hearing, browser, BridgeInv
<1>1. TypeOK'
  <2>1. remote' \in [Utterance -> [Phase -> Stage]]
    BY DEF TypeOK, Stage
  <2>2. (order \in UNION {[1..n -> Utterance] : n \in 0..Items})'
    BY DEF TypeOK
  <2>3. open' \in BOOLEAN /\ revoked' \in BOOLEAN /\ ending' \in BOOLEAN
    BY DEF TypeOK
  <2>4. active' \in 0..Items /\ out' \in Output /\ task' \in {"none", "prepare", "tools"}
    BY NoOutputTyped, LiveBridgeAssumption DEF TypeOK
  <2>5. mailbox' \subseteq {"prepared", "tools_ready", "tool_error", "failed"} \X Utterance
    BY DEF TypeOK
  <2>6. QED
    BY <2>1, <2>2, <2>3, <2>4, <2>5 DEF TypeOK
<1>2. HearInv' /\ FreshInv'
  BY DEF HearInv, FreshInv, TypeOK
<1>3. OutInv'
  BY NoOutputTyped DEF OutInv
<1>4. RemoteInv' /\ BrainInv'
  BY DEF RemoteInv, BrainInv
<1>5. CompletedMeansPlayed'
  BY DEF CompletedMeansPlayed, Phase
<1>6. SilentStep
  BY NothingAsked
<1>7. QED
  BY <1>1, <1>2, <1>3, <1>4, <1>5, <1>6 DEF Kept

LEMMA FenceKeeps ==
  ASSUME BridgeInv, Fence, items' \in [Utterance -> Item], ending' \in BOOLEAN, mailbox' \subseteq mailbox,
         UNCHANGED <<open, revoked, tail, order, browser>>
  PROVE  Kept
<1> USE DEF Fence, browser, BridgeInv
<1>0. CASE active = 0
  <2>1. UNCHANGED <<retired, turns, remote>>
    BY <1>0
  <2>2. TypeOK'
    BY <2>1, <1>0, NoOutputTyped, StillTyped DEF TypeOK
  <2>3. HearInv' /\ FreshInv'
    BY <2>1 DEF HearInv, FreshInv
  <2>4. OutInv'
    BY <2>1, NoOutputTyped DEF OutInv
  <2>5. RemoteInv' /\ BrainInv' /\ CompletedMeansPlayed'
    BY <2>1, <1>0 DEF RemoteInv, BrainInv, CompletedMeansPlayed
  <2>6. SilentStep
    BY <2>1, NothingAsked
  <2>7. QED
    BY <2>2, <2>3, <2>4, <2>5, <2>6 DEF Kept
<1>1. CASE active # 0
  <2>0. /\ active \in Utterance
        /\ retired' = retired \cup {active}
        /\ turns' = [turns EXCEPT ![active] = "interrupted"]
        /\ remote' = [remote EXCEPT ![active] = Cancelled(active)]
    BY <1>1, LiveBridgeAssumption DEF TypeOK, Utterance
  <2>1. Cancelled(active) \in [Phase -> Stage]
    BY <2>0 DEF Cancelled, TypeOK, Stage
  <2>2. \A u \in Utterance : \A p \in Phase :
          /\ remote'[u][p] = "asked" => remote[u][p] = "asked"
          /\ remote'[u][p] # "live"
          /\ remote[u][p] \in {"none", "done"} => remote'[u][p] = remote[u][p]
    BY <2>0 DEF Cancelled, TypeOK, RemoteInv
  <2>3. \A u \in Utterance : /\ turns'[u] = "none" <=> turns[u] = "none"
                             /\ turns'[u] = "completed" => turns[u] = "completed"
    BY <1>1, <2>0 DEF TypeOK, OutInv
  <2>4. TypeOK'
    <3>1. turns' \in [Utterance -> {"none", "refused", "streaming"} \cup Over]
      BY <2>0 DEF TypeOK, Over
    <3>2. remote' \in [Utterance -> [Phase -> Stage]] /\ retired' \subseteq Utterance
      BY <2>0, <2>1 DEF TypeOK
    <3>3. active' = 0 /\ 0 \in 0..Items
      BY LiveBridgeAssumption
    <3>4. QED
      BY <3>1, <3>2, <3>3, NoOutputTyped, StillTyped DEF TypeOK
  <2>5. HearInv' /\ FreshInv'
    BY <2>0, <2>2, <2>3, <1>1 DEF HearInv, FreshInv, OutInv
  <2>6. OutInv'
    BY NoOutputTyped DEF OutInv
  <2>7. RemoteInv' /\ BrainInv'
    BY <2>0, <2>2 DEF RemoteInv, BrainInv
  <2>8. CompletedMeansPlayed'
    BY <2>2, <2>3 DEF CompletedMeansPlayed, Phase
  <2>9. SilentStep
    BY <2>2, NothingAsked
  <2>10. QED
    BY <2>4, <2>5, <2>6, <2>7, <2>8, <2>9 DEF Kept
<1>2. QED
  BY <1>0, <1>1

\* What is ready is a stretch that begins behind the tail.
LEMMA ReadyIsStretch ==
  ASSUME TypeOK, NEW its, Ready(its) # {}
  PROVE  /\ Max(Ready(its)) \in (tail + 1)..Items
         /\ Ready(its) = (tail + 1)..Max(Ready(its))
<1> DEFINE ready == Ready(its)
<1>1. tail \in Nat /\ Items \in Nat
  BY LiveBridgeAssumption DEF TypeOK
<1>2. ready \subseteq (tail + 1)..Items /\ \A u \in ready : \A v \in (tail + 1)..u : v \in ready
  BY <1>1 DEF Ready
<1>3. ready \in SUBSET Nat /\ IsFiniteSet(ready)
  <2>1. IsFiniteSet((tail + 1)..Items) /\ \A x \in (tail + 1)..Items : x \in Nat
    BY <1>1, FS_Interval
  <2>2. QED
    BY <1>2, <2>1, FS_Subset
<1> HIDE DEF ready
<1>4. Max(ready) \in ready /\ \A x \in ready : x <= Max(ready)
  BY <1>3, MaxIsIn DEF ready
<1>5. ready = (tail + 1)..Max(ready)
  <2>1. \A x \in ready : x \in (tail + 1)..Max(ready)
    <3>1. ASSUME NEW x \in ready PROVE x \in (tail + 1)..Max(ready)
      <4>1. x \in (tail + 1)..Items /\ Max(ready) \in (tail + 1)..Items /\ x <= Max(ready)
        BY <1>2, <1>4
      <4>2. QED
        BY <4>1, <1>1
    <3>2. QED
      BY <3>1
  <2>2. \A x \in (tail + 1)..Max(ready) : x \in ready
    BY <1>2, <1>4
  <2>3. QED
    BY <2>1, <2>2
<1>6. QED
  BY <1>2, <1>4, <1>5 DEF ready

\* The first of those that were said is ready.
LEMMA FirstIsReady ==
  ASSUME TypeOK, NEW its, NEW said, said \subseteq Ready(its), said # {}
  PROVE  Min(said) \in said /\ Min(said) \in (tail + 1)..Items
<1>1. tail \in Nat /\ Items \in Nat
  BY LiveBridgeAssumption DEF TypeOK
<1>2. said \in SUBSET ((tail + 1)..Items)
  BY DEF Ready
<1>3. IsFiniteSet((tail + 1)..Items) /\ \A x \in (tail + 1)..Items : x \in Nat
  BY <1>1, FS_Interval
<1>4. said \in SUBSET Nat /\ IsFiniteSet(said)
  BY <1>2, <1>3, FS_Subset
<1>5. QED
  BY <1>2, <1>4, MinIsIn

\* A turn that is admitted stands behind those before it.
LEMMA OrderGoesOn ==
  ASSUME TypeOK, HearInv, NEW m \in (tail + 1)..Items
  PROVE  /\ Append(order, m) \in UNION {[1..n -> Utterance] : n \in 0..Items}
         /\ \A i \in DOMAIN Append(order, m) : i <= Append(order, m)[i] /\ Append(order, m)[i] <= m
         /\ \A i, j \in DOMAIN Append(order, m) : i < j => Append(order, m)[i] < Append(order, m)[j]
<1>1. tail \in Nat /\ Items \in Nat /\ m \in Utterance
  BY LiveBridgeAssumption DEF TypeOK, Utterance
<1>2. /\ order \in Seq(Utterance) /\ Len(order) \in Nat /\ DOMAIN order = 1..Len(order)
      /\ \A i \in 1..Len(order) : order[i] \in Nat
  <2>1. order \in Seq(Utterance)
    BY <1>1, BoundedSeq DEF TypeOK
  <2>2. \A i \in 1..Len(order) : order[i] \in Utterance
    BY <2>1, ElementOfSeq
  <2>3. \A i \in Utterance : i \in Nat
    BY <1>1 DEF Utterance
  <2>4. QED
    BY <2>1, <2>2, <2>3, LenProperties
<1>3. Len(order) <= tail
  <2>1. CASE Len(order) = 0
    BY <2>1, <1>1
  <2>2. CASE Len(order) # 0
    <3>1. Len(order) \in DOMAIN order
      BY <2>2, <1>2
    <3>2. Len(order) <= order[Len(order)] /\ order[Len(order)] <= tail /\ order[Len(order)] \in Nat
      BY <3>1, <1>2 DEF HearInv
    <3>3. QED
      BY <3>2, <1>1, <1>2
  <2>3. QED
    BY <2>1, <2>2
<1> DEFINE next == Append(order, m)
<1>4. /\ next \in Seq(Utterance) /\ Len(next) = Len(order) + 1
      /\ \A i \in 1..Len(order) : next[i] = order[i]
      /\ next[Len(order) + 1] = m
  BY <1>1, <1>2
<1>5. DOMAIN next = 1..(Len(order) + 1)
  BY <1>4, LenProperties
<1> HIDE DEF next
<1>6. next \in UNION {[1..n -> Utterance] : n \in 0..Items}
  <2>1. Len(next) <= Items
    BY <1>1, <1>2, <1>3, <1>4
  <2>2. QED
    BY <1>1, <1>4, <2>1, BoundedSeq
<1>7. \A i \in 1..Len(order) : order[i] \in Nat /\ i <= order[i] /\ order[i] <= tail
  BY <1>2 DEF HearInv
<1>8. \A i \in DOMAIN next : i <= next[i] /\ next[i] <= m
  <2>1. SUFFICES ASSUME NEW i \in 1..(Len(order) + 1) PROVE i <= next[i] /\ next[i] <= m
    BY <1>5
  <2>2. CASE i \in 1..Len(order)
    BY <2>2, <1>1, <1>4, <1>7
  <2>3. CASE i = Len(order) + 1
    BY <2>3, <1>1, <1>2, <1>3, <1>4
  <2>4. QED
    BY <2>2, <2>3, <1>2
<1>9. \A i, j \in DOMAIN next : i < j => next[i] < next[j]
  <2>1. SUFFICES ASSUME NEW i \in 1..(Len(order) + 1), NEW j \in 1..(Len(order) + 1), i < j
                 PROVE  next[i] < next[j]
    BY <1>5
  <2>2. i \in 1..Len(order)
    BY <2>1, <1>2
  <2>3. CASE j \in 1..Len(order)
    BY <2>1, <2>2, <2>3, <1>2, <1>4 DEF HearInv
  <2>4. CASE j = Len(order) + 1
    BY <2>2, <2>4, <1>1, <1>4, <1>7
  <2>5. QED
    BY <2>3, <2>4, <1>2
<1>10. QED
  BY <1>6, <1>8, <1>9 DEF next

\* What has been heard becomes a turn, or is reported: a revoked session is met when
\* something has to be admitted.
LEMMA HeardKeeps ==
  ASSUME BridgeInv, open, NEW its \in [Utterance -> Item], Heard(its),
         revoked => \A u \in Ready(its) : its[u].final # "text"
  PROVE  Kept
<1> DEFINE ready == Ready(its)
<1> DEFINE said == {u \in ready : its[u].final = "text"}
<1> DEFINE free == \A u \in Utterance : turns[u] # "streaming"
<1> DEFINE new == IF free /\ said # {} THEN {Min(said)} ELSE {}
<1>1. /\ items' = [u \in Utterance |-> IF u \in ready THEN [its[u] EXCEPT !.resolved = TRUE] ELSE its[u]]
      /\ tail' = IF ready = {} THEN tail ELSE Max(ready)
      /\ turns' = [u \in Utterance |-> IF u \in new THEN "streaming"
                                       ELSE IF u \in ready THEN "refused" ELSE turns[u]]
      /\ order' = IF new = {} THEN order ELSE Append(order, Min(new))
      /\ IF new # {} /\ ~ ending
           THEN active' = Min(new) /\ out' = NoOutput /\ task' = "prepare"
           ELSE UNCHANGED <<active, out, task>>
      /\ UNCHANGED <<open, revoked, ending, mailbox, retired, remote, browser>>
  BY DEF Heard
<1>2. tail \in Nat /\ Items \in Nat /\ \A u \in Utterance : u \in Nat
  BY LiveBridgeAssumption DEF BridgeInv, TypeOK, Utterance
<1>3. ready # {} => Max(ready) \in (tail + 1)..Items /\ ready = (tail + 1)..Max(ready)
  BY ReadyIsStretch DEF BridgeInv
<1>4. said # {} => Min(said) \in said /\ Min(said) \in (tail + 1)..Items
  BY FirstIsReady DEF BridgeInv
<1>5. \A m \in new : Min(new) = m /\ new = {m}
  <2>1. \A m : Min({m}) = m
    BY DEF Min
  <2>2. QED
    BY <2>1
<1> HIDE DEF ready, said
<1>6. \A m \in new : m \in (tail + 1)..Items /\ m \in ready /\ free /\ ~ revoked
  <2>1. said \subseteq ready /\ \A m \in said : its[m].final = "text"
    BY DEF said
  <2>2. QED
    BY <1>4, <2>1 DEF ready
<1>7. /\ \A u \in Utterance : u \in ready <=> tail < u /\ u <= tail'
      /\ tail <= tail' /\ tail' \in 0..Items
  <2>1. CASE ready = {}
    BY <2>1, <1>1, <1>2 DEF BridgeInv, TypeOK
  <2>2. CASE ready # {}
    BY <2>2, <1>1, <1>2, <1>3
  <2>3. QED
    BY <2>1, <2>2
<1> HIDE DEF new
<1>8. \A u \in Utterance : /\ u \in new => u \in ready /\ turns'[u] = "streaming"
                           /\ u \in ready => turns'[u] \in {"streaming", "refused"} /\ turns[u] = "none"
                           /\ u \notin ready => turns'[u] = turns[u]
  <2>1. \A u \in Utterance : u \in ready => turns[u] = "none"
    BY <1>2, <1>7 DEF BridgeInv, HearInv
  <2>2. QED
    BY <1>1, <1>6, <2>1
<1>9. new # {} => active = 0
  BY <1>6, LiveBridgeAssumption DEF BridgeInv, TypeOK, free, Utterance
<1>10. ASSUME NEW m \in new
       PROVE  /\ m \in Utterance /\ m # 0 /\ turns[m] = "none" /\ turns'[m] = "streaming"
              /\ order' = Append(order, m)
              /\ IF ~ ending THEN active' = m /\ out' = NoOutput /\ task' = "prepare"
                 ELSE active' = 0 /\ UNCHANGED <<out, task>>
  <2>1. m \in Utterance /\ m # 0
    BY <1>2, <1>6 DEF Utterance
  <2>2. QED
    BY <2>1, <1>1, <1>5, <1>6, <1>8, <1>9
<1>11. new = {} => order' = order /\ UNCHANGED <<active, out, task>>
  BY <1>1
<1>12. HearInv'
  <2>1. \A u \in Utterance : turns'[u] # "none" <=> u <= tail'
    BY <1>2, <1>7, <1>8 DEF BridgeInv, HearInv
  <2>2. CASE new = {}
    <3>1. order' = order /\ \A i \in DOMAIN order : order[i] <= tail'
      <4>0. order \in Seq(Utterance)
        <5>1. order \in UNION {[1..n -> Utterance] : n \in 0..Items}
          BY DEF BridgeInv, TypeOK
        <5>2. QED
          BY <5>1, <1>2, BoundedSeq
      <4>1. \A i \in DOMAIN order : order[i] \in Nat
        <5>1. \A i \in DOMAIN order : order[i] \in Utterance
          BY <4>0, LenProperties, ElementOfSeq
        <5>2. QED
          BY <1>2, <5>1
      <4>2. QED
        BY <4>1, <1>2, <1>7, <1>11, <2>2 DEF BridgeInv, HearInv
    <3>2. QED
      BY <2>1, <3>1 DEF BridgeInv, HearInv
  <2>3. CASE new # {}
    <3>1. PICK m \in new : TRUE
      BY <2>3
    <3>2. order' = Append(order, m) /\ m \in (tail + 1)..Items /\ m \in ready /\ m \in Utterance
      BY <1>6, <1>10
    <3>3. m <= tail' /\ m \in Nat /\ tail' \in Nat
      BY <1>2, <1>7, <3>2
    <3>4. /\ \A i \in DOMAIN order' : i <= order'[i] /\ order'[i] <= m
          /\ \A i, j \in DOMAIN order' : i < j => order'[i] < order'[j]
          /\ order' \in UNION {[1..n -> Utterance] : n \in 0..Items}
      BY <3>2, OrderGoesOn DEF BridgeInv
    <3>5. \A i \in DOMAIN order' : order'[i] \in Nat
      BY <3>4, <1>2, BoundedSeq, LenProperties, ElementOfSeq
    <3>6. \A i \in DOMAIN order' : order'[i] <= tail'
      BY <3>3, <3>4, <3>5
    <3>7. QED
      BY <2>1, <3>4, <3>6 DEF HearInv
  <2>4. QED
    BY <2>2, <2>3
<1>13. TypeOK'
  <2>1. (order \in UNION {[1..n -> Utterance] : n \in 0..Items})'
    <3>1. CASE new = {}
      BY <3>1, <1>11 DEF BridgeInv, TypeOK
    <3>2. CASE new # {}
      BY <3>2, <1>6, <1>10, OrderGoesOn DEF BridgeInv
    <3>3. QED
      BY <3>1, <3>2
  <2>2. open' \in BOOLEAN /\ revoked' \in BOOLEAN /\ ending' \in BOOLEAN
    BY <1>1 DEF BridgeInv, TypeOK
  <2>3. items' \in [Utterance -> Item]
    <3>1. \A u \in Utterance : [its[u] EXCEPT !.resolved = TRUE] \in Item
      BY DEF Item
    <3>2. QED
      BY <1>1, <3>1
  <2>4. turns' \in [Utterance -> {"none", "refused", "streaming"} \cup Over]
    BY <1>1 DEF BridgeInv, TypeOK
  <2>5. /\ active' \in 0..Items /\ out' \in Output /\ task' \in {"none", "prepare", "tools"}
        /\ active' # 0 => turns'[active'] = "streaming" \/ revoked
    <3>1. CASE new = {}
      <4>1. active # 0 => active \in Utterance /\ turns[active] # "none"
        BY <1>2 DEF BridgeInv, TypeOK, OutInv, Utterance
      <4>2. QED
        BY <3>1, <4>1, <1>8, <1>11 DEF BridgeInv, TypeOK
    <3>2. CASE new # {}
      <4>1. \A m \in new : m \in 0..Items
        BY <1>2, <1>10 DEF Utterance
      <4>2. out' \in Output /\ task' \in {"none", "prepare", "tools"}
        BY <1>1, NoOutputTyped DEF BridgeInv, TypeOK
      <4>3. QED
        BY <3>2, <4>1, <4>2, <1>2, <1>10
    <3>3. QED
      BY <3>1, <3>2
  <2>6. /\ mailbox' = mailbox /\ retired' = retired /\ remote' = remote
        /\ sent' = sent /\ sealed' = sealed /\ played' = played
    BY <1>1 DEF browser
  <2>7. revoked' = revoked
    BY <1>1
  <2>8. (active # 0 => turns[active] = "streaming" \/ revoked)'
    BY <2>5, <2>7
  <2>9. QED
    BY <2>1, <2>2, <2>3, <2>4, <2>5, <2>6, <2>8, <1>7 DEF BridgeInv, TypeOK
<1>14. FreshInv'
  <2>1. \A u \in Utterance : turns'[u] = "none" => turns[u] = "none"
    BY <1>8
  <2>2. mailbox' = mailbox /\ retired' = retired /\ remote' = remote /\ sent' = sent
    BY <1>1 DEF browser
  <2>3. QED
    BY <2>1, <2>2 DEF BridgeInv, FreshInv
<1>15. OutInv' /\ RemoteInv' /\ BrainInv'
  <2>0. /\ mailbox' = mailbox /\ retired' = retired /\ remote' = remote
        /\ sent' = sent /\ played' = played /\ open' = open
    BY <1>1 DEF browser
  <2>1. CASE active' = active
    <3>1. out' = out /\ task' = task
      BY <2>1, <1>9, <1>10, <1>11
    <3>2. active # 0 => turns'[active] # "none"
      BY <1>2, <1>8 DEF BridgeInv, TypeOK, OutInv, Utterance
    <3>3. QED
      BY <2>0, <2>1, <3>1, <3>2 DEF BridgeInv, OutInv, RemoteInv, BrainInv
  <2>2. CASE active' # active
    <3>1. PICK m \in new : active' = m /\ out' = NoOutput /\ task' = "prepare"
      BY <2>2, <1>9, <1>10, <1>11
    <3>2. /\ m \in Utterance /\ turns[m] = "none" /\ turns'[m] = "streaming" /\ active = 0 /\ m # 0
      BY <1>9, <1>10
    <3>3. /\ \A p \in Phase : remote[m][p] = "none"
          /\ m \notin retired /\ \A x \in mailbox : x[2] # m
      BY <3>2 DEF BridgeInv, FreshInv
    <3>4. OutInv'
      BY <2>0, <3>1, <3>2, <3>3, NoOutputTyped DEF BridgeInv, OutInv
    <3>5. RemoteInv'
      <4>1. \A u \in Utterance : u # 0
        BY <1>2 DEF Utterance
      <4>2. QED
        BY <2>0, <3>1, <3>2, <4>1 DEF BridgeInv, RemoteInv
    <3>6. BrainInv'
      <4>1. \A k : <<k, m>> \notin mailbox
        BY <3>3
      <4>2. remote[m]["tools"] = "none" /\ remote[m]["audio"] = "none"
        BY <3>3 DEF Phase
      <4>3. QED
        BY <2>0, <3>1, <4>1, <4>2 DEF BrainInv
    <3>7. QED
      BY <3>4, <3>5, <3>6
  <2>3. QED
    BY <2>1, <2>2
<1>16. CompletedMeansPlayed'
  <2>1. \A u \in Utterance : turns'[u] = "completed" => turns[u] = "completed"
    BY <1>8
  <2>2. remote' = remote /\ sent' = sent /\ sealed' = sealed /\ played' = played
    BY <1>1 DEF browser
  <2>3. QED
    BY <2>1, <2>2 DEF BridgeInv, CompletedMeansPlayed
<1>17. SilentStep
  BY <1>1, NothingAsked DEF browser
<1>18. QED
  BY <1>12, <1>13, <1>14, <1>15, <1>16, <1>17 DEF Kept, BridgeInv

\* The speaker: he begins to speak, and is heard.
LEMMA SpeakerKeeps ==
  ASSUME BridgeInv, NEW u \in Utterance, Speak(u) \/ Commit(u) \/ Transcribe(u)
  PROVE  Kept
<1>1. CASE Speak(u)
  <2>1. CASE Shut
    BY <2>1, ShutKeeps
  <2>2. CASE ~ Shut
    <3>1. [items EXCEPT ![u].said = TRUE] \in [Utterance -> Item]
      BY DEF BridgeInv, TypeOK, Item
    <3>2. items' \in [Utterance -> Item] /\ Fence
          /\ UNCHANGED <<open, revoked, ending, tail, order, mailbox, browser>>
      BY <1>1, <2>2, <3>1 DEF Speak
    <3>3. ending' \in BOOLEAN /\ mailbox' \subseteq mailbox
      BY <3>2 DEF BridgeInv, TypeOK
    <3>4. QED
      BY <3>2, <3>3, FenceKeeps
  <2>3. QED
    BY <2>1, <2>2
<1>2. ASSUME open, NEW its \in [Utterance -> Item], Observed(its) PROVE Kept
  <2>1. CASE Shut
    BY <2>1, ShutKeeps
  <2>2. CASE ~ Shut
    BY <2>2, <1>2, HeardKeeps DEF Observed
  <2>3. QED
    BY <2>1, <2>2
<1>3. CASE Commit(u)
  <2>1. [items EXCEPT ![u].committed = TRUE] \in [Utterance -> Item]
    BY DEF BridgeInv, TypeOK, Item
  <2>2. QED
    BY <1>2, <1>3, <2>1 DEF Commit
<1>4. CASE Transcribe(u)
  <2>1. PICK f \in Final : Observed([items EXCEPT ![u].final = f])
    BY <1>4 DEF Transcribe
  <2>2. [items EXCEPT ![u].final = f] \in [Utterance -> Item]
    BY DEF BridgeInv, TypeOK, Item
  <2>3. QED
    BY <1>2, <1>4, <2>1, <2>2 DEF Transcribe
<1>5. QED
  BY <1>1, <1>3, <1>4

\* A result waits in the mailbox.
LEMMA PostTyped ==
  ASSUME TypeOK, active # 0, NEW kind \in {"prepared", "tools_ready", "tool_error", "failed"}
  PROVE  /\ mailbox \cup {<<kind, active>>} \subseteq {"prepared", "tools_ready", "tool_error", "failed"} \X Utterance
         /\ active \in Utterance
BY LiveBridgeAssumption DEF TypeOK, Utterance

\* The two tasks.
LEMMA TasksKeep == ASSUME BridgeInv, Prepare \/ RunTools PROVE Kept
<1>1. active # 0 /\ UNCHANGED <<open, revoked, ending, items, tail, turns, order, active, retired, remote, sent, sealed, played>>
  BY DEF Prepare, RunTools, BridgeInv, OutInv, hearing, browser
<1>2. PICK kind \in {"prepared", "tools_ready", "tool_error", "failed"} :
        /\ Post(kind)
        /\ kind = "prepared" => task = "prepare"
        /\ kind = "tools_ready" => task = "tools"
  BY DEF Prepare, RunTools
<1>3. out' \in Output /\ out'.parts = out.parts /\ out'.ended = out.ended
  BY DEF Prepare, RunTools, BridgeInv, TypeOK, Output
<1>4. /\ mailbox' \subseteq {"prepared", "tools_ready", "tool_error", "failed"} \X Utterance
      /\ \A m \in mailbox' : m \in mailbox \/ m = <<kind, active>>
      /\ mailbox \subseteq mailbox' /\ task' = "none" /\ active \in Utterance
  BY <1>1, <1>2, PostTyped DEF Post, BridgeInv
<1>5. TypeOK'
  BY <1>1, <1>3, <1>4, StillTyped DEF BridgeInv, TypeOK
<1>6. HearInv' /\ FreshInv'
  <2>1. \A m \in mailbox' : m \in mailbox \/ m[2] = active
    BY <1>4
  <2>2. QED
    BY <1>1, <2>1 DEF BridgeInv, HearInv, FreshInv, OutInv
<1>7. OutInv' /\ RemoteInv' /\ CompletedMeansPlayed'
  BY <1>1, <1>3, <1>4 DEF BridgeInv, OutInv, RemoteInv, CompletedMeansPlayed
<1>8. BrainInv'
  <2>1. /\ <<"prepared", active>> \in mailbox' => <<"prepared", active>> \in mailbox \/ task = "prepare"
        /\ <<"tools_ready", active>> \in mailbox' => <<"tools_ready", active>> \in mailbox \/ task = "tools"
    BY <1>2, <1>4
  <2>2. QED
    BY <1>1, <1>2, <1>4, <2>1 DEF BridgeInv, BrainInv
<1>9. SilentStep
  BY <1>1, NothingAsked
<1>10. QED
  BY <1>5, <1>6, <1>7, <1>8, <1>9 DEF Kept, BridgeInv

\* A result that nobody waits for is dropped.
LEMMA DroppedKeeps ==
  ASSUME BridgeInv, mailbox' \subseteq mailbox,
         UNCHANGED <<open, revoked, ending, items, tail, turns, order, active, out, task,
                     retired, remote, sent, sealed, played>>
  PROVE  Kept
<1>1. TypeOK'
  BY StillTyped DEF BridgeInv, TypeOK
<1>2. HearInv' /\ FreshInv' /\ OutInv' /\ RemoteInv' /\ CompletedMeansPlayed'
  BY DEF BridgeInv, HearInv, FreshInv, OutInv, RemoteInv, CompletedMeansPlayed
<1>3. BrainInv'
  BY DEF BridgeInv, BrainInv
<1>4. SilentStep
  BY NothingAsked
<1>5. QED
  BY <1>1, <1>2, <1>3, <1>4 DEF Kept, BridgeInv

\* A response is asked for: the plan after the preparation, the answer after the tools.
LEMMA AskKeeps ==
  ASSUME BridgeInv, NEW u \in Utterance, ~ revoked, active = u,
         \/ Take("prepared", u) /\ Ask(u, "tools")
         \/ Take("tools_ready", u) /\ Ask(u, "audio")
  PROVE  Kept
<1>1. UNCHANGED <<open, revoked, ending, items, tail, turns, order, active, out, task, retired, sent, sealed, played>>
  BY DEF Ask, hearing, browser
<1>2. mailbox' \subseteq mailbox /\ turns[u] = "streaming" /\ u # 0
  BY LiveBridgeAssumption DEF Take, BridgeInv, TypeOK, Utterance
<1>3. PICK phase \in Phase : /\ remote' = [remote EXCEPT ![u][phase] = "asked"]
                             /\ phase = "tools" => /\ <<"prepared", u>> \in mailbox
                                                   /\ mailbox' = mailbox \ {<<"prepared", u>>}
                             /\ phase = "audio" => /\ <<"tools_ready", u>> \in mailbox
                                                   /\ mailbox' = mailbox \ {<<"tools_ready", u>>}
  BY DEF Take, Ask, Phase
<1>4. /\ remote' \in [Utterance -> [Phase -> Stage]]
      /\ \A v \in Utterance : \A p \in Phase :
           remote'[v][p] = IF v = u /\ p = phase THEN "asked" ELSE remote[v][p]
  BY <1>3 DEF BridgeInv, TypeOK, Stage
<1>5. TypeOK'
  BY <1>1, <1>2, <1>4, StillTyped DEF BridgeInv, TypeOK
<1>6. HearInv' /\ FreshInv'
  BY <1>1, <1>2, <1>4 DEF BridgeInv, HearInv, FreshInv
<1>7. remote[u]["audio"] = "none" \/ phase = "tools"
  BY <1>2, <1>3 DEF BridgeInv, BrainInv, Phase
<1>8. OutInv' /\ RemoteInv'
  <2>1. ~ out.ended \/ phase = "tools"
    BY <1>7 DEF BridgeInv, OutInv
  <2>2. "audio" \in Phase
    BY DEF Phase
  <2>3. OutInv'
    BY <1>1, <1>4, <2>1, <2>2 DEF BridgeInv, OutInv
  <2>4. RemoteInv'
    BY <1>1, <1>4 DEF BridgeInv, RemoteInv
  <2>5. QED
    BY <2>3, <2>4
<1>9. BrainInv'
  <2>1. Phase = {"tools", "audio"}
    BY DEF Phase
  <2>2. CASE phase = "tools"
    <3>1. /\ remote[u]["tools"] = "none" /\ remote[u]["audio"] = "none"
          /\ task # "prepare" /\ task # "tools" /\ <<"tools_ready", u>> \notin mailbox
      BY <1>2, <1>3, <2>2 DEF BridgeInv, BrainInv
    <3>2. remote'[u]["audio"] = "none" /\ <<"prepared", u>> \notin mailbox'
      BY <1>3, <1>4, <2>1, <2>2, <3>1
    <3>3. QED
      BY <1>1, <1>2, <3>1, <3>2 DEF BrainInv
  <2>3. CASE phase = "audio"
    <3>1. /\ remote[u]["tools"] = "done"
          /\ task # "prepare" /\ task # "tools" /\ <<"prepared", u>> \notin mailbox
      BY <1>2, <1>3, <2>3 DEF BridgeInv, BrainInv
    <3>2. remote'[u]["tools"] = "done" /\ <<"tools_ready", u>> \notin mailbox'
      BY <1>3, <1>4, <2>1, <2>3, <3>1
    <3>3. QED
      BY <1>1, <1>2, <3>1, <3>2 DEF BrainInv
  <2>4. QED
    BY <2>1, <2>2, <2>3
<1>10. CompletedMeansPlayed'
  BY <1>1, <1>2, <1>4 DEF BridgeInv, CompletedMeansPlayed, Phase
<1>11. SilentStep
  BY <1>1, <1>2, <1>4 DEF SilentStep, Over
<1>12. QED
  BY <1>5, <1>6, <1>8, <1>9, <1>10, <1>11 DEF Kept, BridgeInv

\* The controller takes a result.
LEMMA TakesKeep ==
  ASSUME BridgeInv, NEW u \in Utterance,
         \/ TakeReady("prepared", "tools", u) \/ TakeReady("tools_ready", "audio", u)
         \/ TakeFailed(u) \/ TakeError(u)
  PROVE  Kept
<1>0. CASE Shut
  BY <1>0, ShutKeeps
<1>1. ASSUME ~ Shut, TakeReady("prepared", "tools", u) PROVE Kept
  <2>1. ~ revoked /\ Take("prepared", u)
    BY <1>1 DEF TakeReady, Refused
  <2>2. CASE Wanted(u)
    BY <1>1, <2>1, <2>2, AskKeeps DEF TakeReady, Refused, Wanted
  <2>3. CASE ~ Wanted(u)
    BY <1>1, <2>1, <2>3, DroppedKeeps DEF TakeReady, Refused, Take, hearing, browser
  <2>4. QED
    BY <2>2, <2>3
<1>2. CASE TakeFailed(u)
  <2>1. mailbox' \subseteq mailbox /\ UNCHANGED <<open, revoked, ending, items, tail, order, browser>>
    BY <1>2 DEF TakeFailed, Take, hearing
  <2>2. CASE active = u /\ ~ revoked
    <3>1. Fence
      BY <1>2, <2>2 DEF TakeFailed
    <3>2. items' \in [Utterance -> Item] /\ ending' \in BOOLEAN
      BY <2>1 DEF BridgeInv, TypeOK
    <3>3. QED
      BY <2>1, <3>1, <3>2, FenceKeeps
  <2>3. CASE ~ (active = u /\ ~ revoked)
    BY <1>2, <2>1, <2>3, DroppedKeeps DEF TakeFailed, browser
  <2>4. QED
    BY <2>2, <2>3
<1>3. CASE ~ Shut /\ TakeError(u)
  BY <1>3, DroppedKeeps DEF TakeError, Take, hearing, browser
<1>4. ASSUME ~ Shut, TakeReady("tools_ready", "audio", u) PROVE Kept
  <2>1. ~ revoked /\ Take("tools_ready", u)
    BY <1>4 DEF TakeReady, Refused
  <2>2. CASE Wanted(u)
    BY <1>4, <2>1, <2>2, AskKeeps DEF TakeReady, Refused, Wanted
  <2>3. CASE ~ Wanted(u)
    BY <1>4, <2>1, <2>3, DroppedKeeps DEF TakeReady, Refused, Take, hearing, browser
  <2>4. QED
    BY <2>2, <2>3
<1>5. QED
  BY <1>0, <1>1, <1>2, <1>3, <1>4

\* What the provider announces: a response that was asked for, which is stopped at
\* once if its turn is over, or the end of one that was told to stop.
LEMMA AnnouncedKeeps ==
  ASSUME BridgeInv, NEW u \in Utterance, NEW phase \in Phase, Created(u, phase) \/ LateDone(u, phase)
  PROVE  Kept
<1>1. UNCHANGED <<open, revoked, ending, items, tail, turns, order, active, task, mailbox, retired,
                  sent, sealed, played>>
  BY DEF Created, LateDone, hearing, browser
<1>2. PICK stage \in Stage :
        /\ remote' = [remote EXCEPT ![u][phase] = stage]
        /\ stage \notin {"none", "asked"} /\ remote[u][phase] \in {"asked", "cancelled"}
        /\ stage = "live" => u \notin retired /\ remote[u][phase] = "asked"
        /\ stage = "done" => remote[u][phase] = "cancelled"
  <2>1. CASE Created(u, phase)
    BY <2>1 DEF Created, Announced, Stage
  <2>2. CASE LateDone(u, phase)
    BY <2>2 DEF LateDone, Ends, Stage
  <2>3. QED
    BY <2>1, <2>2
<1>3. /\ remote' \in [Utterance -> [Phase -> Stage]]
      /\ \A v \in Utterance : \A p \in Phase :
           remote'[v][p] = IF v = u /\ p = phase THEN stage ELSE remote[v][p]
  BY <1>2 DEF BridgeInv, TypeOK
<1>4. /\ out' \in Output /\ out'.parts = out.parts /\ out'.ended = out.ended
      /\ active = 0 => out' = out
  <2>1. CASE Created(u, phase)
    <3>1. out \in Output /\ \A b \in BOOLEAN : [out EXCEPT !.planner = b] \in Output /\ [out EXCEPT !.response = b] \in Output
      BY DEF BridgeInv, TypeOK, Output
    <3>2. out' = out \/ out' = [out EXCEPT !.planner = TRUE] \/ out' = [out EXCEPT !.response = TRUE]
      BY <2>1 DEF Created
    <3>3. out'.parts = out.parts /\ out'.ended = out.ended
      BY <3>1, <3>2 DEF Output
    <3>4. active = 0 => u \in retired
      BY <2>1, LiveBridgeAssumption DEF Created, BridgeInv, RemoteInv, Utterance
    <3>5. u \in retired => out' = out
      BY <2>1 DEF Created
    <3>6. QED
      BY <3>1, <3>2, <3>3, <3>4, <3>5
  <2>2. CASE LateDone(u, phase)
    BY <2>2 DEF LateDone, BridgeInv, TypeOK
  <2>3. QED
    BY <2>1, <2>2
<1>5. TypeOK'
  BY <1>1, <1>3, <1>4, StillTyped DEF BridgeInv, TypeOK
<1>6. HearInv' /\ FreshInv'
  BY <1>1, <1>2, <1>3 DEF BridgeInv, HearInv, FreshInv
<1>7. OutInv'
  <2>1. ~ (active = u /\ phase = "audio" /\ out.ended)
    BY <1>2 DEF BridgeInv, OutInv
  <2>2. out.ended => remote'[active]["audio"] = "done"
    <3>1. ASSUME out.ended PROVE active \in Utterance /\ remote[active]["audio"] = "done" /\ "audio" \in Phase
      <4>1. active # 0
        BY <3>1, NoOutputTyped DEF BridgeInv, OutInv
      <4>2. QED
        BY <3>1, <4>1, LiveBridgeAssumption DEF BridgeInv, OutInv, TypeOK, Utterance, Phase
    <3>2. QED
      BY <3>1, <2>1, <1>3
  <2>3. QED
    BY <1>1, <1>4, <2>2 DEF BridgeInv, OutInv
<1>8. RemoteInv'
  <2>1. stage = "live" => active = u
    BY <1>2 DEF BridgeInv, RemoteInv
  <2>2. QED
    BY <1>1, <1>2, <1>3, <2>1 DEF BridgeInv, RemoteInv
<1>9. BrainInv'
  <2>1. "tools" \in Phase /\ "audio" \in Phase /\ (active # 0 => active \in Utterance)
    BY LiveBridgeAssumption DEF Phase, BridgeInv, TypeOK, Utterance
  <2>2. active # 0 =>
          /\ remote[active]["tools"] \in {"none", "done"} => remote'[active]["tools"] = remote[active]["tools"]
          /\ remote[active]["audio"] = "none" <=> remote'[active]["audio"] = "none"
    BY <1>2, <1>3, <2>1
  <2>3. QED
    BY <1>1, <2>2 DEF BridgeInv, BrainInv
<1>10. CompletedMeansPlayed'
  BY <1>1, <1>2, <1>3 DEF BridgeInv, CompletedMeansPlayed, Phase
<1>11. SilentStep
  BY <1>1, <1>2, <1>3, NothingAsked
<1>12. QED
  BY <1>5, <1>6, <1>7, <1>8, <1>9, <1>10, <1>11 DEF Kept, BridgeInv

\* The plan is there: the tools run.
LEMMA PlannedKeeps == ASSUME BridgeInv, NEW u \in Utterance, Planned(u) PROVE Kept
<1>0. CASE Shut
  BY <1>0, ShutKeeps
<1>1. CASE ~ Shut
  <2>1. /\ UNCHANGED <<open, revoked, ending, items, tail, turns, order, active, mailbox, retired,
                       sent, sealed, played>>
        /\ remote' = [remote EXCEPT ![u]["tools"] = "done"] /\ task' = "tools"
        /\ out' = [out EXCEPT !.planned = TRUE]
        /\ active = u /\ remote[u]["tools"] = "live" /\ u # 0
    BY <1>1, LiveBridgeAssumption DEF Planned, Ends, hearing, browser, Utterance
  <2>2. /\ remote' \in [Utterance -> [Phase -> Stage]]
        /\ \A v \in Utterance : \A p \in Phase :
             remote'[v][p] = IF v = u /\ p = "tools" THEN "done" ELSE remote[v][p]
    BY <2>1 DEF BridgeInv, TypeOK, Stage, Phase
  <2>3. out' \in Output /\ out'.parts = out.parts /\ out'.ended = out.ended
    BY <2>1 DEF BridgeInv, TypeOK, Output
  <2>4. TypeOK'
    BY <2>1, <2>2, <2>3, StillTyped DEF BridgeInv, TypeOK
  <2>5. HearInv' /\ FreshInv'
    BY <2>1, <2>2 DEF BridgeInv, HearInv, FreshInv, OutInv
  <2>6. OutInv' /\ RemoteInv'
    <3>1. "audio" \in Phase
      BY DEF Phase
    <3>2. OutInv'
      BY <2>1, <2>2, <2>3, <3>1 DEF BridgeInv, OutInv
    <3>3. RemoteInv'
      BY <2>1, <2>2 DEF BridgeInv, RemoteInv
    <3>4. QED
      BY <3>2, <3>3
  <2>7. BrainInv'
    <3>1. /\ task # "prepare" /\ <<"prepared", u>> \notin mailbox
          /\ <<"tools_ready", u>> \notin mailbox /\ remote[u]["audio"] = "none"
      BY <2>1 DEF BridgeInv, BrainInv
    <3>2. remote'[u]["tools"] = "done" /\ remote'[u]["audio"] = "none"
      BY <2>2, <3>1 DEF Phase
    <3>3. QED
      BY <2>1, <3>1, <3>2 DEF BrainInv
  <2>8. CompletedMeansPlayed'
    BY <2>1, <2>2 DEF BridgeInv, CompletedMeansPlayed, Phase
  <2>9. SilentStep
    BY <2>1, <2>2, NothingAsked
  <2>10. QED
    BY <2>4, <2>5, <2>6, <2>7, <2>8, <2>9 DEF Kept, BridgeInv
<1>2. QED
  BY <1>0, <1>1

\* One part more can be spoken of, and what is said of a part.
LEMMA ExtendedTyped ==
  ASSUME out \in Output, NEW p \in 1..MaxParts, p <= Len(out.parts) + 1, NEW b \in [audible : BOOLEAN, done : BOOLEAN, text : BOOLEAN],
         NEW next, next = [Extended(out.parts, p) EXCEPT ![p] = b]
  PROVE  /\ [out EXCEPT !.parts = next] \in Output
         /\ [out EXCEPT !.parts = next].ended = out.ended
         /\ [out EXCEPT !.parts = next].parts = next
         /\ p \in DOMAIN next
         /\ DOMAIN out.parts \subseteq DOMAIN next
         /\ \A q \in DOMAIN next : next[q] = IF q = p THEN b ELSE out.parts[q]
         /\ \A q \in DOMAIN next : q # p => q \in DOMAIN out.parts
<1>1. MaxParts \in Nat
  BY LiveBridgeAssumption
<1>2. out.parts \in Seq(Part) /\ Len(out.parts) <= MaxParts /\ Len(out.parts) \in Nat
  <2>1. out.parts \in UNION {[1..n -> Part] : n \in 0..MaxParts}
    BY DEF Output
  <2>2. out.parts \in Seq(Part) /\ Len(out.parts) <= MaxParts
    BY <1>1, <2>1, BoundedSeq
  <2>3. QED
    BY <2>2, LenProperties
<1> DEFINE long == Extended(out.parts, p)
<1>3. /\ long \in Seq(Part) /\ Len(long) \in Nat /\ Len(long) <= MaxParts /\ p \in 1..Len(long)
      /\ Len(out.parts) <= Len(long)
      /\ \A q \in 1..Len(long) : q # p => q \in 1..Len(out.parts) /\ long[q] = out.parts[q]
  <2>1. DOMAIN out.parts = 1..Len(out.parts)
    BY <1>2, LenProperties
  <2>2. CASE p \in DOMAIN out.parts
    BY <1>2, <2>1, <2>2 DEF Extended
  <2>3. CASE p \notin DOMAIN out.parts
    <3>1. p = Len(out.parts) + 1 /\ long = Append(out.parts, NoPart)
      BY <1>1, <1>2, <2>1, <2>3 DEF Extended
    <3>2. NoPart \in Part
      BY DEF NoPart, Part
    <3>3. /\ long \in Seq(Part) /\ Len(long) = Len(out.parts) + 1
          /\ \A q \in 1..Len(out.parts) : long[q] = out.parts[q]
      <4>1. ASSUME NEW s \in Seq(Part)
            PROVE  /\ Append(s, NoPart) \in Seq(Part) /\ Len(Append(s, NoPart)) = Len(s) + 1
                   /\ \A q \in 1..Len(s) : Append(s, NoPart)[q] = s[q]
        BY <3>2
      <4>2. QED
        BY <1>2, <3>1, <4>1
    <3>4. QED
      BY <1>1, <1>2, <3>1, <3>3
  <2>4. QED
    BY <2>2, <2>3
<1> HIDE DEF long
<1>4. b \in Part
  BY DEF Part
<1>5. next = [long EXCEPT ![p] = b]
  BY DEF long
<1>6. next \in Seq(Part) /\ Len(next) = Len(long) /\ DOMAIN next = 1..Len(long)
  <2>1. next \in Seq(Part) /\ Len(next) = Len(long)
    <3>1. long \in Seq(Part) /\ p \in 1..Len(long)
      BY <1>3
    <3>2. ASSUME NEW s \in Seq(Part), p \in 1..Len(s)
          PROVE  [s EXCEPT ![p] = b] \in Seq(Part) /\ Len([s EXCEPT ![p] = b]) = Len(s)
      <4>1. Len(s) \in Nat /\ s \in [1..Len(s) -> Part]
        BY LenProperties
      <4>2. [s EXCEPT ![p] = b] \in [1..Len(s) -> Part]
        BY <4>1, <1>4
      <4>3. [s EXCEPT ![p] = b] \in Seq(Part)
        BY <4>1, <4>2
      <4>4. Len([s EXCEPT ![p] = b]) \in Nat /\ 1..Len([s EXCEPT ![p] = b]) = 1..Len(s)
        BY <4>2, <4>3, LenProperties
      <4>5. QED
        BY <4>1, <4>3, <4>4
    <3>3. QED
      BY <3>1, <3>2, <1>5
  <2>2. QED
    BY <2>1, LenProperties
<1>7. next \in UNION {[1..n -> Part] : n \in 0..MaxParts}
  BY <1>1, <1>3, <1>6, BoundedSeq
<1>8. \A q \in DOMAIN next : /\ next[q] = IF q = p THEN b ELSE out.parts[q]
                             /\ q # p => q \in 1..Len(out.parts)
  <2>1. DOMAIN long = 1..Len(long)
    BY <1>3, LenProperties
  <2>2. QED
    BY <1>3, <1>5, <1>6, <2>1
<1>9. DOMAIN out.parts = 1..Len(out.parts)
  BY <1>2, LenProperties
<1>10. /\ [out EXCEPT !.parts = next] \in Output
       /\ [out EXCEPT !.parts = next].ended = out.ended
       /\ [out EXCEPT !.parts = next].parts = next
  BY <1>7 DEF Output
<1>11. DOMAIN out.parts \subseteq DOMAIN next
  BY <1>2, <1>3, <1>6, <1>9
<1>12. p \in DOMAIN next
  BY <1>3, <1>6
<1>13. QED
  BY <1>8, <1>9, <1>10, <1>11, <1>12

\* What is said of the parts of the active output, and a frame more, if one was sent.
LEMMA PartsKeep ==
  ASSUME BridgeInv, NEW u \in Utterance, Speaking(u),
         NEW next, out' = [out EXCEPT !.parts = next], [out EXCEPT !.parts = next] \in Output,
         [out EXCEPT !.parts = next].parts = next,
         NEW m \in 0..MaxFrames, sent' = [sent EXCEPT ![u] = m], sent[u] <= m,
         \A p \in DOMAIN next : next[p].audible => m > 0,
         UNCHANGED <<open, revoked, ending, items, tail, turns, order, active, task, mailbox,
                     retired, remote, sealed, played>>
  PROVE  Kept
<1>1. active = u /\ remote[u]["audio"] = "live" /\ u # 0 /\ "audio" \in Phase
  BY LiveBridgeAssumption DEF Speaking, Utterance, Phase
<1>2. turns[u] # "completed" /\ ~ out.ended /\ ~ out'.ended
  <2>1. out'.ended = out.ended
    BY DEF BridgeInv, TypeOK, Output
  <2>2. QED
    BY <1>1, <2>1 DEF BridgeInv, CompletedMeansPlayed, OutInv
<1>3. /\ sent[u] \in Nat /\ m \in Nat
      /\ \A v \in Utterance : played[v] \in Nat /\ sent[v] \in Nat
  BY LiveBridgeAssumption DEF BridgeInv, TypeOK
<1>4. \A v \in Utterance : sent'[v] = IF v = u THEN m ELSE sent[v]
  BY DEF BridgeInv, TypeOK
<1>5. TypeOK'
  <2>1. sent' \in [Utterance -> 0..MaxFrames]
    BY DEF BridgeInv, TypeOK
  <2>2. QED
    BY <2>1, StillTyped DEF BridgeInv, TypeOK
<1>6. HearInv' /\ FreshInv'
  BY <1>1, <1>4 DEF BridgeInv, HearInv, FreshInv, OutInv
<1>7. OutInv'
  <2>1. \A v \in Utterance : played'[v] <= sent'[v]
    BY <1>3, <1>4 DEF BridgeInv, OutInv
  <2>2. \A p \in DOMAIN out'.parts : out'.parts[p].audible => sent'[active'] > 0
    BY <1>1, <1>4
  <2>3. QED
    BY <1>1, <1>2, <2>1, <2>2 DEF BridgeInv, OutInv
<1>8. RemoteInv' /\ BrainInv'
  BY DEF BridgeInv, RemoteInv, BrainInv
<1>9. CompletedMeansPlayed'
  BY <1>2, <1>4 DEF BridgeInv, CompletedMeansPlayed
<1>10. SilentStep
  BY <1>1, <1>2, <1>4 DEF SilentStep, BridgeInv, TypeOK, Over
<1>11. QED
  BY <1>5, <1>6, <1>7, <1>8, <1>9, <1>10 DEF Kept, BridgeInv

\* The answer is spoken: frames, their ends and the words of each part.
LEMMA SpeechKeeps ==
  ASSUME BridgeInv, NEW u \in Utterance, NEW p \in 1..MaxParts,
         Audio(u, p) \/ AudioDone(u, p) \/ TextDone(u, p)
  PROVE  Kept
<1>0. CASE Shut
  BY <1>0, ShutKeeps
<1> DEFINE Bits == [audible : BOOLEAN, done : BOOLEAN, text : BOOLEAN]
<1>1. /\ out \in Output /\ out.parts \in Seq(Part) /\ DOMAIN out.parts = 1..Len(out.parts)
      /\ Len(out.parts) \in Nat
      /\ MaxFrames \in Nat /\ u # 0 /\ sent \in [Utterance -> 0..MaxFrames] /\ sent[u] \in Nat
  <2>1. out \in Output /\ sent \in [Utterance -> 0..MaxFrames] /\ MaxFrames \in Nat /\ u # 0 /\ MaxParts \in Nat
    BY LiveBridgeAssumption DEF BridgeInv, TypeOK, Utterance
  <2>2. out.parts \in UNION {[1..n -> Part] : n \in 0..MaxParts}
    BY <2>1 DEF Output
  <2>3. out.parts \in Seq(Part)
    BY <2>1, <2>2, BoundedSeq
  <2>4. QED
    BY <2>1, <2>3, LenProperties
<1>2. p <= Len(out.parts) + 1 =>
        /\ Extended(out.parts, p) \in Seq(Part) /\ p \in DOMAIN Extended(out.parts, p)
        /\ Extended(out.parts, p)[p] \in Part
  <2>1. SUFFICES ASSUME p <= Len(out.parts) + 1
                 PROVE  Extended(out.parts, p) \in Seq(Part) /\ p \in 1..Len(Extended(out.parts, p))
    BY <2>1, LenProperties, ElementOfSeq
  <2>2. CASE p \in DOMAIN out.parts
    BY <2>2, <1>1 DEF Extended
  <2>3. CASE p \notin DOMAIN out.parts
    <3>1. p = Len(out.parts) + 1 /\ Extended(out.parts, p) = Append(out.parts, NoPart)
      BY <1>1, <2>1, <2>3, LiveBridgeAssumption DEF Extended
    <3>2. NoPart \in Part
      BY DEF NoPart, Part
    <3>3. ASSUME NEW s \in Seq(Part)
          PROVE  Append(s, NoPart) \in Seq(Part) /\ Len(Append(s, NoPart)) = Len(s) + 1
      BY <3>2
    <3>4. Append(out.parts, NoPart) \in Seq(Part) /\ Len(Append(out.parts, NoPart)) = Len(out.parts) + 1
      BY <1>1, <3>3
    <3>5. p \in 1..(Len(out.parts) + 1)
      BY <1>1, <3>1
    <3>6. QED
      BY <3>1, <3>4, <3>5
  <2>4. QED
    BY <2>2, <2>3
<1>3. CASE ~ Shut /\ Audio(u, p)
  <2> DEFINE long == Extended(out.parts, p)
  <2> DEFINE b == [long[p] EXCEPT !.audible = TRUE]
  <2> DEFINE next == [long EXCEPT ![p] = b]
  <2>1. /\ Speaking(u) /\ p <= Len(out.parts) + 1 /\ sent[u] < MaxFrames
        /\ sent' = [sent EXCEPT ![u] = sent[u] + 1]
        /\ out' = [out EXCEPT !.parts = [long EXCEPT ![p].audible = TRUE]]
        /\ UNCHANGED <<open, revoked, ending, items, tail, turns, order, active, task, mailbox,
                       retired, remote, sealed, played>>
    BY <1>3 DEF Audio, hearing
  <2>2. b \in Bits
    BY <1>2, <2>1 DEF Part
  <2>3. out' = [out EXCEPT !.parts = next]
    BY <2>1
  <2>4. [out EXCEPT !.parts = next] \in Output /\ [out EXCEPT !.parts = next].parts = next
    <3>1. out \in Output /\ p <= Len(out.parts) + 1 /\ b \in [audible : BOOLEAN, done : BOOLEAN, text : BOOLEAN]
      BY <1>1, <2>1, <2>2
    <3>2. next = [Extended(out.parts, p) EXCEPT ![p] = b]
      OBVIOUS
    <3> HIDE DEF b, next
    <3>3. QED
      BY <3>1, <3>2, ExtendedTyped
  <2> HIDE DEF next
  <2>5. sent[u] + 1 \in 0..MaxFrames /\ sent[u] <= sent[u] + 1 /\ sent[u] + 1 > 0
    BY <1>1, <2>1
  <2>6. QED
    BY <2>1, <2>3, <2>4, <2>5, PartsKeep
<1>4. ASSUME NEW b \in Bits, Speaking(u), p <= Len(out.parts) + 1,
             out' = [out EXCEPT !.parts = [Extended(out.parts, p) EXCEPT ![p] = b]],
             p \in DOMAIN out.parts => b.audible = out.parts[p].audible,
             p \notin DOMAIN out.parts => ~ b.audible,
             UNCHANGED <<open, revoked, ending, items, tail, turns, order, active, task, mailbox,
                         retired, remote, sent, sealed, played>>
      PROVE  Kept
  <2> DEFINE next == [Extended(out.parts, p) EXCEPT ![p] = b]
  <2>1. /\ [out EXCEPT !.parts = next] \in Output /\ [out EXCEPT !.parts = next].parts = next
        /\ \A q \in DOMAIN next : next[q] = IF q = p THEN b ELSE out.parts[q]
        /\ \A q \in DOMAIN next : q # p => q \in DOMAIN out.parts
    <3>1. out \in Output /\ p <= Len(out.parts) + 1 /\ b \in [audible : BOOLEAN, done : BOOLEAN, text : BOOLEAN]
      BY <1>1, <1>4
    <3>2. next = [Extended(out.parts, p) EXCEPT ![p] = b]
      OBVIOUS
    <3> HIDE DEF next
    <3>3. QED
      BY <3>1, <3>2, ExtendedTyped
  <2>2. out' = [out EXCEPT !.parts = next]
    BY <1>4
  <2> HIDE DEF next
  <2>3. active = u
    BY <1>4 DEF Speaking
  <2>4. \A q \in DOMAIN next : next[q].audible => sent[u] > 0
    <3>1. ASSUME NEW q \in DOMAIN next, next[q].audible PROVE q \in DOMAIN out.parts /\ out.parts[q].audible
      BY <2>1, <3>1, <1>4
    <3>2. QED
      BY <2>3, <3>1 DEF BridgeInv, OutInv
  <2>5. sent' = [sent EXCEPT ![u] = sent[u]] /\ sent[u] \in 0..MaxFrames /\ sent[u] <= sent[u]
    BY <1>1, <1>4
  <2>6. QED
    BY <1>4, <2>1, <2>2, <2>4, <2>5, PartsKeep
<1>5. CASE ~ Shut /\ AudioDone(u, p)
  <2> DEFINE b == [out.parts[p] EXCEPT !.done = TRUE]
  <2>1. /\ Speaking(u) /\ p \in DOMAIN out.parts
        /\ out' = [out EXCEPT !.parts[p].done = TRUE]
        /\ UNCHANGED <<open, revoked, ending, items, tail, turns, order, active, task, mailbox,
                       retired, remote, sent, sealed, played>>
    BY <1>5 DEF AudioDone, hearing, browser
  <2>2. out.parts[p] \in Part
    BY <1>1, <2>1, ElementOfSeq
  <2>3. b \in Bits /\ b.audible = out.parts[p].audible
    BY <2>2 DEF Part
  <2>4. Extended(out.parts, p) = out.parts /\ p <= Len(out.parts) + 1
    BY <1>1, <2>1 DEF Extended
  <2>5. out' = [out EXCEPT !.parts = [out.parts EXCEPT ![p] = b]]
    BY <2>1
  <2> HIDE DEF b
  <2>6. QED
    BY <1>4, <2>1, <2>3, <2>4, <2>5
<1>6. CASE ~ Shut /\ TextDone(u, p)
  <2> DEFINE long == Extended(out.parts, p)
  <2> DEFINE b == [long[p] EXCEPT !.text = TRUE]
  <2>1. /\ Speaking(u) /\ p <= Len(out.parts) + 1
        /\ out' = [out EXCEPT !.parts = [long EXCEPT ![p].text = TRUE]]
        /\ UNCHANGED <<open, revoked, ending, items, tail, turns, order, active, task, mailbox,
                       retired, remote, sent, sealed, played>>
    BY <1>6 DEF TextDone, hearing, browser
  <2>2. b \in Bits /\ b.audible = long[p].audible
    BY <1>2, <2>1 DEF Part
  <2>3. p \in DOMAIN out.parts => b.audible = out.parts[p].audible
    BY <2>2 DEF Extended
  <2>4. p \notin DOMAIN out.parts => ~ b.audible
    <3>1. SUFFICES ASSUME p \notin DOMAIN out.parts PROVE ~ long[p].audible
      BY <2>2
    <3>2. p = Len(out.parts) + 1 /\ long = Append(out.parts, NoPart)
      BY <1>1, <2>1, <3>1, LiveBridgeAssumption DEF Extended
    <3>3. ASSUME NEW s \in Seq(Part) PROVE Append(s, NoPart)[Len(s) + 1] = NoPart
      BY DEF NoPart, Part
    <3>4. long[p] = NoPart
      BY <1>1, <3>2, <3>3
    <3>5. QED
      BY <3>4 DEF NoPart
  <2>5. out' = [out EXCEPT !.parts = [long EXCEPT ![p] = b]]
    BY <2>1
  <2> HIDE DEF b
  <2>6. QED
    BY <1>4, <2>1, <2>2, <2>3, <2>4, <2>5
<1>7. QED
  BY <1>0, <1>3, <1>5, <1>6

\* The response is over: the whole answer is sealed.
LEMMA ResponseKeeps == ASSUME BridgeInv, NEW u \in Utterance, ResponseDone(u) PROVE Kept
<1>0. CASE Shut
  BY <1>0, ShutKeeps
<1>1. CASE Fence /\ UNCHANGED <<open, revoked, ending, hearing, order, mailbox, browser>>
  <2>1. items' \in [Utterance -> Item] /\ ending' \in BOOLEAN
    BY <1>1 DEF BridgeInv, TypeOK, hearing
  <2>2. QED
    BY <1>1, <2>1, FenceKeeps DEF hearing
<1>2. CASE /\ Speaking(u) /\ Whole /\ Ends(u, "audio")
           /\ out' = [out EXCEPT !.ended = TRUE] /\ sealed' = sealed \cup {u}
           /\ UNCHANGED <<open, revoked, ending, hearing, turns, order, active, task, mailbox,
                          retired, sent, played>>
  <2>1. /\ UNCHANGED <<open, revoked, ending, items, tail, turns, order, active, task, mailbox, retired,
                       sent, played>>
        /\ active = u /\ remote[u]["audio"] = "live" /\ u # 0
        /\ remote' = [remote EXCEPT ![u]["audio"] = "done"] /\ sealed' = sealed \cup {u}
    BY <1>2, LiveBridgeAssumption DEF Speaking, Ends, hearing, Utterance
  <2>2. /\ remote' \in [Utterance -> [Phase -> Stage]]
        /\ \A v \in Utterance : \A p \in Phase :
             remote'[v][p] = IF v = u /\ p = "audio" THEN "done" ELSE remote[v][p]
    BY <2>1 DEF BridgeInv, TypeOK, Stage, Phase
  <2>3. out' \in Output /\ out'.parts = out.parts /\ out'.ended = TRUE
    BY <1>2 DEF BridgeInv, TypeOK, Output
  <2>4. sent[u] > 0
    <3>1. PICK p \in DOMAIN out.parts : out.parts[p].audible
      <4>1. out.parts \in Seq(Part)
        BY LiveBridgeAssumption, BoundedSeq DEF BridgeInv, TypeOK, Output
      <4>2. out.parts # <<>> => 1 \in DOMAIN out.parts
        BY <4>1, LenProperties
      <4>3. QED
        BY <1>2, <4>2 DEF Whole
    <3>2. QED
      BY <2>1, <3>1 DEF BridgeInv, OutInv
  <2>5. TypeOK'
    BY <2>1, <2>2, <2>3, StillTyped DEF BridgeInv, TypeOK
  <2>6. HearInv' /\ FreshInv'
    BY <2>1, <2>2 DEF BridgeInv, HearInv, FreshInv, OutInv
  <2>7. OutInv' /\ RemoteInv'
    <3>1. "audio" \in Phase
      BY DEF Phase
    <3>2. OutInv'
      BY <2>1, <2>2, <2>3, <2>4, <3>1 DEF BridgeInv, OutInv
    <3>3. RemoteInv'
      BY <2>1, <2>2 DEF BridgeInv, RemoteInv
    <3>4. QED
      BY <3>2, <3>3
  <2>8. BrainInv'
    <3>1. remote'[u]["tools"] = remote[u]["tools"] /\ remote[u]["audio"] # "none"
      BY <2>1, <2>2 DEF Phase
    <3>2. QED
      BY <2>1, <3>1 DEF BridgeInv, BrainInv
  <2>9. CompletedMeansPlayed'
    BY <2>1, <2>2 DEF BridgeInv, CompletedMeansPlayed, Phase
  <2>10. SilentStep
    BY <2>1, <2>2, NothingAsked
  <2>11. QED
    BY <2>5, <2>6, <2>7, <2>8, <2>9, <2>10 DEF Kept, BridgeInv
<1>3. QED
  BY <1>0, <1>1, <1>2 DEF ResponseDone, Refused

\* The browser plays, and says how far it is.
LEMMA PlaysKeep ==
  ASSUME BridgeInv, NEW u \in Utterance, NEW n \in 0..MaxFrames, Play(u) \/ Progress(u, n)
  PROVE  Kept
<1>1. CASE Play(u)
  <2>1. /\ UNCHANGED <<open, revoked, ending, items, tail, turns, order, active, out, task, mailbox,
                       retired, remote, sent, sealed>>
        /\ played' = [played EXCEPT ![u] = played[u] + 1] /\ played[u] < sent[u]
    BY <1>1 DEF Play, hearing
  <2>2. played[u] \in 0..MaxFrames /\ sent[u] \in 0..MaxFrames /\ MaxFrames \in Nat
    BY LiveBridgeAssumption DEF BridgeInv, TypeOK
  <2>3. played' \in [Utterance -> 0..MaxFrames] /\ played[u] + 1 <= sent[u]
    BY <2>1, <2>2 DEF BridgeInv, TypeOK
  <2>4. turns[u] # "completed"
    BY <2>1, <2>2 DEF BridgeInv, CompletedMeansPlayed
  <2>5. TypeOK'
    BY <2>1, <2>3, StillTyped DEF BridgeInv, TypeOK
  <2>6. OutInv'
    <3>1. \A v \in Utterance : played'[v] = IF v = u THEN played[u] + 1 ELSE played[v]
      BY <2>1 DEF BridgeInv, TypeOK
    <3>2. QED
      BY <2>1, <2>3, <3>1 DEF BridgeInv, OutInv
  <2>7. HearInv' /\ FreshInv' /\ RemoteInv' /\ BrainInv'
    BY <2>1 DEF BridgeInv, HearInv, FreshInv, RemoteInv, BrainInv
  <2>8. CompletedMeansPlayed'
    BY <2>1, <2>4 DEF BridgeInv, CompletedMeansPlayed, TypeOK
  <2>9. SilentStep
    BY <2>1, NothingAsked
  <2>10. QED
    BY <2>5, <2>6, <2>7, <2>8, <2>9 DEF Kept, BridgeInv
<1>2. CASE Progress(u, n)
  <2>1. /\ UNCHANGED <<open, revoked, ending, items, tail, turns, order, active, task, mailbox,
                       retired, remote, sent, sealed, played>>
        /\ out' = [out EXCEPT !.acked = n] /\ active = u /\ u # 0
    BY <1>2, LiveBridgeAssumption DEF Progress, hearing, browser, Utterance
  <2>2. out' \in Output /\ out'.parts = out.parts /\ out'.ended = out.ended
    BY <2>1 DEF BridgeInv, TypeOK, Output
  <2>3. TypeOK'
    BY <2>1, <2>2, StillTyped DEF BridgeInv, TypeOK
  <2>4. OutInv'
    BY <2>1, <2>2 DEF BridgeInv, OutInv
  <2>5. HearInv' /\ FreshInv' /\ RemoteInv' /\ BrainInv' /\ CompletedMeansPlayed'
    BY <2>1 DEF BridgeInv, HearInv, FreshInv, RemoteInv, BrainInv, CompletedMeansPlayed
  <2>6. SilentStep
    BY <2>1, NothingAsked
  <2>7. QED
    BY <2>3, <2>4, <2>5, <2>6 DEF Kept, BridgeInv
<1>3. QED
  BY <1>1, <1>2

\* The browser has played the last frame of a sealed answer.
LEMMA DrainedKeeps ==
  ASSUME BridgeInv, NEW u \in Utterance, NEW n \in 0..MaxFrames, Drained(u, n)
  PROVE  Kept
<1>0. CASE Shut
  BY <1>0, ShutKeeps
<1>1. CASE ~ Shut
  <2>1. /\ UNCHANGED <<open, revoked, ending, items, tail, order, task, mailbox, remote,
                       sent, sealed, played>>
        /\ active = u /\ n <= played[u]
        /\ turns' = [turns EXCEPT ![u] = "completed"] /\ retired' = retired \cup {u}
        /\ active' = 0 /\ out' = NoOutput
        /\ out.ended /\ u \in sealed /\ n = sent[u]
    BY <1>1 DEF Drained, Refused, Proven, hearing, browser
  <2>2. /\ sent[u] \in Nat /\ played[u] \in Nat /\ u # 0 /\ \A v \in Utterance : v # 0
    <3>1. \A v \in Utterance : v # 0
      BY LiveBridgeAssumption DEF Utterance
    <3>2. sent[u] \in 0..MaxFrames /\ played[u] \in 0..MaxFrames
      BY DEF BridgeInv, TypeOK
    <3>3. QED
      BY <3>1, <3>2, LiveBridgeAssumption
  <2>3. /\ remote[u]["audio"] = "done" /\ sent[u] > 0 /\ played[u] = sent[u]
    BY <2>1, <2>2 DEF BridgeInv, OutInv
  <2>4. task = "none" /\ remote[u]["tools"] = "done"
    BY <2>1, <2>2, <2>3 DEF BridgeInv, BrainInv, TypeOK
  <2>5. TypeOK'
    <3>1. turns' \in [Utterance -> {"none", "refused", "streaming"} \cup Over]
      BY <2>1 DEF BridgeInv, TypeOK, Over
    <3>2. 0 \in 0..Items
      BY LiveBridgeAssumption
    <3>3. QED
      BY <2>1, <3>1, <3>2, NoOutputTyped, StillTyped DEF BridgeInv, TypeOK
  <2>6. \A v \in Utterance : turns'[v] = IF v = u THEN "completed" ELSE turns[v]
    BY <2>1 DEF BridgeInv, TypeOK
  <2>7. turns[u] # "none"
    BY <2>1, <2>2 DEF BridgeInv, OutInv
  <2>8. HearInv' /\ FreshInv'
    BY <2>1, <2>6, <2>7 DEF BridgeInv, HearInv, FreshInv
  <2>9. OutInv'
    BY <2>1, <2>4, NoOutputTyped DEF BridgeInv, OutInv
  <2>10. RemoteInv'
    <3>1. \A p \in Phase : remote[u][p] = "done"
      BY <2>3, <2>4 DEF Phase
    <3>2. QED
      BY <2>1, <2>2, <3>1 DEF BridgeInv, RemoteInv
  <2>11. BrainInv'
    BY <2>1 DEF BrainInv
  <2>12. CompletedMeansPlayed'
    BY <2>1, <2>3, <2>6 DEF BridgeInv, CompletedMeansPlayed
  <2>13. SilentStep
    BY <2>1, NothingAsked
  <2>14. QED
    BY <2>5, <2>8, <2>9, <2>10, <2>11, <2>12, <2>13 DEF Kept, BridgeInv
<1>2. QED
  BY <1>0, <1>1

\* Somebody interrupts, or ends the call.
LEMMA InterruptKeeps == ASSUME BridgeInv, Interrupt \/ EndCall PROVE Kept
<1>0. CASE Shut
  BY <1>0, ShutKeeps
<1>1. CASE ~ Shut
  <2>1. /\ Fence /\ UNCHANGED <<open, revoked, items, tail, order, mailbox, browser>>
        /\ ending' = ending \/ ending' = TRUE
    BY <1>1 DEF Interrupt, EndCall, Refused, hearing
  <2>2. items' \in [Utterance -> Item] /\ ending' \in BOOLEAN
    BY <2>1 DEF BridgeInv, TypeOK
  <2>3. QED
    BY <2>1, <2>2, FenceKeeps
<1>2. QED
  BY <1>0, <1>1

\* The session is withdrawn elsewhere, and its turns are ended.
LEMMA WithdrawnKeeps == ASSUME BridgeInv, Release \/ Revoke PROVE Kept
<1>1. CASE Release
  <2>1. /\ UNCHANGED <<open, revoked, ending, items, tail, order, active, out, task, mailbox,
                       retired, remote, sent, sealed, played>>
        /\ turns' = [u \in Utterance |-> IF turns[u] = "streaming" THEN "interrupted" ELSE turns[u]]
        /\ ~ open \/ revoked
    BY <1>1 DEF Release, LetGo, hearing, browser
  <2>2. active # 0 => revoked
    BY <2>1 DEF BridgeInv, OutInv
  <2>3. TypeOK'
    <3>1. turns' \in [Utterance -> {"none", "refused", "streaming"} \cup Over]
      BY <2>1 DEF BridgeInv, TypeOK, Over
    <3>2. QED
      BY <2>1, <2>2, <3>1, StillTyped DEF BridgeInv, TypeOK
  <2>4. \A u \in Utterance : /\ turns'[u] = "none" <=> turns[u] = "none"
                             /\ turns'[u] = "completed" <=> turns[u] = "completed"
    BY <2>1
  <2>5. HearInv' /\ FreshInv' /\ CompletedMeansPlayed'
    BY <2>1, <2>4 DEF BridgeInv, HearInv, FreshInv, CompletedMeansPlayed
  <2>6. OutInv'
    <3>1. active # 0 => active \in Utterance
      BY LiveBridgeAssumption DEF BridgeInv, TypeOK, Utterance
    <3>2. QED
      BY <2>1, <2>4, <3>1 DEF BridgeInv, OutInv
  <2>7. RemoteInv' /\ BrainInv'
    BY <2>1 DEF BridgeInv, RemoteInv, BrainInv
  <2>8. SilentStep
    BY <2>1, NothingAsked
  <2>9. QED
    BY <2>3, <2>5, <2>6, <2>7, <2>8 DEF Kept, BridgeInv
<1>2. CASE Revoke
  <2>1. /\ UNCHANGED <<open, ending, items, tail, turns, order, active, out, task, mailbox,
                       retired, remote, sent, sealed, played>>
        /\ revoked' = TRUE
    BY <1>2 DEF Revoke, hearing, browser
  <2>2. TypeOK'
    <3>1. (order \in UNION {[1..n -> Utterance] : n \in 0..Items})'
      BY <2>1 DEF BridgeInv, TypeOK
    <3>2. open' \in BOOLEAN /\ ending' \in BOOLEAN /\ revoked' \in BOOLEAN
      BY <2>1 DEF BridgeInv, TypeOK
    <3>3. QED
      BY <2>1, <3>1, <3>2 DEF BridgeInv, TypeOK
  <2>3. HearInv' /\ FreshInv' /\ OutInv' /\ RemoteInv' /\ BrainInv' /\ CompletedMeansPlayed'
    BY <2>1 DEF BridgeInv, HearInv, FreshInv, OutInv, RemoteInv, BrainInv, CompletedMeansPlayed
  <2>4. SilentStep
    BY <2>1, NothingAsked
  <2>5. QED
    BY <2>2, <2>3, <2>4 DEF Kept, BridgeInv
<1>3. QED
  BY <1>1, <1>2

LEMMA BridgeInit == Init => BridgeInv
<1> SUFFICES ASSUME Init PROVE BridgeInv
  OBVIOUS
<1>1. /\ open = TRUE /\ revoked = FALSE /\ ending = FALSE
      /\ items = [u \in Utterance |-> NoItem] /\ tail = 0
      /\ turns = [u \in Utterance |-> "none"] /\ order = <<>>
      /\ active = 0 /\ out = NoOutput /\ task = "none" /\ mailbox = {} /\ retired = {}
      /\ remote = [u \in Utterance |-> [p \in Phase |-> "none"]]
      /\ sent = [u \in Utterance |-> 0] /\ sealed = {} /\ played = [u \in Utterance |-> 0]
      /\ Items \in Nat /\ MaxFrames \in Nat
  BY LiveBridgeAssumption DEF Init
<1>2. TypeOK
  <2>1. order \in UNION {[1..n -> Utterance] : n \in 0..Items}
    <3>1. <<>> \in UNION {[1..n -> Utterance] : n \in 0..Items}
      BY LiveBridgeAssumption, BoundedSeq, EmptySeq
    <3>2. QED
      BY <1>1, <3>1
  <2>2. NoItem \in Item
    BY DEF NoItem, Item, Final
  <2>3. items \in [Utterance -> Item]
    BY <1>1, <2>2
  <2>4. remote \in [Utterance -> [Phase -> Stage]]
    BY <1>1 DEF Stage
  <2>5. open \in BOOLEAN /\ revoked \in BOOLEAN /\ ending \in BOOLEAN
    BY <1>1
  <2>6. QED
    BY <1>1, <2>1, <2>3, <2>4, <2>5, NoOutputTyped DEF TypeOK
<1>3. HearInv
  <2>1. \A u \in Utterance : ~ (u <= 0)
    BY <1>1 DEF Utterance
  <2>2. DOMAIN order = {}
    BY <1>1
  <2>3. QED
    BY <1>1, <2>1, <2>2 DEF HearInv
<1>4. FreshInv /\ RemoteInv /\ BrainInv /\ CompletedMeansPlayed
  BY <1>1 DEF FreshInv, RemoteInv, BrainInv, CompletedMeansPlayed
<1>5. OutInv
  BY <1>1, NoOutputTyped DEF OutInv
<1>6. QED
  BY <1>2, <1>3, <1>4, <1>5 DEF BridgeInv

LEMMA BridgeNext == BridgeInv /\ [Next]_bridge => Kept
<1>1. ASSUME BridgeInv, UNCHANGED bridge PROVE Kept
  <2>1. UNCHANGED <<open, revoked, ending, items, tail, turns, order, active, out, task,
                     mailbox, retired, remote, sent, sealed, played>>
    BY <1>1 DEF bridge, vars
  <2>2. QED
    BY <1>1, <2>1, DroppedKeeps
<1>2. ASSUME BridgeInv, Provider PROVE Kept
  BY <1>2, SpeakerKeeps, AnnouncedKeeps, PlannedKeeps, ResponseKeeps, SpeechKeeps DEF Provider
<1>3. ASSUME BridgeInv, Tasks PROVE Kept
  BY <1>3, TasksKeep, TakesKeep DEF Tasks
<1>4. ASSUME BridgeInv, Browser PROVE Kept
  <2>1. ASSUME NEW u \in Utterance, Play(u) PROVE Kept
    <3>1. 0 \in 0..MaxFrames
      BY LiveBridgeAssumption
    <3>2. QED
      BY <1>4, <2>1, <3>1, PlaysKeep
  <2>2. QED
    BY <1>4, <2>1, InterruptKeeps, PlaysKeep, DrainedKeeps DEF Browser
<1>5. ASSUME BridgeInv, Close PROVE Kept
  BY <1>5, ShutKeeps DEF Close
<1>6. QED
  BY <1>1, <1>2, <1>3, <1>4, <1>5, WithdrawnKeeps DEF Next

\* What the bridge promises is part of its invariant.
LEMMA BridgeSafe == BridgeInv => SpokenInOrder /\ CompletedMeansPlayed /\ NoOrphanResponse
<1> SUFFICES ASSUME BridgeInv PROVE SpokenInOrder /\ CompletedMeansPlayed /\ NoOrphanResponse
  OBVIOUS
<1>1. ASSUME NEW u \in Utterance, NEW v \in Utterance, u < v, turns[v] # "none" PROVE turns[u] # "none"
  <2>1. u \in Nat /\ v \in Nat /\ tail \in Nat
    BY LiveBridgeAssumption DEF BridgeInv, TypeOK, Utterance
  <2>2. u <= tail
    BY <1>1, <2>1 DEF BridgeInv, HearInv
  <2>3. QED
    BY <2>2 DEF BridgeInv, HearInv
<1>2. SpokenInOrder
  BY <1>1 DEF SpokenInOrder, BridgeInv, HearInv
<1>3. QED
  BY <1>2 DEF BridgeInv, RemoteInv, NoOrphanResponse

-----------------------------------------------------------------------------
(* LegacyAccess.                                                           *)

InviteRow == [status : {"free", "pending", "accepted", "revoked"}, expired : BOOLEAN,
              who : Person \union {"nobody"}, role : Role \union {"none"}]
Asking == [at : {"idle", "read", "joined", "sending"}, op : Access!Op, role : Role \union {"none"},
           who : Person \union {"nobody"}, inv : Invite \union {"none"},
           was : {"none", "active", "revoked", "absent", "on", "off"}, flag : BOOLEAN]

\* What a request has read stays so: of whom it is, and to whom its invitation was
\* made out.
AccessInv ==
  /\ Access!TypeOK
  /\ invite \in [Invite -> InviteRow] /\ req \in [Request -> Asking]
  /\ \A q \in Request : req[q].at # "idle" =>
       /\ req[q].role \in Role
       /\ req[q].op \notin {"enable", "disable", "regenerate"} \/ req[q].at # "read" => req[q].who \in Person
       /\ req[q].op \in {"accept", "withdraw"} \/ req[q].at = "sending" =>
            /\ req[q].inv \in Invite /\ invite[req[q].inv].status # "free"
            /\ invite[req[q].inv].who = req[q].who /\ invite[req[q].inv].role = req[q].role
       /\ req[q].op = "join" => req[q].was \in {"none", "active", "revoked"}

\* BackByInvitationOnly, of one step.
BackStep ==
  \A r \in Role, p \in Person : member[r][p] = "revoked" /\ member'[r][p] = "active" =>
    \E q \in Request : /\ req[q] # req'[q] /\ req[q].role = r /\ req[q].who = p
                       /\ \/ req[q].op = "restore"
                          \/ req[q].op = "accept" /\ invite'[req[q].inv].status = "accepted"
                               /\ invite[req[q].inv].who = p /\ invite[req[q].inv].role = r

LEMMA AccessInit == Access!Init => AccessInv
<1> SUFFICES ASSUME Access!Init PROVE AccessInv
  OBVIOUS
<1>1. /\ member = [r \in Role |-> [p \in Person |-> "none"]] /\ code = [r \in Role |-> "absent"]
      /\ invite = [i \in Invite |-> Access!NoInvite] /\ chosen = {}
      /\ req = [q \in Request |-> Access!Idle]
  BY DEF Access!Init
<1>2. Access!NoInvite \in InviteRow /\ Access!Idle \in Asking
  BY DEF Access!NoInvite, InviteRow, Access!Idle, Asking, Access!Op
<1>3. Access!TypeOK
  <2>1. member \in [Role -> [Person -> Access!Row]] /\ code \in [Role -> Access!Codes]
    BY <1>1 DEF Access!Row, Access!Codes
  <2>2. \A i \in Invite : invite[i].status = "free" /\ invite[i].expired = FALSE
    BY <1>1 DEF Access!NoInvite
  <2>3. \A q \in Request : req[q].at = "idle" /\ req[q].op = "join"
    BY <1>1 DEF Access!Idle
  <2>4. QED
    BY <1>1, <2>1, <2>2, <2>3 DEF Access!TypeOK, Access!Op
<1>4. \A q \in Request : req[q].at = "idle"
  BY <1>1 DEF Access!Idle
<1>5. QED
  BY <1>1, <1>2, <1>3, <1>4 DEF AccessInv

\* What holds of a request when it has read.
AskedWell(a) ==
  /\ a \in Asking /\ a.role \in Role
  /\ a.op \notin {"enable", "disable", "regenerate"} \/ a.at # "read" => a.who \in Person
  /\ a.op \in {"accept", "withdraw"} \/ a.at = "sending" =>
       /\ a.inv \in Invite /\ invite[a.inv].status # "free"
       /\ invite[a.inv].who = a.who /\ invite[a.inv].role = a.role
  /\ a.op = "join" => a.was \in {"none", "active", "revoked"}

\* A request reads.
LEMMA ReadKeeps ==
  ASSUME AccessInv, NEW q \in Request, NEW a, AskedWell(a), a.at = "read",
         req' = [req EXCEPT ![q] = a], UNCHANGED <<member, code, invite, chosen>>
  PROVE  AccessInv' /\ BackStep
<1>1. req' \in [Request -> Asking] /\ \A x \in Request : req'[x] = IF x = q THEN a ELSE req[x]
  BY DEF AccessInv, AskedWell
<1>2. Access!TypeOK'
  <2>1. a.op \in Access!Op
    BY DEF AskedWell, Asking
  <2>2. QED
    BY <1>1, <2>1 DEF AccessInv, Access!TypeOK
<1>3. AccessInv'
  BY <1>1, <1>2 DEF AccessInv, AskedWell
<1>4. BackStep
  BY DEF BackStep
<1>5. QED
  BY <1>3, <1>4

LEMMA AsksKeep ==
  ASSUME AccessInv, NEW q \in Request, Access!Asks(q)
  PROVE  AccessInv' /\ BackStep
<1>1. /\ \A r \in Role : \A p \in Person : member[r][p] \in {"none", "active", "revoked"}
      /\ \A r \in Role : code[r] \in {"absent", "on", "off"}
      /\ \A i \in Invite : invite[i].status = "pending" => invite[i].who \in Person /\ invite[i].role \in Role
      /\ Access!Op = {"join", "invite", "accept", "withdraw", "revoke", "restore", "enable", "disable", "regenerate"}
  BY DEF AccessInv, Access!TypeOK, Access!Row, Access!Codes, Access!Op
<1>2. ASSUME NEW op \in Access!Op, NEW r \in Role, NEW p \in Person \union {"nobody"},
             NEW i \in Invite \union {"none"},
             NEW was \in {"none", "active", "revoked", "absent", "on", "off"}, NEW flag \in BOOLEAN,
             Access!Reads(q, op, r, p, i, was, flag),
             op \notin {"enable", "disable", "regenerate"} => p \in Person,
             op \in {"accept", "withdraw"} =>
               i \in Invite /\ invite[i].status # "free" /\ invite[i].who = p /\ invite[i].role = r,
             op = "join" => was \in {"none", "active", "revoked"}
      PROVE  AccessInv' /\ BackStep
  <2> DEFINE a == [at |-> "read", op |-> op, role |-> r, who |-> p, inv |-> i, was |-> was, flag |-> flag]
  <2>1. AskedWell(a) /\ a.at = "read"
    BY <1>2 DEF AskedWell, Asking
  <2>2. req' = [req EXCEPT ![q] = a] /\ UNCHANGED <<member, code, invite, chosen>>
    BY <1>2 DEF Access!Reads
  <2> HIDE DEF a
  <2>3. QED
    BY <2>1, <2>2, ReadKeeps
<1>3. ASSUME NEW r \in Role, NEW p \in Person, Access!AskJoin(q, r, p) PROVE AccessInv' /\ BackStep
  <2>1. Access!Reads(q, "join", r, p, "none", member[r][p], FALSE)
    BY <1>3 DEF Access!AskJoin
  <2>2. QED
    BY <2>1, <1>1, <1>2
<1>4. ASSUME NEW r \in Role, NEW p \in Person, Access!AskInvite(q, r, p) PROVE AccessInv' /\ BackStep
  <2>1. Access!Reads(q, "invite", r, p, "none", "none", FALSE)
    BY <1>4 DEF Access!AskInvite
  <2>2. QED
    BY <2>1, <1>1, <1>2
<1>5. ASSUME NEW r \in Role, NEW p \in Person, NEW op \in Access!Op, Access!AskChange(q, op, r, p)
      PROVE  AccessInv' /\ BackStep
  <2>1. Access!Reads(q, op, r, p, "none", member[r][p], p \in chosen) /\ op \in {"revoke", "restore"}
    BY <1>5 DEF Access!AskChange
  <2> DEFINE flag == p \in chosen
  <2>2. flag \in BOOLEAN /\ Access!Reads(q, op, r, p, "none", member[r][p], flag)
    BY <2>1
  <2>3. /\ member[r][p] \in {"none", "active", "revoked", "absent", "on", "off"}
        /\ op # "join" /\ op \notin {"accept", "withdraw"}
    BY <2>1, <1>1
  <2> HIDE DEF flag
  <2>4. QED
    BY <2>2, <2>3, <1>2
<1>6. ASSUME NEW i \in Invite, Access!AskAccept(q, i) PROVE AccessInv' /\ BackStep
  <2>1. /\ Access!Reads(q, "accept", invite[i].role, invite[i].who, i, member[invite[i].role][invite[i].who], FALSE)
        /\ invite[i].status = "pending"
    BY <1>6 DEF Access!AskAccept, Access!Pending
  <2>2. /\ invite[i].role \in Role /\ invite[i].who \in Person /\ "accept" \in Access!Op
        /\ member[invite[i].role][invite[i].who] \in {"none", "active", "revoked", "absent", "on", "off"}
    BY <2>1, <1>1
  <2>3. QED
    BY <2>1, <2>2, <1>2
<1>7. ASSUME NEW i \in Invite, Access!AskWithdraw(q, i) PROVE AccessInv' /\ BackStep
  <2>1. /\ Access!Reads(q, "withdraw", invite[i].role, invite[i].who, i, "none", FALSE)
        /\ invite[i].status = "pending"
    BY <1>7 DEF Access!AskWithdraw, Access!Pending
  <2>2. QED
    BY <2>1, <1>1, <1>2
<1>8. ASSUME NEW r \in Role, NEW op \in Access!Op, Access!AskCode(q, op, r) PROVE AccessInv' /\ BackStep
  <2>1. Access!Reads(q, op, r, "nobody", "none", code[r], FALSE) /\ op \in {"enable", "disable", "regenerate"}
    BY <1>8 DEF Access!AskCode
  <2>2. QED
    BY <2>1, <1>1, <1>2
<1>9. QED
  BY <1>3, <1>4, <1>5, <1>6, <1>7, <1>8 DEF Access!Asks

\* An invitation that was made stays made, and made out to whom it was.
InvitesGoOn ==
  /\ invite' \in [Invite -> InviteRow]
  /\ \A i \in Invite : /\ invite'[i].status # "free" => invite'[i].who \in Person /\ invite'[i].role \in Role
                       /\ invite[i].status # "free" =>
                            /\ invite'[i].status # "free"
                            /\ invite'[i].who = invite[i].who /\ invite'[i].role = invite[i].role

TablesGoOn ==
  /\ member' \in [Role -> [Person -> Access!Row]] /\ code' \in [Role -> Access!Codes] /\ chosen' \subseteq Person
  /\ InvitesGoOn

\* A request goes on, and what the others have read stays as it was.
LEMMA GoesOn ==
  ASSUME AccessInv, TablesGoOn, NEW q \in Request, req' \in [Request -> Asking],
         \A x \in Request : x # q => req'[x] = req[x],
         req'[q].at # "idle" =>
           /\ req'[q].role \in Role /\ req'[q].who \in Person
           /\ req'[q].op \notin {"accept", "withdraw"}
           /\ req'[q].at = "sending" =>
                /\ req'[q].inv \in Invite /\ invite'[req'[q].inv].status # "free"
                /\ invite'[req'[q].inv].who = req'[q].who /\ invite'[req'[q].inv].role = req'[q].role
           /\ req'[q].op = "join" => req'[q].was \in {"none", "active", "revoked"}
  PROVE  AccessInv'
<1>1. Access!TypeOK'
  <2>1. \A x \in Request : req'[x].at \in {"idle", "read", "joined", "sending"} /\ req'[x].op \in Access!Op
    BY DEF Asking
  <2>2. \A i \in Invite : invite'[i].status \in {"free", "pending", "accepted", "revoked"} /\ invite'[i].expired \in BOOLEAN
    BY DEF InviteRow, TablesGoOn, InvitesGoOn
  <2>3. QED
    BY <2>1, <2>2 DEF Access!TypeOK, TablesGoOn, InvitesGoOn
<1>2. ASSUME NEW x \in Request, req'[x].at # "idle"
      PROVE  /\ req'[x].role \in Role
             /\ req'[x].op \notin {"enable", "disable", "regenerate"} \/ req'[x].at # "read" => req'[x].who \in Person
             /\ req'[x].op \in {"accept", "withdraw"} \/ req'[x].at = "sending" =>
                  /\ req'[x].inv \in Invite /\ invite'[req'[x].inv].status # "free"
                  /\ invite'[req'[x].inv].who = req'[x].who /\ invite'[req'[x].inv].role = req'[x].role
             /\ req'[x].op = "join" => req'[x].was \in {"none", "active", "revoked"}
  <2>1. CASE x = q
    BY <1>2, <2>1
  <2>2. CASE x # q
    BY <1>2, <2>2 DEF AccessInv, TablesGoOn, InvitesGoOn
  <2>3. QED
    BY <2>1, <2>2
<1>3. QED
  BY <1>1, <1>2 DEF AccessInv, TablesGoOn, InvitesGoOn

\* A request is over.
LEMMA EndsWell ==
  ASSUME AccessInv, TablesGoOn, NEW q \in Request, req' = [req EXCEPT ![q] = Access!Idle]
  PROVE  AccessInv'
<1>1. Access!Idle \in Asking /\ Access!Idle.at = "idle"
  BY DEF Access!Idle, Asking, Access!Op
<1>2. req' \in [Request -> Asking] /\ \A x \in Request : req'[x] = IF x = q THEN Access!Idle ELSE req[x]
  BY <1>1 DEF AccessInv
<1>3. QED
  BY <1>1, <1>2, GoesOn

\* A status is written for a person of a role.
LEMMA SetsTyped ==
  ASSUME AccessInv, NEW q \in Request, req[q].role \in Role, req[q].who \in Person,
         NEW status \in {"active", "revoked"}, Access!Sets(q, status)
  PROVE  /\ member' \in [Role -> [Person -> Access!Row]]
         /\ \A r \in Role, p \in Person : member'[r][p] # member[r][p] =>
              r = req[q].role /\ p = req[q].who /\ member'[r][p] = status
<1>1. status \in Access!Row
  BY DEF Access!Row
<1>2. member \in [Role -> [Person -> Access!Row]]
  BY DEF AccessInv, Access!TypeOK
<1>3. CASE member' = member
  BY <1>2, <1>3
<1>4. CASE member' = [member EXCEPT ![req[q].role][req[q].who] = status]
  BY <1>1, <1>2, <1>4
<1>5. QED
  BY <1>3, <1>4 DEF Access!Sets

\* Every row of an invitation is of somebody, unless it is free.
LEMMA InviteMoves ==
  ASSUME AccessInv, NEW i \in Invite, NEW status \in {"accepted", "revoked"}, invite[i].status # "free",
         invite' = [invite EXCEPT ![i].status = status]
  PROVE  InvitesGoOn
<1>1. \A j \in Invite : invite[j] \in InviteRow
  BY DEF AccessInv
<1>2. \A j \in Invite : invite'[j] = IF j = i THEN [invite[i] EXCEPT !.status = status] ELSE invite[j]
  BY DEF AccessInv
<1>3. /\ [invite[i] EXCEPT !.status = status] \in InviteRow
      /\ [invite[i] EXCEPT !.status = status].status = status
      /\ [invite[i] EXCEPT !.status = status].who = invite[i].who
      /\ [invite[i] EXCEPT !.status = status].role = invite[i].role
  BY <1>1 DEF InviteRow
<1>4. invite' \in [Invite -> InviteRow]
  BY <1>3 DEF AccessInv
<1>5. \A j \in Invite : invite[j].status # "free" => invite[j].who \in Person /\ invite[j].role \in Role
  BY DEF AccessInv, Access!TypeOK
<1>6. QED
  BY <1>2, <1>3, <1>4, <1>5 DEF InvitesGoOn

\* The invitations stay.
LEMMA InvitesStay ==
  ASSUME AccessInv, invite' = invite
  PROVE  InvitesGoOn
BY DEF AccessInv, Access!TypeOK, InvitesGoOn

\* The commits that bring nobody back.
LEMMA JoinKeeps ==
  ASSUME AccessInv, NEW q \in Request, Access!Join(q)
  PROVE  AccessInv' /\ BackStep
<1> DEFINE r == req[q].role
<1> DEFINE p == req[q].who
<1>1. /\ req[q].at = "read" /\ req[q].op = "join" /\ r \in Role /\ p \in Person
      /\ req[q] \in Asking /\ req[q].was \in {"none", "active", "revoked"}
      /\ UNCHANGED <<code, invite>>
  BY DEF Access!Join, AccessInv
<1>2. /\ member \in [Role -> [Person -> Access!Row]] /\ code \in [Role -> Access!Codes] /\ chosen \subseteq Person
  BY DEF AccessInv, Access!TypeOK
<1>3. CASE Access!OutForGood(q) \/ Access!Refused(q)
  <2>1. req' = [req EXCEPT ![q] = Access!Idle] /\ UNCHANGED <<member, chosen>>
    BY <1>3 DEF Access!Join, Access!Done
  <2>2. AccessInv'
    BY <1>1, <1>2, <2>1, InvitesStay, EndsWell DEF TablesGoOn
  <2>3. QED
    BY <2>1, <2>2 DEF BackStep
<1>4. CASE ~ (Access!OutForGood(q) \/ Access!Refused(q))
  <2>1. Access!Sets(q, "active") /\ (req[q].was = "active" \/ member[r][p] = "none")
    <3>1. Access!Sets(q, "active")
      BY <1>4 DEF Access!Join
    <3>2. req[q].was # "revoked" /\ (req[q].was = "none" => member[r][p] = "none")
      BY <1>4 DEF Access!OutForGood, Access!Refused
    <3>3. QED
      BY <1>1, <3>1, <3>2
  <2>2. member' \in [Role -> [Person -> Access!Row]]
    BY <1>1, <2>1, SetsTyped
  <2>3. \A x \in Role, y \in Person : member'[x][y] # member[x][y] => member[x][y] = "none"
    <3>1. CASE req[q].was = "active"
      BY <2>1, <3>1 DEF Access!Sets
    <3>2. CASE member[r][p] = "none"
      BY <1>1, <2>1, <3>2, SetsTyped
    <3>3. QED
      BY <2>1, <3>1, <3>2
  <2>4. CASE req' = [req EXCEPT ![q].at = "joined"] /\ UNCHANGED chosen
    <3>1. /\ req' \in [Request -> Asking] /\ \A x \in Request : x # q => req'[x] = req[x]
          /\ req'[q].role = r /\ req'[q].who = p /\ req'[q].op = "join" /\ req'[q].at = "joined"
          /\ req'[q].was = req[q].was
      BY <1>1, <2>4 DEF AccessInv, Asking
    <3>2. TablesGoOn
      BY <1>1, <1>2, <2>2, <2>4, InvitesStay DEF TablesGoOn
    <3>3. AccessInv'
      BY <1>1, <3>1, <3>2, GoesOn
    <3>4. QED
      BY <2>3, <3>3 DEF BackStep
  <2>5. CASE Access!Choose(p, r) /\ Access!Done(q)
    <3>1. req' = [req EXCEPT ![q] = Access!Idle] /\ chosen' \subseteq Person
      BY <1>1, <1>2, <2>5 DEF Access!Choose, Access!Done
    <3>2. AccessInv'
      BY <1>1, <1>2, <2>2, <3>1, InvitesStay, EndsWell DEF TablesGoOn
    <3>3. QED
      BY <2>3, <3>2 DEF BackStep
  <2>6. QED
    BY <1>4, <2>4, <2>5 DEF Access!Join
<1>5. QED
  BY <1>3, <1>4

LEMMA OthersKeep ==
  ASSUME AccessInv, NEW q \in Request,
         \/ Access!JoinEnds(q) \/ Access!Delivery(q) \/ Access!Withdraw(q) \/ Access!Code(q) \/ Access!Fail(q)
  PROVE  AccessInv' /\ BackStep
<1>1. /\ req' = [req EXCEPT ![q] = Access!Idle] /\ member' = member /\ req[q].at # "idle"
  BY DEF Access!JoinEnds, Access!Delivery, Access!Withdraw, Access!Code, Access!Fail, Access!Done
<1>2. /\ member \in [Role -> [Person -> Access!Row]] /\ code \in [Role -> Access!Codes] /\ chosen \subseteq Person
      /\ req[q].role \in Role
      /\ req[q].op \notin {"enable", "disable", "regenerate"} \/ req[q].at # "read" => req[q].who \in Person
  BY <1>1 DEF AccessInv, Access!TypeOK
<1>3. code' \in [Role -> Access!Codes]
  <2>1. CASE Access!Code(q)
    <3>1. PICK c \in Access!Codes : code' = [code EXCEPT ![req[q].role] = c]
      <4>1. code[req[q].role] \in Access!Codes /\ "on" \in Access!Codes /\ "off" \in Access!Codes
        BY <1>2 DEF Access!Codes
      <4>2. QED
        BY <2>1, <4>1 DEF Access!Code
    <3>2. QED
      BY <1>2, <3>1
  <2>2. CASE code' = code
    BY <1>2, <2>2
  <2>3. QED
    BY <2>1, <2>2 DEF Access!JoinEnds, Access!Delivery, Access!Withdraw, Access!Fail
<1>4. chosen' \subseteq Person
  <2>1. CASE Access!JoinEnds(q)
    <3>1. req[q].who \in Person
      BY <1>2, <2>1 DEF Access!JoinEnds
    <3>2. QED
      BY <1>2, <2>1, <3>1 DEF Access!JoinEnds
  <2>2. CASE chosen' = chosen
    BY <1>2, <2>2
  <2>3. QED
    BY <2>1, <2>2 DEF Access!Delivery, Access!Withdraw, Access!Code, Access!Fail
<1>5. invite' = invite \/ \E i \in Invite : /\ invite[i].status # "free"
                                            /\ invite' = [invite EXCEPT ![i].status = "revoked"]
  <2>1. CASE Access!Delivery(q)
    <3>1. req[q].inv \in Invite /\ invite[req[q].inv].status # "free"
      BY <2>1 DEF Access!Delivery, AccessInv
    <3>2. QED
      BY <2>1, <3>1 DEF Access!Delivery
  <2>2. CASE Access!Withdraw(q)
    <3>1. req[q].inv \in Invite /\ invite[req[q].inv].status # "free"
      BY <2>2 DEF Access!Withdraw, AccessInv
    <3>2. QED
      BY <2>2, <3>1 DEF Access!Withdraw
  <2>3. QED
    BY <2>1, <2>2 DEF Access!JoinEnds, Access!Code, Access!Fail
<1>6. AccessInv'
  <2>1. CASE invite' = invite
    BY <1>1, <1>2, <1>3, <1>4, <2>1, InvitesStay, EndsWell DEF TablesGoOn
  <2>2. ASSUME NEW i \in Invite, invite[i].status # "free", invite' = [invite EXCEPT ![i].status = "revoked"]
        PROVE  AccessInv'
    <3>1. InvitesGoOn
      BY <2>2, InviteMoves
    <3>2. QED
      BY <1>1, <1>2, <1>3, <1>4, <3>1, EndsWell DEF TablesGoOn
  <2>3. QED
    BY <1>5, <2>1, <2>2
<1>7. QED
  BY <1>1, <1>6 DEF BackStep

\* An invitation is written, and its e-mail is sent.
LEMMA SendKeeps ==
  ASSUME AccessInv, NEW q \in Request, Access!SendInvite(q)
  PROVE  AccessInv' /\ BackStep
<1>1. PICK i \in Invite :
        /\ invite[i] = Access!NoInvite
        /\ invite' = [invite EXCEPT ![i] = [Access!NoInvite EXCEPT !.status = "pending", !.who = req[q].who,
                                                                   !.role = req[q].role]]
        /\ req' = [req EXCEPT ![q].at = "sending", ![q].inv = i]
        /\ UNCHANGED <<member, code, chosen>>
        /\ req[q].at = "read" /\ req[q].op = "invite"
  BY DEF Access!SendInvite
<1>2. /\ member \in [Role -> [Person -> Access!Row]] /\ code \in [Role -> Access!Codes] /\ chosen \subseteq Person
      /\ req \in [Request -> Asking] /\ req[q] \in Asking /\ req[q].role \in Role /\ req[q].who \in Person
      /\ invite \in [Invite -> InviteRow]
      /\ \A j \in Invite : invite[j].status # "free" => invite[j].who \in Person /\ invite[j].role \in Role
  BY <1>1 DEF AccessInv, Access!TypeOK
<1> DEFINE b == [Access!NoInvite EXCEPT !.status = "pending", !.who = req[q].who, !.role = req[q].role]
<1>3. /\ b \in InviteRow /\ b.status = "pending" /\ b.who = req[q].who /\ b.role = req[q].role
      /\ invite' = [invite EXCEPT ![i] = b] /\ invite[i].status = "free"
  <2>1. b.status = "pending" /\ b.who = req[q].who /\ b.role = req[q].role /\ b \in InviteRow
    BY <1>2 DEF InviteRow, Access!NoInvite
  <2>2. invite[i].status = "free"
    BY <1>1 DEF Access!NoInvite
  <2>3. QED
    BY <1>1, <2>1, <2>2
<1> HIDE DEF b
<1>4. /\ req' \in [Request -> Asking] /\ \A x \in Request : x # q => req'[x] = req[x]
      /\ req'[q].at = "sending" /\ req'[q].inv = i /\ req'[q].role = req[q].role /\ req'[q].who = req[q].who
      /\ req'[q].op = "invite"
  BY <1>1, <1>2 DEF Asking
<1>5. invite' \in [Invite -> InviteRow] /\ \A j \in Invite : invite'[j] = IF j = i THEN b ELSE invite[j]
  BY <1>2, <1>3
<1>6. InvitesGoOn
  BY <1>2, <1>3, <1>5 DEF InvitesGoOn
<1>7. TablesGoOn
  BY <1>1, <1>2, <1>6 DEF TablesGoOn
<1>8. AccessInv'
  <2>1. /\ req'[q].inv \in Invite /\ invite'[req'[q].inv].status # "free"
        /\ invite'[req'[q].inv].who = req'[q].who /\ invite'[req'[q].inv].role = req'[q].role
    BY <1>3, <1>4, <1>5
  <2>2. QED
    BY <1>2, <1>4, <1>7, <2>1, GoesOn
<1>9. QED
  BY <1>1, <1>8 DEF BackStep

\* The commits that may bring somebody back.
LEMMA AcceptKeeps ==
  ASSUME AccessInv, NEW q \in Request, Access!Accept(q)
  PROVE  AccessInv' /\ BackStep
<1> DEFINE r == req[q].role
<1> DEFINE p == req[q].who
<1> DEFINE i == req[q].inv
<1>1. /\ req[q].at = "read" /\ req[q].op = "accept" /\ r \in Role /\ p \in Person
      /\ i \in Invite /\ invite[i].status # "free" /\ invite[i].who = p /\ invite[i].role = r
      /\ member \in [Role -> [Person -> Access!Row]] /\ code \in [Role -> Access!Codes] /\ chosen \subseteq Person
      /\ req' = [req EXCEPT ![q] = Access!Idle] /\ code' = code
  BY DEF Access!Accept, Access!Done, AccessInv, Access!TypeOK
<1>2. req'[q] # req[q]
  BY <1>1 DEF Access!Idle, AccessInv
<1>3. CASE UNCHANGED <<member, invite, chosen>>
  <2>1. AccessInv'
    BY <1>1, <1>3, InvitesStay, EndsWell DEF TablesGoOn
  <2>2. QED
    BY <1>3, <2>1 DEF BackStep
<1>4. CASE ~ UNCHANGED <<member, invite, chosen>>
  <2>1. /\ Access!Sets(q, "active") /\ invite' = [invite EXCEPT ![i].status = "accepted"]
        /\ chosen' \subseteq Person
    BY <1>1, <1>4 DEF Access!Accept, Access!Choose
  <2>2. /\ member' \in [Role -> [Person -> Access!Row]]
        /\ \A x \in Role, y \in Person : member'[x][y] # member[x][y] => x = r /\ y = p
    BY <1>1, <2>1, SetsTyped
  <2>3. AccessInv'
    <3>1. InvitesGoOn
      BY <1>1, <2>1, InviteMoves
    <3>2. QED
      BY <1>1, <2>1, <2>2, <3>1, EndsWell DEF TablesGoOn
  <2>4. invite'[i].status = "accepted"
    BY <1>1, <2>1 DEF AccessInv, InviteRow
  <2>5. BackStep
    BY <1>1, <1>2, <2>2, <2>4 DEF BackStep
  <2>6. QED
    BY <2>3, <2>5
<1>5. QED
  BY <1>3, <1>4

LEMMA ChangeKeeps ==
  ASSUME AccessInv, NEW q \in Request, Access!Change(q)
  PROVE  AccessInv' /\ BackStep
<1> DEFINE status == IF req[q].op = "revoke" THEN "revoked" ELSE "active"
<1>1. /\ req[q].at = "read" /\ req[q].op \in {"revoke", "restore"} /\ req[q].role \in Role /\ req[q].who \in Person
      /\ member \in [Role -> [Person -> Access!Row]] /\ code \in [Role -> Access!Codes] /\ chosen \subseteq Person
      /\ req' = [req EXCEPT ![q] = Access!Idle] /\ code' = code /\ invite' = invite
      /\ Access!Sets(q, status) /\ chosen' \subseteq Person
  BY DEF Access!Change, Access!Done, AccessInv, Access!TypeOK
<1>2. req'[q] # req[q]
  BY <1>1 DEF Access!Idle, AccessInv
<1>3. status \in {"active", "revoked"}
  OBVIOUS
<1>4. /\ member' \in [Role -> [Person -> Access!Row]]
      /\ \A x \in Role, y \in Person : member'[x][y] # member[x][y] =>
           x = req[q].role /\ y = req[q].who /\ member'[x][y] = status
  <2> HIDE DEF status
  <2>1. QED
    BY <1>1, <1>3, SetsTyped
<1>5. AccessInv'
  BY <1>1, <1>4, InvitesStay, EndsWell DEF TablesGoOn
<1>6. BackStep
  BY <1>1, <1>2, <1>4 DEF BackStep
<1>7. QED
  BY <1>5, <1>6

LEMMA ExpireKeeps ==
  ASSUME AccessInv, NEW i \in Invite, Access!Expire(i)
  PROVE  AccessInv' /\ BackStep
<1>1. invite' = [invite EXCEPT ![i].expired = TRUE] /\ UNCHANGED <<member, code, chosen, req>>
  BY DEF Access!Expire
<1>0. invite[i] \in InviteRow /\ invite \in [Invite -> InviteRow]
  BY DEF AccessInv
<1> DEFINE b == [invite[i] EXCEPT !.expired = TRUE]
<1>2. b \in InviteRow /\ b.status = invite[i].status /\ b.who = invite[i].who /\ b.role = invite[i].role
  BY <1>0 DEF InviteRow
<1> HIDE DEF b
<1>3. /\ invite' \in [Invite -> InviteRow]
      /\ \A j \in Invite : /\ invite'[j].status = invite[j].status /\ invite'[j].who = invite[j].who
                           /\ invite'[j].role = invite[j].role
                           /\ invite'[j].expired \in BOOLEAN
  <2>1. invite' = [invite EXCEPT ![i] = b]
    BY <1>1 DEF b
  <2>2. invite' \in [Invite -> InviteRow] /\ \A j \in Invite : invite'[j] = IF j = i THEN b ELSE invite[j]
    BY <1>0, <1>2, <2>1
  <2>3. \A j \in Invite : invite'[j].expired \in BOOLEAN
    BY <2>2 DEF InviteRow
  <2>4. QED
    BY <1>2, <2>2, <2>3
<1>4. AccessInv'
  <2>1. Access!TypeOK'
    <3>1. \A j \in Invite : invite'[j].status \in {"free", "pending", "accepted", "revoked"}
      BY <1>3 DEF InviteRow
    <3>2. \A j \in Invite : invite'[j].status # "free" => invite'[j].who \in Person /\ invite'[j].role \in Role
      BY <1>3 DEF AccessInv, Access!TypeOK
    <3>3. QED
      BY <1>1, <1>3, <3>1, <3>2 DEF AccessInv, Access!TypeOK
  <2>2. QED
    BY <1>1, <1>3, <2>1 DEF AccessInv
<1>5. QED
  BY <1>1, <1>4 DEF BackStep

LEMMA AccessNext == AccessInv /\ [Access!Next]_access => AccessInv' /\ BackStep
<1>1. ASSUME AccessInv, UNCHANGED access PROVE AccessInv' /\ BackStep
  BY <1>1 DEF access, AccessInv, Access!TypeOK, BackStep
<1>2. ASSUME AccessInv, NEW q \in Request, Access!Commits(q) PROVE AccessInv' /\ BackStep
  BY <1>2, JoinKeeps, OthersKeep, SendKeeps, AcceptKeeps, ChangeKeeps DEF Access!Commits
<1>3. QED
  BY <1>1, <1>2, AsksKeep, ExpireKeeps DEF Access!Next

-----------------------------------------------------------------------------
(* ObjectStore.                                                            *)

\* The one request of a writer is over, or was never made and never will be.
Spent(w) == w \notin wire /\ child[w] \notin {"none", "running", "opened"}

\* At most one put was dispatched.
OneWriter == \A w, x \in Request : parent[w] # "idle" /\ parent[x] # "idle" => w = x

\* What the store holds is older than what it will hold; a body is that of a writer
\* who has spent his request, and so is a positive reconciliation.
WriteInv ==
  /\ \A v \in versions : v.id < nextId
  /\ \A w \in Request : /\ parent[w] = "idle" <=> child[w] = "none"
                        /\ w \in wire => child[w] \notin {"none", "running", "opened"}
                        /\ parent[w] \in {"stored", "failed"} => child[w] = "gone"
                        /\ child[w] = "opened" => mode = "local"
  /\ mode = "local" => wire = {}
  /\ \A w \in Request : \A v \in versions : v.body = w => Spent(w)
  /\ \A w \in proven : Spent(w)

\* After the second listing a versioned bucket has nothing older than that look; if
\* the one writer was proved to be over, it has markers only.
EraseInv ==
  /\ eraser.at = "delete" /\ eraser.more => eraser.found # {}
  /\ eraser.proof => proven # {}
  /\ eraser.at = "recheck" => eraser.mark <= nextId
  /\ eraser.at = "recheck" /\ mode = "versioned" =>
       \A v \in versions : v.id >= eraser.mark /\ (eraser.proof /\ OneWriter => v.body = "marker")
  /\ eraser.at = "erased" /\ eraser.proof /\ OneWriter => \A v \in versions : v.body = "marker"

FindInv == finder.at # "idle" => finder.for \in Request /\ parent[finder.for] # "idle"

StoreInv == Store!TypeOK /\ WriteInv /\ EraseInv /\ FindInv

\* ErasedIsGone and NoAbandonedWriter, of one step.
ErasedStep ==
  eraser.at # "erased" /\ eraser'.at = "erased" => Store!Absent /\ \A i \in Store!Held : i >= eraser.mark
SoleStep == \A w \in Request : parent[w] \in {"stored", "failed"} => w \notin wire' \ wire

StoreKept == StoreInv' /\ ErasedStep /\ SoleStep

LEMMA StoreMin == ASSUME NEW S PROVE Store!Min(S) = Min(S)
BY DEF Store!Min, Min

LEMMA StoreMax == ASSUME NEW S PROVE Store!Max(S) = Max(S)
BY DEF Store!Max, Max

LEMMA StoreCardinality == ASSUME NEW S PROVE Store!Cardinality(S) = Cardinality(S)
BY DEF Store!Cardinality, Cardinality

LEMMA BoundsAreNumbers == MaxId \in Nat /\ MaxPages \in Nat /\ MaxErase \in Nat /\ PageSize \in Nat /\ PageSize > 0
BY MCStreamsAssumption

\* A set of ids has its bounds in it.
LEMMA IdBounds ==
  ASSUME NEW S \in SUBSET (0 .. MaxId), S # {}
  PROVE  /\ Min(S) \in S /\ Max(S) \in S /\ \A x \in S : Min(S) <= x /\ x <= Max(S)
         /\ IsFiniteSet(S)
<1>1. IsFiniteSet(0 .. MaxId) /\ \A x \in 0 .. MaxId : x \in Nat
  BY BoundsAreNumbers, FS_Interval
<1>2. S \in SUBSET Nat /\ IsFiniteSet(S)
  BY <1>1, FS_Subset
<1>3. QED
  BY <1>2, MinIsIn, MaxIsIn

\* The newest version is there, and where one version is kept it is that one.
LEMMA NewestIsIn ==
  ASSUME Store!TypeOK, versions # {}
  PROVE  /\ Store!Newest \in versions /\ Store!Current = Store!Newest.body
         /\ mode # "versioned" => versions = {Store!Newest}
<1>1. versions \subseteq Store!Version /\ \A v \in versions : v.id \in 0 .. MaxId
  BY DEF Store!TypeOK, Store!Version
<1> DEFINE S == {v.id : v \in versions}
<1>2. S \in SUBSET (0 .. MaxId) /\ S # {}
  BY <1>1
<1>3. PICK v \in versions : v.id = Max(S)
  <2>1. Max(S) \in S
    BY <1>2, IdBounds
  <2>2. QED
    BY <2>1
<1>4. \A x \in versions : x.id <= v.id
  <2>1. \A i \in S : i <= Max(S)
    BY <1>2, IdBounds
  <2>2. QED
    BY <2>1, <1>3
<1>5. Store!Newest \in versions
  BY <1>4 DEF Store!Newest
<1>6. \A x, y \in versions : mode # "versioned" => x = y
  BY DEF Store!TypeOK
<1>7. QED
  BY <1>5, <1>6 DEF Store!Current

\* A page of the listing lists something, if there is something to list.
LEMMA ListedTyped ==
  ASSUME Store!TypeOK, NEW m
  PROVE  /\ Store!Listed(m) \in SUBSET (0 .. MaxId)
         /\ mode # "hidden" /\ (\E v \in versions : v.id < m) => Store!Listed(m) # {}
<1>1. Store!Ids \in SUBSET (0 .. MaxId)
  BY DEF Store!TypeOK, Store!Version, Store!Ids
<1> DEFINE older == {i \in Store!Ids : i < m}
<1>2. older \in SUBSET (0 .. MaxId)
  BY <1>1
<1>3. ASSUME mode # "hidden", NEW v \in versions, v.id < m PROVE Store!Listed(m) # {}
  <2>1. older # {}
    BY <1>3 DEF Store!Ids
  <2>2. Max(older) \in older /\ \A x \in older : x <= Max(older)
    <3> HIDE DEF older
    <3>1. QED
      BY <1>2, <2>1, IdBounds
  <2>3. {j \in older : j > Max(older)} = {}
    <3>1. \A x \in older : x \in Nat
      BY <1>2, BoundsAreNumbers
    <3> HIDE DEF older
    <3>2. QED
      BY <2>2, <3>1
  <2>4. Store!Cardinality({j \in older : j > Max(older)}) < PageSize
    <3>1. Store!Cardinality({}) = 0
      BY StoreCardinality, FS_EmptySet
    <3> HIDE DEF older
    <3>2. QED
      BY <2>3, <3>1, BoundsAreNumbers
  <2>5. Max(older) \in Store!Listed(m)
    BY <1>3, <2>2, <2>4 DEF Store!Listed
  <2>6. QED
    BY <2>5
<1>4. Store!Listed(m) \in SUBSET (0 .. MaxId)
  BY <1>2 DEF Store!Listed
<1>5. QED
  BY <1>3, <1>4

\* There is a next page only where this one lists something.
LEMMA TruncatedLists ==
  ASSUME Store!TypeOK, NEW m, Store!Truncated(m)
  PROVE  Store!Listed(m) # {}
<1>1. mode # "hidden" /\ Store!Cardinality({i \in Store!Ids : i < m}) > PageSize
  BY DEF Store!Truncated
<1>2. {i \in Store!Ids : i < m} # {}
  <2>1. Store!Cardinality({}) = 0
    BY StoreCardinality, FS_EmptySet
  <2>2. QED
    BY <1>1, <2>1, BoundsAreNumbers
<1>3. \E v \in versions : v.id < m
  BY <1>2 DEF Store!Ids
<1>4. QED
  BY <1>1, <1>3, ListedTyped

LEMMA StoreInit == Store!Init => StoreInv
<1>1. 0 \in 0 .. MaxId /\ 0 \in 0 .. MaxPages /\ 0 \in 0 .. MaxErase
  BY BoundsAreNumbers
<1>2. Store!Init => Store!TypeOK
  <2>1. Store!NotErasing \in Store!Eraser /\ Store!NotFinding \in Store!Finder
    BY <1>1 DEF Store!NotErasing, Store!NotFinding, Store!Eraser, Store!Finder
  <2>2. QED
    BY <1>1, <2>1 DEF Store!Init, Store!TypeOK
<1>3. Store!Init => WriteInv
  BY DEF Store!Init, WriteInv, Spent
<1>4. Store!Init => EraseInv /\ FindInv
  BY DEF Store!Init, EraseInv, FindInv, Store!NotErasing, Store!NotFinding
<1>5. QED
  BY <1>2, <1>3, <1>4 DEF StoreInv

\* A writer who was proved to be over, and was the only one, is nobody who still writes.
LEMMA ProvedWriter ==
  ASSUME StoreInv, eraser.proof, OneWriter, NEW w \in Request, parent[w] # "idle"
  PROVE  Spent(w)
<1>1. PICK x \in proven : Spent(x)
  BY DEF StoreInv, EraseInv, WriteInv
<1>2. x \in Request
  BY DEF StoreInv, Store!TypeOK
<1>3. parent[x] # "idle"
  BY <1>1, <1>2 DEF Spent, StoreInv, WriteInv
<1>4. QED
  BY <1>1, <1>2, <1>3 DEF OneWriter

\* What writing has to show of the eraser and the finder.
LEMMA WriterStep ==
  ASSUME StoreInv, UNCHANGED <<mode, eraser, finder, proven>>, Store!TypeOK', WriteInv',
         nextId <= nextId', nextId \in Nat, nextId' \in Nat, eraser.mark \in Nat,
         \A x \in Request : parent[x] # "idle" => parent'[x] # "idle",
         mode = "versioned" => \A v \in versions' : v \in versions \/ v.id = nextId,
         eraser.proof /\ OneWriter' => \A v \in versions' : v \in versions \/ v.body = "marker",
         SoleStep
  PROVE  StoreKept
<1>1. OneWriter' => OneWriter
  BY DEF OneWriter
<1>2. EraseInv'
  <2>1. (eraser.at = "delete" /\ eraser.more => eraser.found # {}) /\ (eraser.proof => proven # {})
    BY DEF StoreInv, EraseInv
  <2>2. eraser.at = "recheck" => eraser.mark <= nextId'
    BY DEF StoreInv, EraseInv
  <2>3. ASSUME eraser.at = "recheck", mode = "versioned", NEW v \in versions'
        PROVE v.id >= eraser.mark /\ (eraser.proof /\ OneWriter' => v.body = "marker")
    <3>1. eraser.mark <= nextId /\ \A u \in versions : u.id >= eraser.mark /\ (eraser.proof /\ OneWriter => u.body = "marker")
      BY <2>3 DEF StoreInv, EraseInv
    <3>2. v \in versions \/ v.id = nextId
      BY <2>3
    <3>3. v.id >= eraser.mark
      BY <3>1, <3>2
    <3>4. eraser.proof /\ OneWriter' => v.body = "marker"
      BY <1>1, <3>1
    <3>5. QED
      BY <3>3, <3>4
  <2>4. ASSUME eraser.at = "erased", eraser.proof, OneWriter', NEW v \in versions' PROVE v.body = "marker"
    BY <1>1, <2>4 DEF StoreInv, EraseInv
  <2>5. eraser' = eraser /\ proven' = proven /\ mode' = mode
    OBVIOUS
  <2>6. QED
    BY <2>1, <2>2, <2>3, <2>4, <2>5 DEF EraseInv
<1>3. FindInv'
  BY DEF StoreInv, FindInv
<1>4. ErasedStep
  BY DEF ErasedStep
<1>5. QED
  BY <1>2, <1>3, <1>4 DEF StoreKept, StoreInv

\* The numbers of the store.
LEMMA StoreNumbers ==
  ASSUME Store!TypeOK
  PROVE  /\ nextId \in Nat /\ nextId <= MaxId /\ eraser.mark \in Nat /\ eraser.mark \in 0 .. MaxId
         /\ finder.mark \in 0 .. MaxId /\ eraser.pages \in 0 .. MaxPages /\ finder.pages \in 0 .. MaxPages
         /\ erasures \in 0 .. MaxErase
         /\ \A v \in versions : v.id \in Nat /\ v.id \in 0 .. MaxId /\ v = [id |-> v.id, body |-> v.body]
         /\ \A v \in versions : v.body \in Request \union {"part", "marker"}
BY BoundsAreNumbers DEF Store!TypeOK, Store!Eraser, Store!Finder, Store!Version, Store!Body

\* Requests are none of the words.
LEMMA RequestsAreNoWords == \A w \in Request : w # "none" /\ w # "part" /\ w # "marker"
BY MCStreamsAssumption

\* A new object is the newest; without versions it is the only one.
LEMMA MadeIsNewest ==
  ASSUME Store!TypeOK, \A v \in versions : v.id < nextId, NEW b \in Request \union {"part", "marker"},
         Store!Makes(b), UNCHANGED mode
  PROVE  /\ nextId' = nextId + 1 /\ nextId' \in 0 .. MaxId
         /\ \A v \in versions' : v \in versions \/ (v.id = nextId /\ v.body = b)
         /\ \A v \in versions' : v.id < nextId'
         /\ versions' \subseteq Store!Version
         /\ \A v, x \in versions' : v.id = x.id \/ mode # "versioned" => v = x
<1> DEFINE n == [id |-> nextId, body |-> b]
<1>1. nextId \in Nat /\ nextId < MaxId /\ nextId' = nextId + 1 /\ MaxId \in Nat
  BY StoreNumbers, BoundsAreNumbers DEF Store!Makes
<1>2. n \in Store!Version /\ n.id = nextId /\ n.body = b
  BY <1>1 DEF Store!Version, Store!Body
<1>3. versions' = {n} \union IF mode = "versioned" THEN versions ELSE {}
  BY DEF Store!Makes
<1>4. \A v \in versions : v.id \in Nat
  BY StoreNumbers
<1> HIDE DEF n
<1>5. \A v \in versions' : v = n \/ (v \in versions /\ mode = "versioned")
  BY <1>3
<1>6. \A v \in versions' : v.id < nextId'
  BY <1>1, <1>2, <1>4, <1>5
<1>7. versions' \subseteq Store!Version
  BY <1>2, <1>5 DEF Store!TypeOK
<1>8. ASSUME NEW v \in versions', NEW x \in versions', v.id = x.id \/ mode # "versioned" PROVE v = x
  <2>1. CASE v = n /\ x = n
    BY <2>1
  <2>2. CASE mode = "versioned" /\ v \in versions /\ x \in versions
    BY <1>8, <2>2 DEF Store!TypeOK
  <2>3. ASSUME v = n, x \in versions, mode = "versioned" PROVE FALSE
    BY <1>1, <1>2, <1>4, <1>8, <2>3
  <2>4. ASSUME x = n, v \in versions, mode = "versioned" PROVE FALSE
    BY <1>1, <1>2, <1>4, <1>8, <2>4
  <2>5. QED
    BY <1>5, <2>1, <2>2, <2>3, <2>4
<1>9. QED
  BY <1>1, <1>2, <1>5, <1>6, <1>7, <1>8

LEMMA PutKeeps == ASSUME StoreInv, NEW w \in Request, Store!Put(w) PROVE StoreKept
<1>1. Store!TypeOK /\ WriteInv /\ parent[w] = "idle" /\ child[w] = "none"
  BY DEF StoreInv, WriteInv, Store!Put
<1>2. /\ parent' = [parent EXCEPT ![w] = "waiting"] /\ child' = [child EXCEPT ![w] = "running"]
      /\ UNCHANGED <<mode, versions, nextId, wire, eraser, finder, proven, erasures>>
  BY DEF Store!Put, Store!store
<1>3. Store!TypeOK'
  BY <1>1, <1>2 DEF Store!TypeOK
<1>4. \A x \in Request : x # w => parent'[x] = parent[x] /\ child'[x] = child[x]
  BY <1>1, <1>2 DEF Store!TypeOK
<1>5. parent'[w] = "waiting" /\ child'[w] = "running" /\ w \notin wire
  BY <1>1, <1>2 DEF Store!TypeOK, WriteInv
<1>6. \A x \in Request : Spent(x) => Spent(x)' /\ x # w
  BY <1>1, <1>2, <1>4 DEF Spent
<1>7. WriteInv'
  <2>1. proven \subseteq Request
    BY <1>1 DEF Store!TypeOK
  <2>2. \A x \in proven : Spent(x)'
    BY <1>1, <1>6, <2>1 DEF WriteInv
  <2>3. \A x \in Request : \A v \in versions : v.body = x => Spent(x)'
    BY <1>1, <1>6 DEF WriteInv
  <2>4. \A x \in Request : /\ parent'[x] = "idle" <=> child'[x] = "none"
                           /\ x \in wire => child'[x] \notin {"none", "running", "opened"}
                           /\ parent'[x] \in {"stored", "failed"} => child'[x] = "gone"
                           /\ child'[x] = "opened" => mode = "local"
    BY <1>1, <1>4, <1>5 DEF WriteInv
  <2>5. QED
    BY <1>1, <1>2, <2>2, <2>3, <2>4 DEF WriteInv
<1>8. \A x \in Request : parent[x] # "idle" => parent'[x] # "idle"
  BY <1>4, <1>5
<1>9. SoleStep
  BY <1>2 DEF SoleStep
<1>10. QED
  <2>1. nextId \in Nat /\ nextId' = nextId /\ eraser.mark \in Nat
    BY <1>1, <1>2, StoreNumbers
  <2>2. nextId <= nextId'
    BY <2>1
  <2>3. versions' = versions
    BY <1>2
  <2>4. QED
    BY <1>2, <1>3, <1>7, <1>8, <1>9, <2>1, <2>2, <2>3, WriterStep

LEMMA SendsKeep == ASSUME StoreInv, NEW w \in Request, Store!Send(w) PROVE StoreKept
<1>1. Store!TypeOK /\ WriteInv /\ child[w] = "running" /\ mode # "local"
  BY DEF StoreInv, Store!Send, Store!Remote
<1>2. /\ child' = [child EXCEPT ![w] = "sent"] /\ wire' \in {wire \union {w}, wire}
      /\ UNCHANGED <<mode, versions, nextId, parent, eraser, finder, proven, erasures>>
  BY DEF Store!Send, Store!store
<1>3. Store!TypeOK'
  BY <1>1, <1>2 DEF Store!TypeOK
<1>4. \A x \in Request : x # w => child'[x] = child[x] /\ (x \in wire' <=> x \in wire)
  BY <1>1, <1>2 DEF Store!TypeOK
<1>5. child'[w] = "sent" /\ parent[w] # "idle" /\ parent[w] \notin {"stored", "failed"}
  BY <1>1, <1>2 DEF Store!TypeOK, WriteInv
<1>6. \A x \in Request : Spent(x) => Spent(x)' /\ x # w
  BY <1>1, <1>2, <1>4 DEF Spent
<1>7. WriteInv'
  <2>1. proven \subseteq Request
    BY <1>1 DEF Store!TypeOK
  <2>2. \A x \in proven : Spent(x)'
    BY <1>1, <1>6, <2>1 DEF WriteInv
  <2>3. \A x \in Request : \A v \in versions : v.body = x => Spent(x)'
    BY <1>1, <1>6 DEF WriteInv
  <2>4. \A x \in Request : /\ parent[x] = "idle" <=> child'[x] = "none"
                           /\ x \in wire' => child'[x] \notin {"none", "running", "opened"}
                           /\ parent[x] \in {"stored", "failed"} => child'[x] = "gone"
                           /\ child'[x] = "opened" => mode = "local"
    BY <1>1, <1>4, <1>5 DEF WriteInv
  <2>5. QED
    BY <1>1, <1>2, <2>2, <2>3, <2>4 DEF WriteInv
<1>9. SoleStep
  BY <1>4, <1>5 DEF SoleStep
<1>10. QED
  <2>1. nextId \in Nat /\ nextId' = nextId /\ eraser.mark \in Nat
    BY <1>1, <1>2, StoreNumbers
  <2>2. nextId <= nextId'
    BY <2>1
  <2>3. versions' = versions /\ parent' = parent
    BY <1>2
  <2>4. QED
    BY <1>2, <1>3, <1>7, <1>9, <2>1, <2>2, <2>3, WriterStep

LEMMA CommitKeeps == ASSUME StoreInv, NEW w \in Request, Store!Commit(w) PROVE StoreKept
<1>1. Store!TypeOK /\ WriteInv /\ w \in wire /\ child[w] \notin {"none", "running", "opened"} /\ mode # "local"
  BY DEF StoreInv, WriteInv, Store!Commit
<1>2. /\ wire' = wire \ {w}
      /\ UNCHANGED <<mode, parent, eraser, finder, proven, erasures>>
      /\ \/ Store!Makes(w) /\ Store!Hears(w, "stored")
         \/ UNCHANGED <<versions, nextId>> /\ Store!Hears(w, "refused")
  BY DEF Store!Commit, Store!store
<1>3. /\ child' \in [Request -> {"none", "running", "sent", "opened", "stored", "refused", "gone"}]
      /\ \A x \in Request : x # w => child'[x] = child[x]
      /\ child'[w] \notin {"none", "running", "opened"} /\ (child[w] = "gone" => child'[w] = "gone")
  BY <1>1, <1>2 DEF Store!TypeOK, Store!Hears
<1>4. /\ nextId \in Nat /\ nextId' \in 0 .. MaxId /\ nextId <= nextId'
      /\ \A v \in versions' : v \in versions \/ (v.id = nextId /\ v.body = w)
      /\ \A v \in versions' : v.id < nextId'
      /\ versions' \subseteq Store!Version
      /\ \A v, x \in versions' : v.id = x.id \/ mode # "versioned" => v = x
  <2>0. nextId \in Nat /\ nextId \in 0 .. MaxId /\ \A v \in versions : v.id < nextId
    BY <1>1, StoreNumbers DEF WriteInv, Store!TypeOK
  <2>1. CASE Store!Makes(w)
    <3>1. w \in Request \union {"part", "marker"} /\ mode' = mode
      BY <1>2
    <3>2. QED
      BY <1>1, <2>0, <2>1, <3>1, MadeIsNewest
  <2>2. CASE UNCHANGED <<versions, nextId>>
    BY <1>1, <2>0, <2>2 DEF Store!TypeOK
  <2>3. QED
    BY <1>2, <2>1, <2>2
<1>5. Store!TypeOK'
  BY <1>1, <1>2, <1>3, <1>4 DEF Store!TypeOK
<1>6. \A x \in Request : Spent(x) => Spent(x)' /\ x # w
  BY <1>1, <1>2, <1>3 DEF Spent
<1>7. Spent(w)'
  BY <1>2, <1>3 DEF Spent
<1>8. WriteInv'
  <2>1. proven \subseteq Request
    BY <1>1 DEF Store!TypeOK
  <2>2. \A x \in proven : Spent(x)'
    BY <1>1, <1>6, <2>1 DEF WriteInv
  <2>3. ASSUME NEW x \in Request, NEW v \in versions', v.body = x PROVE Spent(x)'
    BY <1>1, <1>4, <1>6, <1>7, <2>3 DEF WriteInv
  <2>4. \A x \in Request : /\ parent[x] = "idle" <=> child'[x] = "none"
                           /\ x \in wire' => child'[x] \notin {"none", "running", "opened"}
                           /\ parent[x] \in {"stored", "failed"} => child'[x] = "gone"
                           /\ child'[x] = "opened" => mode = "local"
    BY <1>1, <1>2, <1>3 DEF WriteInv
  <2>5. QED
    BY <1>1, <1>2, <1>4, <2>2, <2>3, <2>4 DEF WriteInv
<1>9. SoleStep
  BY <1>2 DEF SoleStep
<1>10. ~ (eraser.proof /\ OneWriter')
  <2>1. ASSUME eraser.proof, OneWriter' PROVE FALSE
    <3>1. OneWriter
      BY <1>2, <2>1 DEF OneWriter
    <3>2. parent[w] # "idle"
      BY <1>1 DEF WriteInv
    <3>3. QED
      BY <1>1, <2>1, <3>1, <3>2, ProvedWriter DEF Spent
  <2>2. QED
    BY <2>1
<1>11. QED
  <2>1. nextId' \in Nat /\ eraser.mark \in Nat
    BY <1>1, <1>4, StoreNumbers, BoundsAreNumbers
  <2>2. \A x \in Request : parent[x] # "idle" => parent'[x] # "idle"
    BY <1>2
  <2>3. mode = "versioned" => \A v \in versions' : v \in versions \/ v.id = nextId
    BY <1>4
  <2>4. QED
    BY <1>2, <1>4, <1>5, <1>8, <1>9, <1>10, <2>1, <2>2, <2>3, WriterStep

LEMMA CreateKeeps == ASSUME StoreInv, NEW w \in Request, Store!Create(w) PROVE StoreKept
<1>1. Store!TypeOK /\ WriteInv /\ child[w] = "running" /\ mode = "local" /\ wire = {}
  BY DEF StoreInv, WriteInv, Store!Create, Store!Remote
<1>2. /\ UNCHANGED <<mode, wire, parent, eraser, finder, proven, erasures>>
      /\ \/ Store!Makes("part") /\ child' = [child EXCEPT ![w] = "opened"]
         \/ UNCHANGED <<versions, nextId>> /\ child' = [child EXCEPT ![w] = "refused"]
  BY DEF Store!Create, Store!store
<1>3. /\ child' \in [Request -> {"none", "running", "sent", "opened", "stored", "refused", "gone"}]
      /\ \A x \in Request : x # w => child'[x] = child[x]
      /\ child'[w] \in {"opened", "refused"}
  BY <1>1, <1>2 DEF Store!TypeOK
<1>4. /\ nextId \in Nat /\ nextId' \in 0 .. MaxId /\ nextId <= nextId'
      /\ \A v \in versions' : v \in versions \/ (v.id = nextId /\ v.body = "part")
      /\ \A v \in versions' : v.id < nextId'
      /\ versions' \subseteq Store!Version
      /\ \A v, x \in versions' : v.id = x.id \/ mode # "versioned" => v = x
  <2>0. nextId \in Nat /\ nextId \in 0 .. MaxId /\ \A v \in versions : v.id < nextId
    BY <1>1, StoreNumbers DEF WriteInv, Store!TypeOK
  <2>1. CASE Store!Makes("part")
    <3>1. "part" \in Request \union {"part", "marker"} /\ mode' = mode
      BY <1>2
    <3>2. QED
      BY <1>1, <2>0, <2>1, <3>1, MadeIsNewest
  <2>2. CASE UNCHANGED <<versions, nextId>>
    BY <1>1, <2>0, <2>2 DEF Store!TypeOK
  <2>3. QED
    BY <1>2, <2>1, <2>2
<1>5. Store!TypeOK'
  BY <1>1, <1>2, <1>3, <1>4 DEF Store!TypeOK
<1>6. \A x \in Request : Spent(x) => Spent(x)' /\ x # w
  BY <1>1, <1>2, <1>3 DEF Spent
<1>7. parent[w] # "idle" /\ parent[w] \notin {"stored", "failed"}
  BY <1>1 DEF WriteInv
<1>8. WriteInv'
  <2>1. proven \subseteq Request
    BY <1>1 DEF Store!TypeOK
  <2>2. \A x \in proven : Spent(x)'
    BY <1>1, <1>6, <2>1 DEF WriteInv
  <2>3. ASSUME NEW x \in Request, NEW v \in versions', v.body = x PROVE Spent(x)'
    BY <1>1, <1>4, <1>6, <2>3, RequestsAreNoWords DEF WriteInv
  <2>4. \A x \in Request : /\ parent[x] = "idle" <=> child'[x] = "none"
                           /\ parent[x] \in {"stored", "failed"} => child'[x] = "gone"
                           /\ child'[x] = "opened" => mode = "local"
    BY <1>1, <1>3, <1>7 DEF WriteInv
  <2>5. QED
    BY <1>1, <1>2, <1>4, <2>2, <2>3, <2>4 DEF WriteInv
<1>9. SoleStep
  BY <1>2 DEF SoleStep
<1>10. ~ (eraser.proof /\ OneWriter')
  <2>1. ASSUME eraser.proof, OneWriter' PROVE FALSE
    <3>1. OneWriter
      BY <1>2, <2>1 DEF OneWriter
    <3>2. QED
      BY <1>1, <1>7, <2>1, <3>1, ProvedWriter DEF Spent
  <2>2. QED
    BY <2>1
<1>11. QED
  <2>1. nextId' \in Nat /\ eraser.mark \in Nat
    BY <1>1, <1>4, StoreNumbers, BoundsAreNumbers
  <2>2. \A x \in Request : parent[x] # "idle" => parent'[x] # "idle"
    BY <1>2
  <2>3. mode = "versioned" => \A v \in versions' : v \in versions \/ v.id = nextId
    BY <1>4
  <2>4. QED
    BY <1>2, <1>4, <1>5, <1>8, <1>9, <1>10, <2>1, <2>2, <2>3, WriterStep

LEMMA FillKeeps == ASSUME StoreInv, NEW w \in Request, Store!Fill(w) PROVE StoreKept
<1>1. Store!TypeOK /\ WriteInv /\ child[w] = "opened" /\ mode = "local" /\ wire = {}
  BY DEF StoreInv, WriteInv, Store!Fill
<1>2. /\ UNCHANGED <<mode, nextId, wire, parent, eraser, finder, proven, erasures>>
      /\ versions' = {[v EXCEPT !.body = w] : v \in versions}
      /\ child' = [child EXCEPT ![w] = "stored"]
  BY DEF Store!Fill
<1>3. /\ child' \in [Request -> {"none", "running", "sent", "opened", "stored", "refused", "gone"}]
      /\ \A x \in Request : x # w => child'[x] = child[x]
      /\ child'[w] = "stored"
  BY <1>1, <1>2 DEF Store!TypeOK
<1>4. nextId \in Nat /\ \A v \in versions : v.id \in 0 .. MaxId /\ v = [id |-> v.id, body |-> v.body]
  BY <1>1, StoreNumbers
<1>5. \A v \in versions' : \E u \in versions : v = [id |-> u.id, body |-> w]
  <2>1. ASSUME NEW u \in versions PROVE [u EXCEPT !.body = w] = [id |-> u.id, body |-> w]
    <3>1. u = [id |-> u.id, body |-> u.body]
      BY <1>4
    <3>2. u \in [id : {u.id}, body : {u.body}]
      BY <3>1
    <3>3. QED
      BY <3>2
  <2>2. QED
    BY <1>2, <2>1
<1>6. /\ \A v \in versions' : v.id < nextId /\ v.body = w /\ v \in Store!Version
      /\ \A v, x \in versions' : v = x
  <2>1. \A v \in versions : v.id < nextId
    BY <1>1 DEF WriteInv
  <2>2. \A v \in versions' : v.id < nextId /\ v.body = w /\ v \in Store!Version
    BY <1>4, <1>5, <2>1 DEF Store!Version, Store!Body
  <2>3. \A u, x \in versions : u = x
    BY <1>1 DEF Store!TypeOK
  <2>4. QED
    BY <1>5, <2>2, <2>3
<1>7. Store!TypeOK'
  BY <1>1, <1>2, <1>3, <1>6 DEF Store!TypeOK
<1>8. \A x \in Request : Spent(x) => Spent(x)' /\ x # w
  BY <1>1, <1>2, <1>3 DEF Spent
<1>9. Spent(w)' /\ parent[w] # "idle" /\ parent[w] \notin {"stored", "failed"}
  BY <1>1, <1>2, <1>3 DEF Spent, WriteInv
<1>10. WriteInv'
  <2>1. proven \subseteq Request
    BY <1>1 DEF Store!TypeOK
  <2>2. \A x \in proven : Spent(x)'
    BY <1>1, <1>8, <2>1 DEF WriteInv
  <2>3. ASSUME NEW x \in Request, NEW v \in versions', v.body = x PROVE Spent(x)'
    BY <1>6, <1>9, <2>3
  <2>4. \A x \in Request : /\ parent[x] = "idle" <=> child'[x] = "none"
                           /\ parent[x] \in {"stored", "failed"} => child'[x] = "gone"
                           /\ child'[x] = "opened" => mode = "local"
    BY <1>1, <1>3, <1>9 DEF WriteInv
  <2>5. QED
    BY <1>1, <1>2, <1>6, <2>2, <2>3, <2>4 DEF WriteInv
<1>11. SoleStep
  BY <1>2 DEF SoleStep
<1>12. ~ (eraser.proof /\ OneWriter')
  <2>1. ASSUME eraser.proof, OneWriter' PROVE FALSE
    <3>1. OneWriter
      BY <1>2, <2>1 DEF OneWriter
    <3>2. QED
      BY <1>1, <1>9, <2>1, <3>1, ProvedWriter DEF Spent
  <2>2. QED
    BY <2>1
<1>13. QED
  <2>1. nextId' = nextId /\ nextId' \in Nat /\ eraser.mark \in Nat /\ nextId <= nextId'
    BY <1>1, <1>2, <1>4, StoreNumbers
  <2>2. parent' = parent /\ mode # "versioned"
    BY <1>1, <1>2
  <2>4. QED
    BY <1>2, <1>4, <1>7, <1>10, <1>11, <1>12, <2>1, <2>2, WriterStep

\* put() returns: its child is gone, or goes on and the caller was told.
LEMMA ReturnKeeps ==
  ASSUME StoreInv, NEW w \in Request, parent[w] = "waiting",
         UNCHANGED <<mode, versions, nextId, wire, eraser, finder, proven, erasures>>,
         NEW c \in {"none", "running", "sent", "opened", "stored", "refused", "gone"},
         NEW r \in {"stored", "failed", "unresolved"},
         parent' = [parent EXCEPT ![w] = r], child' = [child EXCEPT ![w] = c],
         c = "gone" \/ (c = child[w] /\ r = "unresolved")
  PROVE  StoreKept
<1>1. Store!TypeOK /\ WriteInv /\ child[w] # "none"
  BY DEF StoreInv, WriteInv
<1>2. /\ \A x \in Request : x # w => child'[x] = child[x] /\ parent'[x] = parent[x]
      /\ child'[w] = c /\ parent'[w] = r
  BY <1>1 DEF Store!TypeOK
<1>3. Store!TypeOK'
  BY <1>1 DEF Store!TypeOK
<1>4. \A x \in Request : Spent(x) => Spent(x)'
  <2>1. ASSUME NEW x \in Request, Spent(x) PROVE Spent(x)'
    <3>1. CASE x # w
      BY <1>2, <2>1, <3>1 DEF Spent
    <3>2. CASE x = w
      BY <1>2, <2>1, <3>2 DEF Spent
    <3>3. QED
      BY <3>1, <3>2
  <2>2. QED
    BY <2>1
<1>5. WriteInv'
  <2>1. proven \subseteq Request
    BY <1>1 DEF Store!TypeOK
  <2>2. \A x \in proven : Spent(x)'
    BY <1>1, <1>4, <2>1 DEF WriteInv
  <2>3. \A x \in Request : \A v \in versions : v.body = x => Spent(x)'
    BY <1>1, <1>4 DEF WriteInv
  <2>4. \A x \in Request : /\ parent'[x] = "idle" <=> child'[x] = "none"
                           /\ x \in wire => child'[x] \notin {"none", "running", "opened"}
                           /\ parent'[x] \in {"stored", "failed"} => child'[x] = "gone"
                           /\ child'[x] = "opened" => mode = "local"
    <3>1. ASSUME NEW x \in Request, x # w
          PROVE /\ parent'[x] = "idle" <=> child'[x] = "none"
                /\ x \in wire => child'[x] \notin {"none", "running", "opened"}
                /\ parent'[x] \in {"stored", "failed"} => child'[x] = "gone"
                /\ child'[x] = "opened" => mode = "local"
      BY <1>1, <1>2, <3>1 DEF WriteInv
    <3>2. /\ w \in wire => child[w] \notin {"none", "running", "opened"}
          /\ child[w] = "opened" => mode = "local"
      BY <1>1 DEF WriteInv
    <3>3. /\ parent'[w] = "idle" <=> child'[w] = "none"
          /\ w \in wire => child'[w] \notin {"none", "running", "opened"}
          /\ parent'[w] \in {"stored", "failed"} => child'[w] = "gone"
          /\ child'[w] = "opened" => mode = "local"
      BY <1>1, <1>2, <3>2
    <3>4. QED
      BY <3>1, <3>3
  <2>5. QED
    BY <1>1, <2>2, <2>3, <2>4 DEF WriteInv
<1>6. SoleStep
  BY DEF SoleStep
<1>7. \A x \in Request : parent[x] # "idle" => parent'[x] # "idle"
  BY <1>2
<1>8. QED
  <2>1. nextId \in Nat /\ nextId' = nextId /\ eraser.mark \in Nat
    BY <1>1, StoreNumbers
  <2>2. nextId <= nextId'
    BY <2>1
  <2>3. versions' = versions
    OBVIOUS
  <2>4. QED
    BY <1>3, <1>5, <1>6, <1>7, <2>1, <2>2, <2>3, WriterStep

LEMMA AnswersKeep == ASSUME StoreInv, NEW w \in Request, Store!Answers(w) PROVE StoreKept
<1>1. PICK r \in {"stored", "failed", "unresolved"} : parent' = [parent EXCEPT ![w] = r]
  BY DEF Store!Answers
<1>2. /\ child' = [child EXCEPT ![w] = "gone"] /\ parent[w] = "waiting"
      /\ UNCHANGED <<mode, versions, nextId, wire, eraser, finder, proven, erasures>>
  BY DEF Store!Answers, Store!store
<1>3. "gone" \in {"none", "running", "sent", "opened", "stored", "refused", "gone"}
  OBVIOUS
<1>4. QED
  BY <1>1, <1>2, <1>3, ReturnKeeps

LEMMA GiveUpKeeps == ASSUME StoreInv, NEW w \in Request, Store!GiveUp(w) PROVE StoreKept
<1>1. /\ parent[w] = "waiting"
      /\ UNCHANGED <<mode, versions, nextId, wire, eraser, finder, proven, erasures>>
      /\ \/ parent' = [parent EXCEPT ![w] = "failed"] /\ child' = [child EXCEPT ![w] = "gone"]
         \/ parent' = [parent EXCEPT ![w] = "unresolved"] /\ child' = child
  BY DEF Store!GiveUp, Store!Stopped, Store!store
<1>2. CASE parent' = [parent EXCEPT ![w] = "failed"] /\ child' = [child EXCEPT ![w] = "gone"]
  <2>1. "gone" \in {"none", "running", "sent", "opened", "stored", "refused", "gone"}
        /\ "failed" \in {"stored", "failed", "unresolved"}
    OBVIOUS
  <2>2. QED
    BY <1>1, <1>2, <2>1, ReturnKeeps
<1>3. CASE parent' = [parent EXCEPT ![w] = "unresolved"] /\ child' = child
  <2>1. child[w] \in {"none", "running", "sent", "opened", "stored", "refused", "gone"}
        /\ child' = [child EXCEPT ![w] = child[w]] /\ "unresolved" \in {"stored", "failed", "unresolved"}
    BY <1>3 DEF StoreInv, Store!TypeOK
  <2>2. QED
    BY <1>1, <1>3, <2>1, ReturnKeeps
<1>4. QED
  BY <1>1, <1>2, <1>3

LEMMA DiscardKeeps == ASSUME StoreInv, Store!Discard PROVE StoreKept
<1>1. Store!TypeOK /\ WriteInv
  BY DEF StoreInv
<1>2. /\ UNCHANGED <<mode, wire, parent, child, eraser, finder, proven, erasures>>
      /\ \/ Store!Makes("marker")
         \/ versions' = {} /\ nextId' = nextId
  <2>1. ASSUME mode # "versioned", Store!Deletes(Store!Ids) PROVE versions' = {}
    BY <2>1 DEF Store!Deletes, Store!Ids
  <2>2. QED
    BY <2>1 DEF Store!Discard, Store!Deletes, Store!writing
<1>4. /\ nextId \in Nat /\ nextId' \in 0 .. MaxId /\ nextId <= nextId'
      /\ \A v \in versions' : v \in versions \/ (v.id = nextId /\ v.body = "marker")
      /\ \A v \in versions' : v.id < nextId'
      /\ versions' \subseteq Store!Version
      /\ \A v, x \in versions' : v.id = x.id \/ mode # "versioned" => v = x
  <2>0. nextId \in Nat /\ nextId \in 0 .. MaxId /\ \A v \in versions : v.id < nextId
    BY <1>1, StoreNumbers DEF WriteInv, Store!TypeOK
  <2>1. CASE Store!Makes("marker")
    <3>1. "marker" \in Request \union {"part", "marker"} /\ mode' = mode
      BY <1>2
    <3>2. QED
      BY <1>1, <2>0, <2>1, <3>1, MadeIsNewest
  <2>2. CASE versions' = {} /\ nextId' = nextId
    BY <2>0, <2>2
  <2>3. QED
    BY <1>2, <2>1, <2>2
<1>5. Store!TypeOK'
  BY <1>1, <1>2, <1>4 DEF Store!TypeOK
<1>6. \A x : Spent(x) => Spent(x)'
  BY <1>2 DEF Spent
<1>8. WriteInv'
  <2>3. ASSUME NEW x \in Request, NEW v \in versions', v.body = x PROVE Spent(x)'
    BY <1>1, <1>4, <1>6, <2>3, RequestsAreNoWords DEF WriteInv
  <2>4. \A x \in proven : Spent(x)'
    BY <1>1, <1>6 DEF WriteInv
  <2>5. QED
    BY <1>1, <1>2, <1>4, <2>3, <2>4 DEF WriteInv
<1>9. SoleStep
  BY <1>2 DEF SoleStep
<1>11. QED
  <2>1. nextId' \in Nat /\ eraser.mark \in Nat
    BY <1>1, <1>4, StoreNumbers, BoundsAreNumbers
  <2>2. parent' = parent
    BY <1>2
  <2>3. mode = "versioned" => \A v \in versions' : v \in versions \/ v.id = nextId
    BY <1>4
  <2>5. \A v \in versions' : v \in versions \/ v.body = "marker"
    BY <1>4
  <2>4. QED
    BY <1>2, <1>4, <1>5, <1>8, <1>9, <2>1, <2>2, <2>3, <2>5, WriterStep

\* What erasing never disturbs.
LEMMA EraserStep ==
  ASSUME StoreInv, UNCHANGED <<mode, nextId, wire, parent, child, finder, proven>>,
         versions' \subseteq versions, eraser' \in Store!Eraser, erasures' \in 0 .. MaxErase,
         EraseInv', ErasedStep
  PROVE  StoreKept
<1>1. Store!TypeOK'
  BY DEF StoreInv, Store!TypeOK
<1>2. WriteInv'
  <2>1. \A x : Spent(x) <=> Spent(x)'
    BY DEF Spent
  <2>2. QED
    BY <2>1 DEF StoreInv, WriteInv
<1>3. FindInv'
  BY DEF StoreInv, FindInv
<1>4. SoleStep
  BY DEF SoleStep
<1>5. QED
  BY <1>1, <1>2, <1>3, <1>4 DEF StoreKept, StoreInv

\* The eraser between its calls.
LEMMA ErasingTyped ==
  ASSUME Store!TypeOK
  PROVE  /\ Store!NotErasing \in Store!Eraser /\ Store!NotErasing.at = "idle" /\ Store!NotErasing.proof = FALSE
         /\ \A a \in {"head", "relist", "recheck"} :
              /\ Store!Erasing(a) \in Store!Eraser
              /\ Store!Erasing(a).at = a /\ Store!Erasing(a).proof = eraser.proof
<1>1. 0 \in 0 .. MaxId /\ 0 \in 0 .. MaxPages /\ eraser.proof \in BOOLEAN
  BY BoundsAreNumbers DEF Store!TypeOK, Store!Eraser
<1>2. Store!NotErasing \in Store!Eraser /\ Store!NotErasing.at = "idle" /\ Store!NotErasing.proof = FALSE
  BY <1>1 DEF Store!NotErasing, Store!Eraser
<1>3. ASSUME NEW a \in {"head", "relist", "recheck"}
      PROVE  /\ Store!Erasing(a) \in Store!Eraser
             /\ Store!Erasing(a).at = a /\ Store!Erasing(a).proof = eraser.proof
  BY <1>1, <1>2 DEF Store!Erasing, Store!Eraser
<1>4. QED
  BY <1>2, <1>3

\* The eraser goes on, without a second look yet.
LEMMA EraserGoesOn ==
  ASSUME StoreInv, UNCHANGED <<mode, nextId, wire, parent, child, finder, proven>>,
         versions' \subseteq versions, eraser' \in Store!Eraser, erasures' \in 0 .. MaxErase,
         eraser'.at \notin {"recheck", "erased"}, eraser'.proof => eraser.proof \/ proven # {},
         eraser'.at = "delete" /\ eraser'.more => eraser'.found # {}
  PROVE  StoreKept
<1>1. eraser'.proof => proven # {}
  BY DEF StoreInv, EraseInv
<1>2. EraseInv'
  BY <1>1 DEF EraseInv
<1>3. ErasedStep
  BY DEF ErasedStep
<1>4. QED
  BY <1>2, <1>3, EraserStep

LEMMA BeginEraseKeeps == ASSUME StoreInv, Store!BeginErase PROVE StoreKept
<1>1. Store!TypeOK /\ nextId \in 0 .. MaxId
  BY DEF StoreInv, Store!TypeOK
<1>2. /\ UNCHANGED <<mode, versions, nextId, wire, parent, child, finder, proven>>
      /\ erasures' = erasures + 1 /\ erasures < MaxErase
  BY DEF Store!BeginErase, Store!store, Store!writing
<1>3. erasures' \in 0 .. MaxErase
  BY <1>1, <1>2, BoundsAreNumbers DEF Store!TypeOK
<1>4. PICK a \in {"list", "delete"} :
        eraser' = [Store!NotErasing EXCEPT !.at = a, !.mark = nextId, !.proof = proven # {}]
  BY DEF Store!BeginErase
<1>5. (proven # {}) \in BOOLEAN
  OBVIOUS
<1>6. /\ eraser' \in Store!Eraser /\ eraser'.at \notin {"recheck", "erased"}
      /\ eraser'.proof = (proven # {}) /\ eraser'.more = FALSE
  <2>1. 0 \in 0 .. MaxId /\ 0 \in 0 .. MaxPages
    BY BoundsAreNumbers
  <2>2. QED
    BY <1>1, <1>4, <1>5, <2>1 DEF Store!NotErasing, Store!Eraser
<1>7. eraser'.proof => proven # {}
  BY <1>6
<1>8. versions' \subseteq versions
  BY <1>2
<1>9. QED
  BY <1>2, <1>3, <1>6, <1>7, <1>8, EraserGoesOn

\* The eraser gives up, or reaches its second look.
LEMMA EraserMoves ==
  ASSUME StoreInv, UNCHANGED <<mode, nextId, wire, parent, child, finder, proven, erasures>>,
         versions' \subseteq versions,
         eraser' = Store!NotErasing \/ eraser' = Store!Erasing("head") \/ eraser' = Store!Erasing("relist")
  PROVE  StoreKept
<1>1. Store!TypeOK
  BY DEF StoreInv
<1>2. /\ eraser' \in Store!Eraser /\ eraser'.at \notin {"recheck", "erased", "delete"}
      /\ eraser'.proof => eraser.proof
  <2>1. CASE eraser' = Store!NotErasing
    BY <1>1, <2>1, ErasingTyped
  <2>2. CASE eraser' = Store!Erasing("head")
    BY <1>1, <2>2, ErasingTyped
  <2>3. CASE eraser' = Store!Erasing("relist")
    BY <1>1, <2>3, ErasingTyped
  <2>4. QED
    BY <2>1, <2>2, <2>3
<1>3. erasures' \in 0 .. MaxErase
  BY <1>1, StoreNumbers
<1>4. QED
  BY <1>2, <1>3, EraserGoesOn

LEMMA BreakOffKeeps == ASSUME StoreInv, Store!BreakOff PROVE StoreKept
<1>1. /\ UNCHANGED <<mode, versions, nextId, wire, parent, child, finder, proven, erasures>>
      /\ eraser' = Store!NotErasing
  BY DEF Store!BreakOff, Store!store, Store!writing
<1>2. versions' \subseteq versions
  BY <1>1
<1>3. QED
  BY <1>1, <1>2, EraserMoves

LEMMA ListPageKeeps == ASSUME StoreInv, Store!ListPage PROVE StoreKept
<1>1. /\ UNCHANGED <<mode, versions, nextId, wire, parent, child, finder, proven, erasures>>
      /\ versions' \subseteq versions /\ Store!TypeOK
  BY DEF Store!ListPage, Store!store, Store!writing, StoreInv
<1>2. CASE eraser.pages = MaxPages
  <2>1. eraser' = Store!NotErasing
    BY <1>2 DEF Store!ListPage
  <2>2. QED
    BY <1>1, <2>1, EraserMoves
<1>3. CASE eraser.pages # MaxPages
  <2>1. eraser' = [eraser EXCEPT !.at = "delete", !.pages = @ + 1, !.mark = 0,
                     !.found = Store!Listed(eraser.mark), !.more = Store!Truncated(eraser.mark)]
    BY <1>3 DEF Store!ListPage
  <2>2. Store!Listed(eraser.mark) \in SUBSET (0 .. MaxId)
    BY <1>1, ListedTyped
  <2>3. Store!Truncated(eraser.mark) \in BOOLEAN
    BY DEF Store!Truncated
  <2>4. eraser.pages + 1 \in 0 .. MaxPages /\ 0 \in 0 .. MaxId
    BY <1>1, <1>3, StoreNumbers, BoundsAreNumbers
  <2>5. eraser \in Store!Eraser
    BY <1>1 DEF Store!TypeOK
  <2>6. /\ eraser' \in Store!Eraser /\ eraser'.at = "delete" /\ eraser'.proof = eraser.proof
        /\ eraser'.found = Store!Listed(eraser.mark) /\ eraser'.more = Store!Truncated(eraser.mark)
    BY <2>1, <2>2, <2>3, <2>4, <2>5 DEF Store!Eraser
  <2>7. eraser'.more => eraser'.found # {}
    BY <1>1, <2>6, TruncatedLists
  <2>8. erasures' \in 0 .. MaxErase
    BY <1>1, StoreNumbers
  <2>9. QED
    BY <1>1, <2>6, <2>7, <2>8, EraserGoesOn
<1>4. QED
  BY <1>2, <1>3

LEMMA DeletePageKeeps == ASSUME StoreInv, Store!DeletePage PROVE StoreKept
<1>1. /\ UNCHANGED <<mode, nextId, wire, parent, child, finder, proven, erasures>>
      /\ versions' \subseteq versions /\ Store!TypeOK /\ eraser.at = "delete"
  BY DEF Store!DeletePage, Store!Deletes, Store!writing, StoreInv
<1>2. CASE ~ eraser.more
  <2>1. eraser' = Store!Erasing("head")
    BY <1>2 DEF Store!DeletePage
  <2>2. QED
    BY <1>1, <2>1, EraserMoves
<1>3. CASE eraser.more
  <2>1. eraser' = [eraser EXCEPT !.at = "list", !.mark = Store!Min(eraser.found), !.found = {}]
    BY <1>3 DEF Store!DeletePage
  <2>2. eraser \in Store!Eraser /\ eraser.found \in SUBSET (0 .. MaxId)
    BY <1>1 DEF Store!TypeOK, Store!Eraser
  <2>3. eraser.found # {}
    BY <1>1, <1>3 DEF StoreInv, EraseInv
  <2>4. Store!Min(eraser.found) \in 0 .. MaxId
    BY <2>2, <2>3, IdBounds, StoreMin
  <2>5. eraser' \in Store!Eraser /\ eraser'.at = "list" /\ eraser'.proof = eraser.proof
    BY <2>1, <2>2, <2>4 DEF Store!Eraser
  <2>6. erasures' \in 0 .. MaxErase
    BY <1>1, StoreNumbers
  <2>7. QED
    BY <1>1, <2>5, <2>6, EraserGoesOn
<1>4. QED
  BY <1>2, <1>3

LEMMA HeadCurrentKeeps == ASSUME StoreInv, Store!HeadCurrent PROVE StoreKept
<1>1. /\ UNCHANGED <<mode, nextId, wire, parent, child, finder, proven, erasures>>
      /\ versions' \subseteq versions /\ eraser' = Store!Erasing("relist")
  BY DEF Store!HeadCurrent, Store!Deletes, Store!store, Store!writing
<1>2. QED
  BY <1>1, EraserMoves

\* Nothing was listed: a versioned bucket is empty.
LEMMA RelistKeeps == ASSUME StoreInv, Store!Relist PROVE StoreKept
<1>1. /\ UNCHANGED <<mode, versions, nextId, wire, parent, child, finder, proven, erasures>>
      /\ versions' \subseteq versions /\ Store!TypeOK
  BY DEF Store!Relist, Store!store, Store!writing, StoreInv
<1>2. CASE Store!LeftOver # {}
  <2>1. eraser' = Store!NotErasing
    BY <1>2 DEF Store!Relist
  <2>2. QED
    BY <1>1, <2>1, EraserMoves
<1>3. CASE Store!LeftOver = {}
  <2>1. eraser' = [Store!Erasing("recheck") EXCEPT !.mark = nextId]
    BY <1>3 DEF Store!Relist
  <2>2. /\ Store!Erasing("recheck") \in Store!Eraser /\ Store!Erasing("recheck").at = "recheck"
        /\ Store!Erasing("recheck").proof = eraser.proof
    BY <1>1, ErasingTyped
  <2>3. nextId \in 0 .. MaxId
    BY <1>1 DEF Store!TypeOK
  <2> DEFINE e == Store!Erasing("recheck")
  <2> HIDE DEF e
  <2>4. /\ eraser' \in Store!Eraser /\ eraser'.at = "recheck" /\ eraser'.mark = nextId
        /\ eraser'.proof = eraser.proof
    <3>1. e \in Store!Eraser /\ e.at = "recheck" /\ e.proof = eraser.proof /\ eraser' = [e EXCEPT !.mark = nextId]
      BY <2>1, <2>2 DEF e
    <3>2. QED
      BY <2>3, <3>1 DEF Store!Eraser
  <2>5. mode = "versioned" => versions = {}
    <3>1. Store!Listed(nextId) = {}
      BY <1>3 DEF Store!LeftOver
    <3>2. mode = "versioned" => ~ \E v \in versions : v.id < nextId
      BY <1>1, <3>1, ListedTyped
    <3>3. \A v \in versions : v.id < nextId
      BY DEF StoreInv, WriteInv
    <3>4. QED
      BY <3>2, <3>3
  <2>6. nextId' = nextId /\ nextId <= nextId /\ (eraser.proof => proven # {})
    BY <1>1, StoreNumbers DEF StoreInv, EraseInv
  <2>7. EraseInv'
    BY <1>1, <2>4, <2>5, <2>6 DEF EraseInv
  <2>8. ErasedStep
    BY <2>4 DEF ErasedStep
  <2>9. erasures' \in 0 .. MaxErase
    BY <1>1, StoreNumbers
  <2>10. QED
    BY <1>1, <2>4, <2>7, <2>8, <2>9, EraserStep
<1>4. QED
  BY <1>2, <1>3

\* Nothing is current and nothing old is left, at once.
LEMMA RecheckKeeps == ASSUME StoreInv, Store!Recheck PROVE StoreKept
<1>1. /\ UNCHANGED <<mode, versions, nextId, wire, parent, child, finder, proven, erasures>>
      /\ versions' \subseteq versions /\ Store!TypeOK /\ eraser.at = "recheck"
  BY DEF Store!Recheck, Store!store, Store!writing, StoreInv
<1>2. CASE ~ Store!Absent
  <2>1. eraser' = Store!NotErasing
    BY <1>2 DEF Store!Recheck
  <2>2. QED
    BY <1>1, <2>1, EraserMoves
<1>3. CASE Store!Absent
  <2>1. eraser' = [eraser EXCEPT !.at = "erased"]
    BY <1>3 DEF Store!Recheck
  <2>2. /\ eraser' \in Store!Eraser /\ eraser'.at = "erased" /\ eraser'.proof = eraser.proof
        /\ eraser'.more = eraser.more
    BY <1>1, <2>1 DEF Store!TypeOK, Store!Eraser
  <2>3. mode # "versioned" => \A v \in versions : v.body = "marker"
    <3>1. ASSUME mode # "versioned", NEW v \in versions PROVE v.body = "marker"
      <4>1. versions = {Store!Newest} /\ Store!Current = Store!Newest.body
        BY <1>1, <3>1, NewestIsIn
      <4>2. v = Store!Newest
        BY <3>1, <4>1
      <4>3. v.body \in {"none", "marker"}
        BY <1>3, <4>1, <4>2 DEF Store!Absent
      <4>4. v.body # "none"
        BY <1>1, <3>1, StoreNumbers, RequestsAreNoWords
      <4>5. QED
        BY <4>3, <4>4
    <3>2. QED
      BY <3>1
  <2>4. mode = "versioned" =>
          \A v \in versions : v.id >= eraser.mark /\ (eraser.proof /\ OneWriter => v.body = "marker")
    BY <1>1 DEF StoreInv, EraseInv
  <2>5. eraser.proof /\ OneWriter => \A v \in versions : v.body = "marker"
    BY <2>3, <2>4
  <2>6. EraseInv'
    <3>1. OneWriter' => OneWriter
      BY <1>1 DEF OneWriter
    <3>2. eraser.proof => proven # {}
      BY DEF StoreInv, EraseInv
    <3>3. QED
      BY <1>1, <2>2, <2>5, <3>1, <3>2 DEF EraseInv
  <2>7. \A i \in Store!Held : i >= eraser.mark
    BY <2>3, <2>4 DEF Store!Held
  <2>8. ErasedStep
    BY <1>3, <2>7 DEF ErasedStep
  <2>9. erasures' \in 0 .. MaxErase
    BY <1>1, StoreNumbers
  <2>10. QED
    BY <1>1, <2>2, <2>6, <2>8, <2>9, EraserStep
<1>4. QED
  BY <1>2, <1>3

LEMMA UnlinkKeeps == ASSUME StoreInv, Store!Unlink PROVE StoreKept
<1>1. /\ UNCHANGED <<mode, nextId, wire, parent, child, finder, proven, erasures>>
      /\ versions' \subseteq versions /\ Store!TypeOK
      /\ eraser' = [eraser EXCEPT !.at = "look", !.mark = nextId]
  BY DEF Store!Unlink, Store!Deletes, Store!writing, StoreInv
<1>2. eraser' \in Store!Eraser /\ eraser'.at = "look" /\ eraser'.proof = eraser.proof
  BY <1>1 DEF Store!TypeOK, Store!Eraser
<1>3. erasures' \in 0 .. MaxErase
  BY <1>1, StoreNumbers
<1>4. QED
  BY <1>1, <1>2, <1>3, EraserGoesOn

LEMMA LookKeeps == ASSUME StoreInv, Store!Look PROVE StoreKept
<1>1. /\ UNCHANGED <<mode, versions, nextId, wire, parent, child, finder, proven, erasures>>
      /\ versions' \subseteq versions /\ Store!TypeOK
  BY DEF Store!Look, Store!store, Store!writing, StoreInv
<1>2. CASE versions # {}
  <2>1. eraser' = Store!NotErasing
    BY <1>2 DEF Store!Look
  <2>2. QED
    BY <1>1, <2>1, EraserMoves
<1>3. CASE versions = {}
  <2>1. eraser' = [eraser EXCEPT !.at = "erased"]
    BY <1>3 DEF Store!Look
  <2>2. eraser' \in Store!Eraser /\ eraser'.at = "erased" /\ eraser'.proof = eraser.proof
    BY <1>1, <2>1 DEF Store!TypeOK, Store!Eraser
  <2>3. EraseInv'
    BY <1>1, <1>3, <2>2 DEF EraseInv, StoreInv
  <2>4. ErasedStep
    BY <1>3 DEF ErasedStep, Store!Absent, Store!Current, Store!Held
  <2>5. erasures' \in 0 .. MaxErase
    BY <1>1, StoreNumbers
  <2>6. QED
    BY <1>1, <2>2, <2>3, <2>4, <2>5, EraserStep
<1>4. QED
  BY <1>2, <1>3

\* What looking for a write never disturbs: whom it proves has spent his request.
LEMMA FinderStep ==
  ASSUME StoreInv, UNCHANGED <<mode, versions, nextId, wire, parent, child, eraser, erasures>>,
         finder' \in Store!Finder, finder'.at # "idle" => finder'.for \in Request /\ parent[finder'.for] # "idle",
         proven \subseteq proven', \A w \in proven' : w \in proven \/ (w \in Request /\ Spent(w))
  PROVE  StoreKept
<1>1. Store!TypeOK'
  BY DEF StoreInv, Store!TypeOK
<1>2. \A x : Spent(x) <=> Spent(x)'
  BY DEF Spent
<1>3. WriteInv'
  <2>1. \A w \in proven' : Spent(w)'
    BY <1>2 DEF StoreInv, WriteInv
  <2>2. QED
    BY <1>2, <2>1 DEF StoreInv, WriteInv
<1>4. EraseInv'
  <2>1. OneWriter' => OneWriter
    BY DEF OneWriter
  <2>2. proven # {} => proven' # {}
    OBVIOUS
  <2>3. QED
    BY <2>1, <2>2 DEF StoreInv, EraseInv
<1>5. FindInv'
  BY DEF FindInv
<1>6. ErasedStep /\ SoleStep
  BY DEF ErasedStep, SoleStep
<1>7. QED
  BY <1>1, <1>3, <1>4, <1>5, <1>6 DEF StoreKept, StoreInv

\* The finder is done.
LEMMA FinderStops ==
  ASSUME StoreInv, UNCHANGED <<mode, versions, nextId, wire, parent, child, eraser, erasures>>,
         finder' = Store!NotFinding,
         proven \subseteq proven', \A w \in proven' : w \in proven \/ (w \in Request /\ Spent(w))
  PROVE  StoreKept
<1>1. 0 \in 0 .. MaxId /\ 0 \in 0 .. MaxPages
  BY BoundsAreNumbers
<1>2. finder' \in Store!Finder /\ finder'.at = "idle"
  BY <1>1 DEF Store!NotFinding, Store!Finder
<1>3. QED
  BY <1>2, FinderStep

LEMMA BeginFindKeeps == ASSUME StoreInv, NEW w \in Request, Store!BeginFind(w) PROVE StoreKept
<1>1. /\ UNCHANGED <<mode, versions, nextId, wire, parent, child, eraser, erasures, proven>>
      /\ parent[w] # "idle" /\ Store!TypeOK /\ nextId \in 0 .. MaxId
  BY DEF Store!BeginFind, Store!store, Store!writing, StoreInv, Store!TypeOK
<1>2. PICK a \in {"list", "read"}, l \in BOOLEAN :
        finder' = [Store!NotFinding EXCEPT !.at = a, !.for = w, !.mark = nextId, !.all = l]
  BY DEF Store!BeginFind
<1>3. 0 \in 0 .. MaxId /\ 0 \in 0 .. MaxPages
  BY BoundsAreNumbers
<1>4. finder' \in Store!Finder /\ finder'.for = w
  BY <1>1, <1>2, <1>3 DEF Store!NotFinding, Store!Finder
<1>5. QED
  BY <1>1, <1>4, FinderStep

LEMMA FindPageKeeps == ASSUME StoreInv, Store!FindPage PROVE StoreKept
<1>1. /\ UNCHANGED <<mode, versions, nextId, wire, parent, child, eraser, erasures, proven>>
      /\ Store!TypeOK /\ finder \in Store!Finder /\ finder.at = "list"
  BY DEF Store!FindPage, Store!store, Store!writing, StoreInv, Store!TypeOK
<1>2. finder.for \in Request /\ parent[finder.for] # "idle"
  BY <1>1 DEF StoreInv, FindInv
<1> DEFINE page == Store!Listed(finder.mark)
           left == finder.left \union page
<1>3. page \in SUBSET (0 .. MaxId) /\ left \in SUBSET (0 .. MaxId)
  BY <1>1, ListedTyped DEF Store!Finder
<1>4. finder' = IF finder.pages = MaxPages THEN Store!NotFinding
                ELSE IF Store!Truncated(finder.mark)
                  THEN [finder EXCEPT !.left = left, !.mark = Store!Min(page), !.pages = @ + 1]
                ELSE [finder EXCEPT !.at = "read", !.left = left, !.all = left = {}, !.mark = 0, !.pages = 0]
  BY DEF Store!FindPage
<1>5. CASE finder.pages = MaxPages
  BY <1>1, <1>4, <1>5, FinderStops
<1>6. CASE finder.pages # MaxPages /\ Store!Truncated(finder.mark)
  <2>1. page # {}
    BY <1>1, <1>6, TruncatedLists
  <2>2. Store!Min(page) \in 0 .. MaxId
    <3>1. Min(page) \in page
      <4> HIDE DEF page
      <4>1. QED
        BY <1>3, <2>1, IdBounds
    <3>2. Store!Min(page) = Min(page)
      BY StoreMin
    <3>3. QED
      BY <1>3, <3>1, <3>2
  <2>3. finder.pages + 1 \in 0 .. MaxPages
    BY <1>1, <1>6, StoreNumbers, BoundsAreNumbers
  <2>4. finder' = [finder EXCEPT !.left = left, !.mark = Store!Min(page), !.pages = finder.pages + 1]
    BY <1>4, <1>6
  <2> HIDE DEF left, page
  <2>5. finder' \in Store!Finder /\ finder'.for = finder.for
    BY <1>1, <1>3, <2>2, <2>3, <2>4 DEF Store!Finder
  <2>6. QED
    BY <1>1, <1>2, <2>5, FinderStep
<1>7. CASE finder.pages # MaxPages /\ ~ Store!Truncated(finder.mark)
  <2>1. finder' = [finder EXCEPT !.at = "read", !.left = left, !.all = (left = {}), !.mark = 0, !.pages = 0]
    BY <1>4, <1>7
  <2>2. 0 \in 0 .. MaxId /\ 0 \in 0 .. MaxPages /\ (left = {}) \in BOOLEAN
    BY BoundsAreNumbers
  <2> HIDE DEF left
  <2>3. finder' \in Store!Finder /\ finder'.for = finder.for
    BY <1>1, <1>3, <2>1, <2>2 DEF Store!Finder
  <2>4. QED
    BY <1>1, <1>2, <2>3, FinderStep
<1>8. QED
  BY <1>5, <1>6, <1>7

\* The bytes that were read are those of a version of the writer.
LEMMA FoundKeeps == ASSUME StoreInv, Store!Found PROVE StoreKept
<1>1. /\ UNCHANGED <<mode, versions, nextId, wire, parent, child, eraser, erasures>>
      /\ Store!TypeOK /\ finder \in Store!Finder /\ finder.at = "read"
      /\ finder.left # {} \/ finder.all
  BY DEF Store!Found, Store!store, Store!writing, StoreInv, Store!TypeOK
<1>2. finder.for \in Request /\ parent[finder.for] # "idle"
  BY <1>1 DEF StoreInv, FindInv
<1> DEFINE id == Store!Max(finder.left)
           body == IF finder.all THEN Store!Current
                   ELSE IF mode # "versioned" THEN Store!Current
                   ELSE IF id \in Store!Ids THEN Store!BodyOf(id) ELSE "none"
<1>3. \/ /\ body = finder.for /\ proven' = proven \union {finder.for} /\ finder' = Store!NotFinding
      \/ /\ proven' = proven
         /\ finder' = Store!NotFinding \/ finder' = [finder EXCEPT !.left = finder.left \ {id}]
  <2>1. IF Store!Proves(finder.for, body)
          THEN proven' = proven \union {finder.for} /\ finder' = Store!NotFinding
          ELSE /\ UNCHANGED proven
               /\ finder' = IF finder.all \/ finder.left = {id} THEN Store!NotFinding
                            ELSE [finder EXCEPT !.left = @ \ {id}]
    BY DEF Store!Found
  <2> HIDE DEF id, body
  <2>2. QED
    BY <2>1 DEF Store!Proves
<1>4. CASE body = finder.for /\ proven' = proven \union {finder.for} /\ finder' = Store!NotFinding
  <2>1. \E v \in versions : v.body = finder.for
    <3>1. finder.for # "none"
      BY <1>2, RequestsAreNoWords
    <3>2. CASE body = Store!Current
      <4>1. versions # {}
        BY <1>4, <3>1, <3>2 DEF Store!Current
      <4>2. QED
        BY <1>1, <1>4, <3>2, <4>1, NewestIsIn
    <3>3. CASE id \in Store!Ids /\ body = Store!BodyOf(id)
      <4>1. \E v \in versions : v.id = id
        BY <3>3 DEF Store!Ids
      <4>2. (CHOOSE v \in versions : v.id = id) \in versions
        <5> HIDE DEF id
        <5>1. QED
          BY <4>1
      <4>3. QED
        BY <1>4, <3>3, <4>2 DEF Store!BodyOf
    <3>4. body = Store!Current \/ (id \in Store!Ids /\ body = Store!BodyOf(id)) \/ body = "none"
      OBVIOUS
    <3>5. QED
      BY <1>4, <3>1, <3>2, <3>3, <3>4
  <2>2. Spent(finder.for)
    BY <1>2, <2>1 DEF StoreInv, WriteInv
  <2> HIDE DEF body
  <2>3. QED
    BY <1>1, <1>2, <1>4, <2>2, FinderStops
<1>5. CASE proven' = proven /\ finder' = Store!NotFinding
  BY <1>1, <1>5, FinderStops
<1>6. CASE proven' = proven /\ finder' = [finder EXCEPT !.left = finder.left \ {id}]
  <2>1. finder.left \ {id} \in SUBSET (0 .. MaxId)
    BY <1>1 DEF Store!Finder
  <2> HIDE DEF id, body
  <2>2. finder' \in Store!Finder /\ finder'.for = finder.for
    BY <1>1, <1>6, <2>1 DEF Store!Finder
  <2>3. QED
    BY <1>1, <1>2, <1>6, <2>2, FinderStep
<1>7. QED
  BY <1>3, <1>4, <1>5, <1>6

LEMMA FindFailsKeeps == ASSUME StoreInv, Store!FindFails PROVE StoreKept
<1>1. /\ UNCHANGED <<mode, versions, nextId, wire, parent, child, eraser, erasures, proven>>
      /\ finder' = Store!NotFinding
  BY DEF Store!FindFails, Store!store, Store!writing
<1>2. QED
  BY <1>1, FinderStops

LEMMA StoreNext == StoreInv /\ [Store!Next]_object => StoreKept
<1>1. ASSUME StoreInv, UNCHANGED object PROVE StoreKept
  <2>1. /\ UNCHANGED <<mode, versions, nextId, wire, parent, child, eraser, finder, proven, erasures>>
    BY <1>1 DEF object
  <2>2. finder' \in Store!Finder /\ (finder'.at # "idle" => finder'.for \in Request /\ parent[finder'.for] # "idle")
    BY <1>1, <2>1 DEF StoreInv, Store!TypeOK, FindInv
  <2>3. QED
    BY <1>1, <2>1, <2>2, FinderStep
<1>2. ASSUME StoreInv, Store!Writes PROVE StoreKept
  <2>1. PICK w \in Request : \/ Store!Put(w) \/ Store!Send(w) \/ Store!Commit(w) \/ Store!Create(w)
                             \/ Store!Fill(w) \/ Store!Answers(w) \/ Store!GiveUp(w)
    BY <1>2 DEF Store!Writes
  <2>2. QED
    BY <1>2, <2>1, PutKeeps, SendsKeep, CommitKeeps, CreateKeeps, FillKeeps, AnswersKeep, GiveUpKeeps
<1>3. ASSUME StoreInv, Store!Erases PROVE StoreKept
  BY <1>3, BeginEraseKeeps, BreakOffKeeps, ListPageKeeps, DeletePageKeeps, HeadCurrentKeeps, RelistKeeps,
     RecheckKeeps, UnlinkKeeps, LookKeeps DEF Store!Erases
<1>4. ASSUME StoreInv, Store!Finds PROVE StoreKept
  BY <1>4, BeginFindKeeps, FindPageKeeps, FoundKeeps, FindFailsKeeps DEF Store!Finds
<1>5. QED
  BY <1>1, <1>2, <1>3, <1>4, DiscardKeeps DEF Store!Next

\* One dispatched put is one writer; then an erasure after a proof leaves markers only.
LEMMA StoreSafe == StoreInv => Store!ProofMakesErasureFinal
<1> SUFFICES ASSUME StoreInv, eraser.at = "erased", eraser.proof,
                    Store!Cardinality({w \in Request : parent[w] # "idle"}) = 1
             PROVE  Store!Held = {}
  BY DEF Store!ProofMakesErasureFinal
<1> DEFINE busy == {w \in Request : parent[w] # "idle"}
<1>1. IsFiniteSet(busy) /\ Cardinality(busy) = 1
  <2>1. IsFiniteSet(Request) /\ busy \subseteq Request
    BY MCStreamsAssumption
  <2>2. IsFiniteSet(busy)
    BY <2>1, FS_Subset
  <2>3. Store!Cardinality(busy) = Cardinality(busy)
    BY StoreCardinality
  <2>4. QED
    BY <2>2, <2>3
<1>2. PICK x : busy = {x}
  <2> HIDE DEF busy
  <2>1. QED
    BY <1>1, FS_Singleton
<1>3. OneWriter
  BY <1>2 DEF OneWriter
<1>4. \A v \in versions : v.body = "marker"
  BY <1>3 DEF StoreInv, EraseInv
<1>5. QED
  BY <1>4 DEF Store!Held

-----------------------------------------------------------------------------
(* All of them.                                                            *)

StreamsInv == BridgeInv /\ StoreInv /\ AccessInv

\* What a step of any part does.
StreamsStep == SilentStep /\ ErasedStep /\ SoleStep /\ BackStep

LEMMA EachSteps ==
  [AllNext]_all => [Next]_bridge /\ [Store!Next]_object /\ [Access!Next]_access
BY DEF AllNext, all

LEMMA StreamsKept == StreamsInv /\ [AllNext]_all => StreamsInv' /\ StreamsStep
BY EachSteps, BridgeNext, StoreNext, AccessNext DEF StreamsInv, StreamsStep, Kept, StoreKept

\* Each part keeps its invariant (realtime.py, visual_storage.py, access_management.py).
THEOREM EachStreamHolds == AllSpec => []StreamsInv
<1>1. AllInit => StreamsInv
  BY BridgeInit, StoreInit, AccessInit DEF AllInit, StreamsInv
<1>. QED
  BY <1>1, StreamsKept, PTL DEF AllSpec

\* The connection, the key and the rows have their types.
THEOREM StreamsTyped == AllSpec => []StreamsTypeOK
<1>1. StreamsInv => StreamsTypeOK
  BY DEF StreamsInv, BridgeInv, StoreInv, AccessInv, StreamsTypeOK
<1>. QED
  BY <1>1, EachStreamHolds, PTL

\* For any number of utterances, frames and spoken items the turns stand in the order of
\* speech, a completed turn was heard whole, an open call has no response but the one of
\* the current output, and an ended turn asks for nothing (realtime.py,
\* realtime_transcripts.py, realtime_responses.py).
THEOREM BridgeIsSafe == AllSpec => BridgeHolds
<1>1. StreamsInv => SpokenInOrder /\ CompletedMeansPlayed /\ NoOrphanResponse
  BY BridgeSafe DEF StreamsInv
<1>2. StreamsInv /\ [AllNext]_all => [SilentStep]_vars
  BY StreamsKept DEF StreamsStep
<1>3. AllSpec => [](SpokenInOrder /\ CompletedMeansPlayed /\ NoOrphanResponse)
  BY <1>1, EachStreamHolds, PTL
<1>4. AllSpec => EndedIsSilent
  BY <1>2, EachStreamHolds, PTL DEF AllSpec, EndedIsSilent, SilentStep
<1>. QED
  BY <1>3, <1>4 DEF BridgeHolds

\* For any writers and any sizes of the listing an erasure that returns has erased what
\* was there before its last look, for good where the one writer was proved to be over,
\* and no writer sends after its caller was told that it is done (visual_storage.py).
THEOREM StoreIsSafe == AllSpec => StoreHolds
<1>1. StreamsInv => Store!ProofMakesErasureFinal
  BY StoreSafe DEF StreamsInv
<1>2. StreamsInv /\ [AllNext]_all => [ErasedStep]_(Store!vars) /\ [SoleStep]_(Store!vars)
  BY StreamsKept DEF StreamsStep
<1>3. AllSpec => []Store!ProofMakesErasureFinal
  BY <1>1, EachStreamHolds, PTL
<1>4. AllSpec => Store!ErasedIsGone
  BY <1>2, EachStreamHolds, PTL DEF AllSpec, Store!ErasedIsGone, ErasedStep
<1>5. AllSpec => Store!NoAbandonedWriter
  BY <1>2, EachStreamHolds, PTL DEF AllSpec, Store!NoAbandonedWriter, SoleStep
<1>. QED
  BY <1>3, <1>4, <1>5 DEF StoreHolds

\* For any people, roles, invitations and requests only an owner's restoration or an
\* accepted invitation brings back who was put out (access_management.py,
\* collaboration.py).
THEOREM BackIsByInvitation == AllSpec => BackByInvitationOnly
<1>1. StreamsInv /\ [AllNext]_all => [BackStep]_(Access!vars)
  BY StreamsKept DEF StreamsStep
<1>2. AllSpec => Access!BackByInvitationOnly
  BY <1>1, EachStreamHolds, PTL DEF AllSpec, Access!BackByInvitationOnly, BackStep
<1>. QED
  BY <1>2 DEF BackByInvitationOnly
=============================================================================
