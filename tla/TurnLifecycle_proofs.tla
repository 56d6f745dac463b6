------------------------ MODULE TurnLifecycle_proofs ------------------------
(***************************************************************************)
(* Proofs about TurnLifecycle, for any sets of requests, recovery callers, *)
(* live turns, client keys and conversations, with the admission lock and  *)
(* without it.                                                             *)
(***************************************************************************)
EXTENDS TurnLifecycle, TLAPS

\* A finalizer that has entered works on a turn.
Entered == {"storing", "again", "activity"}
FinalizesTurn == \A f \in Process : fin[f].pc \in Entered => fin[f].turn \in Request

TInv == TypeOK /\ FinalizesTurn

LEMMA NoneIsNobody ==
  /\ None \notin Request /\ None \notin Process /\ None \notin LiveTurn
  /\ None \notin Conversation /\ None \notin Key
  /\ Request \subseteq Process /\ Recovery \subseteq Process
  /\ Request \cap Recovery = {} /\ Request \cap LiveTurn = {}
BY NoneAssumption DEF Process

-----------------------------------------------------------------------------
\* Type correctness.

\* Columns of one record are written.
LEMMA AskedType ==
  ASSUME NEW q \in Asked
  PROVE  /\ \A pc \in {"checked", "accepted", "claimed", "linked", "finished", "refused",
                       "failed", "dead"} : [q EXCEPT !.pc = pc] \in Asked
         /\ \A o \in Request : [q EXCEPT !.pc = "replayed", !.original = o] \in Asked
         /\ \A c \in Conversation, k \in Key \cup {None}, x \in Content, b \in BOOLEAN :
              [q EXCEPT !.conversation = c, !.key = k, !.content = x, !.sse = b] \in Asked
BY DEF Asked

LEMMA AnsweredType ==
  ASSUME NEW q \in Asked, NEW o \in Request
  PROVE  Answered(q, o) \in Asked
BY AskedType DEF Answered

LEMMA EffectType ==
  ASSUME NEW e \in Effect
  PROVE  /\ \A m \in {"applied", "skipped"} : [e EXCEPT !.memory = m] \in Effect
         /\ \A a \in {"counted", "skipped"} : [e EXCEPT !.activity = a] \in Effect
         /\ \A n \in Nat : [e EXCEPT !.stored = n] \in Effect
         /\ \A n \in Nat : [e EXCEPT !.contributed = n] \in Effect
BY DEF Effect

\* A turn whose memory was stored, and whose activity was decided.
LEMMA StoredType ==
  ASSUME NEW e \in Effect, NEW changed \in BOOLEAN
  PROVE  [e EXCEPT !.memory = IF changed THEN "applied" ELSE "skipped",
                   !.stored = IF changed THEN @ + 1 ELSE @] \in Effect
<1>. DEFINE m == [e EXCEPT !.memory = IF changed THEN "applied" ELSE "skipped"]
<1>1. m \in Effect
  BY EffectType
<1>. HIDE DEF m
<1>2. (IF changed THEN m.stored + 1 ELSE m.stored) \in Nat
  BY <1>1 DEF Effect
<1>3. [m EXCEPT !.stored = IF changed THEN @ + 1 ELSE @] \in Effect
  BY <1>1, <1>2, EffectType
<1>. QED
  BY <1>3 DEF m

LEMMA CountedType ==
  ASSUME NEW e \in Effect
  PROVE  Counted(e) \in Effect
<1>. DEFINE a == [e EXCEPT !.activity = "counted"]
<1>1. a \in Effect /\ [e EXCEPT !.activity = "skipped"] \in Effect
  BY EffectType
<1>. HIDE DEF a
<1>2. a.contributed + 1 \in Nat
  BY <1>1 DEF Effect
<1>3. [a EXCEPT !.contributed = @ + 1] \in Effect
  BY <1>1, <1>2, EffectType
<1>4. [e EXCEPT !.activity = "counted", !.contributed = @ + 1] \in Effect
  BY <1>3 DEF a
<1>. QED
  BY <1>1, <1>4 DEF Counted

LEMMA TInvInit == Init => TInv
BY DEF Init, TInv, TypeOK, FinalizesTurn, Entered, Asked, Row, Effect, Final, Process

LEMMA CheckTyped ==
  ASSUME TInv, NEW r \in Request, NEW c \in Conversation, NEW k \in Key \cup {None},
         NEW content \in Content, NEW sse \in BOOLEAN, Check(r, c, k, content, sse)
  PROVE  TInv'
<1>. DEFINE asked == [req[r] EXCEPT !.conversation = c, !.key = k, !.content = content,
                                    !.sse = sse]
<1>t. req \in [Request -> Asked] /\ gate \in [Conversation -> Request \cup {None}]
  BY DEF TInv, TypeOK
<1>1. asked \in Asked
  BY <1>t, AskedType
<1>2. /\ \A o \in Request : Answered(asked, o) \in Asked
      /\ [asked EXCEPT !.pc = "refused"] \in Asked /\ [asked EXCEPT !.pc = "checked"] \in Asked
  BY <1>1, AnsweredType, AskedType
<1>3. \E q \in Asked : req' = [req EXCEPT ![r] = q]
  BY <1>2 DEF Check, Existing
<1>4. gate' \in [Conversation -> Request \cup {None}]
  BY <1>t DEF Check, Gated
<1>. QED
  BY <1>t, <1>3, <1>4 DEF Check, TInv, TypeOK, FinalizesTurn, Entered

LEMMA ServeTyped ==
  ASSUME TInv, NEW r \in Request, Serve(r)
  PROVE  TInv'
<1>t. /\ req \in [Request -> Asked] /\ gate \in [Conversation -> Request \cup {None}]
      /\ turn \in [Request -> Row] /\ fin \in [Process -> Final] /\ r \in Process
  BY NoneIsNobody DEF TInv, TypeOK
<1>1. CASE Insert(r)
  <2>1. gate' \in [Conversation -> Request \cup {None}]
    BY <1>1, <1>t DEF Insert, Release
  <2>2. req' \in [Request -> Asked]
    <3>1. /\ [req[r] EXCEPT !.pc = "accepted"] \in Asked
          /\ \A o \in Request : Answered(req[r], o) \in Asked
      BY <1>t, AskedType, AnsweredType
    <3>2. \E q \in Asked : req' = [req EXCEPT ![r] = q]
      BY <1>1, <3>1 DEF Insert, Taken, Existing
    <3>. QED
      BY <3>2, <1>t
  <2>3. turn' \in [Request -> Row]
    BY <1>1, <1>t DEF Insert, Row, Open
  <2>. QED
    BY <1>1, <2>1, <2>2, <2>3 DEF Insert, TInv, TypeOK, FinalizesTurn, Entered
<1>2. CASE Claim(r)
  <2>1. req' \in [Request -> Asked]
    BY <1>2, <1>t, AskedType DEF Claim
  <2>2. turn' \in [Request -> Row]
    BY <1>2, <1>t DEF Claim, Row, Open
  <2>. QED
    BY <1>2, <2>1, <2>2 DEF Claim, TInv, TypeOK, FinalizesTurn, Entered
<1>3. CASE Link(r)
  <2>1. req' \in [Request -> Asked]
    BY <1>3, <1>t, AskedType DEF Link
  <2>2. turn' \in [Request -> Row]
    BY <1>3, <1>t DEF Link, Row, KeepsUser, Asked
  <2>. QED
    BY <1>3, <2>1, <2>2 DEF Link, TInv, TypeOK, FinalizesTurn, Entered
<1>4. CASE Finish(r)
  <2>1. req' \in [Request -> Asked]
    BY <1>4, <1>t, AskedType DEF Finish
  <2>2. turn' \in [Request -> Row]
    BY <1>4, <1>t DEF Finish, Completed, Row, Terminal
  <2>3. /\ fin' \in [Process -> Final]
        /\ \A f \in Process : f # r => fin'[f] = fin[f]
        /\ fin'[r].pc \notin Entered
    BY <1>4, <1>t DEF Finish, Final, Entered
  <2>. QED
    BY <1>4, <2>1, <2>2, <2>3 DEF Finish, TInv, TypeOK, FinalizesTurn
<1>. QED
  BY <1>1, <1>2, <1>3, <1>4 DEF Serve

\* The request ends, or its process does.
LEMMA EndTyped ==
  ASSUME TInv, NEW f \in Process,
         (f \in Request /\ \E cancelled \in BOOLEAN : Fail(f, cancelled)) \/ Crash(f)
  PROVE  TInv'
<1>t. /\ req \in [Request -> Asked] /\ gate \in [Conversation -> Request \cup {None}]
      /\ turn \in [Request -> Row] /\ fin \in [Process -> Final]
      /\ writer \in [Request -> Process \cup {None}]
  BY DEF TInv, TypeOK
<1>1. req' \in [Request -> Asked]
  <2>1. f \in Request => /\ [req[f] EXCEPT !.pc = "failed"] \in Asked
                          /\ [req[f] EXCEPT !.pc = "dead"] \in Asked
    BY <1>t, AskedType
  <2>. QED
    BY <2>1, <1>t DEF Fail, Crash
<1>2. turn' \in [Request -> Row]
  BY <1>t DEF Fail, Crash, Outcome, Row, Terminal
<1>3. gate' \in [Conversation -> Request \cup {None}]
  BY <1>t DEF Fail, Crash, Release
<1>4. /\ fin' \in [Process -> Final]
      /\ \A g \in Process : g # f => fin'[g] = fin[g]
      /\ fin'[f].pc = "over"
  BY <1>t DEF Fail, Crash, Final
<1>5. writer' \in [Request -> Process \cup {None}]
  BY <1>t DEF Fail, Crash
<1>6. FinalizesTurn'
  BY <1>4 DEF TInv, FinalizesTurn, Entered
<1>. QED
  BY <1>1, <1>2, <1>3, <1>4, <1>5, <1>6 DEF Fail, Crash, TInv, TypeOK

LEMMA FinalizeTyped ==
  ASSUME TInv, NEW f \in Process, Finalize(f)
  PROVE  TInv'
<1>t. /\ fin \in [Process -> Final] /\ effect \in [Request -> Effect]
      /\ writer \in [Request -> Process \cup {None}]
      /\ fin[f].pc \in Entered => fin[f].turn \in Request
  BY DEF TInv, TypeOK, FinalizesTurn
<1>1. ASSUME NEW t \in Request, MemoryBegin(f, t) PROVE TInv'
  <2>1. /\ fin' \in [Process -> Final] /\ fin'[f].turn = t
        /\ \A g \in Process : g # f => fin'[g] = fin[g]
    BY <1>1, <1>t DEF MemoryBegin, Final
  <2>2. writer' \in [Request -> Process \cup {None}]
    BY <1>1, <1>t DEF MemoryBegin
  <2>. QED
    BY <1>1, <2>1, <2>2 DEF MemoryBegin, TInv, TypeOK, FinalizesTurn
<1>2. CASE Continue(f)
  <2>1. fin[f].turn \in Request
    BY <1>2, <1>t DEF Continue, MemoryStore, MemoryFails, MemorySkip, Activity, Entered
  <2>2. /\ fin' \in [Process -> Final] /\ fin'[f].turn = fin[f].turn
        /\ \A g \in Process : g # f => fin'[g] = fin[g]
    <3>1. \E pc \in {"again", "activity", "over"} : fin' = [fin EXCEPT ![f].pc = pc]
      BY <1>2 DEF Continue, MemoryStore, MemoryFails, MemorySkip, Activity
    <3>. QED
      BY <3>1, <1>t DEF Final
  <2>3. writer' \in [Request -> Process \cup {None}]
    BY <1>2, <1>t DEF Continue, MemoryStore, MemoryFails, MemorySkip, Activity
  <2>4. effect' \in [Request -> Effect]
    <3>1. ASSUME NEW changed \in BOOLEAN, MemoryStore(f, changed)
          PROVE  effect' \in [Request -> Effect]
      BY <3>1, <2>1, <1>t, StoredType DEF MemoryStore
    <3>2. CASE MemorySkip(f)
      <4>1. [effect[fin[f].turn] EXCEPT !.memory = "skipped"] \in Effect
        BY <2>1, <1>t, EffectType
      <4>. QED
        BY <3>2, <4>1, <1>t DEF MemorySkip
    <3>3. CASE Activity(f)
      BY <3>3, <2>1, <1>t, CountedType DEF Activity
    <3>4. CASE MemoryFails(f)
      BY <3>4, <1>t DEF MemoryFails
    <3>. QED
      BY <1>2, <3>1, <3>2, <3>3, <3>4 DEF Continue
  <2>5. UNCHANGED <<req, turn, live, gate>>
    BY <1>2 DEF Continue, MemoryStore, MemoryFails, MemorySkip, Activity
  <2>. QED
    BY <2>1, <2>2, <2>3, <2>4, <2>5 DEF TInv, TypeOK, FinalizesTurn
<1>. QED
  BY <1>1, <1>2 DEF Finalize

LEMMA LiveTyped ==
  ASSUME TInv, NEW l \in LiveTurn,
         \/ \E c \in Conversation : LiveAdmit(l, c)
         \/ \E outcome \in Terminal : LiveEnd(l, outcome)
  PROVE  TInv'
BY DEF TInv, TypeOK, FinalizesTurn, LiveAdmit, LiveEnd

LEMMA TInvNext == TInv /\ [Next]_vars => TInv'
<1>. SUFFICES ASSUME TInv, [Next]_vars PROVE TInv'
  OBVIOUS
<1>1. CASE UNCHANGED vars
  BY <1>1 DEF vars, TInv, TypeOK, FinalizesTurn
<1>. QED
  BY <1>1, CheckTyped, ServeTyped, EndTyped, FinalizeTyped, LiveTyped, NoneIsNobody DEF Next

\* Every value that a request, a finalizer or a turn stores has its type.
THEOREM TypeCorrect == Spec => []TypeOK
<1>1. TInv => TypeOK
  BY DEF TInv
<1>. QED
  BY <1>1, TInvInit, TInvNext, PTL DEF Spec

-----------------------------------------------------------------------------
\* The receipts of a turn.  Whoever is storing a memory holds the row of the turn
\* and found no receipt; whoever counts the activity finds one.

Storing  == \A f \in Process : fin[f].pc = "storing" =>
              writer[fin[f].turn] = f /\ effect[fin[f].turn].memory = "none"
Counting == \A f \in Process : fin[f].pc = "activity" => effect[fin[f].turn].memory # "none"

EInv == Storing /\ Counting /\ EffectsOnce

LEMMA EInvInit == Init => EInv
BY DEF Init, EInv, Storing, Counting, EffectsOnce

\* A step that leaves every receipt, and the locks of those who keep theirs.
LEMMA EffectsKept ==
  ASSUME TInv, EInv, UNCHANGED effect,
         \A f \in Process : fin'[f].pc \in {"storing", "activity"} =>
           fin'[f] = fin[f] /\ (fin[f].pc = "storing" => writer'[fin[f].turn] = f)
  PROVE  EInv'
BY DEF EInv, Storing, Counting, EffectsOnce

\* The finalizer f writes the receipts of the turn t while nobody is storing its
\* memory but perhaps f.
LEMMA EffectsWritten ==
  ASSUME TInv, EInv, NEW f \in Process, NEW t \in Request, NEW e \in Effect,
         effect' = [effect EXCEPT ![t] = e], e.memory # "none",
         fin'[f].pc # "storing", fin'[f].turn = t,
         \A g \in Process : g # f => fin'[g] = fin[g],
         \A g \in Process : g # f /\ fin[g].pc = "storing" => fin[g].turn # t,
         \A u \in Request : u # t => writer'[u] = writer[u],
         e.stored = (IF e.memory = "applied" THEN 1 ELSE 0),
         e.contributed = (IF e.activity = "counted" THEN 1 ELSE 0),
         e.activity = "counted" => e.memory = "applied"
  PROVE  EInv'
<1>t. effect \in [Request -> Effect] /\ FinalizesTurn
  BY DEF TInv, TypeOK
<1>1. effect'[t] = e /\ \A u \in Request : u # t => effect'[u] = effect[u]
  BY <1>t
<1>2. EffectsOnce'
  BY <1>1 DEF EInv, EffectsOnce
<1>3. Storing'
  BY <1>t, <1>1 DEF EInv, Storing, FinalizesTurn, Entered
<1>4. Counting'
  BY <1>t, <1>1 DEF EInv, Counting, FinalizesTurn, Entered
<1>. QED
  BY <1>2, <1>3, <1>4 DEF EInv

\* Nobody else stores the memory of a turn that f may lock.
LEMMA LockExcludes ==
  ASSUME TInv, EInv, NEW f \in Process, NEW t \in Request, CanLock(f, t)
  PROVE  \A g \in Process : g # f /\ fin[g].pc = "storing" => fin[g].turn # t
BY NoneIsNobody DEF EInv, Storing, CanLock

LEMMA FinalizeOnce ==
  ASSUME TInv, EInv, NEW f \in Process, Finalize(f)
  PROVE  EInv'
<1>t. /\ fin \in [Process -> Final] /\ effect \in [Request -> Effect]
      /\ writer \in [Request -> Process \cup {None}] /\ FinalizesTurn
  BY DEF TInv, TypeOK
<1>. DEFINE t == fin[f].turn
<1>1. ASSUME NEW u \in Request, MemoryBegin(f, u) PROVE EInv'
  <2>1. /\ fin'[f].turn = u /\ writer'[u] = f /\ UNCHANGED effect
        /\ fin'[f].pc = IF effect[u].memory = "none" THEN "storing" ELSE "activity"
        /\ \A g \in Process : g # f => fin'[g] = fin[g]
        /\ \A v \in Request : v # u => writer'[v] = writer[v]
    BY <1>1, <1>t DEF MemoryBegin
  <2>2. \A g \in Process : g # f /\ fin[g].pc = "storing" => fin[g].turn # u
    BY <1>1, LockExcludes DEF MemoryBegin
  <2>3. Storing'
    BY <2>1, <2>2, <1>t DEF EInv, Storing, FinalizesTurn, Entered
  <2>4. Counting' /\ EffectsOnce'
    BY <2>1 DEF EInv, Counting, EffectsOnce
  <2>. QED
    BY <2>3, <2>4 DEF EInv
<1>2. ASSUME NEW changed \in BOOLEAN, MemoryStore(f, changed) PROVE EInv'
  <2>. DEFINE m == [effect[t] EXCEPT !.memory = IF changed THEN "applied" ELSE "skipped",
                                     !.stored = IF changed THEN @ + 1 ELSE @]
  <2>1. t \in Request /\ writer[t] = f /\ effect[t].memory = "none" /\ effect[t] \in Effect
    BY <1>2, <1>t DEF MemoryStore, EInv, Storing, FinalizesTurn, Entered
  <2>2. m \in Effect /\ effect' = [effect EXCEPT ![t] = m]
    BY <1>2, <2>1, <1>t, StoredType DEF MemoryStore
  <2>3. /\ effect[t].stored = 0 /\ effect[t].contributed = 0
        /\ effect[t].activity = "none"
    BY <2>1 DEF EInv, EffectsOnce
  <2>4. /\ m.memory = (IF changed THEN "applied" ELSE "skipped")
        /\ m.stored = (IF changed THEN 1 ELSE 0)
        /\ m.contributed = 0 /\ m.activity = "none"
    BY <2>1, <2>3 DEF Effect
  <2>5. /\ fin'[f].pc = "activity" /\ fin'[f].turn = t
        /\ \A g \in Process : g # f => fin'[g] = fin[g]
        /\ \A u \in Request : u # t => writer'[u] = writer[u]
    BY <1>2, <1>t DEF MemoryStore, Final
  <2>6. \A g \in Process : g # f /\ fin[g].pc = "storing" => fin[g].turn # t
    BY <2>1, LockExcludes DEF CanLock
  <2>. HIDE DEF m, t
  <2>. QED
    BY <2>1, <2>2, <2>4, <2>5, <2>6, EffectsWritten
<1>3. CASE MemoryFails(f)
  <2>1. t \in Request /\ writer[t] = f
    BY <1>3, <1>t DEF MemoryFails, EInv, Storing, FinalizesTurn, Entered
  <2>2. \A g \in Process : g # f /\ fin[g].pc = "storing" => fin[g].turn # t
    BY <2>1, LockExcludes DEF CanLock
  <2>3. /\ fin'[f].pc = "again" /\ UNCHANGED effect
        /\ \A g \in Process : g # f => fin'[g] = fin[g]
        /\ \A u \in Request : u # t => writer'[u] = writer[u]
    BY <1>3, <1>t DEF MemoryFails, Final
  <2>4. \A g \in Process : g # f /\ fin[g].pc = "storing" => writer'[fin[g].turn] = g
    BY <2>2, <2>3, <1>t DEF EInv, Storing, FinalizesTurn, Entered
  <2>. HIDE DEF t
  <2>. QED
    BY <2>3, <2>4, EffectsKept
<1>4. CASE MemorySkip(f)
  <2>1. t \in Request /\ effect[t] \in Effect /\ CanLock(f, t)
    BY <1>4, <1>t DEF MemorySkip, FinalizesTurn, Entered
  <2>2. \A g \in Process : g # f /\ fin[g].pc = "storing" => fin[g].turn # t
    BY <2>1, LockExcludes
  <2>3. /\ fin'[f].pc = "activity" /\ fin'[f].turn = t
        /\ \A g \in Process : g # f => fin'[g] = fin[g]
        /\ \A u \in Request : u # t => writer'[u] = writer[u]
    BY <1>4, <1>t DEF MemorySkip, Final
  <2>4. CASE Skips(t)
    <3>. DEFINE m == [effect[t] EXCEPT !.memory = "skipped"]
    <3>1. m \in Effect /\ effect' = [effect EXCEPT ![t] = m]
      BY <1>4, <2>1, <2>4, <1>t, EffectType DEF MemorySkip
    <3>2. /\ effect[t].stored = 0 /\ effect[t].contributed = 0 /\ effect[t].activity = "none"
      BY <2>1, <2>4 DEF Skips, EInv, EffectsOnce
    <3>3. m.memory = "skipped" /\ m.stored = 0 /\ m.contributed = 0 /\ m.activity = "none"
      BY <2>1, <3>2 DEF Effect
    <3>. HIDE DEF m, t
    <3>. QED
      BY <2>1, <2>2, <2>3, <3>1, <3>3, EffectsWritten
  <2>5. CASE ~Skips(t)
    <3>1. UNCHANGED effect
      BY <1>4, <2>5 DEF MemorySkip
    <3>2. effect[t].memory # "none"
      BY <2>5 DEF Skips
    <3>. QED
      BY <2>1, <2>2, <2>3, <3>1, <3>2, <1>t
      DEF EInv, Storing, Counting, EffectsOnce, FinalizesTurn, Entered
  <2>. QED
    BY <2>4, <2>5
<1>5. CASE Activity(f)
  <2>1. t \in Request /\ effect[t] \in Effect /\ CanLock(f, t) /\ effect[t].memory # "none"
    BY <1>5, <1>t DEF Activity, EInv, Counting, FinalizesTurn, Entered
  <2>2. \A g \in Process : g # f /\ fin[g].pc = "storing" => fin[g].turn # t
    BY <2>1, LockExcludes
  <2>3. /\ fin'[f].pc = "over" /\ fin'[f].turn = t
        /\ \A g \in Process : g # f => fin'[g] = fin[g]
        /\ \A u \in Request : u # t => writer'[u] = writer[u]
    BY <1>5, <1>t DEF Activity, Final
  <2>. DEFINE e == Counted(effect[t])
  <2>4. e \in Effect /\ effect' = [effect EXCEPT ![t] = e]
    BY <1>5, <2>1, <1>t, CountedType DEF Activity
  <2>5. /\ effect[t].stored = (IF effect[t].memory = "applied" THEN 1 ELSE 0)
        /\ effect[t].contributed = (IF effect[t].activity = "counted" THEN 1 ELSE 0)
        /\ effect[t].activity = "counted" => effect[t].memory = "applied"
    BY <2>1 DEF EInv, EffectsOnce
  <2>6. /\ e.memory = effect[t].memory /\ e.stored = effect[t].stored
        /\ e.contributed = (IF e.activity = "counted" THEN 1 ELSE 0)
        /\ e.activity = "counted" => e.memory = "applied"
    BY <2>1, <2>5 DEF Counted, Effect
  <2>7. e.memory # "none" /\ e.stored = (IF e.memory = "applied" THEN 1 ELSE 0)
    BY <2>1, <2>5, <2>6
  <2>. HIDE DEF e, t
  <2>. QED
    BY <2>1, <2>2, <2>3, <2>4, <2>6, <2>7, EffectsWritten
<1>. QED
  BY <1>1, <1>2, <1>3, <1>4, <1>5 DEF Finalize, Continue

LEMMA EInvNext == TInv /\ EInv /\ [Next]_vars => EInv'
<1>. SUFFICES ASSUME TInv, EInv, [Next]_vars PROVE EInv'
  OBVIOUS
<1>t. /\ fin \in [Process -> Final] /\ writer \in [Request -> Process \cup {None}]
      /\ FinalizesTurn
  BY DEF TInv, TypeOK
<1>k. \A f \in Process : fin[f].pc = "storing" => writer[fin[f].turn] = f
  BY DEF EInv, Storing
<1>1. ASSUME UNCHANGED <<fin, effect, writer>> PROVE EInv'
  BY <1>1, <1>k, EffectsKept
<1>2. ASSUME NEW r \in Request, Finish(r) PROVE EInv'
  <2>1. /\ fin'[r].pc \in {"idle", "over"} /\ UNCHANGED <<effect, writer>>
        /\ \A g \in Process : g # r => fin'[g] = fin[g]
    BY <1>2, <1>t, NoneIsNobody DEF Finish, Final
  <2>. QED
    BY <2>1, <1>k, EffectsKept
<1>3. ASSUME NEW f \in Process,
             (f \in Request /\ \E cancelled \in BOOLEAN : Fail(f, cancelled)) \/ Crash(f)
      PROVE  EInv'
  <2>1. /\ fin'[f].pc = "over" /\ UNCHANGED effect
        /\ \A g \in Process : g # f => fin'[g] = fin[g]
        /\ \A u \in Request : writer[u] # f => writer'[u] = writer[u]
    BY <1>3, <1>t DEF Fail, Crash, Final
  <2>2. \A g \in Process : g # f /\ fin[g].pc = "storing" => writer'[fin[g].turn] = g
    BY <2>1, <1>k, <1>t DEF FinalizesTurn, Entered
  <2>. QED
    BY <2>1, <2>2, EffectsKept
<1>4. ASSUME NEW r \in Request, Serve(r) PROVE EInv'
  BY <1>1, <1>2, <1>4 DEF Serve, Insert, Claim, Link
<1>5. ASSUME NEW r \in Request, NEW c \in Conversation, NEW k \in Key \cup {None},
             NEW content \in Content, NEW sse \in BOOLEAN, Check(r, c, k, content, sse)
      PROVE  EInv'
  BY <1>1, <1>5 DEF Check
<1>6. ASSUME NEW l \in LiveTurn,
             \/ \E c \in Conversation : LiveAdmit(l, c)
             \/ \E outcome \in Terminal : LiveEnd(l, outcome)
      PROVE  EInv'
  BY <1>1, <1>6 DEF LiveAdmit, LiveEnd
<1>7. CASE UNCHANGED vars
  BY <1>1, <1>7 DEF vars
<1>. QED
  BY <1>3, <1>4, <1>5, <1>6, <1>7, FinalizeOnce, NoneIsNobody DEF Next

\* Whatever finalizers of a turn overlap, fail or die, its memory is stored at
\* most once, counts as one contribution, and the receipts say what was done.
THEOREM EffectsAppliedOnce == Spec => []EffectsOnce
<1>1. EInv => EffectsOnce
  BY DEF EInv
<1>. QED
  BY <1>1, TInvInit, TInvNext, EInvInit, EInvNext, PTL DEF Spec

-----------------------------------------------------------------------------
\* How far a request has come tells the state of the row that it inserted.

RowOfRequest ==
  \A r \in Request :
    /\ req[r].pc \in {"new", "checked", "replayed", "refused"} => turn[r].state = "none"
    /\ req[r].pc = "accepted" => turn[r].state = "pending"
    /\ req[r].pc \in {"claimed", "linked"} => turn[r].state = "streaming"
    /\ req[r].pc = "finished" => turn[r].state = "completed"
    /\ req[r].pc = "replayed" => req[r].original \in Request
    /\ turn[r].user => req[r].pc \in {"linked", "finished", "failed", "dead"}

RInv == RowOfRequest /\ KeyAdmitsOnce /\ ReplayIsTheSame /\ MessagesMatchState

LEMMA RInvInit == Init => RInv
BY DEF Init, RInv, RowOfRequest, KeyAdmitsOnce, ReplayIsTheSame, MessagesMatchState

\* What a duplicate is told: the row it met, if it may have its answer.
LEMMA AnsweredIs ==
  ASSUME NEW q \in Asked, NEW o \in Request
  PROVE  /\ Answered(q, o).key = q.key /\ Answered(q, o).content = q.content
         /\ Answered(q, o).conversation = q.conversation
         /\ \/ Answered(q, o).pc = "refused"
            \/ /\ Answered(q, o).pc = "replayed" /\ Answered(q, o).original = o
               /\ turn[o].state = "completed" /\ req[o].content = q.content
BY DEF Answered, Replays, Asked

\* The request r, which has no row, is turned away or goes on to its insert.
LEMMA RowlessStep ==
  ASSUME TInv, RInv, NEW r \in Request, NEW q \in Asked, turn[r].state = "none",
         req' = [req EXCEPT ![r] = q], UNCHANGED turn,
         \/ q.pc \in {"checked", "refused"}
         \/ /\ q.pc = "replayed"
            /\ \E o \in Request : /\ q.original = o /\ req[o].key = q.key
                                 /\ turn[o].state = "completed" /\ req[o].content = q.content,
         ~turn[r].user
  PROVE  RInv'
<1>t. req \in [Request -> Asked] /\ turn \in [Request -> Row]
  BY DEF TInv, TypeOK
<1>1. req'[r] = q /\ \A o \in Request : o # r => req'[o] = req[o]
  BY <1>t
<1>2. \A o \in Request : turn'[o] = turn[o]
  OBVIOUS
<1>3. RowOfRequest'
  BY <1>1, <1>2 DEF RInv, RowOfRequest
<1>4. KeyAdmitsOnce'
  BY <1>1, <1>2 DEF RInv, KeyAdmitsOnce
<1>5. MessagesMatchState'
  BY <1>1, <1>2 DEF RInv, MessagesMatchState
<1>6. ReplayIsTheSame'
  <2>. SUFFICES ASSUME NEW u \in Request, req'[u].pc = "replayed"
       PROVE  LET o == req'[u].original
              IN  /\ o # u /\ turn'[u].state = "none" /\ turn'[o].state = "completed"
                  /\ req'[o].content = req'[u].content /\ req'[o].key = req'[u].key
                  /\ turn'[o].user /\ turn'[o].assistant
    BY DEF ReplayIsTheSame
  <2>1. CASE u = r
    BY <2>1, <1>1, <1>2 DEF RInv, MessagesMatchState
  <2>2. CASE u # r
    <3>1. req[u].pc = "replayed" /\ req[u].original \in Request /\ req[u].original # r
      BY <2>2, <1>1 DEF RInv, RowOfRequest, ReplayIsTheSame
    <3>. QED
      BY <2>2, <3>1, <1>1, <1>2 DEF RInv, ReplayIsTheSame
  <2>. QED
    BY <2>1, <2>2
<1>. QED
  BY <1>3, <1>4, <1>5, <1>6 DEF RInv

\* The request r writes its row v and goes on to q under the same key; no
\* settled row changes, and a row that is new has a key of its own.
LEMMA RowStep ==
  ASSUME TInv, RInv, NEW r \in Request, NEW q \in Asked, NEW v \in Row,
         req' = [req EXCEPT ![r] = q], turn' = [turn EXCEPT ![r] = v],
         q.key = req[r].key, q.content = req[r].content, q.sse = req[r].sse,
         q.conversation = req[r].conversation,
         turn[r].state = "none" => v.state = "none" \/ Taken(r) = {},
         turn[r].state = "completed" => v = turn[r],
         req[r].pc # "replayed",
         \/ q.pc = "accepted" /\ v.state = "pending" /\ ~v.user
         \/ q.pc = "claimed" /\ v.state = "streaming" /\ ~v.user
         \/ q.pc = "linked" /\ v.state = "streaming"
         \/ q.pc = "finished" /\ v.state = "completed"
         \/ q.pc \in {"failed", "dead"},
         /\ v.assistant <=> v.state = "completed"
         /\ v.assistant => v.user
         /\ v.user /\ ~v.assistant => q.sse
  PROVE  RInv'
<1>t. req \in [Request -> Asked] /\ turn \in [Request -> Row]
  BY DEF TInv, TypeOK
<1>1. /\ req'[r] = q /\ turn'[r] = v
      /\ \A o \in Request : o # r => req'[o] = req[o] /\ turn'[o] = turn[o]
  BY <1>t
<1>2. RowOfRequest'
  BY <1>1 DEF RInv, RowOfRequest
<1>3. MessagesMatchState'
  BY <1>1 DEF RInv, MessagesMatchState
<1>4. KeyAdmitsOnce'
  <2>1. v.state # "none" /\ turn[r].state = "none" =>
          \A o \in Request : turn[o].state # "none" /\ req[r].key # None
                              /\ req[o].key = req[r].key
                              => req[o].conversation # req[r].conversation
    BY DEF Taken, Existing
  <2>. QED
    BY <2>1, <1>1 DEF RInv, KeyAdmitsOnce
<1>5. ReplayIsTheSame'
  <2>. SUFFICES ASSUME NEW u \in Request, req'[u].pc = "replayed"
       PROVE  LET o == req'[u].original
              IN  /\ o # u /\ turn'[u].state = "none" /\ turn'[o].state = "completed"
                  /\ req'[o].content = req'[u].content /\ req'[o].key = req'[u].key
                  /\ turn'[o].user /\ turn'[o].assistant
    BY DEF ReplayIsTheSame
  <2>1. u # r /\ req[u].pc = "replayed" /\ req[u].original \in Request
    BY <1>1 DEF RInv, RowOfRequest
  <2>. QED
    BY <2>1, <1>1 DEF RInv, ReplayIsTheSame
<1>. QED
  BY <1>2, <1>3, <1>4, <1>5 DEF RInv

LEMMA CheckRows ==
  ASSUME TInv, RInv, NEW r \in Request, NEW c \in Conversation, NEW k \in Key \cup {None},
         NEW content \in Content, NEW sse \in BOOLEAN, Check(r, c, k, content, sse)
  PROVE  RInv'
<1>. DEFINE asked == [req[r] EXCEPT !.conversation = c, !.key = k, !.content = content,
                                    !.sse = sse]
<1>1. /\ req \in [Request -> Asked] /\ UNCHANGED turn
      /\ turn[r].state = "none" /\ ~turn[r].user
  BY DEF TInv, TypeOK, RInv, RowOfRequest, Check
<1>2. asked \in Asked
  BY <1>1, AskedType
<1>k. asked.key = k /\ asked.content = content
  BY <1>1 DEF Asked
<1>. HIDE DEF asked
<1>3. \A pc \in {"refused", "checked"} :
        [asked EXCEPT !.pc = pc] \in Asked /\ [asked EXCEPT !.pc = pc].pc = pc
  BY <1>2 DEF Asked
<1>4. CASE \E o \in Existing(c, k) : req' = [req EXCEPT ![r] = Answered(asked, o)]
  <2>1. PICK o \in Request : req[o].key = k /\ req' = [req EXCEPT ![r] = Answered(asked, o)]
    BY <1>4 DEF Existing
  <2>. DEFINE q == Answered(asked, o)
  <2>2. /\ q \in Asked /\ q.key = k
        /\ \/ q.pc = "refused"
           \/ /\ q.pc = "replayed" /\ q.original = o
              /\ turn[o].state = "completed" /\ req[o].content = q.content
    BY <1>2, <1>k, AnsweredType, AnsweredIs
  <2>. HIDE DEF q
  <2>3. req' = [req EXCEPT ![r] = q] /\ req[o].key = q.key
    BY <2>1, <2>2 DEF q
  <2>. QED
    BY <1>1, <2>2, <2>3, RowlessStep
<1>5. CASE \/ req' = [req EXCEPT ![r] = [asked EXCEPT !.pc = "refused"]]
           \/ req' = [req EXCEPT ![r] = [asked EXCEPT !.pc = "checked"]]
  BY <1>1, <1>3, <1>5, RowlessStep
<1>. QED
  BY <1>4, <1>5 DEF Check, asked

\* Only the stage of the request changes.
LEMMA StageOf ==
  ASSUME NEW q \in Asked, NEW stage \in {"accepted", "claimed", "linked", "finished", "failed", "dead"}
  PROVE  LET p == [q EXCEPT !.pc = stage]
         IN  /\ p \in Asked /\ p.pc = stage /\ p.key = q.key /\ p.content = q.content
             /\ p.sse = q.sse /\ p.conversation = q.conversation
BY DEF Asked

LEMMA RowColumns ==
  ASSUME NEW v \in Row
  PROVE  /\ \A state \in Open \cup Terminal :
              LET w == [v EXCEPT !.state = state]
              IN  w \in Row /\ w.state = state /\ w.user = v.user /\ w.assistant = v.assistant
         /\ \A kept \in BOOLEAN :
              LET w == [v EXCEPT !.user = kept]
              IN  w \in Row /\ w.state = v.state /\ w.user = kept /\ w.assistant = v.assistant
BY DEF Row

LEMMA ServeRows ==
  ASSUME TInv, RInv, NEW r \in Request, Serve(r)
  PROVE  RInv'
<1>t. /\ req \in [Request -> Asked] /\ turn \in [Request -> Row]
      /\ req[r] \in Asked /\ turn[r] \in Row
  BY DEF TInv, TypeOK
<1>m. /\ turn[r].assistant <=> turn[r].state = "completed"
      /\ turn[r].assistant => turn[r].user
      /\ turn[r].user => req[r].pc \in {"linked", "finished", "failed", "dead"}
  BY DEF RInv, MessagesMatchState, RowOfRequest
<1>1. CASE Insert(r) /\ Taken(r) = {}
  <2>. DEFINE q == [req[r] EXCEPT !.pc = "accepted"]
              v == [turn[r] EXCEPT !.state = "pending"]
  <2>1. req' = [req EXCEPT ![r] = q] /\ turn' = [turn EXCEPT ![r] = v]
    BY <1>1 DEF Insert
  <2>2. turn[r].state = "none" /\ ~turn[r].user /\ req[r].pc = "checked"
    BY <1>1 DEF Insert, RInv, RowOfRequest
  <2>3. /\ q \in Asked /\ q.pc = "accepted" /\ q.key = req[r].key
        /\ q.content = req[r].content /\ q.sse = req[r].sse
        /\ q.conversation = req[r].conversation
    BY <1>t, StageOf
  <2>4. v \in Row /\ v.state = "pending" /\ ~v.user /\ ~v.assistant
    BY <1>t, <1>m, <2>2, RowColumns DEF Open
  <2>. HIDE DEF q, v
  <2>. QED
    BY <1>1, <2>1, <2>2, <2>3, <2>4, RowStep
<1>2. CASE Insert(r) /\ Taken(r) # {}
  <2>1. PICK o \in Request : /\ req[o].key = req[r].key
                             /\ req' = [req EXCEPT ![r] = Answered(req[r], o)]
    BY <1>2 DEF Insert, Taken, Existing
  <2>2. UNCHANGED turn /\ turn[r].state = "none" /\ ~turn[r].user
    BY <1>2 DEF Insert, RInv, RowOfRequest
  <2>. DEFINE q == Answered(req[r], o)
  <2>3. /\ q \in Asked /\ q.key = req[r].key
        /\ \/ q.pc = "refused"
           \/ /\ q.pc = "replayed" /\ q.original = o
              /\ turn[o].state = "completed" /\ req[o].content = q.content
    BY <1>t, AnsweredType, AnsweredIs
  <2>. HIDE DEF q
  <2>4. req' = [req EXCEPT ![r] = q] /\ req[o].key = q.key
    BY <2>1, <2>3 DEF q
  <2>. QED
    BY <2>2, <2>3, <2>4, RowlessStep
<1>3. CASE Claim(r)
  <2>. DEFINE q == [req[r] EXCEPT !.pc = "claimed"]
              v == [turn[r] EXCEPT !.state = "streaming"]
  <2>1. turn[r].state = "pending" /\ ~turn[r].user /\ req[r].pc = "accepted"
    BY <1>3, <1>m DEF Claim, RInv, RowOfRequest
  <2>2. req' = [req EXCEPT ![r] = q] /\ turn' = [turn EXCEPT ![r] = v]
    BY <1>3, <2>1 DEF Claim
  <2>3. /\ q \in Asked /\ q.pc = "claimed" /\ q.key = req[r].key
        /\ q.content = req[r].content /\ q.sse = req[r].sse
        /\ q.conversation = req[r].conversation
    BY <1>t, StageOf
  <2>4. v \in Row /\ v.state = "streaming" /\ ~v.user /\ ~v.assistant
    BY <1>t, <1>m, <2>1, RowColumns DEF Open
  <2>. HIDE DEF q, v
  <2>. QED
    BY <2>1, <2>2, <2>3, <2>4, RowStep
<1>4. CASE Link(r)
  <2>. DEFINE q == [req[r] EXCEPT !.pc = "linked"]
              v == [turn[r] EXCEPT !.user = KeepsUser(r)]
  <2>1. turn[r].state = "streaming" /\ req[r].pc = "claimed" /\ ~turn[r].assistant
    BY <1>4, <1>m DEF Link, RInv, RowOfRequest
  <2>2. req' = [req EXCEPT ![r] = q] /\ turn' = [turn EXCEPT ![r] = v]
    BY <1>4 DEF Link
  <2>3. /\ q \in Asked /\ q.pc = "linked" /\ q.key = req[r].key
        /\ q.content = req[r].content /\ q.sse = req[r].sse
        /\ q.conversation = req[r].conversation
    BY <1>t, StageOf
  <2>4. KeepsUser(r) \in BOOLEAN /\ KeepsUser(r) = req[r].sse
    BY <1>t DEF KeepsUser, Asked
  <2>5. v \in Row /\ v.state = "streaming" /\ v.user = req[r].sse /\ ~v.assistant
    BY <1>t, <2>1, <2>4, RowColumns
  <2>. HIDE DEF q, v
  <2>. QED
    BY <2>1, <2>2, <2>3, <2>5, RowStep
<1>5. CASE Finish(r)
  <2>. DEFINE q == [req[r] EXCEPT !.pc = "finished"]
              v == [state |-> "completed", user |-> TRUE, assistant |-> TRUE]
  <2>1. turn[r].state = "streaming" /\ req[r].pc = "linked"
    BY <1>5 DEF Finish, Completed
  <2>2. req' = [req EXCEPT ![r] = q] /\ turn' = [turn EXCEPT ![r] = v]
    BY <1>5 DEF Finish, Completed
  <2>3. /\ q \in Asked /\ q.pc = "finished" /\ q.key = req[r].key
        /\ q.content = req[r].content /\ q.sse = req[r].sse
        /\ q.conversation = req[r].conversation
    BY <1>t, StageOf
  <2>4. v \in Row /\ v.state = "completed" /\ v.user /\ v.assistant
    BY DEF Row, Terminal
  <2>. HIDE DEF q, v
  <2>. QED
    BY <2>1, <2>2, <2>3, <2>4, RowStep
<1>. QED
  BY <1>1, <1>2, <1>3, <1>4, <1>5 DEF Serve

LEMMA EndRows ==
  ASSUME TInv, RInv, NEW r \in Request,
         (\E cancelled \in BOOLEAN : Fail(r, cancelled)) \/ Crash(r)
  PROVE  RInv'
<1>t. /\ req \in [Request -> Asked] /\ turn \in [Request -> Row]
      /\ req[r] \in Asked /\ turn[r] \in Row /\ r \notin Recovery
  BY NoneIsNobody DEF TInv, TypeOK
<1>m. /\ turn[r].assistant <=> turn[r].state = "completed"
      /\ turn[r].assistant => turn[r].user
      /\ turn[r].user /\ ~turn[r].assistant => req[r].sse
  BY DEF RInv, MessagesMatchState
<1>1. PICK stage \in {"failed", "dead"} : req' = [req EXCEPT ![r] = [req[r] EXCEPT !.pc = stage]]
  BY <1>t DEF Fail, Crash
<1>2. PICK v \in Row : /\ turn' = [turn EXCEPT ![r] = v]
                       /\ v.user = turn[r].user /\ v.assistant = turn[r].assistant
                       /\ \/ v = turn[r]
                          \/ turn[r].state = "streaming" /\ v.state \in {"interrupted", "failed"}
  <2>1. CASE Crash(r)
    <3>1. turn' = [turn EXCEPT ![r] = turn[r]]
      BY <2>1, <1>t DEF Crash
    <3>. QED
      BY <3>1, <1>t
  <2>2. ASSUME NEW cancelled \in BOOLEAN, Fail(r, cancelled)
        PROVE  \E v \in Row : /\ turn' = [turn EXCEPT ![r] = v]
                             /\ v.user = turn[r].user /\ v.assistant = turn[r].assistant
                             /\ \/ v = turn[r]
                                \/ /\ turn[r].state = "streaming"
                                   /\ v.state \in {"interrupted", "failed"}
    <3>1. CASE turn[r].state = "streaming"
      <4>. DEFINE v == [turn[r] EXCEPT !.state = Outcome(cancelled)]
      <4>1. turn' = [turn EXCEPT ![r] = v]
        BY <2>2, <3>1, <1>t DEF Fail, Fails
      <4>2. /\ v \in Row /\ v.user = turn[r].user /\ v.assistant = turn[r].assistant
            /\ v.state \in {"interrupted", "failed"}
        BY <1>t DEF Row, Outcome, Terminal
      <4>. HIDE DEF v
      <4>. QED
        BY <3>1, <4>1, <4>2
    <3>2. CASE turn[r].state # "streaming"
      <4>1. turn' = [turn EXCEPT ![r] = [turn[r] EXCEPT !.state = turn[r].state]]
        BY <2>2, <3>2, <1>t DEF Fail, Fails
      <4>2. [turn[r] EXCEPT !.state = turn[r].state] = turn[r]
        BY <1>t DEF Row
      <4>. QED
        BY <4>1, <4>2, <1>t
    <3>. QED
      BY <3>1, <3>2
  <2>. QED
    BY <2>1, <2>2
<1>. DEFINE q == [req[r] EXCEPT !.pc = stage]
<1>3. /\ q \in Asked /\ q.pc = stage /\ q.key = req[r].key /\ q.content = req[r].content
      /\ q.sse = req[r].sse /\ q.conversation = req[r].conversation
  BY <1>t, <1>1 DEF Asked
<1>4. req[r].pc # "replayed"
  BY <1>t DEF Fail, Crash
<1>5. req' = [req EXCEPT ![r] = q]
  BY <1>1
<1>. HIDE DEF q
<1>. QED
  BY <1>2, <1>3, <1>4, <1>5, <1>m, RowStep

LEMMA RInvNext == TInv /\ RInv /\ [Next]_vars => RInv'
<1>. SUFFICES ASSUME TInv, RInv, [Next]_vars PROVE RInv'
  OBVIOUS
<1>1. ASSUME UNCHANGED <<req, turn>> PROVE RInv'
  BY <1>1 DEF RInv, RowOfRequest, KeyAdmitsOnce, ReplayIsTheSame, MessagesMatchState
<1>2. ASSUME NEW f \in Process, Finalize(f) PROVE RInv'
  BY <1>1, <1>2
  DEF Finalize, Continue, MemoryBegin, MemoryStore, MemoryFails, MemorySkip, Activity
<1>3. ASSUME NEW f \in Process, Crash(f) PROVE RInv'
  <2>1. CASE f \in Request
    BY <1>3, <2>1, EndRows
  <2>2. CASE f \notin Request
    BY <1>1, <1>3, <2>2 DEF Crash
  <2>. QED
    BY <2>1, <2>2
<1>4. ASSUME NEW l \in LiveTurn,
             \/ \E c \in Conversation : LiveAdmit(l, c)
             \/ \E outcome \in Terminal : LiveEnd(l, outcome)
      PROVE  RInv'
  BY <1>1, <1>4 DEF LiveAdmit, LiveEnd
<1>5. CASE UNCHANGED vars
  BY <1>1, <1>5 DEF vars
<1>. QED
  BY <1>2, <1>3, <1>4, <1>5, CheckRows, ServeRows, EndRows DEF Next

\* A client key generates one answer, and each of its duplicates is given that
\* answer or none, whatever requests race, end early or die.
THEOREM KeyAnsweredOnce == Spec => []AnsweredOnce
<1>1. RInv => AnsweredOnce
  BY DEF RInv, AnsweredOnce
<1>. QED
  BY <1>1, TInvInit, TInvNext, RInvInit, RInvNext, PTL DEF Spec

\* The messages a turn links always match its state.
THEOREM MessagesMatch == Spec => []MessagesMatchState
<1>1. RInv => MessagesMatchState
  BY DEF RInv
<1>. QED
  BY <1>1, TInvInit, TInvNext, RInvInit, RInvNext, PTL DEF Spec

-----------------------------------------------------------------------------
\* An admission between its two halves keeps live turns out of its conversation.

Admitting ==
  \A r \in Request : req[r].pc = "checked" =>
    /\ req[r].conversation \in Conversation /\ ~LiveActive(req[r].conversation)
    /\ RealtimeEnabled => gate[req[r].conversation] = r
Offline == ~RealtimeEnabled => \A l \in LiveTurn : live[l].state = "none"

GInv == Admitting /\ Offline

LEMMA GInvInit == Init => GInv
BY DEF Init, GInv, Admitting, Offline

\* The request r is not admitting, or no longer; nobody else is disturbed.
LEMMA AdmitsNot ==
  ASSUME TInv, GInv, UNCHANGED live, NEW r \in Request, req'[r].pc # "checked",
         \A o \in Request : o # r => req'[o] = req[o],
         \A c \in Conversation : gate[c] # r => gate'[c] = gate[c]
  PROVE  GInv'
BY DEF GInv, Admitting, Offline, LiveActive

LEMMA GInvNext == TInv /\ GInv /\ [Next]_vars => GInv'
<1>. SUFFICES ASSUME TInv, GInv, [Next]_vars PROVE GInv'
  OBVIOUS
<1>t. /\ req \in [Request -> Asked] /\ gate \in [Conversation -> Request \cup {None}]
  BY DEF TInv, TypeOK
<1>1. ASSUME UNCHANGED <<req, live, gate>> PROVE GInv'
  BY <1>1 DEF GInv, Admitting, Offline, LiveActive
<1>2. ASSUME NEW r \in Request, NEW c \in Conversation, NEW k \in Key \cup {None},
             NEW content \in Content, NEW sse \in BOOLEAN, Check(r, c, k, content, sse)
      PROVE  GInv'
  <2>. DEFINE asked == [req[r] EXCEPT !.conversation = c, !.key = k, !.content = content,
                                      !.sse = sse]
  <2>1. asked \in Asked /\ \A o \in Request : Answered(asked, o).pc # "checked"
    <3>1. asked \in Asked
      BY <1>t, AskedType
    <3>. HIDE DEF asked
    <3>. QED
      BY <3>1, AnsweredIs
  <2>2. UNCHANGED live /\ \A o \in Request : o # r => req'[o] = req[o]
    BY <1>2, <1>t DEF Check
  <2>3. CASE req'[r].pc # "checked"
    <3>1. UNCHANGED gate \/ req'[r].pc = "checked"
      BY <1>2, <1>t DEF Check, Asked
    <3>. QED
      BY <2>2, <2>3, <3>1, AdmitsNot
  <2>4. CASE req'[r].pc = "checked"
    <3>1. [asked EXCEPT !.pc = "refused"].pc = "refused"
      BY <2>1 DEF Asked
    <3>2. Gated(r, c) /\ ~LiveActive(c) /\ req' = [req EXCEPT ![r] = [asked EXCEPT !.pc = "checked"]]
      <4>. HIDE DEF asked
      <4>1. \/ \E o \in Existing(c, k) : req' = [req EXCEPT ![r] = Answered(asked, o)]
            \/ req' = [req EXCEPT ![r] = [asked EXCEPT !.pc = "refused"]]
            \/ /\ Gated(r, c) /\ ~LiveActive(c)
               /\ req' = [req EXCEPT ![r] = [asked EXCEPT !.pc = "checked"]]
        BY <1>2 DEF Check, asked
      <4>. QED
        BY <2>1, <2>4, <3>1, <4>1, <1>t DEF Existing
    <3>3. req'[r].conversation = c
      BY <2>1, <3>2, <1>t DEF Asked
    <3>4. /\ gate[c] = None /\ (RealtimeEnabled => gate'[c] = r)
          /\ \A d \in Conversation : d # c => gate'[d] = gate[d]
      BY <3>2, <1>t DEF Gated
    <3>. QED
      BY <2>2, <3>2, <3>3, <3>4, NoneIsNobody DEF GInv, Admitting, Offline, LiveActive
  <2>. QED
    BY <2>3, <2>4
<1>3. ASSUME NEW r \in Request, Serve(r) PROVE GInv'
  <2>1. UNCHANGED live /\ \A o \in Request : o # r => req'[o] = req[o]
    BY <1>3, <1>t DEF Serve, Insert, Claim, Link, Finish
  <2>2. \A c \in Conversation : gate[c] # r => gate'[c] = gate[c]
    BY <1>3, <1>t DEF Serve, Insert, Claim, Link, Finish, Release
  <2>3. req'[r].pc # "checked"
    <3>1. CASE Insert(r)
      <4>1. \A o \in Request : Answered(req[r], o).pc # "checked"
        BY <1>t, AnsweredIs
      <4>2. [req[r] EXCEPT !.pc = "accepted"].pc = "accepted"
        BY <1>t DEF Asked
      <4>. QED
        BY <3>1, <4>1, <4>2, <1>t DEF Insert, Taken, Existing
    <3>2. CASE Claim(r) \/ Link(r) \/ Finish(r)
      BY <3>2, <1>t DEF Claim, Link, Finish, Asked
    <3>. QED
      BY <1>3, <3>1, <3>2 DEF Serve
  <2>. QED
    BY <2>1, <2>2, <2>3, AdmitsNot
<1>4. ASSUME NEW r \in Request, (\E cancelled \in BOOLEAN : Fail(r, cancelled)) \/ Crash(r)
      PROVE  GInv'
  <2>1. /\ UNCHANGED live /\ req'[r].pc # "checked"
        /\ \A o \in Request : o # r => req'[o] = req[o]
        /\ \A c \in Conversation : gate[c] # r => gate'[c] = gate[c]
    BY <1>4, <1>t, NoneIsNobody DEF Fail, Crash, Release, Asked
  <2>. QED
    BY <2>1, AdmitsNot
<1>5. ASSUME NEW f \in Process, Finalize(f) \/ Crash(f) PROVE GInv'
  <2>1. CASE Finalize(f)
    BY <1>1, <2>1
    DEF Finalize, Continue, MemoryBegin, MemoryStore, MemoryFails, MemorySkip, Activity
  <2>2. CASE Crash(f) /\ f \notin Request
    BY <1>1, <2>2 DEF Crash
  <2>. QED
    BY <1>4, <1>5, <2>1, <2>2
<1>6. ASSUME NEW l \in LiveTurn, NEW c \in Conversation, LiveAdmit(l, c) PROVE GInv'
  <2>1. \A o \in Request : req[o].pc = "checked" => req[o].conversation # c
    BY <1>6, NoneIsNobody DEF LiveAdmit, GInv, Admitting
  <2>2. RealtimeEnabled /\ UNCHANGED <<req, gate>>
        /\ \A d : d # c => (LiveActive(d)' => LiveActive(d))
    BY <1>6 DEF LiveAdmit, TInv, TypeOK, LiveActive
  <2>. QED
    BY <2>1, <2>2 DEF GInv, Admitting, Offline
<1>7. ASSUME NEW l \in LiveTurn, NEW outcome \in Terminal, LiveEnd(l, outcome) PROVE GInv'
  <2>1. UNCHANGED <<req, gate>> /\ \A d : LiveActive(d)' => LiveActive(d)
    BY <1>7 DEF LiveEnd, TInv, TypeOK, LiveActive, Terminal
  <2>2. RealtimeEnabled
    BY <1>7 DEF LiveEnd, GInv, Offline
  <2>. QED
    BY <2>1, <2>2 DEF GInv, Admitting, Offline
<1>8. CASE UNCHANGED vars
  BY <1>1, <1>8 DEF vars
<1>. QED
  BY <1>2, <1>3, <1>4, <1>5, <1>6, <1>7, <1>8 DEF Next

-----------------------------------------------------------------------------
\* The refinement of the turn ledger.

LEMMA BarValues ==
  /\ \A r \in Request : /\ statusBar[r] = Shown(turn[r].state)
                         /\ placeBar[r] = IF turn[r].state = "none" THEN None
                                          ELSE req[r].conversation
  /\ \A l \in LiveTurn : /\ statusBar[l] = Shown(live[l].state)
                          /\ placeBar[l] = live[l].conversation
BY NoneIsNobody DEF statusBar, placeBar

\* Nothing that the ledger records changes.
LEMMA LedgerStutters ==
  ASSUME \A r \in Request : /\ Shown(turn'[r].state) = Shown(turn[r].state)
                            /\ turn'[r].state = "none" <=> turn[r].state = "none"
                            /\ turn[r].state # "none" =>
                                 req'[r].conversation = req[r].conversation,
         UNCHANGED live
  PROVE  UNCHANGED Ledger!ledger
BY DEF Ledger!ledger, statusBar, placeBar

\* One row is settled.
LEMMA LedgerSettles ==
  ASSUME NEW t \in Request \cup LiveTurn, NEW outcome \in Terminal, statusBar[t] = "active",
         statusBar' = [statusBar EXCEPT ![t] = outcome], UNCHANGED placeBar
  PROVE  Ledger!Next
<1>1. statusBar' = [u \in Request \cup LiveTurn |-> IF u \in {t} THEN outcome ELSE statusBar[u]]
  BY DEF statusBar
<1>2. Ledger!Settle({t}, outcome)
  BY <1>1 DEF Ledger!Settle
<1>3. {t} \in SUBSET (Request \cup LiveTurn) /\ outcome \in Ledger!Outcome
  BY DEF Ledger!Outcome, Terminal
<1>. QED
  BY <1>2, <1>3 DEF Ledger!Next

LEMMA LedgerInit == Init => Ledger!Init
BY NoneIsNobody DEF Init, Ledger!Init, statusBar, placeBar, Shown, Open

\* One row is accepted.
LEMMA LedgerAccepts ==
  ASSUME NEW t \in Request \cup LiveTurn, NEW c \in Conversation, statusBar[t] = "none",
         \A u \in Request \cup LiveTurn :
           placeBar[u] = c /\ statusBar[u] = "active" => t \notin LiveTurn /\ u \notin LiveTurn,
         statusBar' = [statusBar EXCEPT ![t] = "active"],
         placeBar' = [placeBar EXCEPT ![t] = c]
  PROVE  Ledger!Next
<1>1. Ledger!Accept(t, c)
  BY DEF Ledger!Accept, Ledger!Active
<1>. QED
  BY <1>1 DEF Ledger!Next

LEMMA BarsWritten ==
  ASSUME NEW t \in Request \cup LiveTurn, NEW s, NEW c, statusBar'[t] = s, placeBar'[t] = c,
         \A u \in Request \cup LiveTurn : u # t =>
           statusBar'[u] = statusBar[u] /\ placeBar'[u] = placeBar[u]
  PROVE  /\ statusBar' = [statusBar EXCEPT ![t] = s]
         /\ placeBar' = [placeBar EXCEPT ![t] = c]
         /\ placeBar[t] = c => UNCHANGED placeBar
<1>1. /\ statusBar' = [u \in Request \cup LiveTurn |-> statusBar'[u]]
      /\ statusBar = [u \in Request \cup LiveTurn |-> statusBar[u]]
  BY DEF statusBar
<1>2. /\ placeBar' = [u \in Request \cup LiveTurn |-> placeBar'[u]]
      /\ placeBar = [u \in Request \cup LiveTurn |-> placeBar[u]]
  BY DEF placeBar
<1>. QED
  BY <1>1, <1>2

LEMMA BarValuesNext ==
  /\ \A r \in Request : /\ statusBar'[r] = Shown(turn'[r].state)
                         /\ placeBar'[r] = IF turn'[r].state = "none" THEN None
                                           ELSE req'[r].conversation
  /\ \A l \in LiveTurn : /\ statusBar'[l] = Shown(live'[l].state)
                          /\ placeBar'[l] = live'[l].conversation
BY NoneIsNobody DEF statusBar, placeBar

\* The request r changes at most its own row: it inserts it where no live turn
\* is active, claims or links it, or settles it.
LEMMA RowLedger ==
  ASSUME TInv, NEW r \in Request, UNCHANGED live,
         \A o \in Request : o # r => turn'[o] = turn[o] /\ req'[o] = req[o],
         turn[r].state # "none" => req'[r].conversation = req[r].conversation,
         \/ turn'[r].state = turn[r].state
         \/ turn[r].state \in Open /\ turn'[r].state \in Open \cup Terminal
         \/ /\ turn[r].state = "none" /\ turn'[r].state \in Open
            /\ req'[r].conversation \in Conversation /\ ~LiveActive(req'[r].conversation)
  PROVE  [Ledger!Next]_(Ledger!ledger)
<1>1. CASE Shown(turn'[r].state) = Shown(turn[r].state)
  <2>1. turn'[r].state = "none" <=> turn[r].state = "none"
    BY <1>1 DEF Shown, Open, Terminal
  <2>. QED
    BY <1>1, <2>1, LedgerStutters
<1>o. \A u \in Request \cup LiveTurn : u # r =>
        statusBar'[u] = statusBar[u] /\ placeBar'[u] = placeBar[u]
  BY BarValues, BarValuesNext
<1>2. CASE turn[r].state \in Open /\ turn'[r].state \in Terminal
  <2>1. /\ statusBar[r] = "active" /\ statusBar'[r] = turn'[r].state
        /\ placeBar'[r] = placeBar[r]
    BY <1>2, BarValues, BarValuesNext DEF Shown, Open, Terminal
  <2>2. statusBar' = [statusBar EXCEPT ![r] = turn'[r].state] /\ UNCHANGED placeBar
    BY <1>o, <2>1, BarsWritten
  <2>. QED
    BY <1>2, <2>1, <2>2, LedgerSettles
<1>3. CASE /\ turn[r].state = "none" /\ turn'[r].state \in Open
           /\ req'[r].conversation \in Conversation /\ ~LiveActive(req'[r].conversation)
  <2>. DEFINE c == req'[r].conversation
  <2>1. statusBar[r] = "none" /\ statusBar'[r] = "active" /\ placeBar'[r] = c
    BY <1>3, BarValues, BarValuesNext DEF Shown, Open
  <2>2. \A u \in LiveTurn : ~(placeBar[u] = c /\ statusBar[u] = "active")
    <3>1. \A u \in LiveTurn : Shown(live[u].state) = "active" => live[u].state = "streaming"
      BY DEF TInv, TypeOK, Shown, Open, Terminal
    <3>. QED
      BY <1>3, <3>1, BarValues DEF LiveActive
  <2>3. /\ statusBar' = [statusBar EXCEPT ![r] = "active"]
        /\ placeBar' = [placeBar EXCEPT ![r] = c]
    BY <1>o, <2>1, BarsWritten
  <2>4. \A u \in Request \cup LiveTurn :
          placeBar[u] = c /\ statusBar[u] = "active" => r \notin LiveTurn /\ u \notin LiveTurn
    BY <2>2, NoneIsNobody
  <2>. HIDE DEF c
  <2>5. c \in Conversation
    BY <1>3 DEF c
  <2>. QED
    BY <2>1, <2>3, <2>4, <2>5, LedgerAccepts
<1>4. CASE turn[r].state \in Open /\ turn'[r].state \in Open
  BY <1>1, <1>4 DEF Shown
<1>5. CASE turn'[r].state = turn[r].state
  BY <1>1, <1>5
<1>. QED
  BY <1>2, <1>3, <1>4, <1>5

LEMMA LiveAdmitLedger ==
  ASSUME TInv, NEW l \in LiveTurn, NEW c \in Conversation, LiveAdmit(l, c)
  PROVE  Ledger!Next
<1>1. /\ UNCHANGED <<req, turn>> /\ live[l].state = "none"
      /\ live'[l] = [state |-> "streaming", conversation |-> c]
      /\ \A m \in LiveTurn : m # l => live'[m] = live[m]
  BY DEF LiveAdmit, TInv, TypeOK
<1>2. /\ statusBar[l] = "none" /\ statusBar'[l] = "active" /\ placeBar'[l] = c
      /\ \A u \in Request \cup LiveTurn : u # l =>
           statusBar'[u] = statusBar[u] /\ placeBar'[u] = placeBar[u]
  BY <1>1, BarValues, BarValuesNext DEF Shown, Open
<1>3. \A u \in LiveTurn : ~(placeBar[u] = c /\ statusBar[u] = "active")
  <2>1. \A u \in LiveTurn : Shown(live[u].state) = "active" => live[u].state = "streaming"
    BY DEF TInv, TypeOK, Shown, Open, Terminal
  <2>. QED
    BY <2>1, BarValues DEF LiveAdmit, LiveActive
<1>4. \A u \in Request : ~(placeBar[u] = c /\ statusBar[u] = "active")
  <2>1. \A u \in Request : Shown(turn[u].state) = "active" => turn[u].state \in Open
    BY DEF TInv, TypeOK, Row, Shown, Open, Terminal
  <2>2. \A u \in Request : placeBar[u] = c => req[u].conversation = c
    BY BarValues, NoneIsNobody
  <2>. QED
    BY <2>1, <2>2, BarValues DEF LiveAdmit, TextActive
<1>. QED
  BY <1>2, <1>3, <1>4, BarsWritten, LedgerAccepts

LEMMA LiveEndLedger ==
  ASSUME TInv, NEW l \in LiveTurn, NEW outcome \in Terminal, LiveEnd(l, outcome)
  PROVE  Ledger!Next
<1>1. /\ UNCHANGED <<req, turn>> /\ live[l].state = "streaming"
      /\ live'[l].state = outcome /\ live'[l].conversation = live[l].conversation
      /\ \A m \in LiveTurn : m # l => live'[m] = live[m]
  BY DEF LiveEnd, TInv, TypeOK
<1>2. /\ statusBar[l] = "active" /\ statusBar'[l] = outcome /\ placeBar'[l] = placeBar[l]
      /\ \A u \in Request \cup LiveTurn : u # l =>
           statusBar'[u] = statusBar[u] /\ placeBar'[u] = placeBar[u]
  BY <1>1, BarValues, BarValuesNext DEF Shown, Open, Terminal
<1>3. statusBar' = [statusBar EXCEPT ![l] = outcome] /\ UNCHANGED placeBar
  BY <1>2, BarsWritten
<1>. QED
  BY <1>2, <1>3, LedgerSettles

LEMMA LedgerNext == TInv /\ RInv /\ GInv /\ [Next]_vars => [Ledger!Next]_(Ledger!ledger)
<1>. SUFFICES ASSUME TInv, RInv, GInv, [Next]_vars PROVE [Ledger!Next]_(Ledger!ledger)
  OBVIOUS
<1>t. req \in [Request -> Asked] /\ turn \in [Request -> Row]
  BY DEF TInv, TypeOK
<1>1. ASSUME UNCHANGED <<req, turn, live>> PROVE [Ledger!Next]_(Ledger!ledger)
  BY <1>1, LedgerStutters
<1>2. ASSUME NEW r \in Request, NEW c \in Conversation, NEW k \in Key \cup {None},
             NEW content \in Content, NEW sse \in BOOLEAN, Check(r, c, k, content, sse)
      PROVE  [Ledger!Next]_(Ledger!ledger)
  <2>1. /\ UNCHANGED <<turn, live>> /\ turn[r].state = "none"
        /\ \A o \in Request : o # r => req'[o] = req[o]
    BY <1>2, <1>t DEF Check, RInv, RowOfRequest
  <2>. QED
    BY <2>1, RowLedger
<1>3. ASSUME NEW r \in Request, Serve(r) PROVE [Ledger!Next]_(Ledger!ledger)
  <2>1. /\ UNCHANGED live
        /\ \A o \in Request : o # r => turn'[o] = turn[o] /\ req'[o] = req[o]
    BY <1>3, <1>t DEF Serve, Insert, Claim, Link, Finish, Completed
  <2>2. CASE Insert(r) /\ Taken(r) = {}
    <3>1. turn[r].state = "none" /\ turn'[r].state = "pending"
      BY <2>2, <1>t DEF Insert, RInv, RowOfRequest, Row
    <3>2. req'[r].conversation = req[r].conversation
      BY <2>2, <1>t DEF Insert, Asked
    <3>3. req[r].conversation \in Conversation /\ ~LiveActive(req[r].conversation)
      BY <2>2 DEF Insert, GInv, Admitting
    <3>. QED
      BY <2>1, <3>1, <3>2, <3>3, RowLedger DEF Open
  <2>3. CASE Insert(r) /\ Taken(r) # {}
    <3>1. UNCHANGED turn /\ turn[r].state = "none"
      BY <2>3 DEF Insert, RInv, RowOfRequest
    <3>. QED
      BY <2>1, <3>1, RowLedger
  <2>4. CASE Claim(r) \/ Link(r) \/ Finish(r)
    <3>1. turn[r].state \in Open
      BY <2>4 DEF Claim, Link, Finish, Completed, RInv, RowOfRequest, Open
    <3>2. turn'[r].state \in Open \cup Terminal
      BY <2>4, <3>1, <1>t DEF Claim, Link, Finish, Completed, Open, Terminal, Row
    <3>3. req'[r].conversation = req[r].conversation
      BY <2>4, <1>t DEF Claim, Link, Finish, Asked
    <3>. QED
      BY <2>1, <3>1, <3>2, <3>3, RowLedger
  <2>. QED
    BY <1>3, <2>2, <2>3, <2>4 DEF Serve
<1>4. ASSUME NEW r \in Request, (\E cancelled \in BOOLEAN : Fail(r, cancelled)) \/ Crash(r)
      PROVE  [Ledger!Next]_(Ledger!ledger)
  <2>1. /\ UNCHANGED live /\ req'[r].conversation = req[r].conversation
        /\ \A o \in Request : o # r => turn'[o] = turn[o] /\ req'[o] = req[o]
    BY <1>4, <1>t, NoneIsNobody DEF Fail, Crash, Asked
  <2>2. \/ turn'[r].state = turn[r].state
        \/ turn[r].state = "streaming" /\ turn'[r].state \in {"interrupted", "failed"}
    BY <1>4, <1>t DEF Fail, Crash, Fails, Outcome, Row
  <2>. QED
    BY <2>1, <2>2, RowLedger DEF Open, Terminal
<1>5. ASSUME NEW f \in Process, Finalize(f) \/ Crash(f) PROVE [Ledger!Next]_(Ledger!ledger)
  <2>1. CASE Finalize(f)
    BY <1>1, <2>1
    DEF Finalize, Continue, MemoryBegin, MemoryStore, MemoryFails, MemorySkip, Activity
  <2>2. CASE Crash(f) /\ f \notin Request
    BY <1>1, <2>2 DEF Crash
  <2>. QED
    BY <1>4, <1>5, <2>1, <2>2
<1>6. ASSUME NEW l \in LiveTurn,
             \/ \E c \in Conversation : LiveAdmit(l, c)
             \/ \E outcome \in Terminal : LiveEnd(l, outcome)
      PROVE  [Ledger!Next]_(Ledger!ledger)
  BY <1>6, LiveAdmitLedger, LiveEndLedger
<1>7. CASE UNCHANGED vars
  BY <1>1, <1>7 DEF vars
<1>. QED
  BY <1>2, <1>3, <1>4, <1>5, <1>6, <1>7 DEF Next

\* Text requests, guards, crashes and live calls together keep the turn ledger:
\* no row is settled twice or reopened, and no text turn starts beside a live one.
THEOREM TurnsKeepLedger == Spec => ImplementsLedger
<1>. QED
  BY TInvInit, TInvNext, RInvInit, RInvNext, GInvInit, GInvNext, LedgerInit, LedgerNext, PTL
  DEF Spec, ImplementsLedger, Ledger!Spec

\* For any requests, live calls and keys the links of a turn match its state and the
\* rows of the turn table keep the ledger (turn_lifecycle.py, the message routes).
THEOREM MessagesAreHeld == Spec => MessagesHold
BY MessagesMatch, TurnsKeepLedger, PTL DEF MessagesHold

-----------------------------------------------------------------------------
(* What the ledger itself promises to whatever implements it.              *)

LedgerKept == Ledger!LedgerTypeOK /\ Ledger!LiveAlone

LEMMA LedgerBegins == Ledger!Init => LedgerKept
BY DEF Ledger!Init, LedgerKept, Ledger!LedgerTypeOK, Ledger!LiveAlone, Ledger!Status

LEMMA LedgerSteps == LedgerKept /\ [Ledger!Next]_(Ledger!ledger) => LedgerKept'
<1>. SUFFICES ASSUME LedgerKept, [Ledger!Next]_(Ledger!ledger) PROVE LedgerKept'
  OBVIOUS
<1>1. ASSUME NEW t \in Request \cup LiveTurn, NEW c \in Conversation, Ledger!Accept(t, c)
      PROVE  LedgerKept'
  <2>1. Ledger!LedgerTypeOK'
    BY <1>1 DEF Ledger!Accept, LedgerKept, Ledger!LedgerTypeOK, Ledger!Status
  <2>2. /\ statusBar'[t] = "active" /\ placeBar'[t] = c
        /\ \A u \in Request \cup LiveTurn : u # t => statusBar'[u] = statusBar[u] /\ placeBar'[u] = placeBar[u]
    BY <1>1 DEF Ledger!Accept, LedgerKept, Ledger!LedgerTypeOK
  <2>3. \A u \in Request \cup LiveTurn : statusBar[u] = "active" /\ placeBar[u] = c =>
          t \notin LiveTurn /\ u \notin LiveTurn
    BY <1>1 DEF Ledger!Accept, Ledger!Active
  <2>4. Ledger!LiveAlone'
    BY <2>2, <2>3 DEF Ledger!LiveAlone, LedgerKept
  <2>. QED
    BY <2>1, <2>4 DEF LedgerKept
<1>2. ASSUME NEW T \in SUBSET (Request \cup LiveTurn), NEW outcome \in Ledger!Outcome, Ledger!Settle(T, outcome)
      PROVE  LedgerKept'
  <2>1. Ledger!LedgerTypeOK'
    BY <1>2 DEF Ledger!Settle, LedgerKept, Ledger!LedgerTypeOK, Ledger!Status
  <2>2. \A t \in Request \cup LiveTurn : statusBar'[t] = "active" => statusBar[t] = "active"
    BY <1>2 DEF Ledger!Settle, Ledger!Outcome
  <2>3. Ledger!LiveAlone'
    BY <1>2, <2>2 DEF Ledger!Settle, Ledger!LiveAlone, LedgerKept
  <2>. QED
    BY <2>1, <2>3 DEF LedgerKept
<1>3. CASE UNCHANGED Ledger!ledger
  BY <1>3 DEF Ledger!ledger, LedgerKept, Ledger!LedgerTypeOK, Ledger!LiveAlone
<1>. QED
  BY <1>1, <1>2, <1>3 DEF Ledger!Next

\* An active live turn of the ledger never shares its conversation with another active turn.
THEOREM LedgerLiveAlone == Ledger!Spec => []Ledger!LiveAlone
<1>1. LedgerKept => Ledger!LiveAlone
  BY DEF LedgerKept
<1>. QED
  BY <1>1, LedgerBegins, LedgerSteps, PTL DEF Ledger!Spec

\* So neither do the rows of the message routes: while a live turn is active, whichever
\* requests are retried, cancelled, recovered or crash, no other turn of its conversation is.
THEOREM LiveTurnKeptAlone == Spec => []Ledger!LiveAlone
BY TurnsKeepLedger, LedgerLiveAlone, PTL DEF ImplementsLedger
=============================================================================
