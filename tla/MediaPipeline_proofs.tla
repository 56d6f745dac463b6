------------------------ MODULE MediaPipeline_proofs ------------------------
(***************************************************************************)
(* Proofs about MediaPipeline, for any sets of sources, workers and tabs,  *)
(* for either object store and for any bounds.                             *)
(*                                                                         *)
(* The inductive invariant says what a source, its artifact, its store     *)
(* object and its suggestion agree on (SourceOK, CandOK, JobOK), and what  *)
(* a worker or a tab that comes late still knows about them (WorkerOK,     *)
(* TabOK).                                                                 *)
(***************************************************************************)
EXTENDS MediaPipeline, TLAPS

-----------------------------------------------------------------------------
\* The inductive invariant.

\* The bytes of a source: they are received while it is uploading and its Legacy active,
\* a hash is recorded with them, and what is erased is gone.
BytesOK(s) ==
  /\ uploader[s] = "stored" => source[s].state = "uploading" /\ legacy = "active"
  /\ source[s].state = "none" => ~object[s] /\ late[s] = "no"
  /\ artifact[s].state = "available" => artifact[s].hashed
  /\ artifact[s].state = "purged" => source[s].state \in {"deleted", "gone"}
  /\ source[s].safety = "clean" => artifact[s].hashed
  /\ ~Reviewable(s) /\ source[s].state \notin {"none", "uploading"} \cup Withdrawn =>
       artifact[s].state = "available"
  /\ source[s].state \in {"deleted", "gone"} => ~object[s] \/ late[s] = "landed"

\* The generation moves with the withdrawal, and a purge job comes with it or later.
GenerationOK(s) ==
  /\ source[s].state \notin Withdrawn => source[s].gen = 1
  /\ job[s]["purge"].state # "none" => source[s].state \in Withdrawn

\* Nothing of a suggestion is private.
Private(c) == ~c.text /\ c.draft = 0 /\ c.state # "pending" /\ c.link # "approved"

\* A suggestion and the decision about it.
DecisionOK(c) ==
  /\ c.state = "none" => c.draft = 0
  /\ c.state = "pending" => c.version >= 1
  /\ c.draft # 0 => c.draft = c.version /\ c.version >= 2
  /\ c.state \in {"preserved", "skipped"} => c.receipt[3] = c.version
  /\ c.state = "preserved" =>
       c.memory = IF c.receipt[2] = "edit_preserve" THEN c.version ELSE 1

\* Before its bytes are there, and after its withdrawal, a source holds nothing private.
CandOK(s) ==
  /\ DecisionOK(cand[s])
  /\ source[s].state \in {"none", "uploading"} \cup Withdrawn => Private(cand[s])
  /\ source[s].state \in {"none", "uploading"} => cand[s].state = "none"

\* Only a running job has a claim.
ClaimedOnlyRunning(j) == j.state # "running" => j.token = None /\ ~j.live
JobOK(s) == \A k \in Kind : ClaimedOnlyRunning(job[s][k])

Working == {"claimed", "opened", "failing", "deleted"}

\* What a worker still knows of its source, whoever has its job by now.
WorkerOK(w) ==
  /\ worker[w].at \in Working =>
       worker[w].src \in Source /\ worker[w].kind \in Kind /\ source[worker[w].src].state # "none"
  /\ worker[w].at \notin Working => worker[w].kind = None
  /\ worker[w].at \in {"opened", "failing"} =>
       /\ worker[w].kind = "extract"
       /\ ~Reviewable(worker[w].src) => source[worker[w].src].state # "uploading"
  /\ worker[w].kind = "purge" => source[worker[w].src].state \in Withdrawn
  /\ worker[w].at = "deleted" =>
       worker[w].kind = "purge" /\ (~object[worker[w].src] \/ late[worker[w].src] = "landed")

\* The wording that a tab was shown: an edited one is never the first.
TabOK(t) ==
  tab[t].at = "embedded" =>
    /\ tab[t].src \in Source /\ tab[t].action \in Action
    /\ tab[t].action = "edit_preserve" => tab[t].text # 1

Inv ==
  /\ TypeOK
  /\ \A s \in Source : BytesOK(s) /\ GenerationOK(s) /\ CandOK(s) /\ JobOK(s)
  /\ \A w \in Worker : WorkerOK(w)
  /\ \A t \in Tab : TabOK(t)

-----------------------------------------------------------------------------
\* The rows that a step writes.

LEMMA RowTypes ==
  /\ Queued \in JobRow /\ NoJob \in JobRow /\ NoCand \in CandRow
  /\ Idle \in Claims /\ NoReview \in Review
  /\ ~Queued.live /\ Queued.token = None /\ Queued.state = "queued"
  /\ ~NoJob.live /\ NoJob.token = None /\ NoJob.state = "none"
  /\ Idle.at = "idle" /\ Idle.kind = None /\ NoReview.at = "idle"
  /\ DecisionOK(NoCand) /\ Private(NoCand) /\ NoCand.state = "none"
BY MediaAssumption
DEF Queued, NoJob, NoCand, Idle, NoReview, JobRow, CandRow, Claims, Review, Live, DecisionOK, Private

\* A source row that is withdrawn.
LEMMA RowWithdrawn ==
  ASSUME NEW r \in SourceRow, NEW v \in Withdrawn
  PROVE  LET q == [r EXCEPT !.state = v, !.gen = 2]
         IN  q \in SourceRow /\ q.state = v /\ q.gen = 2 /\ q.purpose = r.purpose /\ q.safety = r.safety
<1> DEFINE State == {"none", "uploading", "queued", "processing", "ready", "partially_ready",
                     "failed"} \cup Withdrawn
<1>1. 2 \in 1..2 /\ v \in State
  OBVIOUS
<1>2. SourceRow = [state : State, purpose : {"source_review", "visual_reference"}, gen : 1..2,
                   safety : {"pending", "clean", "rejected"}, expired : BOOLEAN]
  BY DEF SourceRow
<1> HIDE DEF State
<1>3. QED
  BY <1>1, <1>2

\* Two kinds of job.
LEMMA Kinds == "extract" \in Kind /\ "purge" \in Kind /\ \A k \in Kind : k \in {"extract", "purge"}
BY DEF Kind

\* At the start nothing is stored, suggested or claimed.
LEMMA InitInv == Init => Inv
<1> SUFFICES ASSUME Init PROVE Inv
  OBVIOUS
<1>1. source \in [Source -> SourceRow] /\ artifact \in [Source -> ArtifactRow]
  BY DEF Init, SourceRow, ArtifactRow, Withdrawn
<1>2. job \in [Source -> [Kind -> JobRow]] /\ cand \in [Source -> CandRow]
  BY RowTypes DEF Init
<1>3. worker \in [Worker -> Claims] /\ tab \in [Tab -> Review]
  BY RowTypes DEF Init
<1>4. /\ \A s \in Source : object[s] = FALSE /\ late[s] = "no" /\ uploader[s] = "idle"
      /\ object \in [Source -> BOOLEAN] /\ late \in [Source -> {"no", "lost", "landed"}]
      /\ uploader \in [Source -> {"idle", "stored"}]
      /\ adapter \in {"local", "s3"} /\ legacy = "active"
      /\ portrait \in {"none", "live", "purge_pending", "purged"}
      /\ faults \in 0..MaxFaults /\ retries \in 0..MaxRetry
  BY MediaAssumption DEF Init
<1>5. \A s \in Source : /\ source[s].state = "none" /\ source[s].gen = 1 /\ source[s].safety = "pending"
                        /\ artifact[s].state = "none" /\ cand[s] = NoCand
                        /\ \A k \in Kind : job[s][k] = NoJob
  BY DEF Init
<1>6. TypeOK
  BY <1>1, <1>2, <1>3, <1>4, <1>5, RowTypes DEF TypeOK
<1>7. ASSUME NEW s \in Source PROVE BytesOK(s) /\ GenerationOK(s) /\ CandOK(s) /\ JobOK(s)
  BY <1>4, <1>5, RowTypes, Kinds
  DEF BytesOK, GenerationOK, CandOK, JobOK, ClaimedOnlyRunning, Withdrawn
<1>8. \A w \in Worker : WorkerOK(w)
  BY RowTypes, MediaAssumption DEF Init, WorkerOK, Working
<1>9. \A t \in Tab : TabOK(t)
  BY RowTypes DEF Init, TabOK
<1>10. QED
  BY <1>6, <1>7, <1>8, <1>9 DEF Inv

-----------------------------------------------------------------------------
\* What the steps have in common.

SourceInv(s) == BytesOK(s) /\ GenerationOK(s) /\ CandOK(s) /\ JobOK(s)

\* A step leaves the rows of the source s alone.
Same(s) ==
  /\ source'[s] = source[s] /\ artifact'[s] = artifact[s] /\ job'[s] = job[s]
  /\ cand'[s] = cand[s] /\ object'[s] = object[s] /\ late'[s] = late[s]
  /\ uploader'[s] = uploader[s]

\* A source goes on: it keeps its purpose, is not uploaded twice, stays withdrawn, and
\* once it is withdrawn nothing comes to the store but a late put.
Onward(s) ==
  /\ source[s].state # "none" => source'[s].state # "none" /\ source'[s].purpose = source[s].purpose
  /\ source'[s].state = "uploading" => source[s].state \in {"none", "uploading"}
  /\ source[s].state \in Withdrawn => source'[s].state \in Withdrawn
  /\ source[s].state \in Withdrawn /\ (~object[s] \/ late[s] = "landed")
       => (~object'[s] \/ late'[s] = "landed")

\* What a worker knows of its source stays true while sources go on.
LEMMA WorkerKept ==
  ASSUME NEW w \in Worker, WorkerOK(w), worker'[w] = worker[w], \A s \in Source : Onward(s)
  PROVE  WorkerOK(w)'
<1>1. CASE worker[w].at \in Working
  <2>1. worker[w].src \in Source /\ Onward(worker[w].src)
    BY <1>1 DEF WorkerOK
  <2>2. QED
    BY <1>1, <2>1 DEF WorkerOK, Onward, Reviewable, Working
<1>2. CASE worker[w].at \notin Working
  BY <1>2, MediaAssumption DEF WorkerOK, Working
<1>3. QED
  BY <1>1, <1>2

LEMMA SameGoesOn ==
  ASSUME NEW s \in Source, Same(s)
  PROVE  Onward(s)
BY DEF Same, Onward

LEMMA SameKept ==
  ASSUME NEW s \in Source, SourceInv(s), Same(s), legacy' = legacy \/ uploader'[s] = "idle"
  PROVE  SourceInv(s)'
BY DEF SourceInv, Same, BytesOK, GenerationOK, CandOK, JobOK, Reviewable

\* A step that leaves most sources alone keeps the invariant if it keeps it for the
\* others, and for the workers and tabs that it moves.
LEMMA Assembled ==
  ASSUME Inv, TypeOK',
         legacy' = legacy \/ \A s \in Source : uploader'[s] = "idle",
         \A s \in Source : Same(s) \/ (Onward(s) /\ SourceInv(s)'),
         \A w \in Worker : worker'[w] = worker[w] \/ WorkerOK(w)',
         \A t \in Tab : tab'[t] = tab[t] \/ TabOK(t)'
  PROVE  Inv'
<1>1. \A s \in Source : Onward(s)
  BY SameGoesOn
<1>2. \A s \in Source : SourceInv(s)'
  BY SameKept DEF Inv, SourceInv
<1>3. \A w \in Worker : WorkerOK(w)'
  BY <1>1, WorkerKept DEF Inv
<1>4. \A t \in Tab : TabOK(t)'
  BY DEF Inv, TabOK
<1>5. QED
  BY <1>2, <1>3, <1>4 DEF Inv, SourceInv

\* What a source and its rows are, before a step.
LEMMA RowsOf ==
  ASSUME Inv, NEW s \in Source
  PROVE  /\ source[s] \in SourceRow /\ artifact[s] \in ArtifactRow /\ job[s] \in [Kind -> JobRow]
         /\ cand[s] \in CandRow /\ object[s] \in BOOLEAN /\ late[s] \in {"no", "lost", "landed"}
         /\ uploader[s] \in {"idle", "stored"}
         /\ \A k \in Kind : job[s][k] \in JobRow /\ (job[s][k].live => job[s][k].token # None)
         /\ BytesOK(s) /\ GenerationOK(s) /\ CandOK(s) /\ JobOK(s)
BY DEF Inv, TypeOK

Late == {"no", "lost", "landed"}
Receiving == {"idle", "stored"}

\* The rows of the source s become these, those of the others stay.
Rows(s, q, a, j, c, o, l, up) ==
  /\ source' = [source EXCEPT ![s] = q] /\ artifact' = [artifact EXCEPT ![s] = a]
  /\ job' = [job EXCEPT ![s] = j] /\ cand' = [cand EXCEPT ![s] = c]
  /\ object' = [object EXCEPT ![s] = o] /\ late' = [late EXCEPT ![s] = l]
  /\ uploader' = [uploader EXCEPT ![s] = up]

RowsTyped(q, a, j, c, o, l, up) ==
  /\ q \in SourceRow /\ a \in ArtifactRow /\ j \in [Kind -> JobRow] /\ c \in CandRow
  /\ o \in BOOLEAN /\ l \in Late /\ up \in Receiving
  /\ \A k \in Kind : j[k].live => j[k].token # None

Bounded == adapter' = adapter /\ faults' \in 0..MaxFaults /\ retries' \in 0..MaxRetry

\* What the step does besides keeps its types.
RestTyped ==
  /\ worker' \in [Worker -> Claims] /\ tab' \in [Tab -> Review]
  /\ legacy' \in {"active", "marked", "erased"}
  /\ portrait' \in {"none", "live", "purge_pending", "purged"} /\ Bounded

LEMMA TablesTyped ==
  ASSUME Inv
  PROVE  /\ source \in [Source -> SourceRow] /\ artifact \in [Source -> ArtifactRow]
         /\ job \in [Source -> [Kind -> JobRow]] /\ cand \in [Source -> CandRow]
         /\ object \in [Source -> BOOLEAN] /\ late \in [Source -> Late]
         /\ uploader \in [Source -> Receiving]
         /\ worker \in [Worker -> Claims] /\ tab \in [Tab -> Review]
         /\ adapter \in {"local", "s3"}
         /\ legacy \in {"active", "marked", "erased"}
         /\ portrait \in {"none", "live", "purge_pending", "purged"}
         /\ faults \in 0..MaxFaults /\ retries \in 0..MaxRetry
BY DEF Inv, TypeOK, Late, Receiving

LEMMA BoundsHold ==
  ASSUME Inv, UNCHANGED bounds \/ Fault
  PROVE  Bounded
BY TablesTyped, MediaAssumption DEF bounds, Fault, Bounded

\* A table that stays is one whose row of s is written again.
LEMMA Rewriting ==
  ASSUME Inv, NEW s \in Source
  PROVE  /\ [source EXCEPT ![s] = source[s]] = source /\ [artifact EXCEPT ![s] = artifact[s]] = artifact
         /\ [job EXCEPT ![s] = job[s]] = job /\ [cand EXCEPT ![s] = cand[s]] = cand
         /\ [object EXCEPT ![s] = object[s]] = object /\ [late EXCEPT ![s] = late[s]] = late
         /\ [uploader EXCEPT ![s] = uploader[s]] = uploader
<1>1. /\ [source EXCEPT ![s] = source[s]] = source /\ [artifact EXCEPT ![s] = artifact[s]] = artifact
      /\ [job EXCEPT ![s] = job[s]] = job /\ [cand EXCEPT ![s] = cand[s]] = cand
  BY TablesTyped
<1>2. /\ [object EXCEPT ![s] = object[s]] = object /\ [late EXCEPT ![s] = late[s]] = late
      /\ [uploader EXCEPT ![s] = uploader[s]] = uploader
  BY TablesTyped
<1>3. QED
  BY <1>1, <1>2

\* The rows of one source are written: all types stay, and the other sources stay.
LEMMA Rewritten ==
  ASSUME Inv, NEW s \in Source, NEW q, NEW a, NEW j, NEW c, NEW o, NEW l, NEW up,
         Rows(s, q, a, j, c, o, l, up), RowsTyped(q, a, j, c, o, l, up), RestTyped
  PROVE  /\ TypeOK' /\ \A u \in Source \ {s} : Same(u)
         /\ source'[s] = q /\ artifact'[s] = a /\ job'[s] = j /\ cand'[s] = c
         /\ object'[s] = o /\ late'[s] = l /\ uploader'[s] = up
<1>1. /\ source'[s] = q /\ artifact'[s] = a /\ job'[s] = j /\ cand'[s] = c
      /\ object'[s] = o /\ late'[s] = l /\ uploader'[s] = up
  BY TablesTyped DEF Rows
<1>2. \A u \in Source \ {s} : Same(u)
  BY TablesTyped DEF Same, Rows
<1>3. /\ source' \in [Source -> SourceRow] /\ artifact' \in [Source -> ArtifactRow]
      /\ job' \in [Source -> [Kind -> JobRow]] /\ cand' \in [Source -> CandRow]
  BY TablesTyped DEF Rows, RowsTyped
<1>4. /\ object' \in [Source -> BOOLEAN] /\ late' \in [Source -> Late]
      /\ uploader' \in [Source -> Receiving]
  BY TablesTyped DEF Rows, RowsTyped
<1>5. ASSUME NEW u \in Source, NEW k \in Kind
      PROVE  job'[u][k].live => job'[u][k].token # None
  <2>1. CASE u = s
    BY <2>1, <1>1 DEF RowsTyped
  <2>2. CASE u # s
    <3>1. job'[u] = job[u]
      BY <2>2, <1>2 DEF Same
    <3>2. QED
      BY <3>1, RowsOf
  <2>3. QED
    BY <2>1, <2>2
<1>6. TypeOK'
  BY <1>3, <1>4, <1>5, TablesTyped DEF TypeOK, Late, Receiving, RestTyped, Bounded
<1>7. QED
  BY <1>1, <1>2, <1>6

\* Nobody but s moves.
LEMMA Settled ==
  ASSUME Inv, NEW s \in Source, TypeOK', \A u \in Source \ {s} : Same(u),
         Onward(s), BytesOK(s)', GenerationOK(s)', CandOK(s)', JobOK(s)',
         legacy' = legacy,
         \A w \in Worker : worker'[w] = worker[w] \/ WorkerOK(w)',
         \A t \in Tab : tab'[t] = tab[t] \/ TabOK(t)'
  PROVE  Inv'
<1>1. \A u \in Source : Same(u) \/ (Onward(u) /\ SourceInv(u)')
  BY DEF SourceInv
<1>2. QED
  BY <1>1, Assembled

-----------------------------------------------------------------------------
\* The uploader.

LEMMA CreateInv ==
  ASSUME Inv, NEW s \in Source, NEW p \in {"source_review", "visual_reference"}, Create(s, p)
  PROVE  Inv'
<1> DEFINE q == [source[s] EXCEPT !.state = "uploading", !.purpose = p]
<1> DEFINE a == [artifact[s] EXCEPT !.state = "reserved"]
<1> DEFINE j == [job[s] EXCEPT !["extract"] = Queued]
<1>1. /\ source[s].state = "none"
      /\ Rows(s, q, a, j, cand[s], object[s], late[s], uploader[s])
      /\ UNCHANGED <<worker, tab, legacy, portrait>> /\ UNCHANGED bounds
  BY Rewriting DEF Create, Rows
<1>2. /\ source[s] \in SourceRow /\ artifact[s] \in ArtifactRow /\ job[s] \in [Kind -> JobRow]
      /\ BytesOK(s) /\ GenerationOK(s) /\ CandOK(s) /\ JobOK(s)
  BY RowsOf
<1>3. /\ q \in SourceRow /\ q.state = "uploading" /\ q.gen = source[s].gen
      /\ q.safety = source[s].safety
  BY <1>2 DEF SourceRow
<1>4. a \in ArtifactRow /\ a.state = "reserved" /\ a.hashed = artifact[s].hashed
  BY <1>2 DEF ArtifactRow
<1>5. j \in [Kind -> JobRow] /\ j["extract"] = Queued /\ j["purge"] = job[s]["purge"]
  BY <1>2, RowTypes, Kinds
<1> HIDE DEF q, a, j
<1>6. RowsTyped(q, a, j, cand[s], object[s], late[s], uploader[s])
  BY <1>3, <1>4, <1>5, Kinds, RowTypes, RowsOf DEF RowsTyped, Late, Receiving
<1>7. RestTyped
  BY <1>1, TablesTyped, BoundsHold DEF RestTyped
<1>8. /\ TypeOK' /\ \A u \in Source \ {s} : Same(u)
      /\ source'[s] = q /\ artifact'[s] = a /\ job'[s] = j
      /\ cand'[s] = cand[s] /\ object'[s] = object[s] /\ late'[s] = late[s] /\ uploader'[s] = uploader[s]
  BY <1>1, <1>6, <1>7, Rewritten
<1>9. Onward(s)
  BY <1>1, <1>3, <1>8 DEF Onward, Withdrawn
<1>10. BytesOK(s)'
  BY <1>1, <1>2, <1>3, <1>4, <1>8 DEF BytesOK, Withdrawn
<1>11. GenerationOK(s)'
  BY <1>1, <1>2, <1>3, <1>5, <1>8 DEF GenerationOK, Withdrawn
<1>12. CandOK(s)'
  BY <1>1, <1>2, <1>3, <1>8 DEF CandOK
<1>13. JobOK(s)'
  BY <1>2, <1>5, <1>8, RowTypes, Kinds DEF JobOK, ClaimedOnlyRunning
<1>14. QED
  BY <1>1, <1>8, <1>9, <1>10, <1>11, <1>12, <1>13, Settled

LEMMA ReceiveExpiredInv ==
  ASSUME Inv, NEW s \in Source, ReceiveExpired(s)
  PROVE  Inv'
<1> DEFINE q == [source[s] EXCEPT !.state = "deleting", !.gen = 2]
<1>0. source[s].state = "uploading" /\ uploader[s] # "stored" /\ source[s].gen = 1
  BY RowsOf DEF ReceiveExpired, Receivable, Locked, GenerationOK, Withdrawn
<1>1. /\ Rows(s, q, artifact[s], job[s], cand[s], object[s], late[s], uploader[s])
      /\ UNCHANGED <<worker, tab, legacy, portrait>> /\ UNCHANGED bounds
  <2>1. source' = [source EXCEPT ![s] = q]
    <3>1. source' = [source EXCEPT ![s] =
                       [source[s] EXCEPT !.state = "deleting", !.gen = source[s].gen + 1]]
      BY TablesTyped DEF ReceiveExpired
    <3>2. source[s].gen + 1 = 2
      BY <1>0
    <3>3. QED
      BY <3>1, <3>2
  <2>2. QED
    BY <2>1, Rewriting DEF ReceiveExpired, Rows
<1>3. /\ q \in SourceRow /\ q.state = "deleting" /\ q.purpose = source[s].purpose
      /\ q.safety = source[s].safety
  <2>1. source[s] \in SourceRow /\ "deleting" \in Withdrawn
    BY RowsOf DEF Withdrawn
  <2>2. QED
    BY <2>1, RowWithdrawn
<1> HIDE DEF q
<1>4. RowsTyped(q, artifact[s], job[s], cand[s], object[s], late[s], uploader[s])
  BY <1>3, RowsOf DEF RowsTyped, Late, Receiving
<1>5. RestTyped
  BY <1>1, TablesTyped, BoundsHold DEF RestTyped
<1>6. /\ TypeOK' /\ \A u \in Source \ {s} : Same(u)
      /\ source'[s] = q /\ artifact'[s] = artifact[s] /\ job'[s] = job[s] /\ cand'[s] = cand[s]
      /\ object'[s] = object[s] /\ late'[s] = late[s] /\ uploader'[s] = uploader[s]
  BY <1>1, <1>4, <1>5, Rewritten
<1>7. Onward(s) /\ BytesOK(s)' /\ GenerationOK(s)'
  BY <1>0, <1>3, <1>6, RowsOf DEF Onward, BytesOK, GenerationOK, Withdrawn, Receiving
<1>8. CandOK(s)' /\ JobOK(s)'
  BY <1>0, <1>6, RowsOf DEF CandOK, JobOK
<1>9. QED
  BY <1>1, <1>6, <1>7, <1>8, Settled

LEMMA ReceivePutInv ==
  ASSUME Inv, NEW s \in Source, ReceivePut(s)
  PROVE  Inv'
<1>1. /\ source[s].state = "uploading" /\ legacy = "active"
      /\ Rows(s, source[s], artifact[s], job[s], cand[s], TRUE, late[s], "stored")
      /\ UNCHANGED <<worker, tab, legacy, portrait>> /\ UNCHANGED bounds
  BY Rewriting DEF ReceivePut, Receivable, Rows, rows
<1>2. RowsTyped(source[s], artifact[s], job[s], cand[s], TRUE, late[s], "stored")
  BY RowsOf DEF RowsTyped, Late, Receiving
<1>3. RestTyped
  BY <1>1, TablesTyped, BoundsHold DEF RestTyped
<1>4. /\ TypeOK' /\ \A u \in Source \ {s} : Same(u)
      /\ source'[s] = source[s] /\ artifact'[s] = artifact[s] /\ job'[s] = job[s] /\ cand'[s] = cand[s]
      /\ object'[s] = TRUE /\ late'[s] = late[s] /\ uploader'[s] = "stored"
  BY <1>1, <1>2, <1>3, Rewritten
<1>5. Onward(s) /\ BytesOK(s)' /\ GenerationOK(s)'
  BY <1>1, <1>4, RowsOf DEF Onward, BytesOK, GenerationOK, Withdrawn, Reviewable
<1>6. CandOK(s)' /\ JobOK(s)'
  BY <1>4, RowsOf DEF CandOK, JobOK
<1>7. QED
  BY <1>1, <1>4, <1>5, <1>6, Settled

LEMMA ReceivePutLostInv ==
  ASSUME Inv, NEW s \in Source, ReceivePutLost(s)
  PROVE  Inv'
<1>1. /\ source[s].state = "uploading"
      /\ Rows(s, source[s], artifact[s], job[s], cand[s], object[s], "lost", uploader[s])
      /\ UNCHANGED <<worker, tab, legacy, portrait>> /\ Fault
  BY Rewriting DEF ReceivePutLost, Receivable, Rows, rows
<1>2. RowsTyped(source[s], artifact[s], job[s], cand[s], object[s], "lost", uploader[s])
  BY RowsOf DEF RowsTyped, Late, Receiving
<1>3. RestTyped
  BY <1>1, TablesTyped, BoundsHold DEF RestTyped
<1>4. /\ TypeOK' /\ \A u \in Source \ {s} : Same(u)
      /\ source'[s] = source[s] /\ artifact'[s] = artifact[s] /\ job'[s] = job[s] /\ cand'[s] = cand[s]
      /\ object'[s] = object[s] /\ late'[s] = "lost" /\ uploader'[s] = uploader[s]
  BY <1>1, <1>2, <1>3, Rewritten
<1>5. Onward(s) /\ BytesOK(s)' /\ GenerationOK(s)'
  BY <1>1, <1>4, RowsOf DEF Onward, BytesOK, GenerationOK, Withdrawn, Reviewable
<1>6. CandOK(s)' /\ JobOK(s)'
  BY <1>4, RowsOf DEF CandOK, JobOK
<1>7. QED
  BY <1>1, <1>4, <1>5, <1>6, Settled

LEMMA PutLandsInv ==
  ASSUME Inv, NEW s \in Source, PutLands(s)
  PROVE  Inv'
<1> DEFINE o == TRUE
<1> DEFINE l == "landed"
<1>1. /\ late[s] = "lost"
      /\ Rows(s, source[s], artifact[s], job[s], cand[s], o, l, uploader[s])
      /\ UNCHANGED <<worker, tab, legacy, portrait>> /\ UNCHANGED bounds
  BY Rewriting DEF PutLands, Rows, rows
<1>2. RowsTyped(source[s], artifact[s], job[s], cand[s], o, l, uploader[s])
  BY RowsOf DEF RowsTyped, Late, Receiving
<1>l. l = "landed"
  OBVIOUS
<1> HIDE DEF o, l
<1>3. RestTyped
  BY <1>1, TablesTyped, BoundsHold DEF RestTyped
<1>4. /\ TypeOK' /\ \A u \in Source \ {s} : Same(u)
      /\ source'[s] = source[s] /\ artifact'[s] = artifact[s] /\ job'[s] = job[s] /\ cand'[s] = cand[s]
      /\ object'[s] = o /\ late'[s] = l /\ uploader'[s] = uploader[s]
  BY <1>1, <1>2, <1>3, Rewritten
<1>5. Onward(s) /\ BytesOK(s)' /\ GenerationOK(s)'
  BY <1>1, <1>4, <1>l, RowsOf DEF Onward, BytesOK, GenerationOK, Withdrawn, Reviewable
<1>6. CandOK(s)' /\ JobOK(s)'
  BY <1>4, RowsOf DEF CandOK, JobOK
<1>7. QED
  BY <1>1, <1>4, <1>5, <1>6, Settled

LEMMA ReceiveCommitInv ==
  ASSUME Inv, NEW s \in Source, ReceiveCommit(s)
  PROVE  Inv'
<1> DEFINE safety == IF Reviewable(s) THEN "clean" ELSE "pending"
<1> DEFINE q == [source[s] EXCEPT !.state = "queued", !.safety = safety]
<1> DEFINE a == [state |-> "available", hashed |-> TRUE]
<1> DEFINE j == [job[s] EXCEPT !["extract"].due = TRUE]
<1>1. /\ uploader[s] = "stored"
      /\ Rows(s, q, a, j, cand[s], object[s], late[s], "idle")
      /\ UNCHANGED <<worker, tab, legacy, portrait>> /\ UNCHANGED bounds
  BY Rewriting DEF ReceiveCommit, Rows
<1>2. source[s].state = "uploading"
  BY <1>1, RowsOf DEF BytesOK
<1>3. safety \in {"clean", "pending"}
  OBVIOUS
<1> HIDE DEF safety
<1>4. /\ q \in SourceRow /\ q.state = "queued" /\ q.purpose = source[s].purpose
      /\ q.safety = safety /\ q.gen = source[s].gen
  <2>1. source[s] \in SourceRow
    BY RowsOf
  <2>2. QED
    BY <1>3, <2>1 DEF SourceRow
<1>5. a \in ArtifactRow /\ a.state = "available" /\ a.hashed
  BY DEF ArtifactRow
<1>6. /\ j \in [Kind -> JobRow] /\ j["purge"] = job[s]["purge"]
      /\ \A k \in Kind : /\ j[k].state = job[s][k].state /\ j[k].live = job[s][k].live
                         /\ j[k].token = job[s][k].token
  <2> DEFINE e == [job[s]["extract"] EXCEPT !.due = TRUE]
  <2>1. j = [job[s] EXCEPT !["extract"] = e] /\ job[s] \in [Kind -> JobRow] /\ job[s]["extract"] \in JobRow
    BY RowsOf, Kinds
  <2>2. /\ e \in JobRow /\ e.state = job[s]["extract"].state /\ e.live = job[s]["extract"].live
        /\ e.token = job[s]["extract"].token
    BY <2>1 DEF JobRow
  <2> HIDE DEF e
  <2>3. QED
    BY <2>1, <2>2, Kinds
<1> HIDE DEF q, a, j
<1>7. RowsTyped(q, a, j, cand[s], object[s], late[s], "idle")
  BY <1>4, <1>5, <1>6, RowsOf DEF RowsTyped, Late, Receiving
<1>8. RestTyped
  BY <1>1, TablesTyped, BoundsHold DEF RestTyped
<1>9. /\ TypeOK' /\ \A u \in Source \ {s} : Same(u)
      /\ source'[s] = q /\ artifact'[s] = a /\ job'[s] = j /\ cand'[s] = cand[s]
      /\ object'[s] = object[s] /\ late'[s] = late[s] /\ uploader'[s] = "idle"
  BY <1>1, <1>7, <1>8, Rewritten
<1>10. Onward(s) /\ BytesOK(s)' /\ GenerationOK(s)'
  BY <1>2, <1>4, <1>5, <1>6, <1>9, RowsOf
  DEF Onward, BytesOK, GenerationOK, Withdrawn, Reviewable
<1>11. CandOK(s)'
  BY <1>2, <1>4, <1>9, RowsOf DEF CandOK, Withdrawn
<1>12. JobOK(s)'
  BY <1>6, <1>9, RowsOf DEF JobOK, ClaimedOnlyRunning
<1>13. QED
  BY <1>1, <1>9, <1>10, <1>11, <1>12, Settled

LEMMA ReceiveFailsInv ==
  ASSUME Inv, NEW s \in Source, ReceiveFails(s)
  PROVE  Inv'
<1>1. PICK stays \in BOOLEAN : object' = [object EXCEPT ![s] = stays]
  BY DEF ReceiveFails
<1>2. /\ uploader[s] = "stored"
      /\ Rows(s, source[s], artifact[s], job[s], cand[s], stays, late[s], "idle")
      /\ UNCHANGED <<worker, tab, legacy, portrait>> /\ Fault
  BY <1>1, Rewriting DEF ReceiveFails, Rows, rows
<1>3. RowsTyped(source[s], artifact[s], job[s], cand[s], stays, late[s], "idle")
  BY RowsOf DEF RowsTyped, Late, Receiving
<1>4. RestTyped
  BY <1>2, TablesTyped, BoundsHold DEF RestTyped
<1>5. /\ TypeOK' /\ \A u \in Source \ {s} : Same(u)
      /\ source'[s] = source[s] /\ artifact'[s] = artifact[s] /\ job'[s] = job[s] /\ cand'[s] = cand[s]
      /\ object'[s] = stays /\ late'[s] = late[s] /\ uploader'[s] = "idle"
  BY <1>2, <1>3, <1>4, Rewritten
<1>6. source[s].state = "uploading"
  BY <1>2, RowsOf DEF BytesOK
<1>7. Onward(s) /\ BytesOK(s)' /\ GenerationOK(s)'
  BY <1>5, <1>6, RowsOf DEF Onward, BytesOK, GenerationOK, Withdrawn, Reviewable
<1>8. CandOK(s)' /\ JobOK(s)'
  BY <1>5, RowsOf DEF CandOK, JobOK
<1>9. QED
  BY <1>2, <1>5, <1>7, <1>8, Settled

LEMMA ExpireInv ==
  ASSUME Inv, NEW s \in Source, Expire(s)
  PROVE  Inv'
<1> DEFINE q == [source[s] EXCEPT !.expired = TRUE]
<1>1. /\ source[s].state = "uploading"
      /\ Rows(s, q, artifact[s], job[s], cand[s], object[s], late[s], uploader[s])
      /\ UNCHANGED <<worker, tab, legacy, portrait>> /\ Fault
  BY Rewriting DEF Expire, Rows
<1>2. /\ q \in SourceRow /\ q.state = source[s].state /\ q.purpose = source[s].purpose
      /\ q.safety = source[s].safety /\ q.gen = source[s].gen
  <2>1. source[s] \in SourceRow
    BY RowsOf
  <2>2. QED
    BY <2>1 DEF SourceRow
<1> HIDE DEF q
<1>3. RowsTyped(q, artifact[s], job[s], cand[s], object[s], late[s], uploader[s])
  BY <1>2, RowsOf DEF RowsTyped, Late, Receiving
<1>4. RestTyped
  BY <1>1, TablesTyped, BoundsHold DEF RestTyped
<1>5. /\ TypeOK' /\ \A u \in Source \ {s} : Same(u)
      /\ source'[s] = q /\ artifact'[s] = artifact[s] /\ job'[s] = job[s] /\ cand'[s] = cand[s]
      /\ object'[s] = object[s] /\ late'[s] = late[s] /\ uploader'[s] = uploader[s]
  BY <1>1, <1>3, <1>4, Rewritten
<1>6. Onward(s) /\ BytesOK(s)' /\ GenerationOK(s)'
  BY <1>1, <1>2, <1>5, RowsOf DEF Onward, BytesOK, GenerationOK, Withdrawn, Reviewable
<1>7. CandOK(s)' /\ JobOK(s)'
  BY <1>2, <1>5, RowsOf DEF CandOK, JobOK
<1>8. QED
  BY <1>1, <1>5, <1>6, <1>7, Settled

-----------------------------------------------------------------------------
\* The owner: deletion and retry of a source.

\* What a redaction leaves: a decision and its memory, nothing private.
LEMMA RedactedIs ==
  ASSUME NEW c \in CandRow, DecisionOK(c)
  PROVE  /\ Redacted(c) \in CandRow /\ DecisionOK(Redacted(c)) /\ Private(Redacted(c))
         /\ c.state = "none" => Redacted(c).state = "none"
         /\ c.state \in {"preserved", "skipped"} => Redacted(c).state = c.state
         /\ Redacted(c).memory = c.memory /\ Redacted(c).receipt = c.receipt
<1> DEFINE st == IF c.state = "pending" THEN "cancelled" ELSE c.state
<1> DEFINE ln == IF c.link = "approved" THEN "unavailable" ELSE c.link
<1> DEFINE r == [c EXCEPT !.state = st, !.draft = 0, !.text = FALSE, !.link = ln]
<1>1. Redacted(c) = r
  BY DEF Redacted
<1>2. /\ st \in {"none", "preserved", "skipped", "cancelled"}
      /\ ln \in {"none", "unavailable"} /\ 0 \in 0..MaxVersion
      /\ c.state = "none" => st = "none"
      /\ st \in {"none", "preserved", "skipped"} => st = c.state
      /\ c.state \in {"preserved", "skipped"} => st = c.state
  BY MediaAssumption DEF CandRow
<1> HIDE DEF st, ln
<1>3. /\ r \in CandRow /\ r.state = st /\ r.draft = 0 /\ r.text = FALSE /\ r.link = ln
      /\ r.memory = c.memory /\ r.receipt = c.receipt /\ r.version = c.version
  BY <1>2 DEF CandRow
<1> HIDE DEF r
<1>4. DecisionOK(r) /\ Private(r)
  BY <1>2, <1>3 DEF DecisionOK, Private
<1>5. QED
  BY <1>1, <1>2, <1>3, <1>4

LEMMA CancelledIs ==
  ASSUME NEW x \in JobRow, ClaimedOnlyRunning(x), x.live => x.token # None
  PROVE  /\ Cancelled(x) \in JobRow /\ ClaimedOnlyRunning(Cancelled(x))
         /\ Cancelled(x).live => Cancelled(x).token # None
<1> DEFINE y == [NoJob EXCEPT !.state = "cancelled"]
<1>1. y \in JobRow /\ ~y.live /\ y.token = None
  BY RowTypes DEF NoJob, JobRow
<1>2. Cancelled(x) = IF x.state \in Live THEN y ELSE x
  BY DEF Cancelled
<1> HIDE DEF y
<1>3. QED
  BY <1>1, <1>2 DEF ClaimedOnlyRunning

\* The jobs of a source that is withdrawn.
Withdrawing(f) == [extract |-> Cancelled(f["extract"]), purge |-> Queued]

LEMMA WithdrawingIs ==
  ASSUME Inv, NEW s \in Source
  PROVE  LET j == Withdrawing(job[s])
         IN  /\ j \in [Kind -> JobRow] /\ \A k \in Kind : ClaimedOnlyRunning(j[k])
             /\ \A k \in Kind : j[k].live => j[k].token # None
<1> DEFINE x == Cancelled(job[s]["extract"])
<1> DEFINE j == [extract |-> x, purge |-> Queued]
<1>1. x \in JobRow /\ ClaimedOnlyRunning(x) /\ (x.live => x.token # None)
  BY RowsOf, Kinds, CancelledIs DEF JobOK
<1> HIDE DEF x
<1>2. j["extract"] = x /\ j["purge"] = Queued /\ j \in [Kind -> JobRow]
  BY <1>1, RowTypes DEF Kind
<1>3. Withdrawing(job[s]) = j
  BY DEF x, Withdrawing
<1> HIDE DEF j
<1>4. QED
  BY <1>1, <1>2, <1>3, Kinds, RowTypes DEF ClaimedOnlyRunning

LEMMA DeleteSourceInv ==
  ASSUME Inv, NEW s \in Source, DeleteSource(s)
  PROVE  Inv'
<1> DEFINE q == [source[s] EXCEPT !.state = "deleting", !.gen = 2]
<1> DEFINE j == Withdrawing(job[s])
<1> DEFINE c == Redacted(cand[s])
<1>1. /\ source[s].state \notin {"none"} \cup Withdrawn /\ uploader[s] # "stored"
      /\ source[s].gen = 1
  BY RowsOf DEF DeleteSource, Locked, GenerationOK
<1>2. /\ source' = [source EXCEPT ![s] = q] /\ job' = [job EXCEPT ![s] = j]
      /\ cand' = [cand EXCEPT ![s] = c]
  <2>1. source' = [source EXCEPT ![s] =
                     [source[s] EXCEPT !.state = "deleting", !.gen = source[s].gen + 1]]
    BY TablesTyped DEF DeleteSource
  <2>2. source[s].gen + 1 = 2
    BY <1>1
  <2>3. job' = [job EXCEPT ![s] = j] /\ cand' = [cand EXCEPT ![s] = c]
    BY DEF DeleteSource, Withdrawing
  <2>4. QED
    BY <2>1, <2>2, <2>3
<1>3. /\ q \in SourceRow /\ q.state = "deleting" /\ q.purpose = source[s].purpose
      /\ q.safety = source[s].safety
  <2>1. source[s] \in SourceRow /\ "deleting" \in Withdrawn
    BY RowsOf DEF Withdrawn
  <2>2. QED
    BY <2>1, RowWithdrawn
<1>4. /\ j \in [Kind -> JobRow] /\ \A k \in Kind : ClaimedOnlyRunning(j[k])
      /\ \A k \in Kind : j[k].live => j[k].token # None
  BY WithdrawingIs
<1>5. c \in CandRow /\ DecisionOK(c) /\ Private(c)
  BY RowsOf, RedactedIs DEF CandOK
<1> HIDE DEF q, j, c
<1>6. /\ Rows(s, q, artifact[s], j, c, object[s], late[s], uploader[s])
      /\ UNCHANGED <<worker, tab, legacy, portrait>> /\ UNCHANGED bounds
  BY <1>2, Rewriting DEF DeleteSource, Rows
<1>7. RowsTyped(q, artifact[s], j, c, object[s], late[s], uploader[s])
  BY <1>3, <1>4, <1>5, RowsOf DEF RowsTyped, Late, Receiving
<1>8. RestTyped
  BY <1>6, TablesTyped, BoundsHold DEF RestTyped
<1>9. /\ TypeOK' /\ \A u \in Source \ {s} : Same(u)
      /\ source'[s] = q /\ artifact'[s] = artifact[s] /\ job'[s] = j /\ cand'[s] = c
      /\ object'[s] = object[s] /\ late'[s] = late[s] /\ uploader'[s] = uploader[s]
  BY <1>6, <1>7, <1>8, Rewritten
<1>10. Onward(s) /\ BytesOK(s)' /\ GenerationOK(s)'
  BY <1>1, <1>3, <1>9, RowsOf DEF Onward, BytesOK, GenerationOK, Withdrawn, Receiving
<1>11. CandOK(s)' /\ JobOK(s)'
  BY <1>3, <1>4, <1>5, <1>9 DEF CandOK, JobOK
<1>12. QED
  BY <1>6, <1>9, <1>10, <1>11, Settled

LEMMA RetryInv ==
  ASSUME Inv, NEW s \in Source, Retry(s)
  PROVE  Inv'
<1> DEFINE q == [source[s] EXCEPT !.state = "queued"]
<1> DEFINE j == [job[s] EXCEPT !["extract"] = Queued]
<1>1. source[s].state \in {"failed", "partially_ready"} /\ uploader[s] # "stored"
  BY DEF Retry, Locked
<1>2. /\ Rows(s, q, artifact[s], j, cand[s], object[s], late[s], uploader[s])
      /\ UNCHANGED <<worker, tab, legacy, portrait>>
  BY Rewriting DEF Retry, Rows
<1>3. /\ q \in SourceRow /\ q.state = "queued" /\ q.purpose = source[s].purpose
      /\ q.safety = source[s].safety /\ q.gen = source[s].gen
  BY RowsOf DEF SourceRow
<1>4. j \in [Kind -> JobRow] /\ j["extract"] = Queued /\ j["purge"] = job[s]["purge"]
  BY RowsOf, RowTypes, Kinds
<1> HIDE DEF q, j
<1>5. RowsTyped(q, artifact[s], j, cand[s], object[s], late[s], uploader[s])
  BY <1>3, <1>4, Kinds, RowTypes, RowsOf DEF RowsTyped, Late, Receiving
<1>6. Bounded
  BY TablesTyped, MediaAssumption DEF Retry, Bounded
<1>7. RestTyped
  BY <1>2, <1>6, TablesTyped DEF RestTyped
<1>8. /\ TypeOK' /\ \A u \in Source \ {s} : Same(u)
      /\ source'[s] = q /\ artifact'[s] = artifact[s] /\ job'[s] = j /\ cand'[s] = cand[s]
      /\ object'[s] = object[s] /\ late'[s] = late[s] /\ uploader'[s] = uploader[s]
  BY <1>2, <1>5, <1>7, Rewritten
<1>9. Onward(s) /\ BytesOK(s)' /\ GenerationOK(s)'
  BY <1>1, <1>3, <1>4, <1>8, RowsOf
  DEF Onward, BytesOK, GenerationOK, Withdrawn, Receiving, Reviewable
<1>10. CandOK(s)'
  BY <1>3, <1>8, RowsOf DEF CandOK, Withdrawn
<1>11. JobOK(s)'
  BY <1>4, <1>8, RowsOf, RowTypes, Kinds DEF JobOK, ClaimedOnlyRunning
<1>12. QED
  BY <1>2, <1>8, <1>9, <1>10, <1>11, Settled

-----------------------------------------------------------------------------
\* The media worker.

\* A worker takes the claim x, the others keep theirs.
LEMMA WorkerMoves ==
  ASSUME Inv, NEW w \in Worker, NEW x \in Claims, worker' = [worker EXCEPT ![w] = x]
  PROVE  /\ worker' \in [Worker -> Claims] /\ worker'[w] = x
         /\ \A v \in Worker \ {w} : worker'[v] = worker[v]
BY TablesTyped

\* A worker that gives up its claim has nothing to remember.
LEMMA WorkerRests ==
  ASSUME Inv, NEW w \in Worker, worker' = [worker EXCEPT ![w] = Idle]
  PROVE  /\ worker' \in [Worker -> Claims]
         /\ \A v \in Worker : worker'[v] = worker[v] \/ WorkerOK(v)'
<1>1. worker' \in [Worker -> Claims] /\ worker'[w] = Idle /\ \A v \in Worker \ {w} : worker'[v] = worker[v]
  BY WorkerMoves, RowTypes
<1>2. WorkerOK(w)'
  BY <1>1, RowTypes, MediaAssumption DEF WorkerOK, Working
<1>3. QED
  BY <1>1, <1>2

\* What a worker knows, read from the claim it holds.
LEMMA ClaimOf ==
  ASSUME Inv, NEW w \in Worker, worker[w].at \in Working
  PROVE  /\ worker[w] \in Claims /\ worker[w].src \in Source /\ worker[w].kind \in Kind
         /\ source[worker[w].src].state # "none" /\ WorkerOK(w)
BY DEF Inv, WorkerOK, TypeOK

\* Only workers and tabs move.
LEMMA RowsStay ==
  ASSUME Inv, UNCHANGED rows, UNCHANGED <<object, late, uploader, legacy>>, RestTyped,
         \A w \in Worker : worker'[w] = worker[w] \/ WorkerOK(w)',
         \A t \in Tab : tab'[t] = tab[t] \/ TabOK(t)'
  PROVE  Inv'
<1>1. TypeOK'
  BY DEF Inv, TypeOK, rows, RestTyped, Bounded
<1>2. \A s \in Source : Same(s)
  BY DEF Same, rows
<1>3. QED
  BY <1>1, <1>2, Assembled

\* A row of the jobs is written, for a job that was there before or is an extraction.
LEMMA JobsMove ==
  ASSUME Inv, NEW s \in Source, NEW k \in Kind, NEW x \in JobRow,
         job' = [job EXCEPT ![s][k] = x],
         ClaimedOnlyRunning(x), x.live => x.token # None,
         k = "extract" \/ job[s][k].state # "none",
         UNCHANGED <<source, artifact, cand, object, late, uploader, legacy>>, RestTyped,
         \A w \in Worker : worker'[w] = worker[w] \/ WorkerOK(w)',
         \A t \in Tab : tab'[t] = tab[t] \/ TabOK(t)'
  PROVE  Inv'
<1> DEFINE j == [job[s] EXCEPT ![k] = x]
<1>1. job' = [job EXCEPT ![s] = j]
  OBVIOUS
<1>2. j \in [Kind -> JobRow] /\ j[k] = x /\ \A l \in Kind \ {k} : j[l] = job[s][l]
  BY RowsOf
<1> HIDE DEF j
<1>3. Rows(s, source[s], artifact[s], j, cand[s], object[s], late[s], uploader[s])
  BY <1>1, Rewriting DEF Rows
<1>4. RowsTyped(source[s], artifact[s], j, cand[s], object[s], late[s], uploader[s])
  BY <1>2, RowsOf DEF RowsTyped, Late, Receiving
<1>5. /\ TypeOK' /\ \A u \in Source \ {s} : Same(u)
      /\ source'[s] = source[s] /\ artifact'[s] = artifact[s] /\ job'[s] = j /\ cand'[s] = cand[s]
      /\ object'[s] = object[s] /\ late'[s] = late[s] /\ uploader'[s] = uploader[s]
  BY <1>3, <1>4, Rewritten
<1>6. Onward(s) /\ BytesOK(s)'
  BY <1>5, RowsOf DEF Onward, BytesOK, Reviewable
<1>7. GenerationOK(s)'
  BY <1>2, <1>5, RowsOf, Kinds DEF GenerationOK
<1>8. CandOK(s)'
  BY <1>5, RowsOf DEF CandOK
<1>9. JobOK(s)'
  BY <1>2, <1>5, RowsOf DEF JobOK
<1>10. QED
  BY <1>5, <1>6, <1>7, <1>8, <1>9, Settled

LEMMA ClaimInv ==
  ASSUME Inv, NEW w \in Worker, NEW s \in Source, NEW k \in Kind, Claim(w, s, k)
  PROVE  Inv'
<1> DEFINE x == [state |-> "running", token |-> w, live |-> TRUE, due |-> TRUE]
<1> DEFINE j == [job[s] EXCEPT ![k] = x]
<1> DEFINE claim == [at |-> "claimed", src |-> s, kind |-> k]
<1> DEFINE q == IF k = "extract" /\ source[s].gen = 1 /\ source[s].state = "queued"
                  THEN [source[s] EXCEPT !.state = "processing"] ELSE source[s]
<1>1. /\ source[s].state # "none" /\ job[s][k].state # "none"
      /\ source' = [source EXCEPT ![s] = q]
      /\ job' = [job EXCEPT ![s] = j] /\ worker' = [worker EXCEPT ![w] = claim]
      /\ UNCHANGED <<tab, legacy, portrait>> /\ UNCHANGED bounds
  BY Rewriting DEF Claim, Claimable, Live
<1>2. /\ q \in SourceRow /\ q.purpose = source[s].purpose
      /\ q.safety = source[s].safety /\ q.gen = source[s].gen
      /\ q.state = source[s].state \/ (q.state = "processing" /\ source[s].state = "queued")
  <2>1. source[s] \in SourceRow
    BY RowsOf
  <2>2. CASE q = source[s]
    BY <2>1, <2>2
  <2>3. CASE q # source[s]
    <3>1. q = [source[s] EXCEPT !.state = "processing"] /\ source[s].state = "queued"
      BY <2>3
    <3>2. QED
      BY <2>1, <3>1 DEF SourceRow
  <2>4. QED
    BY <2>2, <2>3
<1>3. x \in JobRow /\ x.state = "running" /\ x.token = w /\ w # None
  BY MediaAssumption DEF JobRow, Live
<1> HIDE DEF x, q
<1>4. j \in [Kind -> JobRow] /\ j[k] = x /\ \A l \in Kind \ {k} : j[l] = job[s][l]
  BY <1>3, RowsOf
<1>5. claim \in Claims /\ claim.at = "claimed" /\ claim.src = s /\ claim.kind = k
  BY DEF Claims
<1> HIDE DEF j, claim
<1>6. Rows(s, q, artifact[s], j, cand[s], object[s], late[s], uploader[s])
  BY <1>1, Rewriting DEF Claim, Rows
<1>7. RowsTyped(q, artifact[s], j, cand[s], object[s], late[s], uploader[s])
  BY <1>2, <1>3, <1>4, RowsOf DEF RowsTyped, Late, Receiving
<1>8. worker' \in [Worker -> Claims] /\ worker'[w] = claim /\ \A v \in Worker \ {w} : worker'[v] = worker[v]
  BY <1>1, <1>5, WorkerMoves
<1>9. RestTyped
  BY <1>1, <1>8, TablesTyped, BoundsHold DEF RestTyped
<1>10. /\ TypeOK' /\ \A u \in Source \ {s} : Same(u)
       /\ source'[s] = q /\ artifact'[s] = artifact[s] /\ job'[s] = j /\ cand'[s] = cand[s]
       /\ object'[s] = object[s] /\ late'[s] = late[s] /\ uploader'[s] = uploader[s]
  BY <1>6, <1>7, <1>9, Rewritten
<1>11. Onward(s)
  BY <1>2, <1>10 DEF Onward, Withdrawn
<1>12. BytesOK(s)'
  <2>1. uploader[s] # "stored"
    BY RowsOf DEF Claim, Locked
  <2>2. BytesOK(s) /\ source'[s].purpose = source[s].purpose /\ source'[s].safety = source[s].safety
    BY <1>2, <1>10, RowsOf
  <2>3. CASE q.state = source[s].state
    BY <1>10, <2>1, <2>2, <2>3 DEF BytesOK, Reviewable
  <2>4. CASE q.state = "processing" /\ source[s].state = "queued"
    BY <1>10, <2>1, <2>2, <2>4 DEF BytesOK, Withdrawn, Reviewable
  <2>5. QED
    BY <1>2, <2>3, <2>4
<1>13. GenerationOK(s)'
  BY <1>1, <1>2, <1>4, <1>10, RowsOf, Kinds DEF GenerationOK, Withdrawn
<1>14. CandOK(s)'
  BY <1>2, <1>10, RowsOf DEF CandOK, Withdrawn
<1>15. JobOK(s)'
  BY <1>3, <1>4, <1>10, RowsOf DEF JobOK, ClaimedOnlyRunning
<1>16. WorkerOK(w)'
  <2>1. k = "purge" => source[s].state \in Withdrawn
    BY <1>1, RowsOf DEF GenerationOK
  <2>2. k = "purge" => q.state \in Withdrawn
    BY <1>2, <2>1 DEF Withdrawn
  <2>3. q.state # "none"
    BY <1>1, <1>2
  <2>4. QED
    BY <1>5, <1>8, <1>10, <2>2, <2>3 DEF WorkerOK, Working
<1>17. QED
  BY <1>1, <1>8, <1>10, <1>11, <1>12, <1>13, <1>14, <1>15, <1>16, Settled

\* A worker goes on with its claim.
LEMMA WorkerGoesOn ==
  ASSUME Inv, NEW w \in Worker, NEW v \in {"opened", "failing", "deleted"},
         worker' = [worker EXCEPT ![w].at = v]
  PROVE  /\ worker' \in [Worker -> Claims] /\ \A u \in Worker \ {w} : worker'[u] = worker[u]
         /\ worker'[w].at = v /\ worker'[w].src = worker[w].src /\ worker'[w].kind = worker[w].kind
<1> DEFINE x == [worker[w] EXCEPT !.at = v]
<1>1. worker[w] \in Claims
  BY TablesTyped
<1>2. x \in Claims /\ x.at = v /\ x.src = worker[w].src /\ x.kind = worker[w].kind
  BY <1>1 DEF Claims
<1>3. worker' = [worker EXCEPT ![w] = x]
  OBVIOUS
<1> HIDE DEF x
<1>4. QED
  BY <1>2, <1>3, WorkerMoves

LEMMA OpenOriginalInv ==
  ASSUME Inv, NEW w \in Worker, OpenOriginal(w)
  PROVE  Inv'
<1> DEFINE s == worker[w].src
<1>1. /\ worker[w].at = "claimed" /\ worker[w].kind = "extract" /\ ~AwaitsBytes(s)
      /\ UNCHANGED rows /\ UNCHANGED <<object, late, uploader, tab, legacy, portrait>>
      /\ UNCHANGED bounds
  BY DEF OpenOriginal
<1>2. PICK v \in {"opened", "failing"} : worker' = [worker EXCEPT ![w].at = v]
  BY DEF OpenOriginal
<1>3. worker[w].src \in Source /\ source[worker[w].src].state # "none"
  BY <1>1, ClaimOf DEF Working
<1>4. /\ worker' \in [Worker -> Claims] /\ \A u \in Worker \ {w} : worker'[u] = worker[u]
      /\ worker'[w].at = v /\ worker'[w].src = worker[w].src /\ worker'[w].kind = "extract"
  BY <1>1, <1>2, WorkerGoesOn
<1>5. WorkerOK(w)'
  BY <1>1, <1>3, <1>4, Kinds DEF WorkerOK, Working, AwaitsBytes, Reviewable, rows
<1>6. RestTyped
  BY <1>1, <1>4, TablesTyped, BoundsHold DEF RestTyped
<1>7. QED
  BY <1>1, <1>4, <1>5, <1>6, RowsStay

LEMMA RefuseInv ==
  ASSUME Inv, NEW w \in Worker, Refuse(w)
  PROVE  Inv'
<1>1. /\ worker[w].at = "opened" /\ worker' = [worker EXCEPT ![w].at = "failing"]
      /\ UNCHANGED rows /\ UNCHANGED <<object, late, uploader, tab, legacy, portrait>> /\ Fault
  BY DEF Refuse
<1>2. worker[w].src \in Source /\ source[worker[w].src].state # "none" /\ WorkerOK(w)
  BY <1>1, ClaimOf DEF Working
<1>3. /\ worker' \in [Worker -> Claims] /\ \A u \in Worker \ {w} : worker'[u] = worker[u]
      /\ worker'[w].at = "failing" /\ worker'[w].src = worker[w].src
      /\ worker'[w].kind = worker[w].kind
  BY <1>1, WorkerGoesOn
<1>4. WorkerOK(w)'
  BY <1>1, <1>2, <1>3 DEF WorkerOK, Working, Reviewable, rows
<1>5. RestTyped
  BY <1>1, <1>3, TablesTyped, BoundsHold DEF RestTyped
<1>6. QED
  BY <1>1, <1>3, <1>4, <1>5, RowsStay

\* A claim that ends: it is stale, or its worker dies.
LEMMA StaleInv ==
  ASSUME Inv, NEW w \in Worker, Stale(w) \/ Crash(w)
  PROVE  Inv'
<1>1. /\ worker' = [worker EXCEPT ![w] = Idle]
      /\ UNCHANGED rows /\ UNCHANGED <<object, late, uploader, tab, legacy, portrait>>
      /\ UNCHANGED bounds \/ Fault
  BY DEF Stale, Crash
<1>2. /\ worker' \in [Worker -> Claims]
      /\ \A v \in Worker : worker'[v] = worker[v] \/ WorkerOK(v)'
  BY <1>1, WorkerRests
<1>3. RestTyped
  BY <1>1, <1>2, TablesTyped, BoundsHold DEF RestTyped
<1>4. QED
  BY <1>1, <1>2, <1>3, RowsStay

\* A settled or waiting job has no claim.
LEMMA EndedJob ==
  ASSUME NEW st \in {"retry_wait", "succeeded", "partial", "failed"}
  PROVE  LET x == [NoJob EXCEPT !.state = st]
         IN  x \in JobRow /\ x.state = st /\ ClaimedOnlyRunning(x) /\ ~x.live
BY RowTypes DEF NoJob, JobRow, Live, ClaimedOnlyRunning

LEMMA AwaitUploadInv ==
  ASSUME Inv, NEW w \in Worker, AwaitUpload(w)
  PROVE  Inv'
<1> DEFINE s == worker[w].src
<1> DEFINE x == [NoJob EXCEPT !.state = "retry_wait"]
<1>1. /\ worker[w].at = "claimed"
      /\ job' = [job EXCEPT ![s]["extract"] = x] /\ worker' = [worker EXCEPT ![w] = Idle]
      /\ UNCHANGED <<source, artifact, cand, object, late, uploader, tab, legacy, portrait>>
      /\ UNCHANGED bounds
  BY DEF AwaitUpload
<1>2. s \in Source
  BY <1>1, ClaimOf DEF Working
<1>3. x \in JobRow /\ ClaimedOnlyRunning(x) /\ ~x.live
  BY EndedJob
<1> HIDE DEF s, x
<1>4. /\ worker' \in [Worker -> Claims]
      /\ \A v \in Worker : worker'[v] = worker[v] \/ WorkerOK(v)'
  BY <1>1, WorkerRests
<1>5. RestTyped
  BY <1>1, <1>4, TablesTyped, BoundsHold DEF RestTyped
<1>6. QED
  BY <1>1, <1>2, <1>3, <1>4, <1>5, Kinds, JobsMove

LEMMA PurgeObjectFailsInv ==
  ASSUME Inv, NEW w \in Worker, PurgeObjectFails(w)
  PROVE  Inv'
<1> DEFINE s == worker[w].src
<1> DEFINE x == [NoJob EXCEPT !.state = "retry_wait"]
<1>1. /\ worker[w].at = "claimed" /\ job[s]["purge"].token = w
      /\ job' = [job EXCEPT ![s]["purge"] = x] /\ worker' = [worker EXCEPT ![w] = Idle]
      /\ UNCHANGED <<source, artifact, cand, object, late, uploader, tab, legacy, portrait>>
      /\ Fault
  BY DEF PurgeObjectFails, Held
<1>2. s \in Source
  BY <1>1, ClaimOf DEF Working
<1>3. x \in JobRow /\ ClaimedOnlyRunning(x) /\ ~x.live
  BY EndedJob
<1> HIDE DEF s, x
<1>4. job[s]["purge"].state # "none"
  BY <1>1, <1>2, RowsOf, Kinds, MediaAssumption DEF JobOK, ClaimedOnlyRunning
<1>5. /\ worker' \in [Worker -> Claims]
      /\ \A v \in Worker : worker'[v] = worker[v] \/ WorkerOK(v)'
  BY <1>1, WorkerRests
<1>6. RestTyped
  BY <1>1, <1>5, TablesTyped, BoundsHold DEF RestTyped
<1>7. QED
  BY <1>1, <1>2, <1>3, <1>4, <1>5, <1>6, Kinds, JobsMove

LEMMA LeaseExpiresInv ==
  ASSUME Inv, NEW s \in Source, NEW k \in Kind, LeaseExpires(s, k)
  PROVE  Inv'
<1> DEFINE x == [job[s][k] EXCEPT !.live = FALSE]
<1>1. /\ job[s][k].live /\ job' = [job EXCEPT ![s][k] = x]
      /\ UNCHANGED <<source, artifact, cand, object, late, uploader, worker, tab, legacy, portrait>>
      /\ UNCHANGED bounds \/ Fault
  BY DEF LeaseExpires
<1>2. job[s][k] \in JobRow /\ ClaimedOnlyRunning(job[s][k])
  BY RowsOf DEF JobOK
<1>3. job[s][k].state = "running"
  BY <1>1, <1>2 DEF ClaimedOnlyRunning
<1>4. x \in JobRow /\ x.state = "running" /\ ~x.live
  BY <1>2, <1>3 DEF JobRow
<1> HIDE DEF x
<1>5. ClaimedOnlyRunning(x)
  BY <1>4 DEF ClaimedOnlyRunning
<1>6. RestTyped
  BY <1>1, TablesTyped, BoundsHold DEF RestTyped
<1>7. QED
  BY <1>1, <1>3, <1>4, <1>5, <1>6, JobsMove

LEMMA DueInv ==
  ASSUME Inv, NEW s \in Source, NEW k \in Kind, Due(s, k)
  PROVE  Inv'
<1> DEFINE x == [job[s][k] EXCEPT !.due = TRUE]
<1>1. /\ job[s][k].state = "retry_wait" /\ job' = [job EXCEPT ![s][k] = x]
      /\ UNCHANGED <<source, artifact, cand, object, late, uploader, worker, tab, legacy, portrait>>
      /\ UNCHANGED bounds
  BY DEF Due
<1>2. job[s][k] \in JobRow /\ ClaimedOnlyRunning(job[s][k])
  BY RowsOf DEF JobOK
<1>3. x \in JobRow /\ x.state = job[s][k].state /\ x.token = job[s][k].token /\ x.live = job[s][k].live
  BY <1>2 DEF JobRow
<1> HIDE DEF x
<1>4. ClaimedOnlyRunning(x) /\ ~x.live
  BY <1>1, <1>2, <1>3 DEF ClaimedOnlyRunning
<1>5. RestTyped
  BY <1>1, TablesTyped, BoundsHold DEF RestTyped
<1>6. QED
  BY <1>1, <1>3, <1>4, <1>5, JobsMove

\* An analysis suggests once, and finds its suggestion again in any state.
LEMMA SuggestedIs ==
  ASSUME NEW c \in CandRow, DecisionOK(c)
  PROVE  /\ Suggested(c) \in CandRow /\ DecisionOK(Suggested(c))
         /\ c.state # "none" => Suggested(c) = c
<1> DEFINE r == [c EXCEPT !.state = "pending", !.version = 1, !.text = TRUE]
<1>1. Suggested(c) = IF c.state = "none" THEN r ELSE c
  BY DEF Suggested
<1>2. 1 \in 0..MaxVersion
  BY MediaAssumption
<1>3. r \in CandRow /\ r.state = "pending" /\ r.version = 1 /\ r.draft = c.draft
  BY <1>2 DEF CandRow
<1> HIDE DEF r
<1>4. c.state = "none" => DecisionOK(r)
  BY <1>3 DEF DecisionOK
<1>5. QED
  BY <1>1, <1>3, <1>4

\* A worker that has read the original of s settles its job: the source gets the state st
\* and the verdict sf, its suggestion becomes c.
Settles(w, s, st, sf, c) ==
  /\ worker[w].at \in {"opened", "failing"} /\ s = worker[w].src
  /\ uploader[s] # "stored" /\ source[s].state \notin Withdrawn
  /\ sf = source[s].safety \/ ~Reviewable(s)
  /\ source' = [source EXCEPT ![s] = [source[s] EXCEPT !.state = st, !.safety = sf]]
  /\ cand' = [cand EXCEPT ![s] = c]
  /\ worker' = [worker EXCEPT ![w] = Idle]
  /\ UNCHANGED <<artifact, object, late, uploader, tab, legacy, portrait>> /\ UNCHANGED bounds

LEMMA ResultKept ==
  ASSUME Inv, NEW w \in Worker, NEW s \in Source, NEW st \in {"ready", "partially_ready", "failed"},
         NEW sf \in {"pending", "clean", "rejected"}, NEW c \in CandRow, DecisionOK(c),
         Settles(w, s, st, sf, c), NEW x \in JobRow, ClaimedOnlyRunning(x), ~x.live,
         job' = [job EXCEPT ![s]["extract"] = x]
  PROVE  Inv'
<1> DEFINE q == [source[s] EXCEPT !.state = st, !.safety = sf]
<1> DEFINE j == [job[s] EXCEPT !["extract"] = x]
<1>1. /\ q \in SourceRow /\ q.state = st /\ q.safety = sf /\ q.purpose = source[s].purpose
      /\ q.gen = source[s].gen
  <2> DEFINE State == {"none", "uploading", "queued", "processing", "ready", "partially_ready",
                       "failed"} \cup Withdrawn
  <2>1. st \in State
    OBVIOUS
  <2>2. source[s] \in SourceRow
    BY RowsOf
  <2>3. SourceRow = [state : State, purpose : {"source_review", "visual_reference"}, gen : 1..2,
                     safety : {"pending", "clean", "rejected"}, expired : BOOLEAN]
    BY DEF SourceRow
  <2> HIDE DEF State
  <2>4. QED
    BY <2>1, <2>2, <2>3
<1>2. j \in [Kind -> JobRow] /\ j["extract"] = x /\ j["purge"] = job[s]["purge"]
  BY RowsOf, Kinds
<1>3. source' = [source EXCEPT ![s] = q] /\ job' = [job EXCEPT ![s] = j]
  BY DEF Settles
<1> HIDE DEF q, j
<1>4. Rows(s, q, artifact[s], j, c, object[s], late[s], uploader[s])
  BY <1>3, Rewriting DEF Rows, Settles
<1>5. RowsTyped(q, artifact[s], j, c, object[s], late[s], uploader[s])
  BY <1>1, <1>2, RowsOf, Kinds DEF RowsTyped, Late, Receiving
<1>6. /\ worker' \in [Worker -> Claims]
      /\ \A v \in Worker : worker'[v] = worker[v] \/ WorkerOK(v)'
  BY WorkerRests DEF Settles
<1>7. RestTyped
  BY <1>6, TablesTyped, BoundsHold DEF RestTyped, Settles
<1>8. /\ TypeOK' /\ \A u \in Source \ {s} : Same(u)
      /\ source'[s] = q /\ artifact'[s] = artifact[s] /\ job'[s] = j /\ cand'[s] = c
      /\ object'[s] = object[s] /\ late'[s] = late[s] /\ uploader'[s] = uploader[s]
  BY <1>4, <1>5, <1>7, Rewritten
<1>9. /\ source[s].state \notin {"none"} \cup Withdrawn /\ uploader[s] # "stored"
      /\ ~Reviewable(s) => source[s].state # "uploading"
      /\ sf = source[s].safety \/ ~Reviewable(s)
  BY ClaimOf DEF Working, WorkerOK, Settles
<1>10. ~Reviewable(s) => artifact[s].state = "available" /\ artifact[s].hashed
  BY <1>9, RowsOf DEF BytesOK
<1>11. Onward(s)
  BY <1>1, <1>8, <1>9 DEF Onward, Withdrawn
<1>12. BytesOK(s)'
  <2>1. BytesOK(s)
    BY RowsOf
  <2>2. artifact[s].state # "purged"
    BY <1>9, <2>1 DEF BytesOK, Withdrawn
  <2>3. source'[s].safety = "clean" => artifact'[s].hashed
    BY <1>1, <1>8, <1>9, <1>10, <2>1 DEF BytesOK
  <2>4. ~Reviewable(s)' => artifact'[s].state = "available"
    BY <1>1, <1>8, <1>10 DEF Reviewable
  <2>5. QED
    BY <1>1, <1>8, <1>9, <2>1, <2>2, <2>3, <2>4 DEF BytesOK, Withdrawn
<1>13. GenerationOK(s)'
  BY <1>1, <1>2, <1>8, <1>9, RowsOf DEF GenerationOK
<1>14. CandOK(s)'
  BY <1>1, <1>8, <1>9 DEF CandOK, Withdrawn
<1>15. JobOK(s)'
  BY <1>2, <1>8, RowsOf, Kinds DEF JobOK
<1>16. legacy' = legacy /\ tab' = tab
  BY DEF Settles
<1>17. QED
  BY <1>6, <1>8, <1>11, <1>12, <1>13, <1>14, <1>15, <1>16, Settled

LEMMA PersistInv ==
  ASSUME Inv, NEW w \in Worker, NEW found \in BOOLEAN, Persist(w, found)
  PROVE  Inv'
<1> DEFINE s == worker[w].src
<1> DEFINE end(st) == [NoJob EXCEPT !.state = st]
<1> DEFINE q(st, sf) == [source[s] EXCEPT !.state = st, !.safety = sf]
<1>1. /\ worker[w].at = "opened" /\ uploader[s] # "stored" /\ source[s].state \notin Withdrawn
      /\ worker' = [worker EXCEPT ![w] = Idle]
      /\ UNCHANGED <<artifact, object, late, uploader, tab, legacy, portrait>> /\ UNCHANGED bounds
  BY DEF Persist, Locked, Fenced
<1>2. s \in Source
  BY <1>1, ClaimOf DEF Working
<1>3. /\ cand[s] \in CandRow /\ DecisionOK(cand[s])
      /\ Suggested(cand[s]) \in CandRow /\ DecisionOK(Suggested(cand[s]))
      /\ source[s] \in SourceRow /\ source[s].safety \in {"pending", "clean", "rejected"}
  BY <1>2, RowsOf, SuggestedIs DEF CandOK, SourceRow
<1>4. \A st \in {"retry_wait", "succeeded", "partial", "failed"} :
        end(st) \in JobRow /\ ClaimedOnlyRunning(end(st)) /\ ~end(st).live
  BY EndedJob
<1>5. CASE Reviewable(s)
  <2> DEFINE st == IF found THEN "ready" ELSE "partially_ready"
  <2> DEFINE x == end(IF found THEN "succeeded" ELSE "partial")
  <2> DEFINE c == IF found THEN Suggested(cand[s]) ELSE cand[s]
  <2>1. /\ source' = [source EXCEPT ![s].state = st]
        /\ job' = [job EXCEPT ![s]["extract"] = x]
        /\ cand' = [cand EXCEPT ![s] = c]
    BY <1>2, <1>5, Rewriting DEF Persist
  <2>2. source' = [source EXCEPT ![s] = q(st, source[s].safety)]
    <3>1. [source[s] EXCEPT !.state = st] = q(st, source[s].safety)
      BY <1>3 DEF SourceRow
    <3>2. QED
      BY <2>1, <3>1
  <2>3. x \in JobRow /\ ClaimedOnlyRunning(x) /\ ~x.live /\ st \in {"ready", "partially_ready", "failed"}
    BY <1>4
  <2>4. c \in CandRow /\ DecisionOK(c)
    BY <1>3
  <2> HIDE DEF st, x, c
  <2>5. Settles(w, s, st, source[s].safety, c)
    BY <1>1, <1>3, <2>1, <2>2, <2>3 DEF Settles
  <2> HIDE DEF s
  <2>6. QED
    BY <1>2, <1>3, <2>1, <2>3, <2>4, <2>5, ResultKept
<1>6. CASE ~Reviewable(s)
  <2> DEFINE x == end("succeeded")
  <2>1. /\ source' = [source EXCEPT ![s] = q("ready", "clean")]
        /\ job' = [job EXCEPT ![s]["extract"] = x]
        /\ cand' = [cand EXCEPT ![s] = cand[s]]
    <3>1. /\ source' = [source EXCEPT ![s] = q("ready", "clean")]
          /\ job' = [job EXCEPT ![s]["extract"] = x] /\ cand' = cand
      BY <1>6 DEF Persist
    <3>2. QED
      BY <1>2, <3>1, Rewriting
  <2>2. x \in JobRow /\ ClaimedOnlyRunning(x) /\ ~x.live
    BY <1>4
  <2> HIDE DEF x
  <2>3. Settles(w, s, "ready", "clean", cand[s])
    BY <1>1, <1>6, <2>1 DEF Settles
  <2> HIDE DEF s
  <2>4. QED
    BY <1>2, <1>3, <2>1, <2>2, <2>3, ResultKept
<1>7. QED
  BY <1>5, <1>6

LEMMA FailInv ==
  ASSUME Inv, NEW w \in Worker, Fail(w)
  PROVE  Inv'
<1> DEFINE s == worker[w].src
<1> DEFINE x == [NoJob EXCEPT !.state = "failed"]
<1> DEFINE sf == IF Reviewable(s) THEN source[s].safety ELSE "rejected"
<1>1. /\ worker[w].at = "failing" /\ uploader[s] # "stored" /\ source[s].state \notin Withdrawn
      /\ worker' = [worker EXCEPT ![w] = Idle] /\ job' = [job EXCEPT ![s]["extract"] = x]
      /\ UNCHANGED <<artifact, cand, object, late, uploader, tab, legacy, portrait>> /\ UNCHANGED bounds
  BY DEF Fail, Locked, Fenced
<1>2. s \in Source
  BY <1>1, ClaimOf DEF Working
<1>3. /\ cand[s] \in CandRow /\ DecisionOK(cand[s]) /\ cand' = [cand EXCEPT ![s] = cand[s]]
      /\ source[s] \in SourceRow /\ source[s].safety \in {"pending", "clean", "rejected"}
  BY <1>1, <1>2, RowsOf, Rewriting DEF CandOK, SourceRow
<1>4. source' = [source EXCEPT ![s] = [source[s] EXCEPT !.state = "failed", !.safety = sf]]
  BY DEF Fail
<1>5. /\ sf \in {"pending", "clean", "rejected"} /\ (sf = source[s].safety \/ ~Reviewable(s))
      /\ x \in JobRow /\ ClaimedOnlyRunning(x) /\ ~x.live
  BY <1>3, EndedJob
<1> HIDE DEF sf, x
<1>6. Settles(w, s, "failed", sf, cand[s])
  BY <1>1, <1>3, <1>4, <1>5 DEF Settles
<1> HIDE DEF s
<1>7. QED
  BY <1>1, <1>2, <1>3, <1>5, <1>6, ResultKept

LEMMA PurgeObjectInv ==
  ASSUME Inv, NEW w \in Worker, PurgeObject(w)
  PROVE  Inv'
<1>s. PICK s \in Source : s = worker[w].src
  BY ClaimOf DEF Working, PurgeObject
<1> DEFINE o == object[s] /\ artifact[s].state = "purged"
<1>1. /\ worker[w].at = "claimed" /\ worker[w].kind = "purge"
      /\ worker' = [worker EXCEPT ![w].at = "deleted"] /\ object' = [object EXCEPT ![s] = o]
      /\ UNCHANGED rows /\ UNCHANGED <<late, uploader, tab, legacy, portrait>> /\ UNCHANGED bounds
  BY <1>s DEF PurgeObject
<1>2. source[s].state \in Withdrawn
  BY <1>s, <1>1, ClaimOf DEF Working, WorkerOK
<1>3. ~o \/ late[s] = "landed"
  BY <1>2, RowsOf DEF BytesOK
<1>4. o \in BOOLEAN /\ (o => object[s])
  BY <1>2, RowsOf
<1> HIDE DEF o
<1>5. Rows(s, source[s], artifact[s], job[s], cand[s], o, late[s], uploader[s])
  BY <1>1, <1>2, Rewriting DEF Rows, rows
<1>6. RowsTyped(source[s], artifact[s], job[s], cand[s], o, late[s], uploader[s])
  BY <1>2, <1>4, RowsOf DEF RowsTyped, Late, Receiving
<1>7. /\ worker' \in [Worker -> Claims] /\ \A u \in Worker \ {w} : worker'[u] = worker[u]
      /\ worker'[w].at = "deleted" /\ worker'[w].src = s /\ worker'[w].kind = "purge"
  BY <1>s, <1>1, WorkerGoesOn
<1>8. RestTyped
  BY <1>1, <1>7, TablesTyped, BoundsHold DEF RestTyped
<1>9. /\ TypeOK' /\ \A u \in Source \ {s} : Same(u)
      /\ source'[s] = source[s] /\ artifact'[s] = artifact[s] /\ job'[s] = job[s] /\ cand'[s] = cand[s]
      /\ object'[s] = o /\ late'[s] = late[s] /\ uploader'[s] = uploader[s]
  BY <1>2, <1>5, <1>6, <1>8, Rewritten
<1>10. WorkerOK(w)'
  BY <1>2, <1>3, <1>7, <1>9, Kinds DEF WorkerOK, Working, Withdrawn
<1>11. Onward(s) /\ BytesOK(s)' /\ GenerationOK(s)'
  BY <1>2, <1>3, <1>9, RowsOf DEF Onward, BytesOK, GenerationOK, Withdrawn, Reviewable
<1>12. CandOK(s)' /\ JobOK(s)'
  BY <1>2, <1>9, RowsOf DEF CandOK, JobOK
<1>13. QED
  BY <1>1, <1>2, <1>7, <1>9, <1>10, <1>11, <1>12, Settled

LEMMA PurgeCommitInv ==
  ASSUME Inv, NEW w \in Worker, PurgeCommit(w)
  PROVE  Inv'
<1>s. PICK s \in Source : s = worker[w].src
  BY ClaimOf DEF Working, PurgeCommit
<1> DEFINE q == [source[s] EXCEPT !.state = "deleted"]
<1> DEFINE a == [artifact[s] EXCEPT !.state = "purged"]
<1> DEFINE x == [NoJob EXCEPT !.state = "succeeded"]
<1> DEFINE j == [job[s] EXCEPT !["purge"] = x]
<1>1. /\ worker[w].at = "deleted" /\ worker' = [worker EXCEPT ![w] = Idle]
      /\ UNCHANGED <<cand, object, late, uploader, tab, legacy, portrait>> /\ UNCHANGED bounds
  BY DEF PurgeCommit
<1>2. source[s].state \in Withdrawn /\ (~object[s] \/ late[s] = "landed")
  BY <1>s, <1>1, ClaimOf DEF Working, WorkerOK
<1>3. /\ worker' \in [Worker -> Claims]
      /\ \A v \in Worker : worker'[v] = worker[v] \/ WorkerOK(v)'
  BY <1>1, WorkerRests
<1>4. RestTyped
  BY <1>1, <1>3, TablesTyped, BoundsHold DEF RestTyped
<1>5. CASE UNCHANGED <<source, artifact, job>>
  BY <1>1, <1>3, <1>4, <1>5, RowsStay DEF rows
<1>6. CASE ~UNCHANGED <<source, artifact, job>>
  <2>1. /\ source' = [source EXCEPT ![s] = q] /\ artifact' = [artifact EXCEPT ![s] = a]
        /\ job' = [job EXCEPT ![s] = j]
    BY <1>s, <1>6 DEF PurgeCommit
  <2>2. /\ q \in SourceRow /\ q.state = "deleted" /\ q.gen = source[s].gen
        /\ q.safety = source[s].safety /\ q.purpose = source[s].purpose
    BY <1>2, RowsOf DEF SourceRow, Withdrawn
  <2>3. a \in ArtifactRow /\ a.state = "purged" /\ a.hashed = artifact[s].hashed
    BY <1>2, RowsOf DEF ArtifactRow
  <2>4. x \in JobRow /\ ClaimedOnlyRunning(x) /\ ~x.live
    BY EndedJob
  <2> HIDE DEF x
  <2>5. j \in [Kind -> JobRow] /\ j["purge"] = x /\ j["extract"] = job[s]["extract"]
    BY <1>2, <2>4, RowsOf, Kinds
  <2> HIDE DEF q, a, j
  <2>6. Rows(s, q, a, j, cand[s], object[s], late[s], uploader[s])
    BY <1>1, <1>2, <2>1, Rewriting DEF Rows
  <2>7. RowsTyped(q, a, j, cand[s], object[s], late[s], uploader[s])
    BY <1>2, <2>2, <2>3, <2>4, <2>5, RowsOf, Kinds DEF RowsTyped, Late, Receiving
  <2>8. /\ TypeOK' /\ \A u \in Source \ {s} : Same(u)
        /\ source'[s] = q /\ artifact'[s] = a /\ job'[s] = j /\ cand'[s] = cand[s]
        /\ object'[s] = object[s] /\ late'[s] = late[s] /\ uploader'[s] = uploader[s]
    BY <1>2, <1>4, <2>6, <2>7, Rewritten
  <2>9. Onward(s) /\ BytesOK(s)' /\ GenerationOK(s)'
    BY <1>2, <2>2, <2>3, <2>8, RowsOf DEF Onward, BytesOK, GenerationOK, Withdrawn, Reviewable
  <2>10. CandOK(s)'
    BY <1>2, <2>2, <2>8, RowsOf DEF CandOK, Withdrawn
  <2>11. JobOK(s)'
    BY <1>2, <2>4, <2>5, <2>8, RowsOf, Kinds DEF JobOK
  <2>12. QED
    BY <1>1, <1>2, <1>3, <2>8, <2>9, <2>10, <2>11, Settled
<1>7. QED
  BY <1>5, <1>6

-----------------------------------------------------------------------------
\* The owner's review of a suggestion.

\* A suggestion is written, of a source whose suggestion waits for its decision.
LEMMA CandMoves ==
  ASSUME Inv, NEW s \in Source, cand[s].state = "pending",
         NEW c \in CandRow, DecisionOK(c), cand' = [cand EXCEPT ![s] = c],
         UNCHANGED <<source, artifact, job, object, late, uploader, worker, legacy>>, RestTyped,
         \A t \in Tab : tab'[t] = tab[t] \/ TabOK(t)'
  PROVE  Inv'
<1>1. source[s].state \notin {"none", "uploading"} \cup Withdrawn
  BY RowsOf DEF CandOK, Private
<1>2. Rows(s, source[s], artifact[s], job[s], c, object[s], late[s], uploader[s])
  BY Rewriting DEF Rows
<1>3. RowsTyped(source[s], artifact[s], job[s], c, object[s], late[s], uploader[s])
  BY RowsOf DEF RowsTyped, Late, Receiving
<1>4. /\ TypeOK' /\ \A u \in Source \ {s} : Same(u)
      /\ source'[s] = source[s] /\ artifact'[s] = artifact[s] /\ job'[s] = job[s] /\ cand'[s] = c
      /\ object'[s] = object[s] /\ late'[s] = late[s] /\ uploader'[s] = uploader[s]
  BY <1>2, <1>3, Rewritten
<1>5. Onward(s) /\ BytesOK(s)' /\ GenerationOK(s)' /\ JobOK(s)'
  BY <1>4, RowsOf DEF Onward, BytesOK, GenerationOK, JobOK, Reviewable
<1>6. CandOK(s)'
  BY <1>1, <1>4 DEF CandOK
<1>7. QED
  BY <1>4, <1>5, <1>6, Settled

LEMMA PrepareEditInv ==
  ASSUME Inv, NEW s \in Source, PrepareEdit(s)
  PROVE  Inv'
<1> DEFINE v == cand[s].version + 1
<1> DEFINE c == [cand[s] EXCEPT !.version = v, !.draft = v]
<1>1. /\ cand[s].state = "pending" /\ cand[s].version < MaxVersion
      /\ UNCHANGED <<source, artifact, job, object, late, uploader, worker, tab, legacy, portrait>>
      /\ UNCHANGED bounds
  BY DEF PrepareEdit
<1>2. cand' = [cand EXCEPT ![s] = c]
  BY TablesTyped DEF PrepareEdit
<1>3. cand[s] \in CandRow /\ DecisionOK(cand[s])
  BY RowsOf DEF CandOK
<1>4. v \in 0..MaxVersion /\ v >= 2
  BY <1>1, <1>3, MediaAssumption DEF CandRow, DecisionOK
<1> HIDE DEF v
<1>5. c \in CandRow /\ c.version = v /\ c.draft = v /\ c.state = cand[s].state
  BY <1>3, <1>4 DEF CandRow
<1> HIDE DEF c
<1>6. DecisionOK(c)
  BY <1>1, <1>4, <1>5 DEF DecisionOK
<1>7. RestTyped
  BY <1>1, TablesTyped, BoundsHold DEF RestTyped
<1>8. QED
  BY <1>1, <1>2, <1>5, <1>6, <1>7, CandMoves

LEMMA PreviewInv ==
  ASSUME Inv, NEW t \in Tab, NEW s \in Source, NEW a \in Action, Preview(t, s, a)
  PROVE  Inv'
<1> DEFINE x == [at |-> "embedded", src |-> s, action |-> a, version |-> cand[s].version,
                 text |-> Wording(s, a)]
<1>1. /\ a = "edit_preserve" => cand[s].draft # 0
      /\ tab' = [tab EXCEPT ![t] = x]
      /\ UNCHANGED rows /\ UNCHANGED <<object, late, uploader, worker, legacy, portrait>>
      /\ UNCHANGED bounds
  BY DEF Preview
<1>2. cand[s] \in CandRow /\ DecisionOK(cand[s])
  BY RowsOf DEF CandOK
<1>3. cand[s].version \in 0..MaxVersion /\ cand[s].draft \in 0..MaxVersion
  BY <1>2 DEF CandRow
<1>4. Wording(s, a) \in 0..MaxVersion
  BY <1>3, MediaAssumption DEF Wording
<1>5. a = "edit_preserve" => Wording(s, a) # 1
  BY <1>1, <1>2, <1>3 DEF Wording, DecisionOK
<1>6. x \in Review /\ x.at = "embedded" /\ x.src = s /\ x.action = a /\ x.text = Wording(s, a)
  BY <1>3, <1>4 DEF Review
<1> HIDE DEF x
<1>7. tab' \in [Tab -> Review] /\ tab'[t] = x /\ \A u \in Tab \ {t} : tab'[u] = tab[u]
  BY <1>1, <1>6, TablesTyped
<1>8. TabOK(t)'
  BY <1>5, <1>6, <1>7 DEF TabOK
<1>9. RestTyped
  BY <1>1, <1>7, TablesTyped, BoundsHold DEF RestTyped
<1>10. QED
  BY <1>1, <1>7, <1>8, <1>9, RowsStay

LEMMA DecideInv ==
  ASSUME Inv, NEW t \in Tab, Decide(t)
  PROVE  Inv'
<1> DEFINE a == tab[t].action
<1> DEFINE v == tab[t].version
<1>1. PICK s \in Source : s = tab[t].src
  BY DEF Decide, Inv, TabOK
<1> DEFINE receipt == <<t, a, v>>
<1> DEFINE skipped == [cand[s] EXCEPT !.state = "skipped", !.receipt = receipt]
<1> DEFINE kept == [cand[s] EXCEPT !.state = "preserved", !.link = "approved",
                                   !.memory = Wording(s, a), !.receipt = receipt]
<1>2. /\ tab[t].at = "embedded" /\ tab' = [tab EXCEPT ![t] = NoReview]
      /\ UNCHANGED <<source, artifact, job, object, late, uploader, worker, legacy, portrait>>
      /\ UNCHANGED bounds
  BY DEF Decide
<1>3. /\ tab[t] \in Review /\ a \in Action /\ v \in 0..MaxVersion
      /\ a = "edit_preserve" => tab[t].text # 1
  BY <1>2, TablesTyped DEF Inv, TabOK, Review
<1>4. \/ cand' = cand
      \/ Current(t, s) /\ cand' = [cand EXCEPT ![s] = skipped]
      \/ Current(t, s) /\ a # "skip" /\ cand' = [cand EXCEPT ![s] = kept]
  BY <1>1 DEF Decide
<1>5. /\ tab' \in [Tab -> Review] /\ tab'[t] = NoReview /\ \A u \in Tab \ {t} : tab'[u] = tab[u]
  BY <1>2, TablesTyped, RowTypes
<1>6. \A u \in Tab : tab'[u] = tab[u] \/ TabOK(u)'
  BY <1>5, RowTypes DEF TabOK
<1>7. RestTyped
  BY <1>2, <1>5, TablesTyped, BoundsHold DEF RestTyped
<1>8. CASE cand' = cand
  BY <1>2, <1>6, <1>7, <1>8, RowsStay DEF rows
<1>9. CASE Current(t, s)
  <2>1. /\ cand[s].state = "pending" /\ cand[s].version = v
        /\ a # "skip" => Wording(s, a) = tab[t].text
    BY <1>9 DEF Current, AsShown
  <2>2. cand[s] \in CandRow /\ DecisionOK(cand[s])
    BY RowsOf DEF CandOK
  <2>3. /\ receipt \in Tab \X Action \X (0..MaxVersion)
        /\ receipt[2] = a /\ receipt[3] = v
    BY <1>3
  <2>4. cand[s].draft \in 0..MaxVersion /\ Wording(s, a) \in 0..MaxVersion
    BY <2>2, MediaAssumption DEF CandRow, Wording
  <2>5. a # "skip" => Wording(s, a) = IF a = "edit_preserve" THEN v ELSE 1
    BY <1>3, <2>1, <2>2 DEF Wording, DecisionOK
  <2> HIDE DEF receipt, a, v
  <2>6. /\ skipped \in CandRow /\ skipped.state = "skipped" /\ skipped.receipt = receipt
        /\ skipped.version = cand[s].version /\ skipped.draft = cand[s].draft
    BY <2>2, <2>3 DEF CandRow
  <2>7. /\ kept \in CandRow /\ kept.state = "preserved" /\ kept.receipt = receipt
        /\ kept.version = cand[s].version /\ kept.draft = cand[s].draft
        /\ kept.memory = Wording(s, a)
    BY <2>2, <2>3, <2>4 DEF CandRow
  <2> HIDE DEF skipped, kept
  <2>8. DecisionOK(skipped)
    BY <2>1, <2>2, <2>3, <2>6 DEF DecisionOK
  <2>9. a # "skip" => DecisionOK(kept)
    BY <2>1, <2>2, <2>3, <2>5, <2>7 DEF DecisionOK
  <2>10. CASE cand' = [cand EXCEPT ![s] = skipped]
    BY <1>2, <1>6, <1>7, <2>1, <2>6, <2>8, <2>10, CandMoves
  <2>11. CASE a # "skip" /\ cand' = [cand EXCEPT ![s] = kept]
    BY <1>2, <1>6, <1>7, <2>1, <2>7, <2>9, <2>11, CandMoves
  <2>12. QED
    BY <1>4, <1>8, <2>10, <2>11
<1>10. QED
  BY <1>4, <1>8, <1>9

-----------------------------------------------------------------------------
\* Deletion of the Legacy.

LEMMA RequestDeletionInv ==
  ASSUME Inv, RequestDeletion
  PROVE  Inv'
<1>1. /\ \A s \in Source : uploader[s] = "idle"
      /\ UNCHANGED <<artifact, object, late, uploader, worker, tab>> /\ UNCHANGED bounds
      /\ legacy' = "marked" /\ portrait' \in {"none", "live", "purge_pending", "purged"}
  BY TablesTyped DEF RequestDeletion, Locked, Receiving
<1>2. ASSUME NEW s \in Source, Open(s)
      PROVE  /\ source'[s] = [source[s] EXCEPT !.state = "deleting", !.gen = 2]
             /\ job'[s] = Withdrawing(job[s]) /\ cand'[s] = Redacted(cand[s])
  <2>1. source[s].gen + 1 = 2
    BY <1>2, RowsOf DEF Open, GenerationOK
  <2>2. /\ source'[s] = [source[s] EXCEPT !.state = "deleting", !.gen = source[s].gen + 1]
        /\ job'[s] = Withdrawing(job[s]) /\ cand'[s] = Redacted(cand[s])
    BY <1>2 DEF RequestDeletion, Withdrawing
  <2>3. QED
    BY <2>1, <2>2
<1>3. ASSUME NEW s \in Source, ~Open(s)
      PROVE  /\ source'[s] = source[s] /\ cand'[s] = cand[s]
             /\ \/ job'[s] = job[s]
                \/ source[s].state \in Withdrawn /\ job'[s] = [job[s] EXCEPT !["purge"] = Queued]
  <2>1. source'[s] = source[s] /\ cand'[s] = cand[s]
    BY <1>3 DEF RequestDeletion
  <2>2. CASE Unpurged(s)
    BY <1>3, <2>2, <2>1 DEF RequestDeletion, Unpurged, Withdrawn
  <2>3. CASE ~Unpurged(s)
    BY <1>3, <2>3, <2>1 DEF RequestDeletion
  <2>4. QED
    BY <2>1, <2>2, <2>3
<1>4. ASSUME NEW s \in Source, Open(s)
      PROVE  /\ source'[s] \in SourceRow /\ job'[s] \in [Kind -> JobRow] /\ cand'[s] \in CandRow
             /\ \A k \in Kind : job'[s][k].live => job'[s][k].token # None
             /\ Onward(s) /\ SourceInv(s)'
  <2>1. /\ source'[s] \in SourceRow /\ source'[s].state = "deleting"
        /\ source'[s].purpose = source[s].purpose /\ source'[s].safety = source[s].safety
    <3> DEFINE q == [source[s] EXCEPT !.state = "deleting", !.gen = 2]
    <3>1. source[s] \in SourceRow
      BY RowsOf
    <3>2. /\ q \in SourceRow /\ q.state = "deleting" /\ q.purpose = source[s].purpose
          /\ q.safety = source[s].safety
      BY <3>1, RowWithdrawn DEF Withdrawn
    <3>3. source'[s] = q
      BY <1>2, <1>4
    <3> HIDE DEF q
    <3>4. QED
      BY <3>2, <3>3
  <2>2. /\ job'[s] \in [Kind -> JobRow] /\ \A k \in Kind : ClaimedOnlyRunning(job'[s][k])
        /\ \A k \in Kind : job'[s][k].live => job'[s][k].token # None
    <3> DEFINE j == Withdrawing(job[s])
    <3>1. /\ j \in [Kind -> JobRow] /\ \A k \in Kind : ClaimedOnlyRunning(j[k])
          /\ \A k \in Kind : j[k].live => j[k].token # None
      BY WithdrawingIs
    <3>2. job'[s] = j
      BY <1>2, <1>4
    <3> HIDE DEF j
    <3>3. QED
      BY <3>1, <3>2
  <2>3. cand'[s] \in CandRow /\ DecisionOK(cand'[s]) /\ Private(cand'[s])
    <3>1. cand[s] \in CandRow /\ DecisionOK(cand[s])
      BY RowsOf DEF CandOK
    <3>2. LET c == Redacted(cand[s]) IN c \in CandRow /\ DecisionOK(c) /\ Private(c)
      BY <3>1, RedactedIs
    <3>3. cand'[s] = Redacted(cand[s])
      BY <1>2, <1>4
    <3>4. QED
      BY <3>2, <3>3
  <2>4. source[s].state \notin {"none"} \cup Withdrawn
    BY <1>4 DEF Open
  <2>5. Onward(s) /\ BytesOK(s)' /\ GenerationOK(s)'
    BY <1>1, <2>1, <2>4, RowsOf DEF Onward, BytesOK, GenerationOK, Withdrawn
  <2>6. CandOK(s)' /\ JobOK(s)'
    BY <2>1, <2>2, <2>3 DEF CandOK, JobOK
  <2>7. QED
    BY <2>1, <2>2, <2>3, <2>5, <2>6 DEF SourceInv
<1>5. ASSUME NEW s \in Source, ~Open(s)
      PROVE  /\ source'[s] \in SourceRow /\ job'[s] \in [Kind -> JobRow] /\ cand'[s] \in CandRow
             /\ \A k \in Kind : job'[s][k].live => job'[s][k].token # None
             /\ Onward(s) /\ SourceInv(s)'
  <2>1. source'[s] = source[s] /\ cand'[s] = cand[s]
    BY <1>3, <1>5
  <2>2. /\ job'[s] \in [Kind -> JobRow] /\ \A k \in Kind : ClaimedOnlyRunning(job'[s][k])
        /\ \A k \in Kind : job'[s][k].live => job'[s][k].token # None
        /\ job'[s]["purge"].state # "none" => source[s].state \in Withdrawn
    <3>1. CASE job'[s] = job[s]
      BY <3>1, RowsOf DEF JobOK, GenerationOK
    <3>2. CASE source[s].state \in Withdrawn /\ job'[s] = [job[s] EXCEPT !["purge"] = Queued]
      <4>1. job'[s] \in [Kind -> JobRow] /\ job'[s]["purge"] = Queued
            /\ job'[s]["extract"] = job[s]["extract"]
        BY <3>2, RowsOf, RowTypes, Kinds
      <4>2. QED
        BY <3>2, <4>1, RowsOf, RowTypes, Kinds DEF JobOK, ClaimedOnlyRunning
    <3>3. QED
      BY <1>3, <1>5, <3>1, <3>2
  <2>3. Onward(s) /\ BytesOK(s)' /\ GenerationOK(s)'
    BY <1>1, <2>1, <2>2, RowsOf DEF Onward, BytesOK, GenerationOK, Reviewable
  <2>4. CandOK(s)' /\ JobOK(s)'
    BY <2>1, <2>2, RowsOf DEF CandOK, JobOK
  <2>5. QED
    BY <2>1, <2>2, <2>3, <2>4, RowsOf DEF SourceInv
<1>6. /\ source' \in [Source -> SourceRow] /\ job' \in [Source -> [Kind -> JobRow]]
      /\ cand' \in [Source -> CandRow]
      /\ \A s \in Source, k \in Kind : job'[s][k].live => job'[s][k].token # None
  <2>1. \A s \in Source : /\ source'[s] \in SourceRow /\ job'[s] \in [Kind -> JobRow]
                          /\ cand'[s] \in CandRow
                          /\ \A k \in Kind : job'[s][k].live => job'[s][k].token # None
    BY <1>4, <1>5
  <2>2. /\ source' = [s \in Source |-> source'[s]] /\ job' = [s \in Source |-> job'[s]]
        /\ cand' = [s \in Source |-> cand'[s]]
    BY DEF RequestDeletion
  <2>3. QED
    BY <2>1, <2>2
<1>7. TypeOK'
  BY <1>1, <1>6, TablesTyped DEF TypeOK, Late, Receiving, bounds
<1>8. QED
  BY <1>1, <1>4, <1>5, <1>7, Assembled

LEMMA PortraitPurgedInv ==
  ASSUME Inv, PortraitPurged
  PROVE  Inv'
<1>1. RestTyped
  BY TablesTyped, BoundsHold DEF RestTyped, PortraitPurged
<1>2. QED
  BY <1>1, RowsStay DEF PortraitPurged

LEMMA ReadRegistryInv ==
  ASSUME Inv, NEW w \in Worker, ReadRegistry(w)
  PROVE  Inv'
<1> DEFINE x == [worker[w] EXCEPT !.at = "registry"]
<1>1. /\ worker[w].at = "idle" /\ worker' = [worker EXCEPT ![w] = x]
      /\ UNCHANGED rows /\ UNCHANGED <<object, late, uploader, tab, legacy, portrait>>
      /\ UNCHANGED bounds
  BY DEF ReadRegistry
<1>2. worker[w] \in Claims /\ worker[w].kind = None
  BY <1>1, TablesTyped DEF Inv, WorkerOK, Working
<1>3. x \in Claims /\ x.at = "registry" /\ x.kind = None
  BY <1>2 DEF Claims
<1> HIDE DEF x
<1>4. /\ worker' \in [Worker -> Claims] /\ worker'[w] = x
      /\ \A v \in Worker \ {w} : worker'[v] = worker[v]
  BY <1>1, <1>3, WorkerMoves
<1>5. WorkerOK(w)'
  BY <1>3, <1>4, MediaAssumption DEF WorkerOK, Working
<1>6. RestTyped
  BY <1>1, <1>4, TablesTyped, BoundsHold DEF RestTyped
<1>7. QED
  BY <1>1, <1>4, <1>5, <1>6, RowsStay

LEMMA EraseRegistryInv ==
  ASSUME Inv, NEW w \in Worker, EraseRegistry(w)
  PROVE  Inv'
<1> DEFINE x == [worker[w] EXCEPT !.at = "erased"]
<1>1. /\ worker[w].at = "registry" /\ worker' = [worker EXCEPT ![w] = x]
      /\ UNCHANGED rows /\ UNCHANGED <<late, uploader, tab, legacy, portrait>>
      /\ UNCHANGED bounds /\ object' = [s \in Source |-> FALSE]
  BY DEF EraseRegistry
<1>2. worker[w] \in Claims /\ worker[w].kind = None
  BY <1>1, TablesTyped DEF Inv, WorkerOK, Working
<1>3. x \in Claims /\ x.at = "erased" /\ x.kind = None
  BY <1>2 DEF Claims
<1> HIDE DEF x
<1>4. /\ worker' \in [Worker -> Claims] /\ worker'[w] = x
      /\ \A v \in Worker \ {w} : worker'[v] = worker[v]
  BY <1>1, <1>3, WorkerMoves
<1>5. WorkerOK(w)'
  BY <1>3, <1>4, MediaAssumption DEF WorkerOK, Working
<1>6. object' \in [Source -> BOOLEAN]
  BY <1>1
<1>7. TypeOK'
  BY <1>1, <1>4, <1>6 DEF Inv, TypeOK, rows, bounds
<1>8. ASSUME NEW s \in Source
      PROVE  Onward(s) /\ SourceInv(s)'
  <2>1. /\ source' = source /\ artifact' = artifact /\ job' = job /\ cand' = cand /\ late' = late
        /\ uploader' = uploader /\ legacy' = legacy /\ ~object'[s]
    BY <1>1 DEF rows
  <2>2. Onward(s) /\ BytesOK(s)' /\ GenerationOK(s)'
    BY <2>1, RowsOf DEF Onward, BytesOK, GenerationOK, Reviewable
  <2>3. CandOK(s)' /\ JobOK(s)'
    BY <2>1, RowsOf DEF CandOK, JobOK
  <2>4. QED
    BY <2>2, <2>3 DEF SourceInv
<1>9. QED
  BY <1>1, <1>4, <1>5, <1>7, <1>8, Assembled

LEMMA ForgetLegacyInv ==
  ASSUME Inv, NEW w \in Worker, ForgetLegacy(w)
  PROVE  Inv'
<1>1. /\ worker' = [worker EXCEPT ![w] = Idle]
      /\ UNCHANGED <<artifact, object, late, uploader, tab, portrait>> /\ UNCHANGED bounds
  BY DEF ForgetLegacy
<1>2. /\ worker' \in [Worker -> Claims]
      /\ \A v \in Worker : worker'[v] = worker[v] \/ WorkerOK(v)'
  BY <1>1, WorkerRests
<1>3. CASE UNCHANGED <<legacy, source, job, cand>>
  <2>1. RestTyped
    BY <1>1, <1>2, <1>3, TablesTyped, BoundsHold DEF RestTyped
  <2>2. QED
    BY <1>1, <1>2, <1>3, <2>1, RowsStay DEF rows
<1>4. CASE legacy = "marked" /\ Ready /\ legacy' = "erased"
  <2>1. /\ source' = [s \in Source |-> [source[s] EXCEPT !.state = "gone"]]
        /\ job' = [s \in Source |-> [k \in Kind |-> NoJob]]
        /\ cand' = [s \in Source |-> NoCand]
    BY <1>4 DEF ForgetLegacy
  <2>2. ASSUME NEW s \in Source
        PROVE  /\ source'[s] \in SourceRow /\ source'[s].state = "gone"
               /\ source'[s].purpose = source[s].purpose /\ source'[s].safety = source[s].safety
               /\ cand'[s] = NoCand /\ \A k \in Kind : job'[s][k] = NoJob
    <3>1. source[s] \in SourceRow
      BY RowsOf
    <3>2. QED
      BY <2>1, <3>1 DEF SourceRow, Withdrawn
  <2>3. /\ source' \in [Source -> SourceRow] /\ job' \in [Source -> [Kind -> JobRow]]
        /\ cand' \in [Source -> CandRow]
        /\ \A s \in Source, k \in Kind : job'[s][k].live => job'[s][k].token # None
    BY <2>1, <2>2, RowTypes
  <2>4. TypeOK'
    BY <1>1, <1>2, <1>4, <2>3, TablesTyped DEF TypeOK, Late, Receiving, bounds
  <2>5. ASSUME NEW s \in Source
        PROVE  Onward(s) /\ SourceInv(s)' /\ uploader'[s] = "idle"
    <3>1. /\ source[s].state \in {"none", "deleted"} /\ artifact[s].state \in {"none", "purged"}
          /\ uploader[s] = "idle"
      BY <1>4, RowsOf DEF Ready, BytesOK
    <3>2. ~object[s] \/ late[s] = "landed"
      BY <3>1, RowsOf DEF BytesOK
    <3>3. uploader'[s] = "idle" /\ artifact'[s] = artifact[s] /\ late'[s] = late[s] /\ object'[s] = object[s]
      BY <1>1, <3>1
    <3>4. Onward(s)
      BY <2>2, <3>1, <3>2, <3>3 DEF Onward, Withdrawn
    <3>5. BytesOK(s)' /\ GenerationOK(s)'
      BY <2>2, <3>1, <3>2, <3>3, RowsOf DEF BytesOK, GenerationOK, Withdrawn
    <3>6. CandOK(s)' /\ JobOK(s)'
      BY <2>2, RowTypes DEF CandOK, JobOK, ClaimedOnlyRunning
    <3>7. QED
      BY <3>3, <3>4, <3>5, <3>6 DEF SourceInv
  <2>6. QED
    BY <1>1, <1>2, <2>4, <2>5, Assembled
<1>5. QED
  BY <1>3, <1>4 DEF ForgetLegacy

-----------------------------------------------------------------------------
\* The invariant holds, and what follows from it.

LEMMA InvStutters ==
  ASSUME Inv, UNCHANGED vars
  PROVE  Inv'
BY DEF vars, Inv, TypeOK, BytesOK, GenerationOK, CandOK, JobOK, WorkerOK, TabOK, Reviewable

LEMMA NextInv ==
  ASSUME Inv, [Next]_vars
  PROVE  Inv'
<1>1. CASE UNCHANGED vars
  BY <1>1, InvStutters
<1>2. ASSUME NEW s \in Source, Upload(s)
      PROVE  Inv'
  BY <1>2, CreateInv, ReceiveExpiredInv, ReceivePutInv, ReceivePutLostInv, ReceiveCommitInv,
     ReceiveFailsInv DEF Upload
<1>3. ASSUME NEW s \in Source, Owner(s)
      PROVE  Inv'
  BY <1>3, DeleteSourceInv, RetryInv, PrepareEditInv DEF Owner
<1>4. ASSUME NEW s \in Source, Clock(s)
      PROVE  Inv'
  BY <1>4, ExpireInv, PutLandsInv, LeaseExpiresInv, DueInv DEF Clock
<1>5. ASSUME NEW w \in Worker, ClaimAny(w) \/ Extract(w) \/ Crash(w)
      PROVE  Inv'
  BY <1>5, ClaimInv, OpenOriginalInv, AwaitUploadInv, RefuseInv, FailInv, StaleInv, PersistInv
  DEF ClaimAny, Extract
<1>6. ASSUME NEW w \in Worker, Purge(w) \/ Finalize(w)
      PROVE  Inv'
  BY <1>6, PurgeObjectInv, PurgeObjectFailsInv, PurgeCommitInv, ReadRegistryInv, EraseRegistryInv,
     ForgetLegacyInv DEF Purge, Finalize
<1>7. ASSUME NEW t \in Tab, Decide(t) \/ \E s \in Source, a \in Action : Preview(t, s, a)
      PROVE  Inv'
  BY <1>7, DecideInv, PreviewInv
<1>8. QED
  BY <1>1, <1>2, <1>3, <1>4, <1>5, <1>6, <1>7, RequestDeletionInv, PortraitPurgedInv DEF Next

\* Every reachable state satisfies the inductive invariant.
THEOREM Invariant == Spec => []Inv
<1>1. Init => Inv
  BY InitInv
<1>2. Inv /\ [Next]_vars => Inv'
  BY NextInv
<1>3. QED
  BY <1>1, <1>2, PTL DEF Spec

\* The rows keep their types and a lease that runs has an owner (media_sources.py,
\* media_worker.py).
THEOREM TypeCorrect == Spec => []TypeOK
<1>1. Inv => TypeOK
  BY DEF Inv
<1>2. QED
  BY <1>1, Invariant, PTL

\* What an inductive state says about erasure, private wording and decisions.
LEMMA InvErased == Inv => ErasedMeansGone /\ CleanMeansStored
<1> SUFFICES ASSUME Inv PROVE ErasedMeansGone /\ CleanMeansStored
  OBVIOUS
<1>1. ErasedMeansGone
  BY RowsOf DEF BytesOK, ErasedMeansGone
<1>2. CleanMeansStored
  BY RowsOf DEF BytesOK, CleanMeansStored, Withdrawn
<1>3. QED
  BY <1>1, <1>2

LEMMA InvPrivate == Inv => WithdrawnIsPrivate /\ PreservedAsShown
<1> SUFFICES ASSUME Inv PROVE WithdrawnIsPrivate /\ PreservedAsShown
  OBVIOUS
<1>1. WithdrawnIsPrivate
  BY RowsOf DEF CandOK, Private, WithdrawnIsPrivate
<1>2. PreservedAsShown
  BY RowsOf DEF CandOK, DecisionOK, PreservedAsShown
<1>3. QED
  BY <1>1, <1>2

-----------------------------------------------------------------------------
\* Who writes a result, and who writes a decision.

Waiting == {"queued", "retry_wait"}
Result == {"succeeded", "partial", "failed"}

NoUnclaimedResult ==
  \A s \in Source, k \in Kind : job[s][k].state \in Waiting => job'[s][k].state \notin Result

\* The one job that a step writes is not waiting, or gets no result.
LEMMA OneJob ==
  ASSUME Inv, NEW s \in Source, NEW k \in Kind, NEW x, job' = [job EXCEPT ![s][k] = x],
         job[s][k].state \notin Waiting \/ x.state \notin Result
  PROVE  NoUnclaimedResult
<1> SUFFICES ASSUME NEW u \in Source, NEW l \in Kind, job[u][l].state \in Waiting
             PROVE  job'[u][l].state \notin Result
  BY DEF NoUnclaimedResult
<1>1. job \in [Source -> [Kind -> JobRow]] /\ job[u] \in [Kind -> JobRow]
  BY TablesTyped
<1>2. job'[u][l] = IF u = s /\ l = k THEN x ELSE job[u][l]
  BY <1>1
<1>3. QED
  BY <1>2 DEF Waiting, Result

\* A worker that holds a claim holds a running job.
LEMMA HeldRuns ==
  ASSUME Inv, NEW w \in Worker, NEW s \in Source, NEW k \in Kind, Held(w, s, k)
  PROVE  job[s][k].state \notin Waiting
BY RowsOf, MediaAssumption DEF Held, JobOK, ClaimedOnlyRunning, Waiting

LEMMA JobsStay ==
  ASSUME UNCHANGED job
  PROVE  NoUnclaimedResult
BY DEF NoUnclaimedResult, Waiting, Result

LEMMA UploadResults ==
  ASSUME Inv, NEW s \in Source, Upload(s) \/ Owner(s) \/ Clock(s)
  PROVE  NoUnclaimedResult
<1>1. CASE UNCHANGED job
  BY <1>1, JobsStay
<1>2. CASE \E p \in {"source_review", "visual_reference"} : Create(s, p)
  <2>1. job' = [job EXCEPT ![s]["extract"] = Queued]
    BY <1>2 DEF Create
  <2>2. QED
    BY <2>1, Kinds, RowTypes, OneJob DEF Result
<1>3. CASE ReceiveCommit(s)
  <2> DEFINE x == [job[s]["extract"] EXCEPT !.due = TRUE]
  <2>1. job' = [job EXCEPT ![s]["extract"] = x]
    BY <1>3 DEF ReceiveCommit
  <2>2. x.state = job[s]["extract"].state
    BY RowsOf, Kinds DEF JobRow
  <2> HIDE DEF x
  <2>3. QED
    BY <2>1, <2>2, Kinds, OneJob DEF Waiting, Result
<1>4. CASE DeleteSource(s)
  <2>1. job' = [job EXCEPT ![s] = Withdrawing(job[s])]
    BY <1>4 DEF DeleteSource, Withdrawing
  <2>2. \A k \in Kind : job[s][k].state \in Waiting => Withdrawing(job[s])[k].state \notin Result
    BY Kinds, RowTypes DEF Withdrawing, Cancelled, NoJob, Waiting, Live, Result
  <2>3. QED
    BY <2>1, <2>2, TablesTyped DEF NoUnclaimedResult, Waiting, Result
<1>5. CASE Retry(s)
  BY <1>5, Kinds, RowTypes, OneJob DEF Retry, Result
<1>6. ASSUME NEW k \in Kind, LeaseExpires(s, k)
      PROVE  NoUnclaimedResult
  <2> DEFINE x == [job[s][k] EXCEPT !.live = FALSE]
  <2>1. job' = [job EXCEPT ![s][k] = x] /\ job[s][k].live
    BY <1>6 DEF LeaseExpires
  <2>2. job[s][k].state \notin Waiting
    BY <2>1, RowsOf DEF JobOK, ClaimedOnlyRunning, Waiting
  <2> HIDE DEF x
  <2>3. QED
    BY <2>1, <2>2, OneJob
<1>7. ASSUME NEW k \in Kind, Due(s, k)
      PROVE  NoUnclaimedResult
  <2> DEFINE x == [job[s][k] EXCEPT !.due = TRUE]
  <2>1. job' = [job EXCEPT ![s][k] = x]
    BY <1>7 DEF Due
  <2>2. x.state = job[s][k].state
    BY RowsOf DEF JobRow
  <2> HIDE DEF x
  <2>3. QED
    BY <2>1, <2>2, OneJob DEF Waiting, Result
<1>8. QED
  BY <1>1, <1>2, <1>3, <1>4, <1>5, <1>6, <1>7
  DEF Upload, Owner, Clock, ReceiveExpired, ReceivePut, ReceivePutLost, ReceiveFails, Expire,
      PutLands, PrepareEdit, rows

LEMMA WorkerResults ==
  ASSUME Inv, NEW w \in Worker,
         ClaimAny(w) \/ Extract(w) \/ Purge(w) \/ Finalize(w) \/ Crash(w)
  PROVE  NoUnclaimedResult
<1> DEFINE end(st) == [NoJob EXCEPT !.state = st]
<1>1. CASE UNCHANGED job
  BY <1>1, JobsStay
<1>2. ASSUME NEW s \in Source, NEW k \in Kind, Claim(w, s, k)
      PROVE  NoUnclaimedResult
  <2> DEFINE x == [state |-> "running", token |-> w, live |-> TRUE, due |-> TRUE]
  <2>1. job' = [job EXCEPT ![s][k] = x] /\ x.state = "running"
    BY <1>2 DEF Claim
  <2> HIDE DEF x
  <2>2. QED
    BY <2>1, OneJob DEF Result
<1>3. CASE AwaitUpload(w) \/ PurgeObjectFails(w)
  <2>1. PICK s \in Source, k \in Kind : job' = [job EXCEPT ![s][k] = end("retry_wait")]
    BY <1>3, ClaimOf, Kinds DEF AwaitUpload, PurgeObjectFails, Working
  <2>2. end("retry_wait").state = "retry_wait"
    BY EndedJob
  <2> HIDE DEF end
  <2>3. QED
    BY <2>1, <2>2, OneJob DEF Result
<1>4. CASE Fail(w) \/ \E found \in BOOLEAN : Persist(w, found)
  <2>1. PICK s \in Source : s = worker[w].src
    BY <1>4, ClaimOf DEF Fail, Persist, Working
  <2>2. \E st \in Result : job' = [job EXCEPT ![s]["extract"] = end(st)]
    BY <1>4, <2>1 DEF Fail, Persist, Result
  <2>3. Held(w, s, "extract")
    BY <1>4, <2>1 DEF Fail, Persist, Fenced
  <2> HIDE DEF end
  <2>4. QED
    BY <2>2, <2>3, Kinds, HeldRuns, OneJob
<1>5. CASE PurgeCommit(w)
  <2>1. PICK s \in Source : s = worker[w].src
    BY <1>5, ClaimOf DEF PurgeCommit, Working
  <2>2. \/ UNCHANGED job
        \/ Held(w, s, "purge") /\ job' = [job EXCEPT ![s]["purge"] = end("succeeded")]
    BY <1>5, <2>1 DEF PurgeCommit
  <2> HIDE DEF end
  <2>3. QED
    BY <1>1, <2>2, Kinds, HeldRuns, OneJob
<1>6. CASE ForgetLegacy(w)
  <2>1. CASE job' = [s \in Source |-> [k \in Kind |-> NoJob]]
    BY <2>1, RowTypes DEF NoUnclaimedResult, Result
  <2>2. QED
    BY <1>1, <1>6, <2>1 DEF ForgetLegacy
<1>7. QED
  BY <1>1, <1>2, <1>3, <1>4, <1>5, <1>6
  DEF ClaimAny, Extract, Purge, Finalize, OpenOriginal, Refuse, Stale, PurgeObject, Crash,
      ReadRegistry, EraseRegistry, rows

LEMMA DeletionResults ==
  ASSUME Inv, RequestDeletion
  PROVE  NoUnclaimedResult
<1> SUFFICES ASSUME NEW s \in Source, NEW k \in Kind, job[s][k].state \in Waiting
             PROVE  job'[s][k].state \notin Result
  BY DEF NoUnclaimedResult
<1>1. \/ job'[s] = Withdrawing(job[s]) \/ job'[s] = job[s]
      \/ job'[s] = [job[s] EXCEPT !["purge"] = Queued]
  BY DEF RequestDeletion, Withdrawing
<1>2. CASE job'[s] = Withdrawing(job[s])
  BY <1>2, Kinds, RowTypes DEF Withdrawing, Cancelled, NoJob, Waiting, Live, Result
<1>3. CASE job'[s] = job[s]
  BY <1>3 DEF Waiting, Result
<1>4. CASE job'[s] = [job[s] EXCEPT !["purge"] = Queued]
  BY <1>4, RowsOf, RowTypes, Kinds DEF Waiting, Result
<1>5. QED
  BY <1>1, <1>2, <1>3, <1>4

LEMMA NextResults ==
  ASSUME Inv, [Next]_vars
  PROVE  NoUnclaimedResult
<1>1. CASE UNCHANGED job
  BY <1>1, JobsStay
<1>2. QED
  BY <1>1, UploadResults, WorkerResults, DeletionResults
  DEF Next, vars, Decide, Preview, PortraitPurged, rows

\* What is called clean was stored, what was erased is gone, and a result answers a claim
\* (media_sources.py, media_worker.py, legacy_deletion.py), for any number of sources and
\* workers.
THEOREM SourcesAreHeld == Spec => SourcesHold
<1>1. Inv => ErasedMeansGone /\ CleanMeansStored
  BY InvErased
<1>2. Inv /\ [Next]_vars =>
        [\A s \in Source, k \in Kind : job[s][k].state \in {"queued", "retry_wait"} =>
           job'[s][k].state \notin {"succeeded", "partial", "failed"}]_vars
  BY NextResults DEF NoUnclaimedResult, Waiting, Result
<1>3. QED
  BY <1>1, <1>2, Invariant, PTL DEF Spec, SourcesHold, ResultNeedsClaim

Decided == {"preserved", "skipped"}

\* The decision of s stays as it is, or goes with the Legacy.
KeepsDecision(s) ==
  cand[s].state \in Decided =>
    \/ legacy' = "erased"
    \/ /\ cand'[s].state = cand[s].state /\ cand'[s].memory = cand[s].memory
       /\ cand'[s].receipt = cand[s].receipt

\* The one suggestion that a step writes keeps its decision, or has none yet.
LEMMA OneCand ==
  ASSUME Inv, NEW s \in Source, NEW c, cand' = [cand EXCEPT ![s] = c],
         cand[s].state \in Decided =>
           c.state = cand[s].state /\ c.memory = cand[s].memory /\ c.receipt = cand[s].receipt
  PROVE  \A u \in Source : KeepsDecision(u)
BY TablesTyped DEF KeepsDecision

LEMMA CandsStay ==
  ASSUME UNCHANGED cand
  PROVE  \A u \in Source : KeepsDecision(u)
BY DEF KeepsDecision

LEMMA RedactionKeeps ==
  ASSUME Inv, NEW s \in Source
  PROVE  cand[s].state \in Decided =>
           /\ Redacted(cand[s]).state = cand[s].state /\ Redacted(cand[s]).memory = cand[s].memory
           /\ Redacted(cand[s]).receipt = cand[s].receipt
BY RowsOf, RedactedIs DEF CandOK, Decided

LEMMA NextDecisions ==
  ASSUME Inv, [Next]_vars
  PROVE  \A u \in Source : KeepsDecision(u)
<1>1. CASE UNCHANGED cand
  BY <1>1, CandsStay
<1>2. ASSUME NEW s \in Source, DeleteSource(s)
      PROVE  \A u \in Source : KeepsDecision(u)
  <2>1. cand' = [cand EXCEPT ![s] = Redacted(cand[s])]
    BY <1>2 DEF DeleteSource
  <2>2. QED
    BY <2>1, RedactionKeeps, OneCand
<1>3. ASSUME NEW s \in Source, PrepareEdit(s)
      PROVE  \A u \in Source : KeepsDecision(u)
  <2>1. PICK c : cand' = [cand EXCEPT ![s] = c]
    BY <1>3, TablesTyped DEF PrepareEdit
  <2>2. cand[s].state \notin Decided
    BY <1>3 DEF PrepareEdit, Decided
  <2>3. QED
    BY <2>1, <2>2, OneCand
<1>4. ASSUME NEW w \in Worker, NEW found \in BOOLEAN, Persist(w, found)
      PROVE  \A u \in Source : KeepsDecision(u)
  <2>1. PICK s \in Source : s = worker[w].src
    BY <1>4, ClaimOf DEF Persist, Working
  <2>2. cand' = cand \/ cand' = [cand EXCEPT ![s] = Suggested(cand[s])]
    BY <1>4, <2>1 DEF Persist
  <2>3. cand[s].state \in Decided => Suggested(cand[s]) = cand[s]
    BY RowsOf, SuggestedIs DEF CandOK, Decided
  <2>4. QED
    BY <1>1, <2>2, <2>3, OneCand
<1>5. ASSUME NEW t \in Tab, Decide(t)
      PROVE  \A u \in Source : KeepsDecision(u)
  <2>1. PICK s \in Source : s = tab[t].src
    BY <1>5 DEF Decide, Inv, TabOK
  <2>2. CASE Current(t, s)
    <3>1. PICK c : cand' = [cand EXCEPT ![s] = c]
      <4> DEFINE a == tab[t].action
      <4> DEFINE receipt == <<t, a, tab[t].version>>
      <4> DEFINE skipped == [cand[s] EXCEPT !.state = "skipped", !.receipt = receipt]
      <4> DEFINE kept == [cand[s] EXCEPT !.state = "preserved", !.link = "approved",
                                         !.memory = Wording(s, a), !.receipt = receipt]
      <4>1. cand' = cand \/ cand' = [cand EXCEPT ![s] = skipped] \/ cand' = [cand EXCEPT ![s] = kept]
        BY <1>5, <2>1 DEF Decide
      <4> HIDE DEF skipped, kept
      <4>2. QED
        BY <4>1, Rewriting
    <3>2. cand[s].state \notin Decided
      BY <2>2 DEF Current, Decided
    <3>3. QED
      BY <3>1, <3>2, OneCand
  <2>3. CASE ~Current(t, s)
    BY <1>1, <1>5, <2>1, <2>3 DEF Decide
  <2>4. QED
    BY <2>2, <2>3
<1>6. CASE RequestDeletion
  <2>1. ASSUME NEW u \in Source
        PROVE  KeepsDecision(u)
    <3>1. cand'[u] = Redacted(cand[u]) \/ cand'[u] = cand[u]
      BY <1>6 DEF RequestDeletion
    <3>2. QED
      BY <3>1, RedactionKeeps DEF KeepsDecision
  <2>2. QED
    BY <2>1
<1>7. ASSUME NEW w \in Worker, ForgetLegacy(w)
      PROVE  \A u \in Source : KeepsDecision(u)
  BY <1>1, <1>7 DEF ForgetLegacy, KeepsDecision
<1>8. ASSUME NEW s \in Source, Upload(s) \/ Owner(s) \/ Clock(s)
      PROVE  \A u \in Source : KeepsDecision(u)
  <2>1. UNCHANGED cand \/ DeleteSource(s) \/ PrepareEdit(s)
    BY <1>8
    DEF Upload, Owner, Clock, Create, ReceiveExpired, ReceivePut, ReceivePutLost, ReceiveCommit,
        ReceiveFails, Retry, Expire, PutLands, LeaseExpires, Due, rows
  <2>2. QED
    BY <1>1, <1>2, <1>3, <2>1
<1>9. ASSUME NEW w \in Worker, ClaimAny(w) \/ Extract(w) \/ Purge(w) \/ Finalize(w) \/ Crash(w)
      PROVE  \A u \in Source : KeepsDecision(u)
  <2>1. UNCHANGED cand \/ ForgetLegacy(w) \/ \E found \in BOOLEAN : Persist(w, found)
    BY <1>9
    DEF ClaimAny, Extract, Purge, Finalize, Claim, OpenOriginal, AwaitUpload, Refuse, Fail, Stale,
        PurgeObject, PurgeObjectFails, PurgeCommit, ReadRegistry, EraseRegistry, Crash, rows
  <2>2. QED
    BY <1>1, <1>4, <1>7, <2>1
<1>10. QED
  BY <1>1, <1>5, <1>6, <1>8, <1>9 DEF Next, vars, Preview, PortraitPurged, rows

\* After a deletion nothing private is kept, a decision is about what its tab was shown,
\* and it is final (media_review.py, media_intelligence.py), for any number of tabs.
THEOREM ReviewIsFinal == Spec => ReviewHolds
<1>1. Inv => WithdrawnIsPrivate /\ PreservedAsShown
  BY InvPrivate
<1>2. Inv /\ [Next]_vars =>
        [\A s \in Source : cand[s].state \in {"preserved", "skipped"} =>
           \/ legacy' = "erased"
           \/ /\ cand'[s].state = cand[s].state /\ cand'[s].memory = cand[s].memory
              /\ cand'[s].receipt = cand[s].receipt]_vars
  BY NextDecisions DEF KeepsDecision, Decided
<1>3. QED
  BY <1>1, <1>2, Invariant, PTL DEF Spec, ReviewHolds, DecisionIsFinal
=============================================================================
