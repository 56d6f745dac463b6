--------------------------- MODULE MediaPipeline ---------------------------
(***************************************************************************)
(* The private source library: reservation and upload of an original, the  *)
(* leased jobs of the media workers, the owner's review of the suggestions *)
(* they publish, deletion of a source and of the whole Legacy.             *)
(*                                                                         *)
(* One action is one committed transaction or one call to the object       *)
(* store.  A row lock that is held across a store call is a state of its   *)
(* holder (uploader = "stored"); every other transaction is atomic.        *)
(***************************************************************************)
EXTENDS Naturals, FiniteSets

CONSTANTS Source,      \* reservations an uploader may make
          Worker,      \* media worker processes
          Tab,         \* browser tabs of the owner that review suggestions
          Adapter,     \* the object stores in use; a lost put to "s3" may land later
          MaxVersion,  \* bound on the versions of a suggestion
          MaxFaults,   \* bound on crashes, failed calls and expired uploads together
          MaxRetry,    \* bound on the owner's retries
          None

ASSUME MediaAssumption ==
  /\ MaxVersion \in Nat \ {0} /\ MaxFaults \in Nat /\ MaxRetry \in Nat
  /\ Adapter \subseteq {"local", "s3"} /\ None \notin Worker \cup {"extract", "purge"}

VARIABLES source,    \* media_sources
          artifact,  \* state of the original's media_artifacts row, and whether its hash is recorded
          job,       \* media_processing_jobs, by kind
          cand,      \* the suggestion of a source with its evidence, provenance link and memory
          object,    \* what the store holds under the artifact's key
          adapter,   \* the object store of this deployment
          late,      \* a put whose answer was lost: it may still land, and then has landed
          uploader,  \* the request that receives the bytes
          worker,    \* a worker's claim and how far it has come
          tab,       \* a review request between its preview and its transaction
          legacy,    \* "active", "marked" for deletion, "erased"
          portrait,  \* the rows of the visual companion, erased by the visual worker
          faults, retries

vars == <<source, artifact, job, cand, object, adapter, late, uploader, worker, tab,
          legacy, portrait, faults, retries>>
Remote == adapter = "s3"
rows == <<source, artifact, job, cand>>
bounds == <<adapter, faults, retries>>

Kind == {"extract", "purge"}
Withdrawn == {"deleting", "deleted", "gone"}
Live == {"queued", "running", "retry_wait"}
NoJob == [state |-> "none", token |-> None, live |-> FALSE, due |-> FALSE]
Queued == [state |-> "queued", token |-> None, live |-> FALSE, due |-> TRUE]
NoCand == [state |-> "none", version |-> 0, draft |-> 0, text |-> FALSE,
           link |-> "none", memory |-> 0, receipt |-> <<>>]
Idle == [at |-> "idle", src |-> None, kind |-> None]
NoReview == [at |-> "idle", src |-> None, action |-> None, version |-> 0, text |-> 0]

\* The job of a kind belongs to this generation of its source.
GenerationOf(k) == IF k = "extract" THEN 1 ELSE 2

SourceRow == [state : {"none", "uploading", "queued", "processing", "ready",
                       "partially_ready", "failed"} \cup Withdrawn,
              purpose : {"source_review", "visual_reference"}, gen : 1..2,
              safety : {"pending", "clean", "rejected"}, expired : BOOLEAN]
ArtifactRow == [state : {"none", "reserved", "available", "purged"}, hashed : BOOLEAN]
JobRow == [state : Live \cup {"none", "succeeded", "partial", "failed", "cancelled"},
           token : Worker \cup {None}, live : BOOLEAN, due : BOOLEAN]
Action == {"preserve", "edit_preserve", "skip"}
CandRow == [state : {"none", "pending", "preserved", "skipped", "cancelled"},
            version : 0..MaxVersion, draft : 0..MaxVersion, text : BOOLEAN,
            link : {"none", "approved", "unavailable"}, memory : 0..MaxVersion,
            receipt : {<<>>} \cup (Tab \X Action \X (0..MaxVersion))]
Claims == [at : {"idle", "claimed", "opened", "failing", "deleted", "registry", "erased"},
           src : Source \cup {None}, kind : Kind \cup {None}]
Review == [at : {"idle", "embedded"}, src : Source \cup {None}, action : Action \cup {None},
           version : 0..MaxVersion, text : 0..MaxVersion]

TypeOK ==
  /\ source \in [Source -> SourceRow] /\ artifact \in [Source -> ArtifactRow]
  /\ job \in [Source -> [Kind -> JobRow]] /\ cand \in [Source -> CandRow]
  /\ \A s \in Source, k \in Kind : job[s][k].live => job[s][k].token # None
  /\ object \in [Source -> BOOLEAN] /\ late \in [Source -> {"no", "lost", "landed"}]
  /\ adapter \in {"local", "s3"}
  /\ uploader \in [Source -> {"idle", "stored"}]
  /\ worker \in [Worker -> Claims] /\ tab \in [Tab -> Review]
  /\ legacy \in {"active", "marked", "erased"}
  /\ portrait \in {"none", "live", "purge_pending", "purged"}
  /\ faults \in 0..MaxFaults /\ retries \in 0..MaxRetry

Init ==
  /\ source = [s \in Source |-> [state |-> "none", purpose |-> "source_review", gen |-> 1,
                               safety |-> "pending", expired |-> FALSE]]
  /\ artifact = [s \in Source |-> [state |-> "none", hashed |-> FALSE]]
  /\ job = [s \in Source |-> [k \in Kind |-> NoJob]]
  /\ cand = [s \in Source |-> NoCand]
  /\ object = [s \in Source |-> FALSE] /\ late = [s \in Source |-> "no"] /\ adapter \in Adapter
  /\ uploader = [s \in Source |-> "idle"]
  /\ worker = [w \in Worker |-> Idle] /\ tab = [t \in Tab |-> NoReview]
  /\ legacy = "active" /\ portrait \in {"none", "live"}
  /\ faults = 0 /\ retries = 0

Fault == faults < MaxFaults /\ faults' = faults + 1 /\ UNCHANGED <<adapter, retries>>

\* A visual reference is never read for suggestions.
Reviewable(s) == source[s].purpose = "source_review"

\* The receiving request keeps the source row locked while the bytes are stored.
Locked(s) == uploader[s] = "stored"

(***************************************************************************)
(* The uploader: reservation and reception.                                *)
(***************************************************************************)
Create(s, purpose) ==
  /\ legacy = "active" /\ source[s].state = "none"
  /\ source' = [source EXCEPT ![s].state = "uploading", ![s].purpose = purpose]
  /\ artifact' = [artifact EXCEPT ![s].state = "reserved"]
  /\ job' = [job EXCEPT ![s]["extract"] = Queued]
  /\ UNCHANGED <<cand, object, late, uploader, worker, tab, legacy, portrait, bounds>>

\* Mutant of the next definition: the state read before the body arrived.
ReceivableOnceOpen(s) == source[s].state \in {"uploading", "deleting"}
\* A reservation may receive bytes: later states are answered without a change.
Receivable(s) == source[s].state = "uploading"

\* The upload is too late: withdrawn without a purge job.
ReceiveExpired(s) ==
  /\ legacy = "active" /\ ~Locked(s) /\ Receivable(s) /\ source[s].expired
  /\ source' = [source EXCEPT ![s].state = "deleting", ![s].gen = @ + 1]
  /\ UNCHANGED <<artifact, job, cand, object, late, uploader, worker, tab, legacy, portrait, bounds>>

\* The put succeeds; a local object that is already there refuses it.
ReceivePut(s) ==
  /\ legacy = "active" /\ ~Locked(s) /\ Receivable(s) /\ ~source[s].expired
  /\ Remote \/ ~object[s]
  /\ object' = [object EXCEPT ![s] = TRUE]
  /\ uploader' = [uploader EXCEPT ![s] = "stored"]
  /\ UNCHANGED <<rows, late, worker, tab, legacy, portrait, bounds>>

\* The answer of a remote put is lost: 503, the reservation stays as it was.
ReceivePutLost(s) ==
  /\ Remote /\ legacy = "active" /\ ~Locked(s) /\ Receivable(s) /\ ~source[s].expired
  /\ late' = [late EXCEPT ![s] = "lost"]
  /\ Fault
  /\ UNCHANGED <<rows, object, uploader, worker, tab, legacy, portrait>>

\* A lost put reaches the store after all.
PutLands(s) ==
  /\ late[s] = "lost"
  /\ late' = [late EXCEPT ![s] = "landed"] /\ object' = [object EXCEPT ![s] = TRUE]
  /\ UNCHANGED <<rows, uploader, worker, tab, legacy, portrait, bounds>>

ReceiveCommit(s) ==
  /\ uploader[s] = "stored"
  /\ source' = [source EXCEPT ![s].state = "queued",
                              ![s].safety = IF Reviewable(s) THEN "clean" ELSE "pending"]
  /\ artifact' = [artifact EXCEPT ![s] = [state |-> "available", hashed |-> TRUE]]
  /\ job' = [job EXCEPT ![s]["extract"].due = TRUE]
  /\ uploader' = [uploader EXCEPT ![s] = "idle"]
  /\ UNCHANGED <<cand, object, late, worker, tab, legacy, portrait, bounds>>

\* The commit fails and the stored bytes are removed again, or the process dies
\* (or that removal fails) and they stay.
ReceiveFails(s) ==
  /\ uploader[s] = "stored"
  /\ uploader' = [uploader EXCEPT ![s] = "idle"]
  /\ \E stays \in BOOLEAN : object' = [object EXCEPT ![s] = stays]
  /\ Fault
  /\ UNCHANGED <<rows, late, worker, tab, legacy, portrait>>

Expire(s) ==
  /\ source[s].state = "uploading" /\ ~source[s].expired
  /\ source' = [source EXCEPT ![s].expired = TRUE]
  /\ Fault
  /\ UNCHANGED <<artifact, job, cand, object, late, uploader, worker, tab, legacy, portrait>>

(***************************************************************************)
(* The owner: deletion and retry of a source.                              *)
(***************************************************************************)
\* Mutant of the next definition: the expiry of a cancelled lease stays.
CancelledLeased(j) == IF j.state \in Live THEN [j EXCEPT !.state = "cancelled", !.token = None] ELSE j
Cancelled(j) == IF j.state \in Live THEN [NoJob EXCEPT !.state = "cancelled"] ELSE j

\* Private content goes at once, a final decision and the memory it made stay.
Redacted(c) ==
  [c EXCEPT !.state = IF @ = "pending" THEN "cancelled" ELSE @,
            !.draft = 0, !.text = FALSE,
            !.link = IF @ = "approved" THEN "unavailable" ELSE @]

DeleteSource(s) ==
  /\ legacy = "active" /\ ~Locked(s) /\ source[s].state \notin {"none"} \cup Withdrawn
  /\ source' = [source EXCEPT ![s].state = "deleting", ![s].gen = @ + 1]
  /\ job' = [job EXCEPT ![s] = [extract |-> Cancelled(job[s]["extract"]), purge |-> Queued]]
  /\ cand' = [cand EXCEPT ![s] = Redacted(@)]
  /\ UNCHANGED <<artifact, object, late, uploader, worker, tab, legacy, portrait, bounds>>

Retry(s) ==
  /\ legacy = "active" /\ ~Locked(s) /\ source[s].state \in {"failed", "partially_ready"}
  /\ retries < MaxRetry /\ retries' = retries + 1 /\ UNCHANGED <<adapter, faults>>
  /\ job' = [job EXCEPT ![s]["extract"] = Queued]
  /\ source' = [source EXCEPT ![s].state = "queued"]
  /\ UNCHANGED <<artifact, cand, object, late, uploader, worker, tab, legacy, portrait>>

(***************************************************************************)
(* The media worker.                                                       *)
(***************************************************************************)
Claimable(s, k) == job[s][k].state \in Live /\ job[s][k].due /\ ~job[s][k].live

Claim(w, s, k) ==
  /\ worker[w].at = "idle" /\ ~Locked(s) /\ source[s].state \notin {"none", "deleted", "gone"}
  /\ Claimable(s, k)
  /\ job' = [job EXCEPT ![s][k] = [state |-> "running", token |-> w, live |-> TRUE, due |-> TRUE]]
  /\ source' = IF k = "extract" /\ source[s].gen = 1 /\ source[s].state = "queued"
                 THEN [source EXCEPT ![s].state = "processing"] ELSE source
  /\ worker' = [worker EXCEPT ![w] = [at |-> "claimed", src |-> s, kind |-> k]]
  /\ UNCHANGED <<artifact, cand, object, late, uploader, tab, legacy, portrait, bounds>>

\* The fences a result has to pass under the locks of source and job.  The
\* validation of a visual reference also insists on an unexpired lease.
Held(w, s, k) == job[s][k].token = w
Fenced(w, s, k) ==
  /\ Held(w, s, k) /\ source[s].gen = GenerationOf(k) /\ source[s].state \notin Withdrawn
  /\ Reviewable(s) \/ (job[s][k].state = "running" /\ job[s][k].live)

\* The bytes of a visual reference are awaited before it is looked at.
AwaitsBytes(s) == ~Reviewable(s) /\ source[s].state = "uploading"

\* An extract worker reads the original.
OpenOriginal(w) ==
  LET s == worker[w].src IN
  /\ worker[w].at = "claimed" /\ worker[w].kind = "extract"
  /\ Fenced(w, s, "extract") /\ ~AwaitsBytes(s)
  /\ worker' = [worker EXCEPT ![w].at =
       IF object[s] /\ (Reviewable(s) \/ artifact[s].state = "available") THEN "opened" ELSE "failing"]
  /\ UNCHANGED <<rows, object, late, uploader, tab, legacy, portrait, bounds>>

\* A visual reference is put back while its bytes are awaited.
AwaitUpload(w) ==
  LET s == worker[w].src IN
  /\ worker[w].at = "claimed" /\ worker[w].kind = "extract" /\ Fenced(w, s, "extract")
  /\ AwaitsBytes(s)
  /\ job' = [job EXCEPT ![s]["extract"] = [NoJob EXCEPT !.state = "retry_wait"]]
  /\ worker' = [worker EXCEPT ![w] = Idle]
  /\ UNCHANGED <<source, artifact, cand, object, late, uploader, tab, legacy, portrait, bounds>>

\* Extraction, provider or image check refuse the bytes.
Refuse(w) ==
  /\ worker[w].at = "opened"
  /\ worker' = [worker EXCEPT ![w].at = "failing"]
  /\ Fault
  /\ UNCHANGED <<rows, object, late, uploader, tab, legacy, portrait>>

\* Suggestions are keyed by what they say, so a repeated one is found again.
Suggested(c) == IF c.state = "none" THEN [c EXCEPT !.state = "pending", !.version = 1, !.text = TRUE] ELSE c

Persist(w, found) ==
  LET s == worker[w].src IN
  /\ worker[w].at = "opened" /\ ~Locked(s) /\ Fenced(w, s, "extract")
  /\ IF Reviewable(s)
       THEN /\ job' = [job EXCEPT ![s]["extract"] =
                        [NoJob EXCEPT !.state = IF found THEN "succeeded" ELSE "partial"]]
            /\ source' = [source EXCEPT ![s].state = IF found THEN "ready" ELSE "partially_ready"]
            /\ cand' = IF found THEN [cand EXCEPT ![s] = Suggested(@)] ELSE cand
       ELSE /\ job' = [job EXCEPT ![s]["extract"] = [NoJob EXCEPT !.state = "succeeded"]]
            /\ source' = [source EXCEPT ![s].state = "ready", ![s].safety = "clean"]
            /\ UNCHANGED cand
  /\ worker' = [worker EXCEPT ![w] = Idle]
  /\ UNCHANGED <<artifact, object, late, uploader, tab, legacy, portrait, bounds>>

Fail(w) ==
  LET s == worker[w].src IN
  /\ worker[w].at = "failing" /\ ~Locked(s) /\ Fenced(w, s, "extract")
  /\ job' = [job EXCEPT ![s]["extract"] = [NoJob EXCEPT !.state = "failed"]]
  /\ source' = [source EXCEPT ![s].state = "failed",
                              ![s].safety = IF Reviewable(s) THEN @ ELSE "rejected"]
  /\ worker' = [worker EXCEPT ![w] = Idle]
  /\ UNCHANGED <<artifact, cand, object, late, uploader, tab, legacy, portrait, bounds>>

\* A claim that no longer passes the fences ends without a write.
Stale(w) ==
  LET s == worker[w].src IN
  /\ \/ worker[w].kind = "extract" /\ ~Fenced(w, s, "extract")
     \/ worker[w].kind = "purge" /\ worker[w].at = "claimed" /\ ~Held(w, s, "purge")
  /\ worker' = [worker EXCEPT ![w] = Idle]
  /\ UNCHANGED <<rows, object, late, uploader, tab, legacy, portrait, bounds>>

PurgeObject(w) ==
  LET s == worker[w].src IN
  /\ worker[w].at = "claimed" /\ worker[w].kind = "purge" /\ Held(w, s, "purge")
  /\ worker' = [worker EXCEPT ![w].at = "deleted"]
  /\ object' = [object EXCEPT ![s] = @ /\ artifact[s].state = "purged"]
  /\ UNCHANGED <<rows, late, uploader, tab, legacy, portrait, bounds>>

PurgeObjectFails(w) ==
  LET s == worker[w].src IN
  /\ worker[w].at = "claimed" /\ worker[w].kind = "purge" /\ Held(w, s, "purge")
  /\ job' = [job EXCEPT ![s]["purge"] = [NoJob EXCEPT !.state = "retry_wait"]]
  /\ worker' = [worker EXCEPT ![w] = Idle]
  /\ Fault
  /\ UNCHANGED <<source, artifact, cand, object, late, uploader, tab, legacy, portrait>>

PurgeCommit(w) ==
  LET s == worker[w].src IN
  /\ worker[w].at = "deleted" /\ worker' = [worker EXCEPT ![w] = Idle]
  /\ IF Held(w, s, "purge") /\ source[s].state = "deleting" /\ source[s].gen = 2
       THEN /\ source' = [source EXCEPT ![s].state = "deleted"]
            /\ artifact' = [artifact EXCEPT ![s].state = "purged"]
            /\ job' = [job EXCEPT ![s]["purge"] = [NoJob EXCEPT !.state = "succeeded"]]
       ELSE UNCHANGED <<source, artifact, job>>
  /\ UNCHANGED <<cand, object, late, uploader, tab, legacy, portrait, bounds>>

\* A worker dies or its cycle raises: the job keeps its lease until that expires.
Crash(w) ==
  /\ worker[w].at # "idle"
  /\ worker' = [worker EXCEPT ![w] = Idle]
  /\ Fault
  /\ UNCHANGED <<rows, object, late, uploader, tab, legacy, portrait>>

\* A lease that runs out under a worker that is still busy counts as a fault.
LeaseExpires(s, k) ==
  /\ job[s][k].live
  /\ job' = [job EXCEPT ![s][k].live = FALSE]
  /\ IF \E w \in Worker : worker[w].src = s /\ worker[w].kind = k /\ Held(w, s, k)
       THEN Fault ELSE UNCHANGED bounds
  /\ UNCHANGED <<source, artifact, cand, object, late, uploader, worker, tab, legacy, portrait>>

Due(s, k) ==
  /\ job[s][k].state = "retry_wait" /\ ~job[s][k].due
  /\ job' = [job EXCEPT ![s][k].due = TRUE]
  /\ UNCHANGED <<source, artifact, cand, object, late, uploader, worker, tab, legacy, portrait, bounds>>

(***************************************************************************)
(* The owner's review of a suggestion.                                     *)
(***************************************************************************)
\* Each version of the wording is named by the version number it got.
Wording(s, a) == IF a = "edit_preserve" /\ cand[s].draft # 0 THEN cand[s].draft ELSE 1

PrepareEdit(s) ==
  /\ legacy = "active" /\ ~Locked(s) /\ source[s].state \notin Withdrawn /\ source[s].gen = 1
  /\ cand[s].state = "pending" /\ cand[s].version < MaxVersion
  /\ cand' = [cand EXCEPT ![s].version = @ + 1, ![s].draft = cand[s].version + 1]
  /\ UNCHANGED <<source, artifact, job, object, late, uploader, worker, tab, legacy, portrait, bounds>>

\* The preview is read and embedded before the write transaction.
Preview(t, s, a) ==
  /\ tab[t].at = "idle" /\ legacy = "active"
  /\ cand[s].state = "pending" /\ (a = "edit_preserve" => cand[s].draft # 0)
  /\ tab' = [tab EXCEPT ![t] = [at |-> "embedded", src |-> s, action |-> a,
                                version |-> cand[s].version, text |-> Wording(s, a)]]
  /\ UNCHANGED <<rows, object, late, uploader, worker, legacy, portrait, bounds>>

\* Still of this source, this version and this wording, decided or not.
AsShown(t, s) ==
  /\ legacy = "active" /\ source[s].gen = 1 /\ cand[s].version = tab[t].version
  /\ tab[t].action # "skip" => Wording(s, tab[t].action) = tab[t].text

\* Mutant of the next definition: the preview is trusted.
CurrentTrusting(t, s) == legacy = "active" /\ cand[s].state = "pending" /\ source[s].gen = 1

\* What the preview saw still holds under the locks.
Current(t, s) == AsShown(t, s) /\ cand[s].state = "pending"

Approvable(s) == source[s].state \notin Withdrawn /\ source[s].safety = "clean" /\ cand[s].text

Decide(t) ==
  LET s == tab[t].src
      receipt == <<t, tab[t].action, tab[t].version>> IN
  /\ tab[t].at = "embedded" /\ ~Locked(s)
  /\ tab' = [tab EXCEPT ![t] = NoReview]
  /\ cand' =
       IF ~Current(t, s) THEN cand
       ELSE IF tab[t].action = "skip" THEN [cand EXCEPT ![s].state = "skipped", ![s].receipt = receipt]
       ELSE IF Approvable(s)
         THEN [cand EXCEPT ![s].state = "preserved", ![s].link = "approved",
                           ![s].memory = Wording(s, tab[t].action), ![s].receipt = receipt]
         ELSE cand
  /\ UNCHANGED <<source, artifact, job, object, late, uploader, worker, legacy, portrait, bounds>>

(***************************************************************************)
(* Deletion of the Legacy.                                                 *)
(***************************************************************************)
Open(s) == source[s].state \notin {"none"} \cup Withdrawn
\* An expired reservation was withdrawn without a purge job.
Unpurged(s) == source[s].state = "deleting" /\ job[s]["purge"].state \notin Live

RequestDeletion ==
  /\ legacy = "active" /\ \A s \in Source : ~Locked(s)
  /\ source' = [s \in Source |-> IF Open(s) THEN [source[s] EXCEPT !.state = "deleting", !.gen = @ + 1]
                                            ELSE source[s]]
  /\ job' = [s \in Source |->
       IF Open(s) THEN [extract |-> Cancelled(job[s]["extract"]), purge |-> Queued]
       ELSE IF Unpurged(s)
         THEN [job[s] EXCEPT !["purge"] = Queued]
         ELSE job[s]]
  /\ cand' = [s \in Source |-> IF Open(s) THEN Redacted(cand[s]) ELSE cand[s]]
  /\ portrait' = IF portrait = "live" THEN "purge_pending" ELSE portrait
  /\ legacy' = "marked"
  /\ UNCHANGED <<artifact, object, late, uploader, worker, tab, bounds>>

\* The visual worker erases what the companion held.
PortraitPurged ==
  /\ portrait = "purge_pending" /\ portrait' = "purged"
  /\ UNCHANGED <<rows, object, late, uploader, worker, tab, legacy, bounds>>

Ready ==
  /\ \A s \in Source : source[s].state \in {"none", "deleted"} /\ artifact[s].state \in {"none", "purged"}
  /\ portrait \in {"none", "purged"}

\* Without a recorded hash a remote upload may still be on its way.
Certain == \A s \in Source : Remote /\ artifact[s].state # "none" => artifact[s].hashed

ReadRegistry(w) ==
  /\ worker[w].at = "idle" /\ legacy = "marked" /\ Ready /\ Certain
  /\ worker' = [worker EXCEPT ![w].at = "registry"]
  /\ UNCHANGED <<rows, object, late, uploader, tab, legacy, portrait, bounds>>

EraseRegistry(w) ==
  /\ worker[w].at = "registry"
  /\ worker' = [worker EXCEPT ![w].at = "erased"]
  /\ object' = [s \in Source |-> FALSE]
  /\ UNCHANGED <<rows, late, uploader, tab, legacy, portrait, bounds>>

ForgetLegacy(w) ==
  /\ worker[w].at = "erased" /\ worker' = [worker EXCEPT ![w] = Idle]
  /\ IF legacy = "marked" /\ Ready
       THEN /\ legacy' = "erased"
            /\ source' = [s \in Source |-> [source[s] EXCEPT !.state = "gone"]]
            /\ job' = [s \in Source |-> [k \in Kind |-> NoJob]]
            /\ cand' = [s \in Source |-> NoCand]
       ELSE UNCHANGED <<legacy, source, job, cand>>
  /\ UNCHANGED <<artifact, object, late, uploader, tab, portrait, bounds>>

(***************************************************************************)
(* The specification.                                                      *)
(***************************************************************************)
Upload(s) == ReceiveExpired(s) \/ ReceivePut(s) \/ ReceivePutLost(s) \/ ReceiveCommit(s)
             \/ ReceiveFails(s) \/ \E p \in {"source_review", "visual_reference"} : Create(s, p)
Owner(s) == DeleteSource(s) \/ Retry(s) \/ PrepareEdit(s)
Clock(s) == Expire(s) \/ PutLands(s) \/ \E k \in Kind : LeaseExpires(s, k) \/ Due(s, k)
Extract(w) == OpenOriginal(w) \/ AwaitUpload(w) \/ Refuse(w) \/ Fail(w) \/ Stale(w)
              \/ \E found \in BOOLEAN : Persist(w, found)
Purge(w) == PurgeObject(w) \/ PurgeObjectFails(w) \/ PurgeCommit(w)
Finalize(w) == ReadRegistry(w) \/ EraseRegistry(w) \/ ForgetLegacy(w)
ClaimAny(w) == \E s \in Source, k \in Kind : Claim(w, s, k)

Next ==
  \/ \E s \in Source : Upload(s) \/ Owner(s) \/ Clock(s)
  \/ \E w \in Worker : ClaimAny(w) \/ Extract(w) \/ Purge(w) \/ Finalize(w) \/ Crash(w)
  \/ \E t \in Tab : Decide(t)
       \/ \E s \in Source, a \in Action : Preview(t, s, a)
  \/ RequestDeletion \/ PortraitPurged

Spec == Init /\ [][Next]_vars

\* The workers cycle for ever, oldest job first and one finalization per cycle,
\* a leased job is passed over, time passes and the visual worker erases.
FairSpec ==
  /\ Spec
  /\ \A w \in Worker : WF_vars(Extract(w)) /\ WF_vars(Purge(w)) /\ WF_vars(EraseRegistry(w) \/ ForgetLegacy(w))
  /\ \A s \in Source, k \in Kind :
       /\ SF_vars(\E w \in Worker : Claim(w, s, k))
       /\ WF_vars(LeaseExpires(s, k)) /\ WF_vars(Due(s, k))
  /\ \A s \in Source : WF_vars(ReceiveCommit(s))
  /\ SF_vars(\E w \in Worker : ReadRegistry(w)) /\ WF_vars(PortraitPurged)

(***************************************************************************)
(* Properties.                                                             *)
(***************************************************************************)
\* A source reported as deleted, or forgotten with its Legacy, has left nothing in
\* the store: uploads that died, lost jobs and late workers included, save for a put
\* that the remote store itself delayed past every call
\* (media_sources.receive and delete, media_worker._purge, legacy_deletion).
ErasedMeansGone ==
  \A s \in Source : source[s].state \in {"deleted", "gone"} => ~object[s] \/ late[s] = "landed"

\* From the moment a deletion is accepted no private wording is kept, nothing waits
\* for review and no approved support is left, whichever worker or tab comes late
\* (media_sources.delete against media_intelligence._persist and media_review.review).
WithdrawnIsPrivate ==
  \A s \in Source : source[s].state \in Withdrawn =>
    ~cand[s].text /\ cand[s].draft = 0 /\ cand[s].state # "pending" /\ cand[s].link # "approved"

\* A decision is about the last version of a suggestion, and the memory made from it
\* says what the deciding tab was shown, however long its embedding took
\* (media_review.review against prepare_edit).
PreservedAsShown ==
  \A s \in Source :
    /\ cand[s].state \in {"preserved", "skipped"} => cand[s].receipt[3] = cand[s].version
    /\ cand[s].state = "preserved" =>
         cand[s].memory = IF cand[s].receipt[2] = "edit_preserve" THEN cand[s].version ELSE 1

\* A decision is final: of two tabs, or a tab and a worker that analyses again, none
\* reopens it or changes what it made; only the end of the Legacy removes it.
DecisionIsFinal ==
  [][\A s \in Source : cand[s].state \in {"preserved", "skipped"} =>
       \/ legacy' = "erased"
       \/ /\ cand'[s].state = cand[s].state /\ cand'[s].memory = cand[s].memory
          /\ cand'[s].receipt = cand[s].receipt]_vars

\* A job that waits to be claimed gets no result: a worker whose lease was taken over
\* and whose successor's failure the owner retried cannot settle the new attempt.
ResultNeedsClaim ==
  [][\A s \in Source, k \in Kind : job[s][k].state \in {"queued", "retry_wait"} =>
       job'[s][k].state \notin {"succeeded", "partial", "failed"}]_vars

\* What the builder may show as safe has been stored completely; a visual reference
\* also never leaves "uploading" but by its upload or its withdrawal.
CleanMeansStored ==
  \A s \in Source :
    /\ source[s].safety = "clean" => artifact[s].hashed
    /\ ~Reviewable(s) /\ source[s].state \in {"queued", "processing", "ready", "failed"} =>
         artifact[s].state = "available"

\* What is called clean was stored, what was erased is gone, and a result is written only
\* by the worker whose claim it answers (media_sources.py, media_worker.py,
\* legacy_deletion.py).
SourcesHold == [](CleanMeansStored /\ ErasedMeansGone) /\ ResultNeedsClaim

\* Private wording ends with the deletion of its source, a decision is about what was
\* shown, and it is final (media_review.py, media_intelligence.py).
ReviewHolds == [](WithdrawnIsPrivate /\ PreservedAsShown) /\ DecisionIsFinal

\* A deletion that was accepted with its purge job ends in erasure, and so does the
\* deletion of a Legacy, expired reservations included, unless a remote upload may still
\* be on its way (media_worker._purge, legacy_deletion.finalize).
DeletionEnds ==
  /\ \A s \in Source : (source[s].state = "deleting" /\ job[s]["purge"].state # "none")
                          ~> source[s].state \in {"deleted", "gone"}
  /\ (legacy = "marked" /\ Certain) ~> (legacy = "erased")

\* Work that was taken up is settled.
ProcessingSettles ==
  \A s \in Source : source[s].state = "processing" ~> source[s].state # "processing"

\* "Reservation creates the durable job before any bytes arrive" (media_worker.py:95):
\* a reservation stays open until its bytes arrive, it expires or it is deleted.
StaysOpenUntilUploaded ==
  [][\A s \in Source : source[s].state = "uploading" =>
       source'[s].state \in {"uploading", "queued", "deleting"}]_vars

\* "absence alone cannot prove that a previously accepted remote PUT won't arrive"
\* (legacy_deletion.py:105): when the Legacy is forgotten no put is still on its way.
ErasedForGood == legacy = "erased" => \A s \in Source : late[s] # "lost" /\ ~object[s]
=============================================================================
