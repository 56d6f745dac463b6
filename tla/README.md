# TLA+ models of the WaffleBerry backend

WaffleBerry keeps a *Legacy* of a person: its owner talks to **Rya** (the
*builder*), which distils memories, and members, visitors and the owner talk to
the Legacy's *persona*, by text or in a live voice call.  The backend
(`src/backend/app`, FastAPI + SQLAlchemy on PostgreSQL, SQLite in tests) runs in
several processes; background workers prepare a visual companion, process
uploaded media and rebuild a personality profile.  Everything shared goes
through database rows, row locks, leases with generations, and an object store.
That is where the code is hard to test, and what these modules are about.

Paths below are relative to the repository; `services/x` stands for
`src/backend/app/services/x.py`.

## 1. The system

| part | state it keeps | operations | talks to |
|---|---|---|---|
| live sessions (`services/realtime_sessions`, `services/realtime_runtime`) | one row per call: state, generation, ticket hash, lease owner, four deadlines, `active_actor_id` (unique) | authorize, reconnect, consume, owned, close_owned, revoke, sweep | browser (HTTP, websocket), sweeper task, logout and membership code |
| live turns (`services/realtime_transcripts`, `services/realtime_responses`) | `conversation_turns` rows of mode live | admit, release_unanswered, terminate | live sessions (fence), the turn table |
| the bridge of a call (`routes/realtime`, `services/realtime_brain`) | in memory: transcript order, the active output, its task, retired claims, a mailbox | provider events, task results, playback receipts, interruption | provider, browser, live turns, tools |
| tools (`services/conversation_tools`) | the results of one response | select, await a search, check again, publish | memories, visitors, web search |
| text turns (`services/turn_lifecycle`, message routes) | `conversation_turns` rows keyed by conversation and client key; messages | accept_turn, claim_turn, link_user, finish_turn, fail_turn, lifecycle_guard | message routes, live turns (same table, same chat) |
| builder effects (`services/turn_effects`) | `builder_turn_effects`: one memory and one activity receipt per turn | apply_effects: memory transaction, activity transaction | memory service, progress |
| visual companion (`services/visual_companions`, `services/visual_worker`) | profile revision, versions, jobs with fencing token and lease, asset rows, write ledger | prepare, activate, toggle, delete; claim, heartbeat, put protocol, publish, cleanup, purge | two workers, object store, browser tabs |
| object store adapter (`services/visual_storage`) | objects and their versions; the process of a put | put, erase page by page, reconcile | visual worker, S3 or a directory |
| media (`services/media_*`, `services/legacy_deletion`) | sources, jobs with lease and generation, candidates, evidence, reviews, deletion registry | reserve, upload, process, review, delete, forget the Legacy | media workers, object store, visual companion (source deletion) |
| personality (`services/legacy_personality`, `services/personality_*`) | one profile row with generation, lease and backoff | invalidate, claim, build, release, read and check again | every change of a memory, a worker, the dashboard and the persona |
| memories and timeline (`services/memory`, `services/timeline`) | memories, life events, their links | store, edit, delete, preserve; reconcile, create, approve, resolve, archive | builder effects, reviews, dashboard |
| stories (`services/stories`) | the story row, its versions and their support links | generate, edit, publish, archive, mark stale | owner's tabs, a slow provider, changes of facts |
| plans and usage (`services/plan_*`) | receipts of turns and of calls, voice intervals, the cursor of a repair pass | admit under an advisory lock, track, charge, reconcile | text and live turns, setup |
| setup and progress (`services/legacy_setup`, `services/progression`) | the identity of a Legacy, the day's activity and question | bootstrap, hear, tell; record, ask, skip, start | message routes, dashboard |
| accounts (`routes/auth`, `services/challenges`, `services/security`) | users, challenges with attempts and authorizations, refresh cookies | register, verify, complete, reset, log in, refresh, Google | browsers |
| access (`services/access_management`, `services/collaboration`, `services/legacy_access`) | members, codes, invitations | join, invite, accept, revoke, restore, leave, change a code | owner, members, live sessions |
| display picture (`services/display_picture`, `routes/visual_companion`) | the mark of a selected source | select, publish, send | owner, readers, object store |
| telemetry (`services/turn_observability`, `services/usage_accounting`) | the observation of a turn, a bounded queue and its thread | emit, deliver, count a call, summarize | every request |
| personas, prompts, voice, web search, image work | none that outlives a request | pure functions and external calls | providers |

What makes each part correct, and which part is modelled, is in sections 2 to 6;
`PROJECT.json` lists every component with its status and the hazards with their
lines.

### Hard behaviours

* *Two processes, one row.*  Authorize, reconnect, consume, the sweeper, a
  revocation and the connection itself all change one session row; each takes
  the actor lock and re-reads, but a connection remembers what it was told
  seconds earlier.
* *Two kinds of turn, one chat.*  Live turns and text turns are admitted by
  different code under different locks into the same table.
* *Crashes.*  A process may die between any two commits: a pending turn, a
  leased session, a reserved object or a half-applied effect stay behind.
* *Late effects.*  A put to the object store may land after its worker lost the
  lease; a provider event may arrive after the answer it belongs to was
  interrupted; a duplicate HTTP request may arrive while the first is answered.
* *Deadlines.*  Ticket, lease, grace period and absolute expiry all race with
  the actions they limit.

## 2. Modules

| module | models | kind |
|---|---|---|
| `TurnLedger` | what the turn table promises, whoever writes it | abstract specification |
| `LiveSessions` | live sessions, websocket connections, live turns, beside text turns | detailed, implements `TurnLedger` |
| `TurnLifecycle` | text turns under client keys, their failure guard, builder effects, beside live turns | detailed, implements `TurnLedger` |
| `LiveBridge` | the controller of one connected call, with its provider and its browser | component |
| `ConversationTools` | the read tools of a response | component |
| `VisualConsent` | the life each version of a visual companion is promised | abstract specification |
| `VisualPipeline` | the owner's commands on the companion, the workers that prepare and erase its versions | detailed, implements `VisualConsent` |
| `ObjectStore` | one key of the object store: puts, erasure, reconciliation | component |
| `DisplayPicture` | what a visitor sees, and the bytes on their way | component |
| `MediaPipeline` | sources from reservation to erasure, review, deletion of the Legacy | component |
| `PersonalityProfile` | the derived profile, its workers and its readers | component |
| `MemoryTimeline` | canonical memories and the life events made from them | component |
| `StoryDrafts` | versions of a story and what they rest on | component |
| `PlanText`, `PlanVoice` | the daily allowances of text turns and of calls | components |
| `LegacySetup`, `BuilderJourney` | how a Legacy comes to be; one day of building it | components |
| `AccountAccess`, `LegacyAccess` | who somebody is; who may build a Legacy or talk to it | components |
| `Telemetry` | what a turn tells about itself, and the sink it tells it to | component |
| `LiveSessions_proofs`, `TurnLifecycle_proofs`, `VisualPipeline_proofs`, `MediaPipeline_proofs`, `PersonalityProfile_proofs` | theorems about the module of that name; those about the abstract specification stand with the module that implements it | proofs |
| `Records_proofs`, `Requests_proofs`, `Streams_proofs` | theorems about the components of `MCRecords`, `MCRequests` and `MCStreams` | proofs |
| `MC*` | instances for TLC, bounds and symmetry | model checking |

In every module an action is a committed transaction or a call that leaves the
process; where a request reads, awaits and commits, these are steps of their own
and anything may happen between them.

### LiveSessions

One action is one committed transaction.  `row[s]` is the `realtime_sessions`
row, with deadlines kept as the time that remains; `conn[w]` is what a websocket
connection holds in memory after `consume` (its generation, the ticket it spent,
the output it plays, the reason it will close with); `turn[s][i]` is the live
turn keyed by session and provider item; `text`, `creator` and `access` are the
text turns, conversation owners and the verdict of `resolve_scope`.

| action | code |
|---|---|
| `Authorize`, `Reconnect`, `ReconnectRefused`, `Revoke` | the functions of the same name in `services/realtime_sessions`; `Recover` is `_recover`, `Finish` is `_finish` |
| `Consume`, `Ready`, `Heartbeat`, `FenceLost`, `Drop`, `CloseOwned`, `EndCall` | `consume`, `owned`, `close_owned`, as `connect` of `routes/realtime` and the bridge call them |
| `Admit`, `Terminate` | `admit` (with `bind_once`) and `terminate` |
| `Sweep` | `sweep`, which the lifespan task runs every five seconds |
| `Crash`, `Tick`, `ChangeScope` | a process dying, time, a change of scope made without `revoke` |

The unwinding of a connection is two steps on purpose: it stops (`Drop`,
`FenceLost`), and seconds later `CloseOwned` compares owner and generation, after
anything else may have happened to the row.

### TurnLifecycle

`req[r]` is a request of the JSON or the streaming route with its key and
content; `turn[r]` the row it inserted; `gate[c]` the lock on the conversation
row that admission holds when live calls are enabled; `effect[r]`, `fin[f]` and
`writer[r]` the receipts, the finalizers and the row lock of `apply_effects`.

| action | code |
|---|---|
| `Check`, `Insert` | the two halves of `accept_turn`: the select, and the insert with its IntegrityError path; `Replays` is `existing_result` |
| `Claim`, `Link`, `Finish` | `claim_turn`, `link_user`, `finish_turn` with the commits of the routes around them |
| `Fail` | `lifecycle_guard` calling `fail_turn` on an error or a cancellation |
| `MemoryBegin`, `MemoryStore`, `MemoryFails`, `MemorySkip`, `Activity` | the two transactions of `apply_effects` and the rollback between lock and lock |
| `LiveAdmit`, `LiveEnd` | the live turns, reduced to what accept_turn sees of them |
| `Crash` | the process or its database connection is lost |

### TurnLedger

Two variables: the status of each turn and the conversation it was accepted
into.  A turn is accepted once and settled once; a live turn is accepted only
alone, a text turn never beside a live one.  `LiveSessions` and `TurnLifecycle`
are each checked and proved to implement it (`ImplementsLedger`); `LiveAlone` is
proved of the ledger, so each of them inherits it.

### VisualPipeline

`profile` is the row of the companion; `version[v]` the row of a version with its
prepare job, its purge job and the bundle of each attempt; `work[w]` where
worker `w` is and what it remembers; `write` and `absent` the durable write
ledger; `store`, `landed` and `flight` what the worker sees of the object store.  A
database transaction is one step and every call to the store, and the time spent
rendering, lies between steps.

| action | code |
|---|---|
| `Admit`, `Activate`, `Toggle`, `Delete`, `SourceDelete` | `admit`, `activate`, `toggle`, `delete` and `source_deleted_in_transaction`; `Withdrawn` is `enqueue_purge` |
| `ClaimPurge`, `ClaimPrepare`, `ClaimNothing` | `claim`: overdue previews are retired, then a purge, else a preparation; `Occupied` is its busy and writing query |
| `Heartbeat`, `Load`, `Reserve`, `BeginPut`, `PutReturns`, `Verified`, `Publish` | `run_once` and the functions it calls; `Fence` is `_prepare_fence` |
| `Fails`, `PutFails`, `Cleanup`, `Settle` | its exception handlers, `cleanup_attempt` and the rest of `_failed` |
| `Look`, `Prove`, `SweepRemote`, `Count`, `Proved`, `Erase`, `EraseFails`, `Defer`, `Commit` | `purge`, `_remote_erasure`, `_purge_retry` |
| `Land`, `Crash`, `Tick`, `Expire` | an object appears, a process dies, time passes, seven days go by |

A fencing token is unique per claim and a worker has one claim at a time, so the
token is named by the worker: what a dead process may still do is only the put
it left behind.  The revision of the profile is an integer that a tab sends back;
only whether it still is the current one matters, so `seen[t]` holds the profile
that tab `t` read, or `None` once the revision has moved.  `claim` looks at
several due preparations in one transaction; of one Legacy at most one can be
eligible (`OnlyDesiredPrepared`), so the model looks at one.

### VisualConsent

Each version is asked for, offered, live, withdrawn, erased, in that order; the
approval of one withdraws the one before.  `VisualPipeline` is checked and proved to
implement it under the mapping `stageBar`, in which failed attempts, retries,
crashes and asset-only purges are invisible.

### LiveBridge

One call between three parties.  `items`, `tail` and `order` are the transcript
order, `active`, `out` and `task` the output being answered, `mailbox` the results
that wait, `retired` the claims that were told to stop, `remote` how far the
provider is with each phase of each response, `sent`, `sealed`, `played` what the
browser got and heard.  The controller takes one event at a time, so a handler is
one action.

| action | code |
|---|---|
| `Commit`, `Transcribe` | the provider's transcript events; `Ready` is `TranscriptOrder.ready`, `Heard` the admission loop |
| `Prepare`, `RunTools`, `TakeReady`, `TakeFailed`, `TakeError` | the two tasks of `realtime_brain` and the mailbox entries they leave |
| `Created`, `Audio`, `AudioDone`, `TextDone`, `ResponseDone` | `Output.provider` and the provider branch of `bridge`; `Announced` looks at `retired` |
| `Play`, `Progress`, `Drained` | the browser; `Proven` is the playback proof |
| `Interrupt`, `EndCall`, `Close`, `Release`, `Revoke` | `interrupt`, the end of a call, and what `LiveSessions` does to it |

### ConversationTools

`fact` and `verified` change under a response that is `allowed` until its turn is
over.  `Begin`, `Select`, `Await`, `Answer`, `Accept`, `Publish` follow
`execute_tools` and `execute`: selection before the await, `Current` after it.

### ObjectStore

`versions` is the set of what the store holds under one key, the newest with the
greatest id, in one of four `mode`s: a directory, an unversioned bucket with a hidden or visible null version, a versioned
one.  `parent` and `child` are the caller of a put and its process, `wire` what the
process sent.  `ListPage`, `DeletePage`, `HeadCurrent`, `Relist`, `Recheck` are the
calls of `erase`; `BeginFind`, `FindPage`, `Found` those of `reconcile_write`.

### MediaPipeline

`source`, `artifact`, `job` and `cand` are the rows; `object` and `late` the store and
a remote put whose answer was lost; `uploader`, `worker` and `tab` the requests and
workers with what they remember; `legacy`, `portrait` the deletion of everything.

| action | code |
|---|---|
| `Create`, `ReceiveExpired`, `ReceivePut`, `ReceivePutLost`, `ReceiveCommit`, `ReceiveFails`, `Expire`, `Retry`, `DeleteSource` | `services/media_sources` |
| `Claim`, `OpenOriginal`, `AwaitUpload`, `Refuse`, `Persist`, `Fail`, `Stale`, `PurgeObject`, `PurgeCommit` | `services/media_worker` and `process_claim` of `services/media_intelligence`; `Held` and `Fenced` are their checks of token, generation and lease |
| `PrepareEdit`, `Preview`, `Decide` | `services/media_review`; `Current` is what it checks after the awaited embedding |
| `RequestDeletion`, `ReadRegistry`, `EraseRegistry`, `ForgetLegacy` | `services/legacy_deletion` |
| `PutLands`, `LeaseExpires`, `Due`, `Crash`, `PortraitPurged` | the store, time, a process, the visual worker |

### PersonalityProfile

`facts` counts the committed changes of memories, entities and conversations;
a profile is the evidence it was read from, so a torn read is a record that never was
`facts`.  `ChangeMemory`, `ChangeEntity` invalidate in their own transaction
(`Invalidated`); `DeleteConversation` does not, as in the code.  `Claim`,
`ReadMemories`, `ReadEntities`, `Publish`, `ReleaseStale` and the failures are
`personality_worker` and `build`; `ReadProfile` to `Show` the reads of the dashboard
and the persona, with `Latest` as their last check.

### Memories, stories, plans

`MemoryTimeline`: a contribution holds the Legacy's lock from `StoreBegin` to
`StoreCommit` and applies candidate by candidate to the list it read (`Applied`),
`Edit`, `Delete`, `Preserve` look for a twin under the lock; `Reconciled` is
`reconcile_memory`, `Refreshed` `_refresh_conflict`, and `Create` to `Resolve` the
owner's work on the timeline.

`StoryDrafts`: `Ask`, `Accept`, `Supersede`, `Fail`, `Record` are a generation;
`Newest` is its look at the current version before the commit.  `Edit`, `Show`,
`Archive` are the owner's; `Flush` and `CommitChange` the listener that marks a
story stale when a fact changes.

`PlanText`: `AdmitReserved` is an admission under the advisory lock, `AdmitShadow`
one without enforcement, `RepairRead` and `RepairWrite` the two halves of a pass of
`reconcile`.  `PlanVoice`: `Connect`, `Ready`, `Heartbeat`, `Close`, `Recover`,
`Reconcile` write the interval of a connection and its receipts, day by day
(`Segment`), and `Charge` takes no more than the day has left.

### Setup, accounts, access, picture, telemetry

`LegacySetup`: `Look`, `Select`, `Admit`, `Create` are the three ways to a new Legacy
under the person's lock and the plan's; `Hear` and `Tell` a message that reads the
identity and writes the columns it found empty.  `BuilderJourney`: `Record` and
`Save` are a contribution, with the Legacy's lock or without, `Again` its second
try; `Ask` to `Started` the day's question.

`AccountAccess`: each request reads and commits apart; `Triable`, `Authorized`,
`RefreshTokenMatches` are what it reads, `Fingerprint`, `GivenBack` what it leaves.  A
registration or a Google sign-in commits the user (`CompleteRegistration`, `Link`,
`Enrol`), reads the row again (`ReRead`, the `db.refresh` after the commit) and sets its
cookie (`SetSession`) in three steps.
`LegacyAccess`: `Ask…` are the reads, the other actions the commits; a mapped row
writes only the columns that changed, which is `Sets`.  `DisplayPicture`: `Select`,
`Publish` under the Legacy's lock, `Open` and `Send` a reader around the store's
answer, `SameStill` its second look.

`Telemetry`: `Look`, `Lock`, `Recheck`, `Start`, `Put` are the lines of
`BufferedLogSink.emit`, `Enter` and `Exit` a `RequestUsage`, `Return`, `Iterate`,
`StreamEnds` and `NeverIterated` the two halves of `observe_turn`.

## 3. What the runs check

| run | instance | shows |
|---|---|---|
| `live_calls` | 1 user; 1 session and 3 connections, or 2 sessions and 2 connections; generations to 5 | types; never two open calls of a user; fences: no two connections share a ticket or a generation, a good lease is taken only by its holder or a revocation, the binding of a session stays and is its user's, whoever fences a connection settles its turn |
| `live_chat` | 1 session, 2 connections, 2 utterances, 1 text turn, fair sweeper and time | a live turn is alone in its chat, has an owner who can answer it, is what the controller plays; an output is never replaced; the turn ledger is implemented; every open session ends |
| `live_chat_freed` | as above, 1 utterance | **violation**, section 4 |
| `turn_progress` | 2 requests under one key, 2 contents, 1 recovery caller, admission lock off, fairness | a key admits one turn and a duplicate is answered with the stored pair of the same content; effects are applied at most once and as the receipts say; an admitted turn settles and a completed builder turn gets both receipts |
| `visual_replace` | 1 worker, 2 versions, remote store | purged means erased although a put may land at any time; what viewers are shown is ready, approved, whole, of a live source; `VisualConsent` is implemented |
| `visual_serial` | 2 workers, 2 versions, local store | types; one put and one writer window at a time; only the desired version is prepared |
| `visual_progress` | 1 worker, 1 version, 2 attempts, 1 crash, fairness | every object belongs to a bundle that somebody will publish or purge; a tab that knows the revision knows the profile; withdrawn versions are erased, requests are settled |
| `intake` | media: 1 source, 2 workers, 2 tabs, both stores, 2 faults.  Messages: 2 requests, 1 live turn, a builder and a persona chat | types; what is clean was stored, what is erased is gone, a result needs its claim; private wording ends with its source, a decision is final and about what was shown; messages match the state of their turn and the turn ledger is implemented |
| `repairs` | profile: 2 workers, 1 reader.  Receipts: 2 turns.  Media: 1 source, 1 worker; all with fairness | types; a served profile is true, an answer fresh; every rebuild, every receipt, every processing and every deletion ends |
| `records` | text allowance, timeline (2 memories), setup and journey (2 callers), telemetry (1 turn, 1 thread beside the loop) | types; no twins; what the owner resolved stays resolved; text allowance and capacity are kept, receipts do not go back; a milestone is told once; one consumer of events, one summary per turn |
| `requests` | voice allowance (2 connections over a midnight), stories, tools, accounts, picture (2 requests each) | types; no day is overcharged or charged twice; the newest request wins; facts are current when they are answered and published together; a cookie that refreshes is of a sign-in that read the password of today, whenever a reset falls between its steps; a registration's proof makes one account; the last choice is shown and what is sent was current |
| `streams` | a call with 2 utterances, an object store with 2 writers in 4 modes, 2 people and 1 invitation | types; order, playback proof, no orphan response, silence after the end; an erasure has erased, for good after a proof; access comes back by restoration or invitation only |

Each property of a passing run comes with a plausible bug (a *mutant* definition
beside the one it replaces, listed in `PROJECT.json`) under which TLC finds the
property violated in the same run.

**Composites.**  `MCIntake`, `MCRepairs`, `MCRecords`, `MCRequests` and `MCStreams`
hold instances of components that share no variables.  A variable `part`, chosen at
the start, says which component moves; the others keep their initial state.  So a
run checks each component by itself, and a property of one component is vacuous only
in the parts of the others.  The components that do interact are composed where it
matters: live and text turns in `LiveSessions` and `TurnLifecycle`, which both
implement `TurnLedger`; source deletion inside `VisualPipeline`; the portrait inside
`MediaPipeline`.  The sizes of the instances are constants of the composites with
named assumptions, given values in the `.cfg`, so that the proofs are about any sizes.

**Bounds.**  Deadlines are one to three ticks, so that each deadline falls both
before and after each action that it races; `MaxGen` only stops reconnect
requests, every other generation step is free.  Two connections give one stale
and one current holder, three give a replaced ticket between them.  Two sessions
of one user are needed for the slot, and there two connections suffice
(`OneSessionOrTwoConnections`); nothing of a third session is compared with
more than one other.  Two requests under one key are a winner and one that loses
the insert or arrives later.

In the visual runs a lease and a put last one tick and the writer window two, so
a lease can end inside the window and a put can be refused for want of time; two
attempts are the code's `MAX_PREPARE_ATTEMPTS`, and give a retry beside the purge
of the first.  Two versions give one current and one candidate; a third would
only be a second superseded one.  One run has a state bound: in
`visual_serial` no source is deleted and no preview expires (`OwnerOnly`).
Crashes are in `visual_progress`, with one worker: a second worker adds nothing
to what the put of a dead one can still do.  `TransitionTTL`, `RetryTTL` and
`AbsenceTTL` are zero where the run is not about them.

In the other components the bounds count changes (`MaxChange`, `MaxWork`,
`MaxVersion`), failures (`MaxFaults`) and rows (`MaxLegacy`, `MaxCode`, `MaxCall`):
each is large enough for the two overlapping requests, or the request and the change
under it, that the hazards are about.  `repairs` has one media worker, which may
crash or lose its lease; the safety of two is in `intake`.  `PlanVoice` has days of
three ticks and a clock that ends in the second day.

Identities are symmetric in the safety runs and are not in the runs with
liveness.

**Fairness.**  `LiveSessions!FairSpec` assumes only that time passes and that
the sweeper keeps sweeping a due row (`main.py` starts the task for the life
of the process and it survives errors); neither browsers nor connections need
to do anything.  `TurnLifecycle!FairSpec` assumes that a request already
admitted takes its next step: the provider and memory calls it awaits return,
fail, or time out.  No arrival, no crash and no recovery caller is assumed.

`VisualPipeline!FairSpec` assumes that time passes, that a worker keeps taking
steps (the service restarts it after a crash), and, strongly, that a purge that
holds its lease gets to each of its steps in the end.  The last is what the
heartbeat thread is for: it renews a lease of 30 seconds every 10, and the
operations of the store are bounded by 32.  Without it a purge could lose its
lease before its commit in every round.

`MCRepairs!AllFairness` is the fairness of the three components' own `FairSpec`.
The profile's workers poll for ever, go on with what they claimed, and time passes.
The repair pass runs every 15 seconds and catches its errors; strong fairness of
`RepairWrite` says that of the passes that begin, not all die.  The media workers
take the oldest due job, so each job that is due again and again is claimed
(strong), and go on with what they claimed; leases end and backoffs pass; the
visual worker erases the portrait.  Faults are bounded in number, which stands for
"not for ever".

`CHECK_DEADLOCK FALSE` appears where the system may really stop: all requests
answered, all sessions over.

## 4. Where the code and its documents differ

**A refused reconnect leaves the chat busy** (`live_chat_freed`).  `reconnect`
recovers the row and, when it has just expired, commits and raises 409 before
it reaches `release_unanswered` (`services/realtime_sessions`, line 189).
The row is terminal from then on, so neither `sweep` nor `authorize` looks
at it again, and the live turn of the crashed connection stays in
`streaming`.  Every later turn of that conversation is refused.  The comment
at `services/realtime_transcripts`, line 232, says that this cannot happen.
`BusyTurnHasOwner` and `FencingReleasesTurns` name this one path as their
exception, and hold everywhere else.

The following statements are defined beside the properties of their modules and are
**not** claimed: no run lists them, and TLC refutes each when it is added to the
configuration of its component.

| statement | what the code does |
|---|---|
| `VisualPipeline!PurgeAwaitsWriter` (`services/visual_worker`, line 534) | a purge reads whether it has to wait in its first transaction; a deletion meanwhile lets the last one mark the version purged within a writer window.  No object is lost: the late worker fails its fence |
| `VisualPipeline!TransitionWindow` (`docs/L19_PHASE_A_ARCHITECTURE.md`, line 177) | `enqueue_purge` drops the delay if a purge job of the version is still active |
| `MediaPipeline!StaysOpenUntilUploaded` (`services/media_worker`, line 95) | a worker that claims the job before the bytes arrive takes `storage_not_found` for final (`services/media_intelligence`, line 262) and the upload is refused |
| `MediaPipeline!ErasedForGood` (`services/legacy_deletion`, line 105) | with a recorded hash the registry is erased while an earlier lost put may still land (line 121) |
| `PersonalityProfile!ReadyIsAccepted` (`docs/l13-phase-b.md`) | deletion of a conversation changes provenance without invalidating; the readers refuse a ready profile that nobody rebuilds (`routes/conversations`, line 212) |
| `LegacySetup!IdentityIsOneAnswer` | two messages may write the target and the relation of different answers (`services/legacy_setup`, line 165) |
| `StoryDrafts!BuiltOnCurrent` (`docs/L18_PHASE_A_ARCHITECTURE.md`, line 77) | an edit is applied to the version that is current at its commit, whatever the owner saw (`services/stories`, line 300) |
| `StoryDrafts!StaleIsMarked` (same, line 394) | a fact that changes while a version waits for its commit leaves the story marked current (`services/stories`, line 291) |
| `MemoryTimeline!DatesAreSupported` | an edited memory keeps its link to the event and its approved date (`services/timeline`, line 95) |
| `AccountAccess!ProvedToday` | a reset that commits between the commit of a registration and its `db.refresh` (`routes/auth`, lines 94 and 95) gives the registering browser a cookie with the fingerprint of the new password; `CookiesFollowPassword` is what holds of it, as of every other sign-in |
| `PlanVoice!NeverInvented` (`PLANS_PHASE_3.md`) | a repair extends the interval of a dead connection to the row's last sight of it (`services/realtime_sessions`, line 296) |

## 5. What is proved

The theorems hold for any values of the constants that satisfy the named
assumptions: any finite or infinite sets of users, sessions, connections, requests,
sources, tabs, workers and turns (where something is counted or the newest is sought, in
`VisualPipeline`, `PlanText`, `MemoryTimeline` and `ObjectStore`, finite ones), any
deadlines and any bounds.  The assumptions say that bounds are natural numbers, that a
page has room for something, and that no identity is also a word for "nobody" or
"nothing".  Every safety property of every run is a theorem, but for those named at the
end of this section.  Each safety theorem has the same form.  The property is
not inductive as it stands; a stronger invariant is, and a lemma per action (or per
group of actions that change the same columns) shows that the action keeps it.

**`LiveSessions_proofs`** (`TimesAssumption`, `NoneAssumption`).

* `TypeCorrect`: `Spec => []TypeOK`.  `TInv` adds that a connection inside a session
  serves a real one; `LInv`, that a row has a lease owner only while it is leased.
* `OneSessionPerUser`: `Spec => []OneActivePerActor`.  `StepShape` reduces every
  action but `Authorize` to "an active row was active before, with the same
  user"; `AuthorizeStep` treats the new row.
* `LiveTurnIsAlone`: `Spec => []LiveTurnAlone`.  A connection could bind its session
  to a conversation while a turn of the same session is open; `SInv` excludes it,
  and `StepShape` says that no action but `Admit` opens a live turn or changes the
  conversation of a row with one.
* `SessionsKeepLedger`: `Spec => ImplementsLedger`, the refinement of `TurnLedger`.
  `SettleShape` says that every step but an admission settles, in one way, some of
  the turns that are active; `Placed`, that a turn has a place from its admission on.
* `FenceIsSafe`: `Spec => FencingHolds`.  Two connections hold different tickets
  because of where a ticket stands: `FInv` says that a ticket a connection spent is
  before its generation, and before every ticket of the row that is still unused.
  `CInv` keeps the conversation the actor's, `BindingKept`, `Undisturbed` and
  `TurnsReleased` are the action properties.
* `OutputIsSafe`: `Spec => OutputHolds`.  `OInv` says that only a bridging connection
  plays an output; `Quiet` is what most steps have in common, that rows are left,
  held or dropped and connections go on or give their output up.

**`TurnLifecycle_proofs`** (`ModeAssumption`, `NoneAssumption`; with the admission lock and without it).

* `TypeCorrect`, `MessagesMatch`: types, and the message links of each state; with the
  ledger below, `MessagesAreHeld`: `Spec => MessagesHold`.
* `KeyAnsweredOnce`: `Spec => []AnsweredOnce`.  `RInv` ties the progress of a request to
  the row that it inserted: a request that has not been accepted has no row, so the
  row that answers a key is the one that its inserter works on.
* `EffectsAppliedOnce`: `Spec => []EffectsOnce`.  Counting what was stored is not
  enough: `EInv` says that whoever is storing a memory holds the row lock and found
  no receipt, and that whoever counts the activity found one.
* `TurnsKeepLedger`: `Spec => ImplementsLedger`.  `GInv` says that between the select
  and the insert of an admission no live turn enters its conversation, because the
  request holds the lock on it.

* `LedgerLiveAlone`: the ledger keeps a live turn alone (`Ledger!LiveAlone`).
  `LiveTurnKeptAlone` is the same of the message routes, because they implement it.

**`VisualPipeline_proofs`** (`VisualAssumption`; for a local and for a remote store unless said
otherwise).  One inductive invariant, `Inv`, carries all of it:

| part | says |
|---|---|
| `TypeOK` | the types of rows, ledgers and workers |
| `RowsOK` | of one version: a reserved bundle is that of the running, last attempt; a bundle that waits for its purge has an active job; a version that is being withdrawn has no reserved and no available bundle; only a queued or preparing version has an active preparation |
| `WritersSerial` | at most one preparation is inside its writer window |
| `Pointers` | the desired and the current version agree with the rows; what is current is fit to be shown |
| `Shape` | where a worker can be, and which keys it may touch there |
| `Attempts` | no two workers have one attempt of a version; who holds the job has the last one; what it is about to publish is in the store |
| `Keys` | what the ledger, the store, the wire and the bundle say of one key |
| `Purges` | what a purge has already made sure of, key by key, although its lease may be gone |
| `LocalPuts` | a put into a local store has its worker and its writer window |

`Pointers` and `Keys` give `StoreMatchesRows`, but neither is kept by itself: a
publication keeps `Pointers` only because of `Attempts`, the commit of a purge keeps
`Keys` only because of `Purges`, and those hold because of `RowsOK` and `Shape`.

* `TypeCorrect`, `StoreFollowsRows` (`[]StoreMatchesRows`), `RowsTellAll`
  (`[]RowsAccount`): what is purged is gone and nothing of it is on its way; what is
  current is approved and whole; every object belongs to a registered bundle that
  somebody will publish or purge; a tab that knows the revision knows the profile.
* `WantedPreparedAlone`: only the desired version has an active preparation, and one
  preparation at a time is inside its window, over either store.
* `PreparationsSerial`: `[]OnePreparation` over a local store.  The hypothesis
  `~Remote` is the code's: a remote put whose caller gave up may land at any later
  time, beside the put of the next attempt; the write ledger, not seriality, is what
  makes that safe, and `StoreFollowsRows` is proved for it.
* `VersionsLiveAsPromised`: `Spec => ImplementsConsent`.  Each action maps to a step of
  `VisualConsent` or leaves `stageBar` and what is shown alone.
* `AtMostOneLive`, `ShownOnlyWhileLive`: properties of the promised life, for any set of
  versions.  `Consent!FewerLive` and `Consent!LiveKept` say what a step leaves of the
  live versions; `Approve` is the one step that makes a version live.  `ApprovedAlone`:
  the pipeline inherits them, at most one version is approved and nothing is shown
  without one.

**`MediaPipeline_proofs`** (`MediaAssumption`; over either store).  Erasure, privacy and review
are about one source at a time, and what breaks them is somebody who comes late: so the
inductive invariant, `Inv`, has a part per source and a part per worker and tab.

| part | says |
|---|---|
| `TypeOK` | the types, and that a lease that runs has an owner |
| `BytesOK` | bytes are received only by a reservation of an active Legacy; what is available has its hash; an original that is purged belongs to a source that is deleted; a deleted one has no object, or one that the store delayed |
| `GenerationOK` | the generation moves with the withdrawal, and a purge job exists only after it |
| `CandOK` | a suggestion, its draft and its receipt agree on the version; before the bytes are there and after the withdrawal nothing of it is private |
| `JobOK` | only a running job has a claim, so whoever holds a token holds a running job |
| `WorkerOK` | what a worker still knows of its source although its lease may be gone: an opened visual reference has its bytes, a purge works on a withdrawn source, and after its delete the object is gone or was delayed |
| `TabOK` | a tab that will keep an edited wording was shown an edited one |

`Onward` says how a source goes on (never back to a reservation, never out of its
withdrawal, and with no new object once its object is gone); `WorkerKept` concludes that
every worker's knowledge survives the step of anybody else, and `Assembled` that a step
is done when it is right about the rows that it writes.

* `TypeCorrect`: `Spec => []TypeOK`.
* `SourcesAreHeld`: `Spec => SourcesHold`.  `ErasedMeansGone` needs `WorkerOK`: between
  the delete of an object and the commit that reports it, the lease may expire, another
  worker may purge and the Legacy may be erased.  `ResultNeedsClaim` is an action
  property: `HeldRuns` says that a fence that passes finds a running job.
* `ReviewIsFinal`: `Spec => ReviewHolds`.  `PreservedAsShown` needs `TabOK` and
  `DecisionOK`: the wording that a tab was shown is the draft of the version that it
  names, and a draft is never version 1.  `DecisionIsFinal`: the one step that writes a
  decision finds none, the others redact, or find the suggestion again.

**`PersonalityProfile_proofs`** (`BoundsAssumption`, `NoneAssumption`).

* `TypeCorrect`: `Spec => []TypeOK`.
* `ServedIsTrue`: `Spec => []ProfileIsTrue`.  The reason that a ready profile is true is
  what each worker has read: a worker whose generation is still the row's has read the
  memories, or the memories and the entities, as they are; a change moves the
  generation and so ends every such claim.
* `AnswersAreFresh`: `Spec => ShownIsFresh`, from the same invariant: what a reader
  shows was served under the generation that its last check still finds.

In the three composites the part that does not move stutters (`EachSteps`), so a behaviour
of the composite is a behaviour of each component, each of which has an inductive
invariant of its own.

**`Records_proofs`** (`PlanTextAssumption`, `MCRecordsAssumption`).

* `TypeCorrect`, of `PlanText`: `Spec => []TypeOK`.  That the cursor is a turn needs
  `LastIsIn`: a finite set of numbers has a largest one.
* `AllowanceIsKept`: `Spec => TextHolds`.  Admission counts receipts and the allowance is
  about turns; `Consistent` ties them (a reserved turn that is open or answered has a
  receipt that counts; a settled receipt says what its turn came to), and `Earlier`
  says that what a repair pass has read is an earlier state of the turn, so that its
  stale write neither frees a reservation nor settles an open turn.
* `BuildingIsSafe`: `AllSpec => []BuildingHolds`.  The capacity of an enforced plan holds
  because of `AloneAdmitted`: who has found room still holds the person's row, alone,
  until the Legacy is there.  That an active Legacy is complete needs `HeardEarlier`: a
  message fills the columns that it read as empty a while ago, and what was known then
  is still known.  `JourneyInv` carries `SawTheRow`: a contribution that saw no activity
  is told that it came first, and one that saw some still finds it when it writes.
* `TelemetryIsTold`: `AllSpec => []TelemetryHolds`.  `SinkInv`: who looks again, or starts
  the thread, holds the lock alone, and before it is recorded the thread was not
  started.  `ClosedBetween`: no call of a provider is open between the two halves of a
  turn, so its end is told once.
* `NoTwinsKept`: `AllSpec => []NoTwins`.  The contribution that holds the lock works on a
  list of its own: `Knows` says that every active row is in that list and that no two
  of its rows say the same, after every candidate that it applied; edits, deletions and
  preserved facts wait for the lock.
* `ResolutionIsKept`: `AllSpec => ResolutionHolds`.  `StaysSettled` relates two states of
  the timeline: links only become active, and an event that the owner resolved stays so
  unless one did.  It holds of one structured memory (`StructuredKeeps`: who joins is the
  reason for the new conflict), is transitive (`KeptTwice`), and so holds of a whole
  contribution, whose memories are reconciled in the order in which they changed
  (`AllReconciledKeeps`, with `Climb`).  A deleted memory leaves its events instead, and
  none of the resolved ones is looked at again (`ReconciledKeeps`).
* `RecordsTyped`: `AllSpec => []RecordsTypeOK`, in all five parts.

**`Requests_proofs`** (`PlanVoiceAssumption`, `MCRequestsAssumption`).

* `ProofsAreKept`: `AllSpec => []ProofsHold`.  `AccountInv` says of a request that is under
  way which rows it knows and for what its authorization is (`Informed`), of a cookie that
  it carries the fingerprint of the hash that the sign-in behind it read (`AsRead`), and of
  an account that it alone names its authorization (`Origins`) and that a spent one has its
  account (`Made`).  A refresh passes on only a fingerprint that matched, so a chain of
  refreshes never leads past a reset.  That a reset authorization is spent once is not
  claimed: two resets that overlap may both have read it unspent.
* `NewestStays`: `AllSpec => NewestWins`.  `StoryInv` and `Drafting`: who writes holds the
  row, and the number that he took is still the next.
* `ToolsAnswerTruly`: `AllSpec => ToolsHold`.  `ToolsInv`: a call says that it went well
  only when its answer was made of what holds now, and the calls of a plan are to run,
  run, or have run.
* `LatestPictureHolds`: `AllSpec => PictureHolds`.  `Choosing`: the selection that holds the
  row of the Legacy has read every mark; `MarkedStays`: a marked source leaves the ready
  state only to be deleted; `LatestAlone`: of the marks only the latest is set, or none.
* `VoiceIsChargedOnce`: `AllSpec => VoiceHolds`.  `VoiceInv` has `Intervals` (an interval is
  written while the row has its generation, and a row that connects has none yet),
  `Charged` (a receipt is complete only with an interval that ended, and charges no more
  of a day than lies in its interval) and `Covered`: what the intervals of a day come to
  (`Spent`) and what its connected row will still add (`Unspent`) is no more than the
  ticks that were connected.  A heartbeat moves a part from the second to the first
  (`SegmentJoins`); a tick adds one to the second, on its day alone (`SegmentTicks`).
  That a transaction stays below the allowance follows from `ChargeOfOthers`, which takes
  one receipt out of the sum.  The sums are over any number of connections: `Climb` is
  induction over an interval, drawn from the well-foundedness of the finite subsets, and
  the four lemmas about `Total` are proved with it.
* `RequestsTyped`: `AllSpec => []RequestsTypeOK`, in all five parts.

**`Streams_proofs`** (`LiveBridgeAssumption`, `MCStreamsAssumption`).

* `BridgeIsSafe`: `AllSpec => BridgeHolds`.  `BridgeInv` has `HearInv` (the order of the
  transcripts has passed exactly the utterances that have a turn or were reported),
  `FreshInv` (nobody spoke of the others yet), `OutInv` (the output belongs to a turn
  that was not told to stop; it is audible only when frames were sent), `RemoteInv` (the
  provider speaks for the active output, and will speak only for it or for one that is
  to be stopped when it is announced) and `BrainInv` (preparation, planning, tools and
  answer are asked for one after the other, each once).  `NoOrphanResponse` needs the
  last two: a response that was asked for before its turn ended is announced after it.
* `StoreIsSafe`: `AllSpec => StoreHolds`, in each of the four modes.  `WriteInv` says of each
  writer where his one request can still be; a body that was seen is that of a writer
  who is through (`Spent`).  `EraseInv`: once the second listing showed nothing, a
  versioned bucket has nothing older than that look, and only markers if the one writer
  was proved to be over.  That the listing is right needs `ListedTyped` and
  `TruncatedLists`: a page shows something if there is something to show, for any page
  size, and so the next page starts below it.
* `BackIsByInvitation`: `AllSpec => BackByInvitationOnly`.  `AccessInv`: what a request has
  read of an invitation, whose it is and for which role, is still so when it commits.
* `StreamsTyped`: `AllSpec => []StreamsTypeOK`.

**What stays with TLC.**  On the instances of section 3:

* Liveness (`SlotFreed`, `EverythingSettles`, `RepairsHappen` and the other properties under
  fairness): the prover treats neither fairness nor ENABLED.
* `IntakeTypeOK` and `MessagesHold` of `MCIntake`, as a composition: the halves of the
  first are the `TypeCorrect` of `MediaPipeline` and of `TurnLifecycle`, the second is
  `MessagesAreHeld` of `TurnLifecycle`, each for every value of that module's constants;
  the prover does not carry a theorem through INSTANCE.

## 6. What is abstracted, and what is not modelled

Tokens, digests and timestamps are model values or remaining ticks; a ticket is
named by the generation it was issued in.  A PostgreSQL row lock is a variable
where another step can run while it is held, and part of the atomic step
elsewhere.  Text, prompts, audio and message contents are left out; a request's
content is one of two values where the digest matters, a memory's text is what the
timeline can tell apart in it.  In the visual pipeline
a bundle is the set of its keys, its digests, crops and sizes always match, and
the source of a version is there or deleted.  `AwaitUpload` of `MediaPipeline` is one step
where the worker reads the source in one transaction and puts the job back in the next,
which is fenced by the token alone.  A row that is read again after its commit only to be
returned to the caller is not read in a step of its own, unless something that outlives
the answer is made of it, as a cookie is.  The queue across Legacies, the
limits of 32 and 64 rows a claim looks at, and the backoff of a purge retry are
left out; one Legacy is modelled, which is what every lock covers but the claim
coordinator.

Not modelled, for want of state or because what they do is arithmetic on data:
numeric image work and its providers; prompt assembly (`services/rya`,
`services/legacy_persona`, `services/legacy_intelligence`, `services/personality_style`'s
wording); ranking and retrieval of memories and embeddings; recognition of names and
dates in texts; the figures of progress and streaks; voice, web search and e-mail
delivery, which are calls to external services; the labels and timings of telemetry and the
outcome of a replayed turn; listing, renaming and searching conversations; health
probes, operator scripts, migrations and deployment.

## 7. Plan

1. *Done.*  Turn ledger, live sessions, text turn lifecycle, first theorems.
2. *Done.*  `VisualPipeline`, `VisualConsent`, `ObjectStore`, `DisplayPicture`.
3. *Done.*  `MediaPipeline` with its liveness.
4. *Done.*  `LiveBridge`, `ConversationTools`.
5. *Done.*  `PlanText`, `PlanVoice`.
6. *Done.*  `PersonalityProfile` with its theorems; `MemoryTimeline`, `StoryDrafts`.
7. *Done.*  `LegacySetup`, `BuilderJourney`, `AccountAccess`, `LegacyAccess`,
   `Telemetry`.
8. *Done.*  Proofs about live sessions, text turns, the visual pipeline, media sources
   and the profile, with the refinements of `TurnLedger` and `VisualConsent`; about the
   components of the three other composites, `NoTwins` of `MemoryTimeline` among them.
9. Compositions still to make: `LiveBridge` as the connection of `LiveSessions`,
   `ObjectStore` under `VisualPipeline`.
