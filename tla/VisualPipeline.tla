--------------------------- MODULE VisualPipeline ---------------------------
(***************************************************************************)
(* The visual companion of one Legacy: the owner's commands on its profile *)
(* (visual_companions), the workers that prepare a version and erase it    *)
(* (visual_worker), and the object store between them.                     *)
(*                                                                         *)
(* A version keeps two durable jobs and, for each preparation attempt, a   *)
(* bundle of registered objects.  A worker holds no lock while it renders, *)
(* puts or erases: it comes back with the token it was given and the       *)
(* fence decides.  The token of a claim is named by its worker, who does   *)
(* one job at a time.                                                      *)
(*                                                                         *)
(* Deadlines are kept as the ticks that remain; Tick lowers all of them.   *)
(* The revision of the profile is kept as the set of tabs that know it:    *)
(* seen[t] is the profile that t has read, None once the revision moved.   *)
(***************************************************************************)
EXTENDS Naturals, FiniteSets

CONSTANTS
  Worker,        \* worker processes
  Tab,           \* browser tabs of the owner
  Source,        \* portrait sources of the Legacy
  Role,          \* logical roles of a bundle
  None,
  MaxVersion,    \* bound: versions that are ever requested
  MaxAttempts,   \* MAX_PREPARE_ATTEMPTS
  MaxCrash,      \* bound: crashes of workers
  LeaseTTL, WriterTTL, PutTTL, RetryTTL, TransitionTTL, AbsenceTTL,   \* in ticks
  Remote         \* whether the store is S3, where a put may land at any time

Version == 1..MaxVersion      \* in the order of their requests
Attempt == 1..MaxAttempts
Key     == Version \X Attempt \X Role
NoVersion == 0

ASSUME VisualAssumption ==
  /\ MaxVersion \in Nat /\ MaxAttempts \in Nat \ {0} /\ MaxCrash \in Nat
  /\ LeaseTTL \in Nat \ {0} /\ RetryTTL \in Nat /\ TransitionTTL \in Nat
  /\ AbsenceTTL \in Nat
  /\ PutTTL \in Nat \ {0} /\ WriterTTL \in Nat /\ PutTTL < WriterTTL
  /\ Remote \in BOOLEAN
  /\ None \notin Worker \cup Source \cup Key

VARIABLES
  profile,   \* the visual_companions row
  version,   \* version[v]: its row, its prepare and purge jobs, its bundles
  source,    \* the sources that are not deleted
  seen,      \* seen[t]: the profile that tab t read, if its revision still holds
  work,      \* work[w]: what worker w holds in memory
  write,     \* write[k]: the write ledger of the object k
  absent,    \* absent[k]: the remote absence checks of k
  store,     \* the objects that exist
  landed,    \* the objects that were ever created
  flight,    \* flight[k]: how long the put of k may still land, 0 if none
  crashes

vars == <<profile, version, source, seen, work, write, absent, store, landed,
          flight, crashes>>
external == <<store, landed, flight>>
ledger   == <<write, absent>>

-----------------------------------------------------------------------------
Active == {"queued", "running", "retry_wait"}

Profile == [current: Version \cup {NoVersion}, desired: Version \cup {NoVersion},
            enabled: BOOLEAN, deleted: BOOLEAN]
Prepare == [state: Active \cup {"none", "succeeded", "failed", "cancelled"},
            attempts: 0..MaxAttempts, holder: Worker \cup {None},
            lease: 0..LeaseTTL, writer: 0..WriterTTL, wait: 0..RetryTTL]
Purge   == [state: Active \cup {"none", "succeeded"}, holder: Worker \cup {None},
            lease: 0..LeaseTTL, wait: 0..(RetryTTL + TransitionTTL)]
Bundle  == [state: {"absent", "reserved", "available", "purge_pending", "purged"},
            writer: 0..WriterTTL]
Row     == [state: {"absent", "queued", "preparing", "ready", "failed", "purge_pending",
                    "purged"},
            source: Source \cup {None}, approved: BOOLEAN, expired: BOOLEAN,
            prepare: Prepare, purge: Purge, bundle: [Attempt -> Bundle]]
Work    == [pc: {"idle", "load", "render", "put", "flight", "verify", "publish",
                 "tidy", "clean", "settle",
                 "look", "prove", "sweep", "count", "erase", "defer"},
            v: Version \cup {NoVersion}, n: 0..MaxAttempts, left: SUBSET Key,
            targets: SUBSET Attempt, at: Key \cup {None}, flag: BOOLEAN]
\* absent_since and absence_checks: not looked at yet, absent once and still
\* short of the second look, or absent often and long enough.
Absence == [checks: 0..2, rest: 0..AbsenceTTL]

TypeOK ==
  /\ profile \in Profile
  /\ version \in [Version -> Row]
  /\ source \subseteq Source
  /\ seen \in [Tab -> Profile \cup {None}]
  /\ work \in [Worker -> Work]
  /\ write \in [Key -> {"reserved", "dispatching", "confirmed"}]
  /\ absent \in [Key -> Absence]
  /\ store \subseteq Key /\ landed \subseteq Key
  /\ flight \in [Key -> 0..PutTTL]
  /\ crashes \in 0..MaxCrash

Idle == [pc |-> "idle", v |-> NoVersion, n |-> 0, left |-> {}, targets |-> {},
         at |-> None, flag |-> FALSE]

Init ==
  /\ profile = [current |-> NoVersion, desired |-> NoVersion,
                enabled |-> FALSE, deleted |-> FALSE]
  /\ version = [v \in Version |->
       [state |-> "absent", source |-> None, approved |-> FALSE, expired |-> FALSE,
        prepare |-> [state |-> "none", attempts |-> 0, holder |-> None,
                     lease |-> 0, writer |-> 0, wait |-> 0],
        purge |-> [state |-> "none", holder |-> None, lease |-> 0, wait |-> 0],
        bundle |-> [n \in Attempt |-> [state |-> "absent", writer |-> 0]]]]
  /\ source = Source
  /\ seen = [t \in Tab |-> None]
  /\ work = [w \in Worker |-> Idle]
  /\ write = [k \in Key |-> "reserved"]
  /\ absent = [k \in Key |-> [checks |-> 0, rest |-> AbsenceTTL]]
  /\ store = {} /\ landed = {}
  /\ flight = [k \in Key |-> 0]
  /\ crashes = 0

-----------------------------------------------------------------------------
\* Operations on the rows of one version x.

\* A purge job that is made due after `delay`, unless one is active already.
Requeued(job, delay) ==
  IF job.state \in Active THEN job
  ELSE [state |-> "queued", holder |-> None, lease |-> 0, wait |-> delay]

\* The prepare job cancelled: its writer deadline outlives the lease.
Cancelled(job) ==
  IF job.state = "none" THEN job
  ELSE [job EXCEPT !.state = "cancelled", !.holder = None, !.lease = 0]

\* All bundles in one of the given states become purge_pending.
Condemned(bundle, states) ==
  [n \in Attempt |-> IF bundle[n].state \in states
                     THEN [bundle[n] EXCEPT !.state = "purge_pending"] ELSE bundle[n]]

\* enqueue_purge: the whole version is withdrawn.
Withdrawn(x, delay) ==
  IF x.state = "purged" THEN x
  ELSE [x EXCEPT !.state = "purge_pending",
                 !.prepare = Cancelled(@),
                 !.purge = Requeued(@, delay),
                 !.bundle = Condemned(@, {"reserved", "available"})]

\* _arm_cleanup with the rows to clean: bundles only, nothing is cancelled.
Armed(x, states) ==
  [x EXCEPT !.purge = Requeued(@, 0), !.bundle = Condemned(@, states)]

\* Mutant of the next definition: what an earlier attempt reserved is left.
ArmedNot(x) == x

\* _arm_if_reserved
ArmedIfReserved(x) ==
  IF \E n \in Attempt : x.bundle[n].state = "reserved" THEN Armed(x, {"reserved"}) ELSE x

\* _finish of a prepare job.
Finished(job, state) ==
  [job EXCEPT !.state = state, !.holder = None, !.lease = 0, !.wait = 0]

\* A claim of a job by w.
Claimed(job, w) ==
  [job EXCEPT !.state = "running", !.holder = w, !.lease = LeaseTTL, !.wait = 0]

\* Withdraw the versions of the set S now.
WithdrawnSet(S) ==
  [v \in Version |-> IF v \in S THEN Withdrawn(version[v], 0) ELSE version[v]]

\* The tabs after a change of the revision.
Outdated == [t \in Tab |-> None]

\* The attempts of v whose bundle is published.
Published(v) == {n \in Attempt : version[v].bundle[n].state = "available"}

-----------------------------------------------------------------------------
\* Commands of the owner, each in one transaction under the Legacy's locks.

Read(t) ==
  /\ seen[t] # profile
  /\ seen' = [seen EXCEPT ![t] = profile]
  /\ UNCHANGED <<profile, version, source, work, ledger, external, crashes>>

\* expected_revision: what the tab has read is still the current revision.
UpToDate(t) == seen[t] # None

Requested(s) ==
  [state |-> "queued", source |-> s, approved |-> FALSE, expired |-> FALSE,
   prepare |-> [state |-> "queued", attempts |-> 0, holder |-> None,
                lease |-> 0, writer |-> 0, wait |-> 0],
   purge |-> [state |-> "none", holder |-> None, lease |-> 0, wait |-> 0],
   bundle |-> [n \in Attempt |-> [state |-> "absent", writer |-> 0]]]

\* The candidate that a new request supersedes.
Superseded == {profile.desired} \ {profile.current, NoVersion}

\* admit: a new version is desired; the desired one before it, unless it is the
\* current one, is withdrawn.  A request key that is known changes nothing.
Admit(t, v, s) ==
  /\ UpToDate(t)
  /\ version[v].state = "absent"
  /\ \A u \in Version : u < v => version[u].state # "absent"
  /\ s \in source
  /\ Cardinality({u \in Version : version[u].state = "purge_pending"}) < 2
  /\ version' = [WithdrawnSet(Superseded) EXCEPT ![v] = Requested(s)]
  /\ profile' = [profile EXCEPT !.desired = v, !.deleted = FALSE]
  /\ seen' = Outdated
  /\ UNCHANGED <<source, work, ledger, external, crashes>>

\* What _assets asks of the bundle that is approved or enabled.
Complete(v) == Cardinality(Published(v)) = 1

\* activate: the ready candidate becomes current, the version before it is
\* withdrawn with the transition delay.
Activate(t, v) ==
  LET old == {profile.current} \ {v, NoVersion}
  IN  /\ UpToDate(t) /\ ~profile.deleted
      /\ profile.desired = v /\ version[v].state = "ready" /\ ~version[v].expired
      /\ version[v].source \in source
      /\ Complete(v)
      /\ profile' = [profile EXCEPT !.current = v, !.enabled = TRUE]
      /\ version' = [u \in Version |->
           IF u = v THEN [version[u] EXCEPT !.approved = TRUE]
           ELSE IF u \in old THEN Withdrawn(version[u], TransitionTTL) ELSE version[u]]
      /\ seen' = Outdated
      /\ UNCHANGED <<source, work, ledger, external, crashes>>

\* toggle
Toggle(t, enabled) ==
  LET v == profile.current
  IN  /\ UpToDate(t) /\ ~profile.deleted
      /\ \E u \in Version : version[u].state # "absent"
      /\ enabled => /\ v # NoVersion
                    /\ version[v].state = "ready" /\ version[v].approved
                    /\ version[v].source \in source /\ Complete(v)
      /\ profile' = [profile EXCEPT !.enabled = enabled]
      /\ seen' = Outdated
      /\ UNCHANGED <<version, source, work, ledger, external, crashes>>

\* delete: every version is withdrawn and a tombstone stays.
Delete(t) ==
  /\ UpToDate(t) /\ ~profile.deleted
  /\ \E u \in Version : version[u].state # "absent"
  /\ profile' = [current |-> NoVersion, desired |-> NoVersion,
                 enabled |-> FALSE, deleted |-> TRUE]
  /\ version' = WithdrawnSet({v \in Version : version[v].state # "absent"})
  /\ seen' = Outdated
  /\ UNCHANGED <<source, work, ledger, external, crashes>>

\* source_deleted_in_transaction, with the deletion of the source itself.
SourceDelete(s) ==
  LET affected == {v \in Version : version[v].source = s}
  IN  /\ s \in source
      /\ source' = source \ {s}
      /\ IF affected = {} THEN UNCHANGED <<profile, version, seen>>
         ELSE /\ profile' = [profile EXCEPT
                   !.current = IF @ \in affected THEN NoVersion ELSE @,
                   !.enabled = @ /\ profile.current \notin affected,
                   !.desired = IF @ \in affected THEN NoVersion ELSE @]
              /\ version' = WithdrawnSet(affected)
              /\ seen' = Outdated
      /\ UNCHANGED <<work, ledger, external, crashes>>

\* Seven days go by without an approval.
Expire(v) ==
  /\ version[v].state \in {"queued", "preparing", "ready", "failed"}
  /\ ~version[v].approved /\ ~version[v].expired
  /\ version' = [version EXCEPT ![v].expired = TRUE]
  /\ UNCHANGED <<profile, source, seen, work, ledger, external, crashes>>

-----------------------------------------------------------------------------
\* The worker: fences and claims.

Job(w) == version[work[w].v]

\* _leased, for the two kinds of job.
Leased(job, w) == job.state = "running" /\ job.holder = w /\ job.lease > 0

\* _eligible: the version is still the one that is wanted.
Eligible(v) ==
  /\ ~profile.deleted /\ profile.desired = v
  /\ version[v].state \in {"queued", "preparing"}
  /\ ~version[v].expired /\ version[v].source \in source

\* _prepare_fence
Fence(w) ==
  /\ Leased(Job(w).prepare, w)
  /\ Job(w).prepare.writer > 0
  /\ Eligible(work[w].v)

\* _retire of the versions in S: no longer desired, withdrawn.
Retire(S, versions) ==
  /\ version' = versions
  /\ IF profile.desired \in S
     THEN profile' = [profile EXCEPT !.desired = NoVersion] /\ seen' = Outdated
     ELSE UNCHANGED <<profile, seen>>

\* The unapproved versions that a claim retires first.
Overdue ==
  {v \in Version : /\ version[v].state \in {"queued", "preparing", "ready", "failed"}
                   /\ version[v].expired /\ ~version[v].approved}

Swept == WithdrawnSet(Overdue)

\* The conditions of the candidate query on one job.
Due(job) == job.state \in Active /\ job.wait = 0 /\ job.lease = 0

PurgesDue   == {v \in Version : Due(Swept[v].purge)}
PreparesDue == {v \in Version : Due(Swept[v].prepare)}

\* Mutants of the next definition: only leases count, or running jobs whatever
\* became of their lease.
OccupiedByLease ==
  \E v \in Version : Swept[v].prepare.state = "running" /\ Swept[v].prepare.lease > 0
OccupiedByRunning == \E v \in Version : Swept[v].prepare.state = "running"

\* busy and writing: some process may still be rendering or putting.
Occupied ==
  \E v \in Version :
    \/ Swept[v].prepare.writer > 0
    \/ Swept[v].prepare.state = "running" /\ Swept[v].prepare.lease > 0
    \/ \E n \in Attempt : /\ Swept[v].bundle[n].state \in {"reserved", "purge_pending"}
                          /\ Swept[v].bundle[n].writer > 0

\* claim, when a purge job is due: purges come first.
ClaimPurge(w) ==
  /\ work[w].pc = "idle"
  /\ \E v \in PurgesDue :
       /\ Retire(Overdue, [Swept EXCEPT ![v].purge = Claimed(@, w)])
       /\ work' = [work EXCEPT ![w] = [Idle EXCEPT !.pc = "look", !.v = v]]
  /\ UNCHANGED <<source, ledger, external, crashes>>

\* The prepare job that w claims for its next attempt.
Attempted(job, w) == [Claimed(job, w) EXCEPT !.attempts = @ + 1, !.writer = WriterTTL]

\* The rows of x when w takes its next attempt.
Started(x, w) ==
  [ArmedIfReserved(x) EXCEPT !.state = "preparing", !.prepare = Attempted(@, w)]

\* The rows of x when its attempts are used up.
Exhausted(x) ==
  LET y == Armed(x, {"reserved"})
  IN  [y EXCEPT !.state = "failed", !.prepare = Finished(@, "failed")]

\* Mutant of the next definition: an attempt too many.
HasAttemptTooMany(job) == job.attempts <= MaxAttempts

HasAttempt(job) == job.attempts < MaxAttempts

\* The rows of x when the claim does not take it: no longer wanted, or its
\* attempts are used up.
Refused(x, wanted) == IF wanted THEN Exhausted(x) ELSE Withdrawn(x, 0)

\* claim, when only preparations are due: one is taken, or settled at once.
ClaimPrepare(w) ==
  /\ work[w].pc = "idle"
  /\ PurgesDue = {} /\ ~Occupied
  /\ \E v \in PreparesDue :
       LET wanted == Eligible(v)
           job == Swept[v].prepare
       IN  \/ /\ ~(wanted /\ HasAttempt(job))
              /\ Retire(Overdue \cup (IF wanted THEN {} ELSE {v}),
                        [Swept EXCEPT ![v] = Refused(@, wanted)])
              /\ UNCHANGED work
           \/ /\ wanted /\ HasAttempt(job)
              /\ Retire(Overdue, [Swept EXCEPT ![v] = Started(@, w)])
              /\ work' = [work EXCEPT ![w] =
                   [Idle EXCEPT !.pc = "load", !.v = v, !.n = job.attempts + 1]]
  /\ UNCHANGED <<source, ledger, external, crashes>>

\* claim, when there is nothing to take: the overdue versions are still retired.
ClaimNothing(w) ==
  /\ work[w].pc = "idle" /\ Overdue # {}
  /\ PurgesDue = {} /\ (PreparesDue = {} \/ Occupied)
  /\ Retire(Overdue, Swept)
  /\ UNCHANGED <<source, work, ledger, external, crashes>>

Least(a, b) == IF a < b THEN a ELSE b

\* The prepare job with its lease renewed, never past the writer deadline.
Renewed(job) == [job EXCEPT !.lease = Least(LeaseTTL, job.writer)]

\* The thread of _heartbeat renews the lease of the job under way.
Heartbeat(w) ==
  LET v == work[w].v
  IN  /\ work[w].pc # "idle"
      /\ IF work[w].n # 0
         THEN /\ Fence(w)
              /\ version' = [version EXCEPT ![v].prepare = Renewed(@)]
         ELSE /\ Leased(version[v].purge, w)
              /\ version' = [version EXCEPT ![v].purge.lease = LeaseTTL]
      /\ UNCHANGED <<profile, source, seen, work, ledger, external, crashes>>

-----------------------------------------------------------------------------
\* A preparation: fence, render, reserve, put each role, verify, publish.

At(w, pc) == work' = [work EXCEPT ![w].pc = pc]

\* An exception anywhere in run_once leads to _failed.
FailTo(w, transient) == work' = [work EXCEPT ![w].pc = "clean", ![w].flag = transient]

\* The first fence, the read of the original and the heartbeat after it.
Load(w) ==
  /\ work[w].pc = "load"
  /\ IF Fence(w)
     THEN /\ version' = [version EXCEPT ![work[w].v].prepare = Renewed(@)]
          /\ At(w, "render")
     ELSE FailTo(w, FALSE) /\ UNCHANGED version
  /\ UNCHANGED <<profile, source, seen, ledger, external, crashes>>

\* The read of the original, the provider, a verification or the database fail.
Fails(w, transient) ==
  /\ work[w].pc \in {"load", "render", "put", "verify", "publish"}
  /\ FailTo(w, transient)
  /\ UNCHANGED <<profile, version, source, seen, ledger, external, crashes>>

KeysOf(v, n) == {k \in Key : k[1] = v /\ k[2] = n}

\* The rows of x once its n-th bundle is registered, with the writer's deadline.
Reserved(x, n) ==
  [x EXCEPT !.bundle[n] = [state |-> "reserved", writer |-> x.prepare.writer]]

\* reserve_assets: all keys of the attempt are registered before the first put.
Reserve(w) ==
  LET v == work[w].v
      n == work[w].n
  IN  /\ work[w].pc = "render"
      /\ IF Fence(w) /\ version[v].bundle[n].state = "absent"
         THEN /\ version' = [version EXCEPT ![v] = Reserved(@, n)]
              /\ work' = [work EXCEPT ![w].pc = "put", ![w].left = KeysOf(v, n)]
         ELSE FailTo(w, FALSE) /\ UNCHANGED version
      /\ UNCHANGED <<profile, source, seen, ledger, external, crashes>>

\* What begin_put asks: the key was never dispatched, and the put can end
\* before the writer deadline.
MayDispatch(w, k) ==
  /\ Fence(w)
  /\ write[k] = "reserved"
  /\ version[work[w].v].bundle[work[w].n].writer > PutTTL

\* heartbeat, begin_put, and the start of the put.
BeginPut(w, k) ==
  /\ work[w].pc = "put" /\ k \in work[w].left
  /\ IF MayDispatch(w, k)
     THEN /\ version' = [version EXCEPT ![work[w].v].prepare = Renewed(@)]
          /\ write' = [write EXCEPT ![k] = "dispatching"]
          /\ flight' = [flight EXCEPT ![k] = PutTTL]
          /\ work' = [work EXCEPT ![w].pc = "flight", ![w].at = k]
     ELSE FailTo(w, FALSE) /\ UNCHANGED <<version, write, flight>>
  /\ UNCHANGED <<profile, source, seen, absent, store, landed, crashes>>

\* The object appears.
Land(k) ==
  /\ flight[k] > 0
  /\ flight' = [flight EXCEPT ![k] = 0]
  /\ store' = store \cup {k} /\ landed' = landed \cup {k}
  /\ UNCHANGED <<profile, version, source, seen, work, ledger, crashes>>

\* _record_put, whatever became of the lease meanwhile.
PutReturns(w) ==
  LET k == work[w].at
      rest == work[w].left \ {k}
  IN  /\ work[w].pc = "flight" /\ k \in landed
      /\ write' = [write EXCEPT ![k] = "confirmed"]
      /\ work' = [work EXCEPT ![w].left = rest, ![w].at = None,
                              ![w].pc = IF rest = {} THEN "verify" ELSE "put"]
      /\ UNCHANGED <<profile, version, source, seen, absent, external, crashes>>

\* The put raises.  A local one has ended then, a remote one may still land.
PutFails(w) ==
  /\ work[w].pc = "flight"
  /\ work' = [work EXCEPT ![w].pc = "clean", ![w].flag = TRUE, ![w].left = {}, ![w].at = None]
  /\ flight' = IF Remote THEN flight ELSE [flight EXCEPT ![work[w].at] = 0]
  /\ UNCHANGED <<profile, version, source, seen, ledger, store, landed, crashes>>

\* The verification of publish, outside of SQL.
Verified(w) ==
  /\ work[w].pc = "verify"
  /\ KeysOf(work[w].v, work[w].n) \subseteq store
  /\ At(w, "publish")
  /\ UNCHANGED <<profile, version, source, seen, ledger, external, crashes>>

\* What publish asks in its transaction.
MayPublish(w) ==
  /\ Fence(w)
  /\ Job(w).bundle[work[w].n].state = "reserved"
  /\ Published(work[w].v) = {}

\* The rows of x once its n-th bundle is published.
Ready(x, n) ==
  [x EXCEPT !.state = "ready", !.bundle[n].state = "available",
            !.prepare = [Finished(@, "succeeded") EXCEPT !.writer = 0]]

\* publish: the bundle becomes available with the version, or is stale.
Publish(w) ==
  /\ work[w].pc = "publish"
  /\ IF MayPublish(w)
     THEN /\ version' = [version EXCEPT ![work[w].v] = Ready(@, work[w].n)]
          /\ work' = [work EXCEPT ![w] = Idle]
     ELSE At(w, "tidy") /\ UNCHANGED version
  /\ UNCHANGED <<profile, source, seen, ledger, external, crashes>>

\* The rows of x whose n-th bundle is to be erased, even if it was erased before,
\* unless it is published.
Cleaned(x, n) ==
  [x EXCEPT !.purge = Requeued(@, 0),
            !.bundle[n].state = IF @ \in {"absent", "available"} THEN @ ELSE "purge_pending"]

\* cleanup_attempt: the purge is armed and the attempt's bundle is to be erased.
Cleanup(w) ==
  LET v == work[w].v
      n == work[w].n
  IN  /\ work[w].pc \in {"clean", "tidy"}
      /\ version' = [version EXCEPT ![v] = Cleaned(@, n)]
      /\ work' = [work EXCEPT ![w] =
           IF work[w].pc = "tidy" THEN Idle
           ELSE [Idle EXCEPT !.pc = "settle", !.v = v, !.n = n, !.flag = work[w].flag]]
      /\ UNCHANGED <<profile, source, seen, ledger, external, crashes>>

\* The rows of x when its attempt has failed: another one is due after a while, or
\* the version has failed with it.
Retried(x) ==
  [x EXCEPT !.state = "queued",
            !.prepare = [@ EXCEPT !.state = "retry_wait", !.holder = None, !.lease = 0,
                                  !.writer = 0, !.wait = RetryTTL]]
GivenUp(x) ==
  [x EXCEPT !.state = "failed", !.prepare = [Finished(@, "failed") EXCEPT !.writer = 0]]

\* The rest of _failed: the job of a worker that still holds it is settled.
Settle(w) ==
  LET v == work[w].v
      job == version[v].prepare
      mine == job.holder = w /\ job.state = "running"
      again == work[w].flag /\ HasAttempt(job)
  IN  /\ work[w].pc = "settle"
      /\ work' = [work EXCEPT ![w] = Idle]
      /\ \/ ~mine /\ UNCHANGED <<profile, version, seen>>
         \/ mine /\ ~Eligible(v) /\ Retire({v}, WithdrawnSet({v}))
         \/ /\ mine /\ Eligible(v) /\ again
            /\ version' = [version EXCEPT ![v] = Retried(@)]
            /\ UNCHANGED <<profile, seen>>
         \/ /\ mine /\ Eligible(v) /\ ~again
            /\ version' = [version EXCEPT ![v] = GivenUp(@)]
            /\ UNCHANGED <<profile, seen>>
      /\ UNCHANGED <<source, ledger, external, crashes>>

-----------------------------------------------------------------------------
\* A purge: look, erase the keys, commit; or defer.

PurgeLeased(w) == Leased(Job(w).purge, w)

Whole(x) == x.state \in {"purge_pending", "purged"}

\* The bundles a purge has to erase.
Targets(x) ==
  {n \in Attempt : \/ x.bundle[n].state = "purge_pending"
                   \/ Whole(x) /\ x.bundle[n].state \in {"reserved", "available"}}

\* A registered writer, or a cancelled preparation, may still be at work.
Waiting(x) ==
  \/ \E n \in Targets(x) : x.bundle[n].writer > 0
  \/ Whole(x) /\ x.prepare.writer > 0

\* The first transaction of purge.
Look(w) ==
  LET x == Job(w)
      keys == UNION {KeysOf(work[w].v, n) : n \in Targets(x)}
  IN  /\ work[w].pc = "look"
      /\ IF ~PurgeLeased(w) THEN work' = [work EXCEPT ![w] = Idle]
         ELSE IF Waiting(x) THEN At(w, "defer")
         ELSE work' = [work EXCEPT ![w].pc = IF Remote THEN "prove" ELSE "erase",
                         ![w].targets = Targets(x), ![w].left = keys, ![w].flag = TRUE]
      /\ UNCHANGED <<profile, version, source, seen, ledger, external, crashes>>

\* Mutant of the next definition: an absence seen twice is taken for proof.
UnprovenOnce(k) == write[k] = "dispatching" /\ k \notin store /\ absent[k].checks = 2

\* A put that was dispatched and has left no object may still be on its way.
Unproven(k) == write[k] = "dispatching" /\ k \notin store

\* _remote_erasure, key k: a dispatched put must be proved complete first.
Prove(w, k) ==
  /\ work[w].pc = "prove" /\ k \in work[w].left
  /\ \/ /\ ~PurgeLeased(w)
        /\ At(w, "defer") /\ UNCHANGED write
     \/ /\ PurgeLeased(w)
        /\ Unproven(k)
        /\ work' = [work EXCEPT ![w].left = @ \ {k}, ![w].flag = FALSE]
        /\ UNCHANGED write
     \/ /\ PurgeLeased(w)
        /\ ~Unproven(k)
        /\ write' = [write EXCEPT ![k] = IF @ = "dispatching" THEN "confirmed" ELSE @]
        /\ work' = [work EXCEPT ![w].pc = "sweep", ![w].at = k]
  /\ UNCHANGED <<profile, version, source, seen, absent, external, crashes>>

SweepRemote(w) ==
  /\ work[w].pc = "sweep"
  /\ store' = store \ {work[w].at}
  /\ At(w, "count")
  /\ UNCHANGED <<profile, version, source, seen, ledger, landed, flight, crashes>>

\* One more absence on record; two of them have to lie a minute apart.
Count(w) ==
  LET k == work[w].at
      a == absent[k]
      now == [checks |-> Least(2, a.checks + 1), rest |-> a.rest]
  IN  /\ work[w].pc = "count"
      /\ IF PurgeLeased(w)
         THEN /\ absent' = [absent EXCEPT ![k] = now]
              /\ work' = [work EXCEPT ![w].pc = "prove", ![w].at = None,
                            ![w].left = @ \ {k},
                            ![w].flag = @ /\ now.checks = 2 /\ now.rest = 0]
         ELSE /\ work' = [work EXCEPT ![w].pc = "defer", ![w].at = None]
              /\ UNCHANGED absent
      /\ UNCHANGED <<profile, version, source, seen, write, external, crashes>>

\* The end of _remote_erasure.
Proved(w) ==
  /\ work[w].pc = "prove" /\ work[w].left = {}
  /\ work' = [work EXCEPT ![w].pc = IF work[w].flag THEN "erase" ELSE "defer",
                ![w].left = UNION {KeysOf(work[w].v, n) : n \in work[w].targets}]
  /\ UNCHANGED <<profile, version, source, seen, ledger, external, crashes>>

\* erase of one key: it is gone, with all its versions.
Erase(w, k) ==
  /\ work[w].pc = "erase" /\ k \in work[w].left
  /\ store' = store \ {k}
  /\ work' = [work EXCEPT ![w].left = @ \ {k}]
  /\ UNCHANGED <<profile, version, source, seen, ledger, landed, flight, crashes>>

\* The store refuses, or cannot confirm that the object is gone.
EraseFails(w) ==
  /\ work[w].pc \in {"prove", "sweep", "erase"} /\ work[w].left # {}
  /\ work' = [work EXCEPT ![w].pc = "defer", ![w].at = None]
  /\ UNCHANGED <<profile, version, source, seen, ledger, external, crashes>>

\* _purge_retry, or the retry of a purge that found more to erase.
Deferred(job) ==
  [state |-> "retry_wait", holder |-> None, lease |-> 0, wait |-> RetryTTL]

Defer(w) ==
  /\ work[w].pc = "defer"
  /\ IF PurgeLeased(w)
     THEN version' = [version EXCEPT ![work[w].v].purge = Deferred(@)]
     ELSE UNCHANGED version
  /\ work' = [work EXCEPT ![w] = Idle]
  /\ UNCHANGED <<profile, source, seen, ledger, external, crashes>>

\* The bundles among the targets that are marked purged, unless published.
Purged(bundle, targets) ==
  [n \in Attempt |-> IF n \in targets /\ bundle[n].state # "available"
                     THEN [bundle[n] EXCEPT !.state = "purged"] ELSE bundle[n]]

\* Mutant of the next definition: bundles and version not told apart.
AfterPurgeWhole(x, targets) ==
  LET y == [x EXCEPT !.bundle = Purged(x.bundle, targets)]
  IN  IF Targets(y) # {} THEN [y EXCEPT !.purge = Deferred(@)]
      ELSE [y EXCEPT !.state = "purged",
                     !.purge = [state |-> "succeeded", holder |-> None, lease |-> 0, wait |-> 0]]

\* The rows of x when a purge of the targets ends.
AfterPurge(x, targets) ==
  LET y == [x EXCEPT !.bundle = Purged(x.bundle, targets)]
  IN  IF Targets(y) # {} THEN [y EXCEPT !.purge = Deferred(@)]
      ELSE [y EXCEPT !.state = IF @ = "purge_pending" THEN "purged" ELSE @,
                     !.purge = [state |-> "succeeded", holder |-> None, lease |-> 0, wait |-> 0]]

\* The last transaction of purge.
Commit(w) ==
  /\ work[w].pc = "erase" /\ work[w].left = {}
  /\ IF PurgeLeased(w)
     THEN version' = [version EXCEPT ![work[w].v] = AfterPurge(@, work[w].targets)]
     ELSE UNCHANGED version
  /\ work' = [work EXCEPT ![w] = Idle]
  /\ UNCHANGED <<profile, source, seen, ledger, external, crashes>>

-----------------------------------------------------------------------------
\* Crashes and time.

\* The process dies; a local put dies with it, a remote one is on its way.
Crash(w) ==
  /\ work[w].pc # "idle" /\ crashes < MaxCrash
  /\ crashes' = crashes + 1
  /\ work' = [work EXCEPT ![w] = Idle]
  /\ flight' = IF Remote \/ work[w].at = None THEN flight
               ELSE [flight EXCEPT ![work[w].at] = 0]
  /\ UNCHANGED <<profile, version, source, seen, ledger, store, landed>>

Down(t) == IF t > 0 THEN t - 1 ELSE 0

AgedPrepare(job) == [job EXCEPT !.lease = Down(@), !.writer = Down(@), !.wait = Down(@)]
AgedPurge(job)   == [job EXCEPT !.lease = Down(@), !.wait = Down(@)]
AgedBundle(b)    == [b EXCEPT !.writer = Down(@)]

Aged(x) ==
  [x EXCEPT !.prepare = AgedPrepare(@), !.purge = AgedPurge(@),
            !.bundle = [n \in Attempt |-> AgedBundle(x.bundle[n])]]

\* A local put that has run for PutTTL is over; a remote one is never over.
Tick ==
  /\ version' = [v \in Version |-> Aged(version[v])]
  /\ flight' = IF Remote THEN flight ELSE [k \in Key |-> Down(flight[k])]
  /\ absent' = [k \in Key |-> IF absent[k].checks = 0 THEN absent[k]
                              ELSE [absent[k] EXCEPT !.rest = Down(@)]]
  /\ UNCHANGED <<profile, source, seen, work, write, store, landed, crashes>>

Command ==
  \/ \E t \in Tab : \/ Read(t) \/ Delete(t)
                    \/ \E v \in Version, s \in Source : Admit(t, v, s)
                    \/ \E v \in Version : Activate(t, v)
                    \/ \E enabled \in BOOLEAN : Toggle(t, enabled)
  \/ \E s \in Source : SourceDelete(s)
  \/ \E v \in Version : Expire(v)

\* What worker w does next, well or badly.
Preparing(w) ==
  \/ Load(w) \/ \E transient \in BOOLEAN : Fails(w, transient)
  \/ Reserve(w) \/ \E k \in Key : BeginPut(w, k)
  \/ PutReturns(w) \/ PutFails(w) \/ Verified(w) \/ Publish(w)
  \/ Cleanup(w) \/ Settle(w)

Purging(w) ==
  \/ Look(w) \/ \E k \in Key : Prove(w, k) \/ Erase(w, k)
  \/ SweepRemote(w) \/ Count(w) \/ Proved(w)
  \/ EraseFails(w) \/ Defer(w) \/ Commit(w)

Labour(w) == ClaimPurge(w) \/ ClaimPrepare(w) \/ ClaimNothing(w) \/ Preparing(w) \/ Purging(w)

Next ==
  \/ Command
  \/ \E w \in Worker : Labour(w) \/ Heartbeat(w) \/ Crash(w)
  \/ \E k \in Key : Land(k)
  \/ Tick

Spec == Init /\ [][Next]_vars

\* Worker w is at pc of a purge that it holds.
Holding(w, pc) == work[w].pc = pc /\ PurgeLeased(w)

\* Time passes and every worker keeps taking steps.  Its thread renews a lease
\* three times before it ends, so a purge does not lose its lease before each
\* of its steps for ever; and the store does not refuse an erasure for ever.
FairSpec ==
  /\ Spec
  /\ WF_vars(Tick)
  /\ \A w \in Worker :
       /\ WF_vars(Labour(w))
       /\ SF_vars(Holding(w, "look") /\ Look(w))
       /\ \A n \in 1..Cardinality(Key) :
            SF_vars(Holding(w, "erase") /\ Cardinality(work[w].left) = n
                    /\ \E k \in Key : Erase(w, k))
       /\ SF_vars(Holding(w, "erase") /\ Commit(w))

-----------------------------------------------------------------------------
\* Safety.

\* Erasure is never reported early: a version or a bundle marked purged has no
\* object in the store and none on its way there, although puts land late,
\* workers lose their leases, and deletions overtake preparations.
PurgedMeansErased ==
  \A k \in Key :
    \/ version[k[1]].state = "purged"
    \/ version[k[1]].bundle[k[2]].state = "purged"
    => k \notin store /\ flight[k] = 0

\* No object is forgotten: each belongs to a registered bundle, and a bundle
\* nobody will publish has an active job that will find it.
NothingForgotten ==
  /\ \A k \in store :
       version[k[1]].bundle[k[2]].state \in {"reserved", "available", "purge_pending"}
  /\ \A v \in Version, n \in Attempt :
       /\ version[v].bundle[n].state = "reserved" => version[v].prepare.state = "running"
       /\ version[v].bundle[n].state = "purge_pending" => version[v].purge.state \in Active
  /\ \A v \in Version : version[v].state = "purge_pending" => version[v].purge.state \in Active

\* The face that viewers are shown is the approved one, from a source that still
\* exists, as one whole bundle whose objects are all in the store.
CurrentIsServable ==
  LET v == profile.current
  IN  /\ profile.enabled => v # NoVersion
      /\ v # NoVersion =>
           /\ version[v].state = "ready" /\ version[v].approved
           /\ version[v].source \in source
           /\ \E n \in Attempt : /\ Published(v) = {n}
                                 /\ KeysOf(v, n) \subseteq store

\* Preparations are serial across workers: at most one put is on its way, and
\* at most one preparation is inside its writer window.
SerialPrepare ==
  /\ \A k, l \in Key : flight[k] > 0 /\ flight[l] > 0 => k = l
  /\ \A v, u \in Version :
       version[v].prepare.writer > 0 /\ version[u].prepare.writer > 0 => v = u

\* Only the version the owner wants is prepared.
OnlyDesiredPrepared ==
  \A v \in Version : version[v].prepare.state \in Active =>
    profile.desired = v /\ version[v].state \in {"queued", "preparing"}

\* A tab that still knows the revision knows the whole profile: no change of a
\* pointer, of the switch or of the tombstone goes without a new revision.
RevisionTells ==
  \A t \in Tab : seen[t] \in {None, profile}

\* The store is as the rows say: nothing of what they call purged, all of what
\* they show.
StoreMatchesRows == PurgedMeansErased /\ CurrentIsServable

\* One preparation at a time, of the version the owner wants, whichever workers
\* claim and whatever is withdrawn under them.
OnePreparation == SerialPrepare /\ OnlyDesiredPrepared

\* The rows account for every object, and the revision for every change of the
\* profile, also after a crash.
RowsAccount == NothingForgotten /\ RevisionTells

-----------------------------------------------------------------------------
\* The life of a version, as its owner was promised.

stageBar ==
  [v \in Version |->
     CASE version[v].state = "absent" -> "none"
       [] version[v].state \in {"queued", "preparing", "failed"} -> "asked"
       [] version[v].state = "ready" -> IF version[v].approved THEN "live" ELSE "offered"
       [] version[v].state = "purge_pending" -> "withdrawn"
       [] version[v].state = "purged" -> "erased"]

Consent == INSTANCE VisualConsent WITH stage <- stageBar, shown <- profile.enabled

\* Whatever workers, deletions and expiries do to the rows, each version lives
\* the life of VisualConsent.
ImplementsConsent == Consent!Spec

-----------------------------------------------------------------------------
\* Liveness.

\* What is withdrawn is erased in the end.
WithdrawnIsErased ==
  \A v \in Version : version[v].state = "purge_pending" ~> version[v].state = "purged"

\* A request is answered: ready, failed or withdrawn, also across crashes.
RequestSettles ==
  \A v \in Version :
    version[v].state \in {"queued", "preparing"}
      ~> version[v].state \notin {"queued", "preparing"}

\* Whatever was asked for ends: withdrawn versions are erased, requests are settled.
EverythingSettles == WithdrawnIsErased /\ RequestSettles

-----------------------------------------------------------------------------
\* Two statements of the documents that the code breaks.

\* A whole version is purged only after its registered writers.
PurgeAwaitsWriter ==
  [][\A v \in Version :
       version[v].state # "purged" /\ version'[v].state = "purged"
         => version[v].prepare.writer = 0]_vars

\* A replaced version keeps its objects for the transition window.
TransitionWindow ==
  [][\A v \in Version :
       profile.current = v /\ profile'.current \notin {v, NoVersion}
         => version'[v].purge.wait = TransitionTTL]_vars
=============================================================================
