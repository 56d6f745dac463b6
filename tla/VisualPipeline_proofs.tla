----------------------- MODULE VisualPipeline_proofs ------------------------
(***************************************************************************)
(* Proofs about VisualPipeline for any numbers of workers, tabs, sources,  *)
(* roles, versions and attempts, over a local and over a remote store.     *)
(*                                                                         *)
(* The inductive invariant has six parts: what the rows of one version say *)
(* among themselves (RowOK), how the pointers of the profile and the rows  *)
(* agree (Pointers), where a worker can be (Shape), which attempt it works *)
(* on (Attempts), what the ledgers and the store know of a key (Keys), and *)
(* what a purge has already made sure of (Purges).  A local store adds     *)
(* that a put on its way has its worker and its writer window (LocalPuts). *)
(***************************************************************************)
EXTENDS VisualPipeline, FiniteSetTheorems, TLAPS

-----------------------------------------------------------------------------
\* The inductive invariant.

\* One version: what is reserved is the running attempt's, what nobody will publish has
\* a purge job, a withdrawn version has no live bundle, and only a version that may still
\* be answered has an active preparation.
BundleOK(x, n) ==
  /\ x.bundle[n].state = "reserved" => x.prepare.state = "running" /\ n = x.prepare.attempts
  /\ x.bundle[n].state = "purge_pending" => x.purge.state \in Active
  /\ x.bundle[n].state \in {"reserved", "available"} => ~Whole(x)
  /\ x.bundle[n].state \in {"absent", "purged"} => x.bundle[n].writer = 0
  /\ x.state = "absent" => x.bundle[n].state = "absent"

RowOK(x) ==
  /\ \A n \in Attempt : BundleOK(x, n)
  /\ x.state = "purge_pending" => x.purge.state \in Active
  /\ x.prepare.state \in Active => x.state \in {"queued", "preparing"}
  /\ x.state \in {"queued", "preparing", "failed"} => ~x.approved
  /\ x.state = "absent" => x.source = None /\ x.purge.state = "none"

RowsOK == \A v \in Version : RowOK(version[v])

\* At most one preparation is inside its writer window.
WritersSerial ==
  \A v, u \in Version :
    version[v].prepare.writer > 0 /\ version[u].prepare.writer > 0 => v = u

\* What makes v fit to be shown.
Fit(v) ==
  /\ version[v].state = "ready" /\ version[v].approved
  /\ version[v].source \in source
  /\ \E n \in Attempt : Published(v) = {n}

\* The pointers and the rows agree.
Pointers ==
  /\ \A v \in Version : version[v].prepare.state \in Active => profile.desired = v
  /\ profile.desired # NoVersion =>
       version[profile.desired].state \in {"queued", "preparing", "ready", "failed"}
  /\ \A v \in Version : version[v].state = "ready" /\ version[v].approved => profile.current = v
  /\ profile.current # NoVersion => Fit(profile.current)
  /\ profile.enabled => profile.current # NoVersion

Prepares == {"load", "render", "put", "flight", "verify", "publish", "tidy", "clean", "settle"}
Erasing  == {"prove", "sweep", "count", "erase"}

\* Where worker w can be, and what it holds there.
ShapeOf(w) ==
  /\ work[w].pc # "idle" => work[w].v \in Version /\ version[work[w].v].state # "absent"
  /\ work[w].n # 0 <=> work[w].pc \in Prepares
  /\ work[w].pc \in {"put", "flight"} => work[w].left \subseteq KeysOf(work[w].v, work[w].n)
  /\ work[w].pc = "flight" => work[w].at \in KeysOf(work[w].v, work[w].n)
  /\ ~Remote => work[w].pc \notin {"prove", "sweep", "count"}

Shape == \A w \in Worker : ShapeOf(w)

\* The attempt of worker w: no later one has its number, the one that holds the job is
\* the last, and what it settles or publishes is as it left it.
AttemptOf(w) ==
  LET x == Job(w)
      n == work[w].n
  IN  /\ n <= x.prepare.attempts
      /\ x.prepare.holder = w => n = x.prepare.attempts
      /\ work[w].pc = "settle" => x.bundle[n].state # "reserved"
      /\ work[w].pc = "publish" /\ x.bundle[n].state = "reserved"
           => KeysOf(work[w].v, n) \subseteq store

Attempts ==
  /\ \A w \in Worker : work[w].n # 0 => AttemptOf(w)
  /\ \A w, u \in Worker :
       work[w].n # 0 /\ work[u].n = work[w].n /\ work[u].v = work[w].v => u = w

\* The bundle that the key k belongs to.
BundleOf(k) == version[k[1]].bundle[k[2]]

\* What the ledgers, the store and the rows say of the key k.
KeyOK(k) ==
  /\ k \in store => k \in landed
  /\ k \in landed => flight[k] = 0 /\ write[k] # "reserved"
  /\ flight[k] > 0 => write[k] = "dispatching" /\ BundleOf(k).state \in {"reserved", "purge_pending"}
  /\ k \in store => BundleOf(k).state \in {"reserved", "available", "purge_pending"}
  /\ BundleOf(k).state = "available" => k \in store
  /\ version[k[1]].state = "purged" => k \notin store /\ flight[k] = 0

Keys == \A k \in Key : KeyOK(k)

\* The key k is one that worker w is to erase.
IsTarget(w, k) == k[1] = work[w].v /\ k[2] \in work[w].targets

\* What worker w has made sure of: its targets stay withdrawn and have no writer, what
\* it has proved or is erasing is not on its way, and what it erased is gone.
PurgeOf(w) ==
  /\ \A n \in work[w].targets :
       /\ Job(w).bundle[n].state \in {"purge_pending", "purged"}
       /\ Job(w).bundle[n].writer = 0
  /\ \A k \in work[w].left : IsTarget(w, k)
  /\ work[w].pc \in {"sweep", "count"} =>
       work[w].at \in Key /\ IsTarget(w, work[w].at) /\ flight[work[w].at] = 0
  /\ work[w].pc # "erase" /\ work[w].flag =>
       \A k \in Key : IsTarget(w, k) /\ k \notin work[w].left => flight[k] = 0
  /\ work[w].pc = "erase" =>
       \A k \in Key : IsTarget(w, k) => flight[k] = 0 /\ (k \notin work[w].left => k \notin store)

Purges == \A w \in Worker : work[w].pc \in Erasing => PurgeOf(w)

\* A put into a local store runs in its worker, inside the writer window of its attempt.
PutOf(k) ==
  /\ flight[k] < BundleOf(k).writer
  /\ \E w \in Worker : work[w].pc = "flight" /\ work[w].at = k
  /\ \A v \in Version : version[v].prepare.writer > 0 =>
       k[1] = v /\ k[2] = version[v].prepare.attempts
  /\ \A l \in Key : flight[l] > 0 => k = l

LocalPuts == ~Remote => \A k \in Key : flight[k] > 0 => PutOf(k)

Inv ==
  /\ TypeOK /\ RowsOK /\ WritersSerial /\ Pointers
  /\ Shape /\ Attempts /\ Keys /\ Purges /\ LocalPuts

-----------------------------------------------------------------------------
\* Operations on jobs, bundles and rows.

\* What a step on the rows of one version may do to an attempt that it does not start,
\* reserve, publish or erase: bundles are only ever condemned.
Quiet(x, y) ==
  /\ y.source = x.source
  /\ y.state = "absent" <=> x.state = "absent"
  /\ y.state = "purged" => x.state = "purged"
  /\ y.prepare.attempts = x.prepare.attempts
  /\ y.prepare.writer > 0 => x.prepare.writer > 0
  /\ y.prepare.holder \in {None, x.prepare.holder}
  /\ y.prepare.state \in Active => x.prepare.state \in Active
  /\ \A n \in Attempt :
       /\ y.bundle[n].writer = x.bundle[n].writer
       /\ y.bundle[n].state # x.bundle[n].state
            => y.bundle[n].state = "purge_pending" /\ x.bundle[n].state # "absent"

\* The part of it that the objects of the version depend on.
Calm(x, y) ==
  /\ y.state = "purged" => x.state = "purged"
  /\ \A n \in Attempt : y.bundle[n].state # x.bundle[n].state
       => y.bundle[n].state = "purge_pending" /\ x.bundle[n].state # "absent"

\* A row that no step touches.
LEMMA QuietSame ==
  ASSUME NEW x \in Row
  PROVE  Quiet(x, x)
BY DEF Quiet

\* A purge job that is made due is active.
LEMMA RequeuedJob ==
  ASSUME NEW job \in Purge, NEW delay \in {0, TransitionTTL}
  PROVE  Requeued(job, delay) \in Purge /\ Requeued(job, delay).state \in Active
<1>1. CASE job.state \in Active
  BY <1>1 DEF Requeued
<1>2. CASE job.state \notin Active
  <2>1. "queued" \in Active
    BY DEF Active
  <2>2. delay \in 0..(RetryTTL + TransitionTTL) /\ 0 \in 0..LeaseTTL
    BY VisualAssumption
  <2> QED
    BY <1>2, <2>1, <2>2 DEF Requeued, Purge
<1> QED
  BY <1>1, <1>2

\* A cancelled preparation keeps its writer window.
LEMMA CancelledJob ==
  ASSUME NEW job \in Prepare
  PROVE  /\ Cancelled(job) \in Prepare
         /\ Cancelled(job).state \notin Active
         /\ Cancelled(job).attempts = job.attempts
         /\ Cancelled(job).writer = job.writer
         /\ Cancelled(job).holder \in {None, job.holder}
<1>1. CASE job.state = "none"
  BY <1>1 DEF Cancelled, Prepare, Active
<1>2. CASE job.state # "none"
  <2>1. 0 \in 0..LeaseTTL
    BY VisualAssumption
  <2>2. Cancelled(job) = [job EXCEPT !.state = "cancelled", !.holder = None, !.lease = 0]
    BY <1>2 DEF Cancelled
  <2> QED
    BY <2>1, <2>2 DEF Prepare, Active
<1> QED
  BY <1>1, <1>2

\* Condemned bundles.
LEMMA CondemnedBundles ==
  ASSUME NEW b \in [Attempt -> Bundle], NEW states
  PROVE  /\ Condemned(b, states) \in [Attempt -> Bundle]
         /\ \A n \in Attempt :
              /\ Condemned(b, states)[n].writer = b[n].writer
              /\ Condemned(b, states)[n].state =
                   IF b[n].state \in states THEN "purge_pending" ELSE b[n].state
<1>1. \A n \in Attempt : b[n] \in Bundle
  OBVIOUS
<1>2. \A n \in Attempt : /\ [b[n] EXCEPT !.state = "purge_pending"] \in Bundle
                          /\ [b[n] EXCEPT !.state = "purge_pending"].state = "purge_pending"
                          /\ [b[n] EXCEPT !.state = "purge_pending"].writer = b[n].writer
  BY <1>1 DEF Bundle
<1> QED
  BY <1>1, <1>2 DEF Condemned

\* A version that is withdrawn: it is or becomes withdrawn, without a live bundle.
LEMMA WithdrawnRow ==
  ASSUME NEW x \in Row, RowOK(x), x.state # "absent", NEW delay \in {0, TransitionTTL}
  PROVE  LET y == Withdrawn(x, delay)
         IN  /\ y \in Row /\ RowOK(y) /\ Quiet(x, y)
             /\ y.state = (IF x.state = "purged" THEN "purged" ELSE "purge_pending")
             /\ y.prepare.state \notin Active
             /\ y.approved = x.approved
             /\ y.prepare.writer = x.prepare.writer
<1> DEFINE y == Withdrawn(x, delay)
<1>1. CASE x.state = "purged"
  <2>1. y = x
    BY <1>1 DEF Withdrawn
  <2>2. x.prepare.state \notin Active
    BY <1>1 DEF RowOK
  <2> QED
    BY <1>1, <2>1, <2>2, QuietSame
<1>2. CASE x.state # "purged"
  <2> DEFINE p == Cancelled(x.prepare)
             q == Requeued(x.purge, delay)
             b == Condemned(x.bundle, {"reserved", "available"})
  <2>1. x.prepare \in Prepare /\ x.purge \in Purge /\ x.bundle \in [Attempt -> Bundle]
    BY DEF Row
  <2>2. y = [x EXCEPT !.state = "purge_pending", !.prepare = p, !.purge = q, !.bundle = b]
    BY <1>2 DEF Withdrawn
  <2>3. /\ p \in Prepare /\ p.state \notin Active /\ p.attempts = x.prepare.attempts
        /\ p.writer = x.prepare.writer /\ p.holder \in {None, x.prepare.holder}
    BY <2>1, CancelledJob
  <2>4. q \in Purge /\ q.state \in Active
    BY <2>1, RequeuedJob
  <2>5. /\ b \in [Attempt -> Bundle]
        /\ \A n \in Attempt :
             /\ b[n].writer = x.bundle[n].writer
             /\ b[n].state = IF x.bundle[n].state \in {"reserved", "available"}
                             THEN "purge_pending" ELSE x.bundle[n].state
    BY <2>1, CondemnedBundles
  <2> HIDE DEF p, q, b
  <2>6. /\ y \in Row /\ y.state = "purge_pending" /\ y.prepare = p /\ y.purge = q
        /\ y.bundle = b /\ y.source = x.source /\ y.approved = x.approved
    BY <2>2, <2>3, <2>4, <2>5 DEF Row
  <2> HIDE DEF y
  <2>7. ASSUME NEW n \in Attempt PROVE BundleOK(y, n)
    <3>1. BundleOK(x, n)
      BY DEF RowOK
    <3> QED
      BY <2>4, <2>5, <2>6, <3>1 DEF BundleOK
  <2>8. RowOK(y)
    BY <2>3, <2>4, <2>6, <2>7 DEF RowOK
  <2>9. Quiet(x, y)
    BY <1>2, <2>3, <2>5, <2>6 DEF Quiet
  <2> QED
    BY <1>2, <2>3, <2>6, <2>8, <2>9 DEF y
<1> QED
  BY <1>1, <1>2

\* Row x with another purge job that is active.
LEMMA PurgeSet ==
  ASSUME NEW x \in Row, RowOK(x), x.state # "absent", NEW q \in Purge, q.state \in Active
  PROVE  LET y == [x EXCEPT !.purge = q]
         IN  /\ y \in Row /\ RowOK(y) /\ Quiet(x, y)
             /\ y.state = x.state /\ y.approved = x.approved
             /\ y.prepare = x.prepare /\ y.bundle = x.bundle
<1> DEFINE y == [x EXCEPT !.purge = q]
<1>1. /\ y \in Row /\ y.state = x.state /\ y.approved = x.approved /\ y.source = x.source
      /\ y.prepare = x.prepare /\ y.bundle = x.bundle /\ y.purge = q
  BY DEF Row
<1> HIDE DEF y
<1>2. \A n \in Attempt : BundleOK(y, n)
  BY <1>1 DEF RowOK, BundleOK, Whole
<1>3. RowOK(y)
  BY <1>1, <1>2 DEF RowOK
<1>4. Quiet(x, y)
  BY <1>1 DEF Quiet
<1> QED
  BY <1>1, <1>3, <1>4 DEF y

\* Row x with a preparation that keeps its state, its holder and its window.
LEMMA PrepareSet ==
  ASSUME NEW x \in Row, RowOK(x), NEW p \in Prepare, p.state = x.prepare.state,
         p.attempts = x.prepare.attempts, p.writer = x.prepare.writer,
         p.holder = x.prepare.holder
  PROVE  LET y == [x EXCEPT !.prepare = p]
         IN  /\ y \in Row /\ RowOK(y) /\ Quiet(x, y)
             /\ y.state = x.state /\ y.approved = x.approved
             /\ y.prepare = p /\ y.bundle = x.bundle
<1> DEFINE y == [x EXCEPT !.prepare = p]
<1>1. /\ y \in Row /\ y.state = x.state /\ y.approved = x.approved /\ y.source = x.source
      /\ y.prepare = p /\ y.bundle = x.bundle /\ y.purge = x.purge
  BY DEF Row
<1> HIDE DEF y
<1>2. \A n \in Attempt : BundleOK(y, n)
  BY <1>1 DEF RowOK, BundleOK, Whole
<1>3. RowOK(y)
  BY <1>1, <1>2 DEF RowOK
<1>4. Quiet(x, y)
  BY <1>1 DEF Quiet
<1> QED
  BY <1>1, <1>3, <1>4 DEF y

\* Row x whose preparation is settled, with no bundle left reserved.
LEMMA SettledRow ==
  ASSUME NEW x \in Row, NEW y \in Row, RowOK(x), x.state \in {"queued", "preparing"},
         \A n \in Attempt : x.bundle[n].state # "reserved",
         y.source = x.source, y.approved = x.approved, y.purge = x.purge, y.bundle = x.bundle,
         y.state \in {"queued", "failed"},
         y.prepare.state \in Active => y.state = "queued" /\ x.prepare.state \in Active,
         y.prepare.attempts = x.prepare.attempts, y.prepare.holder = None,
         y.prepare.writer > 0 => x.prepare.writer > 0
  PROVE  RowOK(y) /\ Quiet(x, y)
<1>1. \A n \in Attempt : BundleOK(y, n)
  BY DEF RowOK, BundleOK, Whole
<1>2. RowOK(y)
  BY <1>1 DEF RowOK
<1>3. Quiet(x, y)
  BY DEF Quiet
<1> QED
  BY <1>2, <1>3

\* The row of a ready version that is approved.
LEMMA ApprovedRow ==
  ASSUME NEW x \in Row, RowOK(x), x.state = "ready"
  PROVE  LET y == [x EXCEPT !.approved = TRUE]
         IN  /\ y \in Row /\ RowOK(y) /\ Quiet(x, y)
             /\ y.state = x.state /\ y.approved /\ y.prepare = x.prepare /\ y.bundle = x.bundle
<1> DEFINE y == [x EXCEPT !.approved = TRUE]
<1>1. /\ y \in Row /\ y.state = x.state /\ y.approved /\ y.source = x.source
      /\ y.prepare = x.prepare /\ y.bundle = x.bundle /\ y.purge = x.purge
  BY DEF Row
<1> HIDE DEF y
<1>2. \A n \in Attempt : BundleOK(y, n)
  BY <1>1 DEF RowOK, BundleOK, Whole
<1>3. RowOK(y)
  BY <1>1, <1>2 DEF RowOK
<1>4. Quiet(x, y)
  BY <1>1 DEF Quiet
<1> QED
  BY <1>1, <1>3, <1>4 DEF y

\* The row of a version that has waited too long for an approval.
LEMMA ExpiredRow ==
  ASSUME NEW x \in Row, RowOK(x)
  PROVE  LET y == [x EXCEPT !.expired = TRUE]
         IN  /\ y \in Row /\ RowOK(y) /\ Quiet(x, y)
             /\ y.state = x.state /\ y.approved = x.approved
             /\ y.prepare = x.prepare /\ y.bundle = x.bundle
<1> DEFINE y == [x EXCEPT !.expired = TRUE]
<1>1. /\ y \in Row /\ y.state = x.state /\ y.approved = x.approved /\ y.source = x.source
      /\ y.prepare = x.prepare /\ y.bundle = x.bundle /\ y.purge = x.purge
  BY DEF Row
<1> HIDE DEF y
<1>2. \A n \in Attempt : BundleOK(y, n)
  BY <1>1 DEF RowOK, BundleOK, Whole
<1>3. RowOK(y)
  BY <1>1, <1>2 DEF RowOK
<1>4. Quiet(x, y)
  BY <1>1 DEF Quiet
<1> QED
  BY <1>1, <1>3, <1>4 DEF y

\* A row whose reserved bundles a new claim condemns.
LEMMA ArmedRow ==
  ASSUME NEW x \in Row, RowOK(x), x.state # "absent"
  PROVE  LET y == Armed(x, {"reserved"})
         IN  /\ y \in Row /\ RowOK(y) /\ Quiet(x, y)
             /\ y.state = x.state /\ y.approved = x.approved /\ y.prepare = x.prepare
             /\ \A n \in Attempt : y.bundle[n].state # "reserved"
             /\ \A n \in Attempt :
                  x.bundle[n].state = "available" => y.bundle[n].state = "available"
<1> DEFINE q == Requeued(x.purge, 0)
           b == Condemned(x.bundle, {"reserved"})
           y == Armed(x, {"reserved"})
<1>1. x.purge \in Purge /\ x.bundle \in [Attempt -> Bundle]
  BY DEF Row
<1>2. y = [x EXCEPT !.purge = q, !.bundle = b]
  BY DEF Armed
<1>3. q \in Purge /\ q.state \in Active
  BY <1>1, RequeuedJob
<1>4. /\ b \in [Attempt -> Bundle]
      /\ \A n \in Attempt :
           /\ b[n].writer = x.bundle[n].writer
           /\ b[n].state = IF x.bundle[n].state \in {"reserved"}
                           THEN "purge_pending" ELSE x.bundle[n].state
  BY <1>1, CondemnedBundles
<1> HIDE DEF q, b
<1>5. /\ y \in Row /\ y.state = x.state /\ y.prepare = x.prepare /\ y.purge = q
      /\ y.bundle = b /\ y.source = x.source /\ y.approved = x.approved
  BY <1>2, <1>3, <1>4 DEF Row
<1> HIDE DEF y
<1>6. ASSUME NEW n \in Attempt PROVE BundleOK(y, n)
  <2>1. BundleOK(x, n)
    BY DEF RowOK
  <2> QED
    BY <1>3, <1>4, <1>5, <2>1 DEF BundleOK, Whole
<1>7. RowOK(y)
  BY <1>3, <1>5, <1>6 DEF RowOK
<1>8. Quiet(x, y)
  BY <1>4, <1>5 DEF Quiet
<1> QED
  BY <1>4, <1>5, <1>7, <1>8 DEF y

\* The same for the row that a claim starts.
LEMMA ArmedIfReservedRow ==
  ASSUME NEW x \in Row, RowOK(x), x.state # "absent"
  PROVE  LET y == ArmedIfReserved(x)
         IN  /\ y \in Row /\ RowOK(y) /\ Quiet(x, y)
             /\ y.state = x.state /\ y.approved = x.approved /\ y.prepare = x.prepare
             /\ \A n \in Attempt : y.bundle[n].state # "reserved"
             /\ \A n \in Attempt :
                  x.bundle[n].state = "available" => y.bundle[n].state = "available"
<1>1. CASE \E n \in Attempt : x.bundle[n].state = "reserved"
  BY <1>1, ArmedRow DEF ArmedIfReserved
<1>2. CASE ~ \E n \in Attempt : x.bundle[n].state = "reserved"
  <2>1. ArmedIfReserved(x) = x
    BY <1>2 DEF ArmedIfReserved
  <2> QED
    BY <1>2, <2>1, QuietSame
<1> QED
  BY <1>1, <1>2

\* Quiet steps compose.
LEMMA QuietTwice ==
  ASSUME NEW x \in Row, NEW y \in Row, NEW z \in Row, Quiet(x, y), Quiet(y, z)
  PROVE  Quiet(x, z)
BY DEF Quiet

\* The row of a preparation that takes its next attempt.
LEMMA StartedRow ==
  ASSUME NEW x \in Row, RowOK(x), x.state \in {"queued", "preparing"},
         HasAttempt(x.prepare), NEW w \in Worker
  PROVE  LET y == Started(x, w)
         IN  /\ y \in Row /\ RowOK(y)
             /\ y.state = "preparing" /\ y.approved = x.approved /\ y.source = x.source
             /\ y.prepare.attempts = x.prepare.attempts + 1
             /\ y.prepare.holder = w /\ y.prepare.state = "running"
             /\ \A n \in Attempt :
                  /\ y.bundle[n].writer = x.bundle[n].writer
                  /\ y.bundle[n].state # "reserved"
                  /\ x.bundle[n].state = "available" => y.bundle[n].state = "available"
                  /\ y.bundle[n].state # x.bundle[n].state
                       => y.bundle[n].state = "purge_pending" /\ x.bundle[n].state # "absent"
<1> DEFINE a == ArmedIfReserved(x)
           p == Attempted(a.prepare, w)
           y == Started(x, w)
<1>1. /\ a \in Row /\ RowOK(a) /\ Quiet(x, a)
      /\ a.state = x.state /\ a.approved = x.approved /\ a.prepare = x.prepare
      /\ \A n \in Attempt :
           /\ a.bundle[n].state # "reserved"
           /\ x.bundle[n].state = "available" => a.bundle[n].state = "available"
  BY ArmedIfReservedRow
<1>2. y = [a EXCEPT !.state = "preparing", !.prepare = p]
  BY DEF Started
<1> HIDE DEF a
<1>3. a.prepare \in Prepare /\ a.prepare.attempts < MaxAttempts
  BY <1>1 DEF Row, HasAttempt
<1>4. /\ p \in Prepare /\ p.attempts = x.prepare.attempts + 1 /\ p.holder = w
      /\ p.state = "running"
  <2>1. Claimed(a.prepare, w) \in Prepare
    <3>1. LeaseTTL \in 0..LeaseTTL /\ 0 \in 0..RetryTTL
      BY VisualAssumption
    <3> QED
      BY <1>3, <3>1 DEF Claimed, Prepare, Active
  <2>2. /\ Claimed(a.prepare, w).attempts = a.prepare.attempts
        /\ Claimed(a.prepare, w).holder = w /\ Claimed(a.prepare, w).state = "running"
    BY <1>3 DEF Claimed, Prepare
  <2>3. a.prepare.attempts + 1 \in 0..MaxAttempts /\ WriterTTL \in 0..WriterTTL
    BY <1>3, VisualAssumption DEF Prepare
  <2> QED
    BY <1>1, <2>1, <2>2, <2>3 DEF Attempted, Prepare
<1> HIDE DEF p
<1>5. /\ y \in Row /\ y.state = "preparing" /\ y.prepare = p /\ y.purge = a.purge
      /\ y.bundle = a.bundle /\ y.source = a.source /\ y.approved = a.approved
  BY <1>1, <1>2, <1>4 DEF Row
<1> HIDE DEF y
<1>6. \A n \in Attempt : BundleOK(y, n)
  BY <1>1, <1>5 DEF RowOK, BundleOK, Whole
<1>7. RowOK(y)
  BY <1>1, <1>5, <1>6 DEF RowOK
<1> QED
  BY <1>1, <1>4, <1>5, <1>7 DEF Quiet, y

\* The row of a preparation without attempts.
LEMMA ExhaustedRow ==
  ASSUME NEW x \in Row, RowOK(x), x.state \in {"queued", "preparing"}
  PROVE  LET y == Exhausted(x)
         IN  /\ y \in Row /\ RowOK(y) /\ Quiet(x, y)
             /\ y.state = "failed" /\ y.approved = x.approved
             /\ y.prepare.state \notin Active
             /\ \A n \in Attempt :
                  x.bundle[n].state = "available" => y.bundle[n].state = "available"
<1> DEFINE a == Armed(x, {"reserved"})
           p == Finished(a.prepare, "failed")
<1>1. /\ a \in Row /\ RowOK(a) /\ Quiet(x, a)
      /\ a.state = x.state /\ a.approved = x.approved /\ a.prepare = x.prepare
      /\ \A n \in Attempt :
           /\ a.bundle[n].state # "reserved"
           /\ x.bundle[n].state = "available" => a.bundle[n].state = "available"
  BY ArmedRow
<1>2. Exhausted(x) = [a EXCEPT !.state = "failed", !.prepare = p]
  BY DEF Exhausted
<1> HIDE DEF a
<1>3. a.prepare \in Prepare
  BY <1>1 DEF Row
<1>4. /\ p \in Prepare /\ p.attempts = a.prepare.attempts /\ p.holder = None
      /\ p.state \notin Active /\ p.writer = a.prepare.writer
  <2>1. 0 \in 0..LeaseTTL /\ 0 \in 0..RetryTTL
    BY VisualAssumption
  <2> QED
    BY <1>3, <2>1 DEF Finished, Prepare, Active
<1> HIDE DEF p
<1> DEFINE y == [a EXCEPT !.state = "failed", !.prepare = p]
<1>5. /\ y \in Row /\ y.state = "failed" /\ y.prepare = p /\ y.purge = a.purge
      /\ y.bundle = a.bundle /\ y.source = a.source /\ y.approved = a.approved
  BY <1>1, <1>4 DEF Row
<1> HIDE DEF y
<1>6. RowOK(y) /\ Quiet(a, y)
  BY <1>1, <1>4, <1>5, SettledRow
<1>7. Quiet(x, y)
  BY <1>1, <1>5, <1>6, QuietTwice
<1> QED
  BY <1>1, <1>2, <1>4, <1>5, <1>6, <1>7 DEF y

\* The prepare job of an attempt that has ended.
LEMMA EndedJob ==
  ASSUME NEW job \in Prepare, NEW s \in {"succeeded", "failed"}
  PROVE  LET p == [Finished(job, s) EXCEPT !.writer = 0]
         IN  /\ p \in Prepare /\ p.state \notin Active /\ p.attempts = job.attempts
             /\ p.holder = None /\ p.writer = 0
<1>1. 0 \in 0..LeaseTTL /\ 0 \in 0..RetryTTL /\ 0 \in 0..WriterTTL
  BY VisualAssumption
<1>2. /\ Finished(job, s) \in Prepare /\ Finished(job, s).attempts = job.attempts
      /\ Finished(job, s).holder = None /\ Finished(job, s).state = s
  BY <1>1 DEF Finished, Prepare, Active
<1> QED
  BY <1>1, <1>2 DEF Prepare, Active

\* The rows after a failed attempt.
LEMMA RetriedRow ==
  ASSUME NEW x \in Row, RowOK(x), x.state \in {"queued", "preparing"},
         x.prepare.state \in Active, \A n \in Attempt : x.bundle[n].state # "reserved"
  PROVE  LET y == Retried(x)
         IN  /\ y \in Row /\ RowOK(y) /\ Quiet(x, y)
             /\ y.state = "queued" /\ y.approved = x.approved
<1> DEFINE p == [x.prepare EXCEPT !.state = "retry_wait", !.holder = None, !.lease = 0,
                                  !.writer = 0, !.wait = RetryTTL]
           y == Retried(x)
<1>1. x.prepare \in Prepare
  BY DEF Row
<1>2. p \in Prepare /\ p.attempts = x.prepare.attempts /\ p.holder = None /\ p.writer = 0
  <2>1. 0 \in 0..LeaseTTL /\ 0 \in 0..WriterTTL /\ RetryTTL \in 0..RetryTTL
    BY VisualAssumption
  <2> QED
    BY <1>1, <2>1 DEF Prepare, Active
<1>3. y = [x EXCEPT !.state = "queued", !.prepare = p]
  BY DEF Retried
<1> HIDE DEF p
<1>4. /\ y \in Row /\ y.state = "queued" /\ y.prepare = p /\ y.purge = x.purge
      /\ y.bundle = x.bundle /\ y.source = x.source /\ y.approved = x.approved
  BY <1>2, <1>3 DEF Row
<1> HIDE DEF y
<1>5. RowOK(y) /\ Quiet(x, y)
  BY <1>2, <1>4, SettledRow
<1> QED
  BY <1>4, <1>5 DEF y

\* The rows of a version whose last attempt has failed.
LEMMA GivenUpRow ==
  ASSUME NEW x \in Row, RowOK(x), x.state \in {"queued", "preparing"},
         \A n \in Attempt : x.bundle[n].state # "reserved"
  PROVE  LET y == GivenUp(x)
         IN  /\ y \in Row /\ RowOK(y) /\ Quiet(x, y)
             /\ y.state = "failed" /\ y.approved = x.approved
             /\ y.prepare.state \notin Active
<1> DEFINE p == [Finished(x.prepare, "failed") EXCEPT !.writer = 0]
           y == GivenUp(x)
<1>1. x.prepare \in Prepare
  BY DEF Row
<1>2. /\ p \in Prepare /\ p.attempts = x.prepare.attempts /\ p.holder = None /\ p.writer = 0
      /\ p.state \notin Active
  BY <1>1, EndedJob
<1>3. y = [x EXCEPT !.state = "failed", !.prepare = p]
  BY DEF GivenUp
<1> HIDE DEF p
<1>4. /\ y \in Row /\ y.state = "failed" /\ y.prepare = p /\ y.purge = x.purge
      /\ y.bundle = x.bundle /\ y.source = x.source /\ y.approved = x.approved
  BY <1>2, <1>3 DEF Row
<1> HIDE DEF y
<1>5. RowOK(y) /\ Quiet(x, y)
  BY <1>2, <1>4, SettledRow
<1> QED
  BY <1>2, <1>4, <1>5 DEF y

\* The rows once the bundle of an attempt is to be erased.
LEMMA CleanedRow ==
  ASSUME NEW x \in Row, RowOK(x), x.state # "absent", NEW n \in Attempt
  PROVE  LET y == Cleaned(x, n)
         IN  /\ y \in Row /\ RowOK(y) /\ Quiet(x, y)
             /\ y.state = x.state /\ y.approved = x.approved /\ y.prepare = x.prepare
             /\ y.bundle[n].state # "reserved"
             /\ \A m \in Attempt : x.bundle[m].state = "available" => y.bundle[m].state = "available"
<1> DEFINE q == Requeued(x.purge, 0)
           s == IF x.bundle[n].state \in {"absent", "available"}
                THEN x.bundle[n].state ELSE "purge_pending"
           b == [x.bundle EXCEPT ![n].state = s]
           y == Cleaned(x, n)
<1>1. x.purge \in Purge /\ x.bundle \in [Attempt -> Bundle] /\ x.bundle[n] \in Bundle
  BY DEF Row
<1>2. y = [x EXCEPT !.purge = q, !.bundle = b]
  BY <1>1 DEF Cleaned, Row
<1>3. q \in Purge /\ q.state \in Active
  BY <1>1, RequeuedJob
<1>4. s \in {"absent", "available", "purge_pending"}
  BY <1>1
<1>5. /\ b \in [Attempt -> Bundle]
      /\ b[n].state = s /\ b[n].writer = x.bundle[n].writer
      /\ \A m \in Attempt \ {n} : b[m] = x.bundle[m]
  BY <1>1, <1>4 DEF Bundle
<1>6. s # x.bundle[n].state => s = "purge_pending" /\ x.bundle[n].state # "absent"
  OBVIOUS
<1>7. s = "available" <=> x.bundle[n].state = "available"
  OBVIOUS
<1> HIDE DEF q, b, s
<1>8. /\ y \in Row /\ y.state = x.state /\ y.prepare = x.prepare /\ y.purge = q
      /\ y.bundle = b /\ y.source = x.source /\ y.approved = x.approved
  BY <1>2, <1>3, <1>5 DEF Row
<1> HIDE DEF y
<1>9. ASSUME NEW m \in Attempt PROVE BundleOK(y, m)
  <2>1. BundleOK(x, m)
    BY DEF RowOK
  <2>2. CASE m = n
    BY <1>3, <1>4, <1>5, <1>6, <1>7, <1>8, <2>1, <2>2 DEF BundleOK, Whole
  <2>3. CASE m # n
    BY <1>3, <1>5, <1>8, <2>1, <2>3 DEF BundleOK, Whole
  <2> QED
    BY <2>2, <2>3
<1>10. RowOK(y)
  BY <1>3, <1>8, <1>9 DEF RowOK
<1>11. Quiet(x, y)
  BY <1>5, <1>6, <1>8 DEF Quiet
<1> QED
  BY <1>4, <1>5, <1>7, <1>8, <1>10, <1>11 DEF y

\* The rows once the bundle of the running attempt is registered.
LEMMA ReservedRow ==
  ASSUME NEW x \in Row, RowOK(x), NEW n \in Attempt, x.bundle[n].state = "absent",
         x.state \in {"queued", "preparing"},
         x.prepare.state = "running", x.prepare.attempts = n
  PROVE  LET y == Reserved(x, n)
         IN  /\ y \in Row /\ RowOK(y)
             /\ y.state = x.state /\ y.approved = x.approved /\ y.prepare = x.prepare
             /\ y.source = x.source
             /\ y.bundle[n] = [state |-> "reserved", writer |-> x.prepare.writer]
             /\ \A m \in Attempt \ {n} : y.bundle[m] = x.bundle[m]
<1> DEFINE r == [state |-> "reserved", writer |-> x.prepare.writer]
           b == [x.bundle EXCEPT ![n] = r]
           y == Reserved(x, n)
<1>1. x.bundle \in [Attempt -> Bundle] /\ x.prepare.writer \in 0..WriterTTL
  BY DEF Row, Prepare
<1>2. y = [x EXCEPT !.bundle = b]
  BY DEF Reserved
<1>3. r \in Bundle /\ r.state = "reserved"
  BY <1>1 DEF Bundle
<1> HIDE DEF r
<1>4. b \in [Attempt -> Bundle] /\ b[n] = r /\ \A m \in Attempt \ {n} : b[m] = x.bundle[m]
  BY <1>1, <1>3
<1> HIDE DEF b
<1>5. /\ y \in Row /\ y.state = x.state /\ y.prepare = x.prepare /\ y.purge = x.purge
      /\ y.bundle = b /\ y.source = x.source /\ y.approved = x.approved
  BY <1>2, <1>4 DEF Row
<1> HIDE DEF y
<1>6. ASSUME NEW m \in Attempt PROVE BundleOK(y, m)
  <2>1. BundleOK(x, m)
    BY DEF RowOK
  <2>2. CASE m = n
    BY <1>3, <1>4, <1>5, <2>2 DEF BundleOK, Whole
  <2>3. CASE m # n
    BY <1>4, <1>5, <2>1, <2>3 DEF BundleOK, Whole
  <2> QED
    BY <2>2, <2>3
<1>7. RowOK(y)
  BY <1>5, <1>6 DEF RowOK
<1> QED
  BY <1>4, <1>5, <1>7 DEF y, r

\* The rows once a bundle is published with its version.
LEMMA ReadyRow ==
  ASSUME NEW x \in Row, RowOK(x), NEW n \in Attempt, x.bundle[n].state = "reserved"
  PROVE  LET y == Ready(x, n)
         IN  /\ y \in Row /\ RowOK(y)
             /\ y.state = "ready" /\ y.approved = x.approved /\ y.source = x.source
             /\ y.prepare.state \notin Active /\ y.prepare.attempts = x.prepare.attempts
             /\ y.prepare.holder = None /\ y.prepare.writer = 0
             /\ y.bundle[n].state = "available" /\ y.bundle[n].writer = x.bundle[n].writer
             /\ \A m \in Attempt \ {n} : y.bundle[m] = x.bundle[m]
<1> DEFINE p == [Finished(x.prepare, "succeeded") EXCEPT !.writer = 0]
           b == [x.bundle EXCEPT ![n].state = "available"]
           y == Ready(x, n)
<1>1. x.bundle \in [Attempt -> Bundle] /\ x.prepare \in Prepare
  BY DEF Row
<1>2. y = [x EXCEPT !.state = "ready", !.bundle = b, !.prepare = p]
  BY DEF Ready
<1>3. /\ p \in Prepare /\ p.attempts = x.prepare.attempts /\ p.holder = None /\ p.writer = 0
      /\ p.state \notin Active
  BY <1>1, EndedJob
<1>4. /\ b \in [Attempt -> Bundle] /\ b[n].state = "available" /\ b[n].writer = x.bundle[n].writer
      /\ \A m \in Attempt \ {n} : b[m] = x.bundle[m]
  BY <1>1 DEF Bundle
<1> HIDE DEF p, b
<1>5. /\ y \in Row /\ y.state = "ready" /\ y.prepare = p /\ y.purge = x.purge
      /\ y.bundle = b /\ y.source = x.source /\ y.approved = x.approved
  BY <1>2, <1>3, <1>4 DEF Row
<1> HIDE DEF y
<1>6. ASSUME NEW m \in Attempt PROVE BundleOK(y, m)
  <2>1. BundleOK(x, m) /\ BundleOK(x, n)
    BY DEF RowOK
  <2>2. CASE m = n
    BY <1>4, <1>5, <2>2 DEF BundleOK, Whole
  <2>3. CASE m # n
    <3>1. x.bundle[m].state # "reserved"
      BY <2>1, <2>3 DEF BundleOK
    <3> QED
      BY <1>4, <1>5, <2>1, <2>3, <3>1 DEF BundleOK, Whole
  <2> QED
    BY <2>2, <2>3
<1>7. RowOK(y)
  BY <1>3, <1>5, <1>6 DEF RowOK
<1> QED
  BY <1>3, <1>4, <1>5, <1>7 DEF y

\* The rows when a purge of the targets ends.
LEMMA PurgedRow ==
  ASSUME NEW x \in Row, RowOK(x), x.state # "absent", NEW targets \in SUBSET Attempt,
         \A n \in targets : x.bundle[n].state \in {"purge_pending", "purged"} /\ x.bundle[n].writer = 0
  PROVE  LET y == AfterPurge(x, targets)
         IN  /\ y \in Row /\ RowOK(y)
             /\ y.approved = x.approved /\ y.source = x.source /\ y.prepare = x.prepare
             /\ \/ y.state = x.state
                \/ /\ x.state = "purge_pending" /\ y.state = "purged"
                   /\ \A m \in Attempt : y.bundle[m].state \in {"absent", "purged"}
             /\ \A m \in Attempt :
                  /\ m \in targets => y.bundle[m].state = "purged"
                  /\ m \notin targets => y.bundle[m] = x.bundle[m]
                  /\ y.bundle[m].writer = x.bundle[m].writer
<1> DEFINE b == Purged(x.bundle, targets)
           z == [x EXCEPT !.bundle = b]
           d == Deferred(z.purge)
           e == [state |-> "succeeded", holder |-> None, lease |-> 0, wait |-> 0]
           y == AfterPurge(x, targets)
<1>1. x.bundle \in [Attempt -> Bundle]
  BY DEF Row
<1>2. /\ b \in [Attempt -> Bundle]
      /\ \A m \in Attempt :
           /\ m \in targets => b[m].state = "purged"
           /\ m \notin targets => b[m] = x.bundle[m]
           /\ b[m].writer = x.bundle[m].writer
  <2>1. \A m \in Attempt : x.bundle[m] \in Bundle
    BY <1>1
  <2>2. \A m \in Attempt : LET c == [x.bundle[m] EXCEPT !.state = "purged"]
                           IN  c \in Bundle /\ c.state = "purged" /\ c.writer = x.bundle[m].writer
    BY <2>1 DEF Bundle
  <2> QED
    BY <2>1, <2>2 DEF Purged
<1> HIDE DEF b
<1>3. /\ z \in Row /\ z.state = x.state /\ z.approved = x.approved /\ z.source = x.source
      /\ z.prepare = x.prepare /\ z.purge = x.purge /\ z.bundle = b
  BY <1>2 DEF Row
<1>4. /\ d \in Purge /\ d.state \in Active /\ e \in Purge
  <2>1. RetryTTL \in 0..(RetryTTL + TransitionTTL) /\ 0 \in 0..(RetryTTL + TransitionTTL)
        /\ 0 \in 0..LeaseTTL
    BY VisualAssumption
  <2> QED
    BY <2>1 DEF Deferred, Purge, Active
<1>5. /\ Targets(z) # {} => y = [z EXCEPT !.purge = d]
      /\ Targets(z) = {} =>
           y = [z EXCEPT !.state = IF z.state = "purge_pending" THEN "purged" ELSE z.state,
                         !.purge = e]
  BY DEF AfterPurge, b
<1> HIDE DEF z, d, e
<1>6. CASE Targets(z) # {}
  <2>1. /\ y \in Row /\ y.state = x.state /\ y.approved = x.approved /\ y.source = x.source
        /\ y.prepare = x.prepare /\ y.purge = d /\ y.bundle = b
    BY <1>3, <1>4, <1>5, <1>6 DEF Row
  <2> HIDE DEF y
  <2>2. ASSUME NEW m \in Attempt PROVE BundleOK(y, m)
    <3>1. BundleOK(x, m)
      BY DEF RowOK
    <3>2. CASE m \in targets
      BY <1>2, <1>4, <2>1, <3>1, <3>2 DEF BundleOK, Whole
    <3>3. CASE m \notin targets
      BY <1>2, <1>4, <2>1, <3>1, <3>3 DEF BundleOK, Whole
    <3> QED
      BY <3>2, <3>3
  <2>3. RowOK(y)
    BY <1>4, <2>1, <2>2 DEF RowOK
  <2> QED
    BY <1>2, <2>1, <2>3 DEF y
<1>7. CASE Targets(z) = {}
  <2> DEFINE s == IF z.state = "purge_pending" THEN "purged" ELSE z.state
  <2>1. s = IF x.state = "purge_pending" THEN "purged" ELSE x.state
    BY <1>3
  <2>2. /\ y \in Row /\ y.state = s /\ y.approved = x.approved /\ y.source = x.source
        /\ y.prepare = x.prepare /\ y.purge = e /\ y.bundle = b
    BY <1>3, <1>4, <1>5, <1>7 DEF Row
  <2> HIDE DEF y, s
  <2>3. \A m \in Attempt :
          /\ b[m].state # "purge_pending"
          /\ Whole(x) => b[m].state \notin {"reserved", "available"}
    BY <1>3, <1>7 DEF Targets, Whole
  <2>4. ASSUME NEW m \in Attempt PROVE BundleOK(y, m)
    <3>1. BundleOK(x, m)
      BY DEF RowOK
    <3>2. CASE m \in targets
      BY <1>2, <2>1, <2>2, <2>3, <3>1, <3>2 DEF BundleOK, Whole
    <3>3. CASE m \notin targets
      BY <1>2, <2>1, <2>2, <2>3, <3>1, <3>3 DEF BundleOK, Whole
    <3> QED
      BY <3>2, <3>3
  <2>5. RowOK(y)
    BY <2>1, <2>2, <2>4 DEF RowOK, Active
  <2>6. x.state = "purge_pending" => \A m \in Attempt : b[m].state \in {"absent", "purged"}
    BY <1>2, <2>3 DEF Whole, Bundle
  <2> QED
    BY <1>2, <2>1, <2>2, <2>5, <2>6 DEF y
<1> QED
  BY <1>6, <1>7

\* A deadline one tick later.
LEMMA DownDeadline ==
  ASSUME NEW m \in Nat, NEW t \in 0..m
  PROVE  Down(t) \in 0..m /\ Down(t) <= t /\ (t > 0 => Down(t) = t - 1)
BY DEF Down

\* The rows one tick later.
LEMMA AgedRow ==
  ASSUME NEW x \in Row, RowOK(x)
  PROVE  LET y == Aged(x)
         IN  /\ y \in Row /\ RowOK(y)
             /\ y.state = x.state /\ y.approved = x.approved /\ y.source = x.source
             /\ y.prepare.state = x.prepare.state /\ y.prepare.attempts = x.prepare.attempts
             /\ y.prepare.holder = x.prepare.holder
             /\ y.prepare.writer = Down(x.prepare.writer)
             /\ \A n \in Attempt : /\ y.bundle[n].state = x.bundle[n].state
                                   /\ y.bundle[n].writer = Down(x.bundle[n].writer)
<1> DEFINE p == AgedPrepare(x.prepare)
           q == AgedPurge(x.purge)
           b == [n \in Attempt |-> AgedBundle(x.bundle[n])]
           y == Aged(x)
<1>1. x.prepare \in Prepare /\ x.purge \in Purge /\ x.bundle \in [Attempt -> Bundle]
  BY DEF Row
<1>2. y = [x EXCEPT !.prepare = p, !.purge = q, !.bundle = b]
  BY DEF Aged
<1>3. /\ p \in Prepare /\ p.state = x.prepare.state /\ p.attempts = x.prepare.attempts
      /\ p.holder = x.prepare.holder /\ p.writer = Down(x.prepare.writer)
  <2>1. /\ Down(x.prepare.lease) \in 0..LeaseTTL /\ Down(x.prepare.writer) \in 0..WriterTTL
        /\ Down(x.prepare.wait) \in 0..RetryTTL
    BY <1>1, VisualAssumption, DownDeadline DEF Prepare
  <2> QED
    BY <1>1, <2>1 DEF Prepare, AgedPrepare
<1>4. q \in Purge /\ q.state = x.purge.state
  <2>1. /\ Down(x.purge.lease) \in 0..LeaseTTL
        /\ Down(x.purge.wait) \in 0..(RetryTTL + TransitionTTL)
    BY <1>1, VisualAssumption, DownDeadline DEF Purge
  <2> QED
    BY <1>1, <2>1 DEF Purge, AgedPurge
<1>5. /\ b \in [Attempt -> Bundle]
      /\ \A n \in Attempt : /\ b[n].state = x.bundle[n].state
                            /\ b[n].writer = Down(x.bundle[n].writer)
                            /\ x.bundle[n].writer = 0 => b[n].writer = 0
  <2>1. \A n \in Attempt : /\ x.bundle[n] \in Bundle
                           /\ Down(x.bundle[n].writer) \in 0..WriterTTL
                           /\ Down(x.bundle[n].writer) <= x.bundle[n].writer
    BY <1>1, VisualAssumption, DownDeadline DEF Bundle
  <2> QED
    BY <1>1, <2>1 DEF Bundle, AgedBundle
<1> HIDE DEF p, q, b
<1>6. /\ y \in Row /\ y.state = x.state /\ y.prepare = p /\ y.purge = q
      /\ y.bundle = b /\ y.source = x.source /\ y.approved = x.approved
  BY <1>2, <1>3, <1>4, <1>5 DEF Row
<1> HIDE DEF y
<1>7. \A n \in Attempt : BundleOK(y, n)
  BY <1>3, <1>4, <1>5, <1>6 DEF RowOK, BundleOK, Whole
<1>8. RowOK(y)
  BY <1>3, <1>4, <1>6, <1>7 DEF RowOK
<1> QED
  BY <1>3, <1>5, <1>6, <1>8 DEF y

\* The rows of a fresh request.
LEMMA RequestedRow ==
  ASSUME NEW s \in Source
  PROVE  LET y == Requested(s)
         IN  /\ y \in Row /\ RowOK(y)
             /\ y.state = "queued" /\ ~y.approved /\ y.source = s
             /\ y.prepare.writer = 0 /\ y.prepare.attempts = 0 /\ y.prepare.holder = None
             /\ \A n \in Attempt : y.bundle[n] = [state |-> "absent", writer |-> 0]
<1> DEFINE y == Requested(s)
           p == [state |-> "queued", attempts |-> 0, holder |-> None,
                 lease |-> 0, writer |-> 0, wait |-> 0]
           q == [state |-> "none", holder |-> None, lease |-> 0, wait |-> 0]
           b == [n \in Attempt |-> [state |-> "absent", writer |-> 0]]
<1>1. /\ 0 \in 0..LeaseTTL /\ 0 \in 0..WriterTTL /\ 0 \in 0..RetryTTL
      /\ 0 \in 0..(RetryTTL + TransitionTTL) /\ 0 \in 0..MaxAttempts
  BY VisualAssumption
<1>2. p \in Prepare /\ q \in Purge /\ b \in [Attempt -> Bundle]
  BY <1>1 DEF Prepare, Purge, Bundle, Active
<1>3. y = [state |-> "queued", source |-> s, approved |-> FALSE, expired |-> FALSE,
           prepare |-> p, purge |-> q, bundle |-> b]
  BY DEF Requested
<1>4. y \in Row
  BY <1>2, <1>3 DEF Row
<1>5. /\ y.state = "queued" /\ y.source = s /\ ~y.approved /\ y.prepare = p
      /\ \A n \in Attempt : y.bundle[n] = [state |-> "absent", writer |-> 0]
  BY <1>3
<1> HIDE DEF y
<1>6. \A n \in Attempt : BundleOK(y, n)
  BY <1>5 DEF BundleOK
<1>7. RowOK(y)
  BY <1>5, <1>6 DEF RowOK
<1> QED
  BY <1>4, <1>5, <1>7 DEF y

-----------------------------------------------------------------------------
\* What a step leaves as it was.

\* The version and the attempt of a key.
LEMMA KeyParts ==
  ASSUME NEW k \in Key
  PROVE  k[1] \in Version /\ k[2] \in Attempt
BY DEF Key

\* Several rows at once that a command or a claim withdraws.
LEMMA WithdrawnRows ==
  ASSUME version \in [Version -> Row], RowsOK, NEW S \in SUBSET Version,
         \A v \in S : version[v].state # "absent"
  PROVE  LET rows == WithdrawnSet(S)
         IN  /\ rows \in [Version -> Row]
             /\ \A v \in Version :
                  /\ RowOK(rows[v]) /\ Quiet(version[v], rows[v])
                  /\ rows[v].approved = version[v].approved
                  /\ rows[v].prepare.writer = version[v].prepare.writer
                  /\ v \notin S => rows[v] = version[v]
                  /\ v \in S => /\ rows[v].prepare.state \notin Active
                                /\ rows[v].state = IF version[v].state = "purged"
                                                   THEN "purged" ELSE "purge_pending"
<1>1. \A v \in Version : version[v] \in Row /\ RowOK(version[v])
  BY DEF RowsOK
<1>2. 0 \in {0, TransitionTTL}
  OBVIOUS
<1>3. \A v \in S : LET y == Withdrawn(version[v], 0)
                   IN  /\ y \in Row /\ RowOK(y) /\ Quiet(version[v], y)
                       /\ y.state = (IF version[v].state = "purged" THEN "purged" ELSE "purge_pending")
                       /\ y.prepare.state \notin Active
                       /\ y.approved = version[v].approved
                       /\ y.prepare.writer = version[v].prepare.writer
  BY <1>1, <1>2, WithdrawnRow
<1>4. \A v \in Version : WithdrawnSet(S)[v] =
                           IF v \in S THEN Withdrawn(version[v], 0) ELSE version[v]
  BY DEF WithdrawnSet
<1>5. \A v \in Version : WithdrawnSet(S)[v] \in Row
  BY <1>1, <1>3, <1>4
<1>6. WithdrawnSet(S) \in [Version -> Row]
  BY <1>5 DEF WithdrawnSet
<1> QED
  BY <1>1, <1>3, <1>4, <1>6, QuietSame

\* Every row takes a quiet step.
QuietStep ==
  /\ version' \in [Version -> Row]
  /\ \A v \in Version : RowOK(version'[v]) /\ Quiet(version[v], version'[v])

\* What a step may do around worker u without disturbing it: to the rows of its version,
\* and to the keys it relies on.
RowsAround(u) ==
  LET x == Job(u)
      y == version'[work[u].v]
  IN  /\ y.state = "absent" => x.state = "absent"
      /\ x.prepare.attempts <= y.prepare.attempts
      /\ y.prepare.holder = u => x.prepare.holder = u /\ y.prepare.attempts = x.prepare.attempts
      /\ work[u].n # 0 /\ y.bundle[work[u].n].state = "reserved"
           => x.bundle[work[u].n].state = "reserved"
      /\ \A m \in Attempt :
           x.bundle[m].state \in {"purge_pending", "purged"} /\ x.bundle[m].writer = 0
             => y.bundle[m].state \in {"purge_pending", "purged"} /\ y.bundle[m].writer = 0

KeysAround(u) ==
  \A k \in Key : k[1] = work[u].v =>
    /\ version'[k[1]].bundle[k[2]].state = "reserved" /\ k \in store => k \in store'
    /\ BundleOf(k).state \in {"purge_pending", "purged"} /\ BundleOf(k).writer = 0
         => /\ flight[k] = 0 => flight'[k] = 0
            /\ flight[k] = 0 /\ k \in store' => k \in store

WorkerOK(u) ==
  /\ ShapeOf(u)
  /\ work[u].n # 0 => AttemptOf(u)
  /\ work[u].pc \in Erasing => PurgeOf(u)

\* A worker that the step leaves where it is.
LEMMA Staying ==
  ASSUME Inv, TypeOK', NEW u \in Worker, work'[u] = work[u],
         work[u].pc # "idle" => RowsAround(u) /\ KeysAround(u)
  PROVE  WorkerOK(u)'
<1> DEFINE x == Job(u)
           y == version'[work[u].v]
           n == work[u].n
<1>0. work[u] \in Work
  BY DEF Inv, TypeOK
<1>1. ShapeOf(u) /\ (work[u].pc = "idle" => n = 0 /\ work[u].pc \notin Erasing)
  BY DEF Inv, Shape, ShapeOf, Prepares, Erasing
<1>2. ShapeOf(u)'
  <2>1. work[u].pc # "idle" => work[u].v \in Version /\ y.state # "absent"
    BY <1>1 DEF ShapeOf, RowsAround, Job
  <2> QED
    BY <1>1, <2>1 DEF ShapeOf, KeysOf
<1>3. ASSUME n # 0 PROVE AttemptOf(u)'
  <2>1. work[u].pc # "idle" /\ work[u].v \in Version /\ n \in Attempt
    BY <1>0, <1>1, <1>3 DEF ShapeOf, Work, Attempt
  <2>2. RowsAround(u) /\ KeysAround(u) /\ AttemptOf(u)
    BY <1>3, <2>1 DEF Inv, Attempts
  <2>3. n <= y.prepare.attempts
    <3>1. n \in Nat /\ x.prepare.attempts \in Nat /\ y.prepare.attempts \in Nat
      BY <2>1, VisualAssumption DEF Inv, TypeOK, Row, Prepare, Attempt, Job
    <3> QED
      BY <2>2, <3>1 DEF RowsAround, AttemptOf
  <2>4. y.prepare.holder = u => n = y.prepare.attempts
    BY <2>2 DEF RowsAround, AttemptOf
  <2>5. work[u].pc = "settle" => y.bundle[n].state # "reserved"
    BY <1>3, <2>2 DEF RowsAround, AttemptOf
  <2>6. work[u].pc = "publish" /\ y.bundle[n].state = "reserved"
          => KeysOf(work[u].v, n) \subseteq store'
    BY <1>3, <2>2 DEF RowsAround, KeysAround, AttemptOf, KeysOf
  <2> QED
    BY <2>3, <2>4, <2>5, <2>6 DEF AttemptOf, Job, KeysOf
<1>4. ASSUME work[u].pc \in Erasing PROVE PurgeOf(u)'
  <2>1. work[u].pc # "idle" /\ work[u].v \in Version /\ work[u].targets \subseteq Attempt
    BY <1>0, <1>1, <1>4 DEF ShapeOf, Work
  <2>2. RowsAround(u) /\ KeysAround(u) /\ PurgeOf(u)
    BY <1>4, <2>1 DEF Inv, Purges
  <2>3. \A m \in work[u].targets :
          y.bundle[m].state \in {"purge_pending", "purged"} /\ y.bundle[m].writer = 0
    BY <2>1, <2>2 DEF RowsAround, PurgeOf
  <2>4. \A k \in Key : IsTarget(u, k) =>
          /\ BundleOf(k).state \in {"purge_pending", "purged"} /\ BundleOf(k).writer = 0
          /\ k[1] = work[u].v
    BY <2>2 DEF PurgeOf, IsTarget, BundleOf, Job
  <2>5. \A k \in Key : IsTarget(u, k) =>
          /\ flight[k] = 0 => flight'[k] = 0
          /\ flight[k] = 0 /\ k \in store' => k \in store
    BY <2>2, <2>4 DEF KeysAround
  <2>6. \A k : IsTarget(u, k)' <=> IsTarget(u, k)
    BY DEF IsTarget
  <2>7. \A k \in work[u].left : IsTarget(u, k)
    BY <2>2 DEF PurgeOf
  <2>8. work[u].pc \in {"sweep", "count"} =>
       work[u].at \in Key /\ IsTarget(u, work[u].at) /\ flight'[work[u].at] = 0
    BY <2>2, <2>5 DEF PurgeOf
  <2>9. work[u].pc # "erase" /\ work[u].flag =>
       \A k \in Key : IsTarget(u, k) /\ k \notin work[u].left => flight'[k] = 0
    BY <2>2, <2>5 DEF PurgeOf
  <2>10. work[u].pc = "erase" =>
       \A k \in Key : IsTarget(u, k) => flight'[k] = 0 /\ (k \notin work[u].left => k \notin store')
    BY <2>2, <2>5 DEF PurgeOf
  <2> QED
    BY <2>3, <2>6, <2>7, <2>8, <2>9, <2>10 DEF PurgeOf, Job
<1> QED
  BY <1>2, <1>3, <1>4 DEF WorkerOK

\* A worker that moves on: it keeps its attempt or lays it down, and a local put that
\* it leaves is over.
Moving(u) ==
  /\ WorkerOK(u)'
  /\ work'[u].n # 0 => work'[u].n = work[u].n /\ work'[u].v = work[u].v
  /\ work[u].pc = "flight" /\ ~Remote =>
       \/ flight'[work[u].at] = 0
       \/ work'[u].pc = "flight" /\ work'[u].at = work[u].at

\* Two workers never share an attempt, if none takes a new one.
LEMMA AttemptsApart ==
  ASSUME Attempts,
         \A u \in Worker : work'[u].n # 0 => work'[u].n = work[u].n /\ work'[u].v = work[u].v
  PROVE  \A w, u \in Worker :
           work'[w].n # 0 /\ work'[u].n = work'[w].n /\ work'[u].v = work'[w].v => u = w
BY DEF Attempts

\* What the ledgers, the store and the rows say of a key, after a calm step.
LEMMA CalmKeys ==
  ASSUME Inv, TypeOK', \A v \in Version : Calm(version[v], version'[v]), landed' = landed, store' \subseteq store,
         \A k \in Key : flight[k] = 0 => flight'[k] = 0,
         \A k \in Key : write'[k] = write[k] \/ (write'[k] = "confirmed" /\ flight[k] = 0),
         \A k \in store : k \notin store' => BundleOf(k).state \in {"purge_pending", "purged"}
  PROVE  Keys'
<1> SUFFICES ASSUME NEW k \in Key PROVE KeyOK(k)'
  BY DEF Keys
<1> DEFINE x == version[k[1]]
           y == version'[k[1]]
           n == k[2]
<1>1. k[1] \in Version /\ n \in Attempt
  BY KeyParts
<1>2. KeyOK(k) /\ flight[k] \in Nat /\ flight'[k] \in Nat
  BY VisualAssumption DEF Inv, Keys, TypeOK
<1>3. Calm(x, y)
  BY <1>1
<1>4. BundleOf(k) = x.bundle[n] /\ BundleOf(k)' = y.bundle[n]
  BY DEF BundleOf
<1>5. /\ y.bundle[n].state # x.bundle[n].state
           => y.bundle[n].state = "purge_pending" /\ x.bundle[n].state # "absent"
      /\ y.state = "purged" => x.state = "purged"
  BY <1>1, <1>3 DEF Calm
<1> HIDE DEF x, y, n
<1>6. (k \in store => k \in landed)'
  BY <1>2 DEF KeyOK
<1>7. (k \in landed => flight[k] = 0 /\ write[k] # "reserved")'
  BY <1>2 DEF KeyOK
<1>8. (flight[k] > 0 => write[k] = "dispatching" /\ BundleOf(k).state \in {"reserved", "purge_pending"})'
  BY <1>2, <1>4, <1>5 DEF KeyOK
<1>9. (k \in store => BundleOf(k).state \in {"reserved", "available", "purge_pending"})'
  BY <1>2, <1>4, <1>5 DEF KeyOK
<1>10. (BundleOf(k).state = "available" => k \in store)'
  BY <1>2, <1>4, <1>5 DEF KeyOK
<1>11. (version[k[1]].state = "purged" => k \notin store /\ flight[k] = 0)'
  BY <1>2, <1>5 DEF KeyOK, x, y
<1> QED
  BY <1>6, <1>7, <1>8, <1>9, <1>10, <1>11 DEF KeyOK

\* The puts on their way after a quiet step.
LEMMA QuietPuts ==
  ASSUME Inv, TypeOK', QuietStep,
         \A k \in Key : flight'[k] \in {flight[k], 0},
         \A u \in Worker : work'[u] = work[u] \/ Moving(u)
  PROVE  LocalPuts'
<1> SUFFICES ASSUME ~Remote, NEW k \in Key, flight'[k] > 0 PROVE PutOf(k)'
  BY DEF LocalPuts
<1>1. flight'[k] = flight[k] /\ flight[k] > 0
  BY VisualAssumption DEF Inv, TypeOK
<1>2. PutOf(k)
  BY <1>1 DEF Inv, LocalPuts
<1>3. k[1] \in Version /\ k[2] \in Attempt
  BY KeyParts
<1>4. \A v \in Version : Quiet(version[v], version'[v])
  BY DEF QuietStep
<1>5. flight'[k] < version'[k[1]].bundle[k[2]].writer
  BY <1>1, <1>2, <1>3, <1>4 DEF PutOf, BundleOf, Quiet
<1>6. \E w \in Worker : work'[w].pc = "flight" /\ work'[w].at = k
  <2>1. PICK w \in Worker : work[w].pc = "flight" /\ work[w].at = k
    BY <1>2 DEF PutOf
  <2> QED
    BY <1>1, <2>1 DEF Moving
<1>7. \A v \in Version : version'[v].prepare.writer > 0 =>
        k[1] = v /\ k[2] = version'[v].prepare.attempts
  BY <1>2, <1>4 DEF PutOf, Quiet
<1>8. \A l \in Key : flight'[l] > 0 => k = l
  <2>1. \A l \in Key : flight'[l] > 0 => flight[l] > 0
    BY VisualAssumption DEF Inv, TypeOK
  <2> QED
    BY <1>2, <2>1 DEF PutOf
<1> QED
  BY <1>5, <1>6, <1>7, <1>8 DEF PutOf, BundleOf

\* The invariant after a quiet step: what remains to be shown of an action is what it
\* does to the pointers and to the workers that move.
LEMMA QuietInv ==
  ASSUME Inv, TypeOK', QuietStep, Pointers', landed' = landed, store' \subseteq store,
         \A k \in Key : flight'[k] \in {flight[k], 0},
         \A k \in Key : write'[k] = write[k] \/ (write'[k] = "confirmed" /\ flight[k] = 0),
         \A k \in store : k \notin store' => BundleOf(k).state \in {"purge_pending", "purged"},
         \A u \in Worker : work'[u] = work[u] \/ Moving(u)
  PROVE  Inv'
<1>1. \A v \in Version : RowOK(version'[v]) /\ Quiet(version[v], version'[v])
  BY DEF QuietStep
<1>2. RowsOK'
  BY <1>1 DEF RowsOK
<1>3. WritersSerial'
  BY <1>1 DEF Inv, WritersSerial, Quiet
<1>4. ASSUME NEW u \in Worker PROVE WorkerOK(u)'
  <2>1. CASE work'[u] = work[u]
    <3>1. ASSUME work[u].pc # "idle" PROVE RowsAround(u) /\ KeysAround(u)
      <4>1. work[u].v \in Version
        BY <3>1 DEF Inv, Shape, ShapeOf
      <4>2. Quiet(Job(u), version'[work[u].v])
        BY <1>1, <4>1 DEF Job
      <4>3. /\ Job(u).prepare.attempts \in Nat
            /\ work[u].n # 0 => work[u].n \in Attempt
        BY <4>1, VisualAssumption, SMTT(20) DEF Inv, TypeOK, Row, Prepare, Job, Work, Attempt
      <4>4. RowsAround(u)
        <5>1. u # None
          BY VisualAssumption
        <5>2. work[u].n = 0 \/ work[u].n \in Attempt
          BY <4>3
        <5> QED
          BY <4>2, <4>3, <5>1, <5>2 DEF RowsAround, Quiet
      <4>5. KeysAround(u)
        <5> SUFFICES ASSUME NEW k \in Key, k[1] = work[u].v
                     PROVE  /\ version'[k[1]].bundle[k[2]].state = "reserved" /\ k \in store
                                 => k \in store'
                            /\ flight[k] = 0 => flight'[k] = 0
                            /\ flight[k] = 0 /\ k \in store' => k \in store
          BY DEF KeysAround
        <5>1. k[2] \in Attempt
          BY KeyParts
        <5>2. version'[k[1]].bundle[k[2]].state = "reserved" => BundleOf(k).state = "reserved"
          BY <4>2, <5>1 DEF Quiet, BundleOf, Job
        <5> QED
          BY <5>2
      <4> QED
        BY <4>4, <4>5
    <3> QED
      BY <2>1, <3>1, Staying
  <2>2. CASE Moving(u)
    BY <2>2 DEF Moving
  <2> QED
    BY <2>1, <2>2
<1>5. Shape' /\ Purges' /\ \A u \in Worker : (work[u].n # 0 => AttemptOf(u))'
  BY <1>4 DEF WorkerOK, Shape, Purges
<1>6. \A u \in Worker : work'[u].n # 0 => work'[u].n = work[u].n /\ work'[u].v = work[u].v
  BY DEF Moving
<1>7. Attempts'
  <2>1. Attempts
    BY DEF Inv
  <2> QED
    BY <1>5, <1>6, <2>1, AttemptsApart DEF Attempts
<1>8. Keys' /\ LocalPuts'
  <2>1. \A v \in Version : Calm(version[v], version'[v])
    BY <1>1 DEF Quiet, Calm
  <2> QED
    BY <2>1, CalmKeys, QuietPuts
<1> QED
  BY <1>2, <1>3, <1>5, <1>7, <1>8 DEF Inv

-----------------------------------------------------------------------------
\* The pointers.

\* A row that changes nothing the pointers of the profile depend on.
Steady(x, y) ==
  /\ y.source = x.source /\ y.approved = x.approved
  /\ y.prepare.state \in Active => x.prepare.state \in Active
  /\ \/ y.state = x.state
     \/ {x.state, y.state} \subseteq {"queued", "preparing", "failed"}
     \/ {x.state, y.state} \subseteq {"purge_pending", "purged"}
  /\ \A n \in Attempt : y.bundle[n].state = "available" <=> x.bundle[n].state = "available"

\* The pointers after the versions of S are withdrawn and no longer desired.
LEMMA PointersKept ==
  ASSUME TypeOK, TypeOK', Pointers, RowsOK', NEW S \in SUBSET Version,
         profile.current \notin S, source' = source,
         profile'.current = profile.current, profile'.enabled = profile.enabled,
         profile'.desired = (IF profile.desired \in S THEN NoVersion ELSE profile.desired),
         \A v \in S : version'[v].state \in {"purge_pending", "purged"},
         \A v \in Version : v \notin S => Steady(version[v], version'[v])
  PROVE  Pointers'
<1> USE DEF NoVersion
<1>0. /\ profile.current \in Version \cup {0} /\ profile.desired \in Version \cup {0}
  BY DEF TypeOK, Profile
<1>1. ASSUME NEW v \in Version, version'[v].prepare.state \in Active
      PROVE  profile'.desired = v
  <2>1. version'[v].state \in {"queued", "preparing"}
    BY <1>1 DEF RowsOK, RowOK
  <2>2. v \notin S
    BY <2>1
  <2>3. version[v].prepare.state \in Active
    BY <1>1, <2>2 DEF Steady
  <2> QED
    BY <2>2, <2>3 DEF Pointers
<1>2. ASSUME profile'.desired # NoVersion
      PROVE  version'[profile'.desired].state \in {"queued", "preparing", "ready", "failed"}
  <2>1. profile'.desired = profile.desired /\ profile.desired \in Version \ S
    BY <1>0, <1>2
  <2>2. Steady(version[profile.desired], version'[profile.desired])
    BY <2>1
  <2>3. version[profile.desired].state \in {"queued", "preparing", "ready", "failed"}
    BY <1>2, <2>1 DEF Pointers
  <2> QED
    BY <2>1, <2>2, <2>3 DEF Steady
<1>3. ASSUME NEW v \in Version, version'[v].state = "ready", version'[v].approved
      PROVE  profile'.current = v
  <2>1. v \notin S
    BY <1>3
  <2>2. version[v].state = "ready" /\ version[v].approved
    BY <1>3, <2>1 DEF Steady
  <2> QED
    BY <2>2 DEF Pointers
<1>4. ASSUME profile'.current # NoVersion PROVE Fit(profile.current)'
  <2> DEFINE v == profile.current
  <2>1. v \in Version \ S /\ v' = v
    BY <1>0, <1>4
  <2>2. Fit(v)
    BY <1>4, <2>1 DEF Pointers
  <2> HIDE DEF v
  <2>3. Steady(version[v], version'[v])
    BY <2>1
  <2>4. version'[v].state = "ready" /\ version'[v].approved /\ version'[v].source \in source'
    BY <2>2, <2>3 DEF Steady, Fit
  <2>5. {n \in Attempt : version'[v].bundle[n].state = "available"} = Published(v)
    BY <2>3 DEF Steady, Published
  <2>6. \E n \in Attempt : {m \in Attempt : version'[v].bundle[m].state = "available"} = {n}
    BY <2>2, <2>5 DEF Fit
  <2> QED
    BY <2>1, <2>4, <2>6 DEF Fit, Published, v
<1>5. profile'.enabled => profile'.current # NoVersion
  BY DEF Pointers
<1> QED
  BY <1>1, <1>2, <1>3, <1>4, <1>5 DEF Pointers

\* Rows that nothing touches take a quiet step.
LEMMA SameRows ==
  ASSUME Inv, version' = version
  PROVE  QuietStep
<1>1. \A v \in Version : version[v] \in Row /\ RowOK(version[v])
  BY DEF Inv, TypeOK, RowsOK
<1> QED
  BY <1>1, QuietSame DEF QuietStep, Inv, TypeOK

\* One bundle is published of a version that is complete.
LEMMA OnePublished ==
  ASSUME NEW v \in Version, Complete(v)
  PROVE  \E n \in Attempt : Published(v) = {n}
<1>1. IsFiniteSet(Attempt)
  BY VisualAssumption, FS_Interval DEF Attempt
<1>2. Published(v) \subseteq Attempt
  BY DEF Published
<1>3. IsFiniteSet(Published(v))
  BY <1>1, <1>2, FS_Subset
<1>4. \E n : Published(v) = {n}
  BY <1>3, FS_Singleton DEF Complete
<1> QED
  BY <1>2, <1>4

-----------------------------------------------------------------------------
\* The commands of the owner.

\* A tab reads the profile.
LEMMA ReadStep ==
  ASSUME Inv, NEW t \in Tab, Read(t)
  PROVE  Inv'
<1>1. TypeOK'
  BY DEF Inv, Read, TypeOK, ledger, external
<1>2. version' = version /\ work' = work /\ store' = store /\ landed' = landed
      /\ flight' = flight /\ write' = write /\ profile' = profile /\ source' = source
  BY DEF Read, ledger, external
<1>3. QuietStep
  BY <1>2, SameRows
<1>4. Pointers'
  BY <1>2 DEF Inv, Pointers, Fit, Published
<1> QED
  BY <1>1, <1>2, <1>3, <1>4, QuietInv

\* An unapproved version has waited too long: only its flag changes.
LEMMA ExpireStep ==
  ASSUME Inv, NEW v \in Version, Expire(v)
  PROVE  Inv'
<1>1. UNCHANGED <<profile, source, seen, work, write, absent, store, landed, flight, crashes>>
  BY DEF Expire, ledger, external
<1>2. version \in [Version -> Row] /\ version[v] \in Row /\ RowOK(version[v])
  BY DEF Inv, TypeOK, RowsOK
<1> DEFINE y == [version[v] EXCEPT !.expired = TRUE]
<1>3. /\ y \in Row /\ RowOK(y) /\ Quiet(version[v], y) /\ y.state = version[v].state
      /\ y.approved = version[v].approved /\ y.prepare = version[v].prepare
      /\ y.bundle = version[v].bundle
  BY <1>2, ExpiredRow
<1>4. version' = [version EXCEPT ![v] = y]
  BY <1>2 DEF Expire
<1> HIDE DEF y
<1>5. version' \in [Version -> Row] /\ version'[v] = y /\ \A u \in Version \ {v} : version'[u] = version[u]
  BY <1>2, <1>3, <1>4
<1>6. TypeOK'
  BY <1>1, <1>5 DEF Inv, TypeOK
<1>7. \A u \in Version : version[u] \in Row /\ RowOK(version[u])
  BY DEF Inv, TypeOK, RowsOK
<1>8. QuietStep
  BY <1>3, <1>5, <1>7, QuietSame DEF QuietStep
<1>9. Pointers'
  <2>1. RowsOK'
    BY <1>8 DEF QuietStep, RowsOK
  <2>2. \A u \in Version : Steady(version[u], version'[u])
    BY <1>3, <1>5 DEF Steady, Quiet
  <2>3. {} \in SUBSET Version /\ TypeOK /\ Pointers
    BY DEF Inv
  <2>4. profile.current \notin {} /\ profile.desired \notin {}
    OBVIOUS
  <2> QED
    BY <1>1, <1>6, <2>1, <2>2, <2>3, <2>4, PointersKept
<1> QED
  BY <1>1, <1>6, <1>8, <1>9, QuietInv

\* The switch is turned off, or on for a version that is fit to be shown.
LEMMA ToggleStep ==
  ASSUME Inv, NEW t \in Tab, NEW enabled \in BOOLEAN, Toggle(t, enabled)
  PROVE  Inv'
<1>1. UNCHANGED <<version, source, work, write, absent, store, landed, flight, crashes>>
  BY DEF Toggle, ledger, external
<1>2. /\ profile' \in Profile /\ profile'.enabled = enabled
      /\ profile'.current = profile.current /\ profile'.desired = profile.desired
  BY DEF Inv, TypeOK, Profile, Toggle
<1>3. TypeOK'
  BY <1>1, <1>2 DEF Inv, TypeOK, Toggle, Outdated
<1>4. QuietStep
  BY <1>1, SameRows
<1>5. enabled => profile.current # NoVersion
  BY DEF Toggle
<1>6. Pointers'
  BY <1>1, <1>2, <1>5 DEF Inv, Pointers, Fit, Published
<1> QED
  BY <1>1, <1>3, <1>4, <1>6, QuietInv

\* The candidate becomes current, and the version before it is withdrawn.
LEMMA ActivateStep ==
  ASSUME Inv, NEW t \in Tab, NEW v \in Version, Activate(t, v)
  PROVE  Inv'
<1> DEFINE old == {profile.current} \ {v, NoVersion}
<1>1. UNCHANGED <<source, work, write, absent, store, landed, flight, crashes>>
  BY DEF Activate, ledger, external
<1>2. /\ profile' \in Profile /\ profile'.enabled /\ profile'.current = v
      /\ profile'.desired = profile.desired /\ profile.desired = v
  BY DEF Inv, TypeOK, Profile, Activate
<1>3. /\ version[v].state = "ready" /\ version[v].source \in source /\ Complete(v)
      /\ version' = [u \in Version |->
           IF u = v THEN [version[u] EXCEPT !.approved = TRUE]
           ELSE IF u \in old THEN Withdrawn(version[u], TransitionTTL) ELSE version[u]]
  BY DEF Activate
<1>4. \A u \in Version : version[u] \in Row /\ RowOK(version[u])
  BY DEF Inv, TypeOK, RowsOK
<1>5. \A u \in old : u \in Version /\ u # v /\ version[u].state = "ready"
  BY DEF Inv, TypeOK, Profile, Pointers, Fit
<1> DEFINE y == [version[v] EXCEPT !.approved = TRUE]
<1>6. /\ y \in Row /\ RowOK(y) /\ Quiet(version[v], y) /\ y.state = "ready"
      /\ y.approved /\ y.prepare = version[v].prepare /\ y.bundle = version[v].bundle
  BY <1>3, <1>4, ApprovedRow
<1>7. \A u \in old : LET z == Withdrawn(version[u], TransitionTTL)
                     IN  /\ z \in Row /\ RowOK(z) /\ Quiet(version[u], z)
                         /\ z.state = "purge_pending"
  <2>1. TransitionTTL \in {0, TransitionTTL}
    OBVIOUS
  <2>2. \A u \in old : version[u].state # "absent" /\ version[u].state # "purged"
    BY <1>5
  <2> QED
    BY <1>4, <1>5, <2>1, <2>2, WithdrawnRow
<1> HIDE DEF old
<1>8. /\ version'[v] = y
      /\ \A u \in old : version'[u] = Withdrawn(version[u], TransitionTTL)
      /\ \A u \in Version : u # v /\ u \notin old => version'[u] = version[u]
  BY <1>3, <1>5
<1> HIDE DEF y
<1>9. \A u \in Version : version'[u] \in Row /\ RowOK(version'[u]) /\ Quiet(version[u], version'[u])
  <2>1. SUFFICES ASSUME NEW u \in Version
                 PROVE  version'[u] \in Row /\ RowOK(version'[u]) /\ Quiet(version[u], version'[u])
    OBVIOUS
  <2>2. CASE u = v
    BY <1>6, <1>8, <2>2
  <2>3. CASE u \in old
    BY <1>7, <1>8, <2>3
  <2>4. CASE u # v /\ u \notin old
    BY <1>4, <1>8, <2>4, QuietSame
  <2> QED
    BY <2>2, <2>3, <2>4
<1>10. version' \in [Version -> Row] /\ QuietStep
  BY <1>3, <1>9 DEF QuietStep
<1>11. TypeOK'
  <2>1. seen' \in [Tab -> Profile \cup {None}]'
    BY DEF Activate, Outdated
  <2> QED
    BY <1>1, <1>2, <1>10, <2>1 DEF Inv, TypeOK
<1>12. Pointers'
  <2>1. ASSUME NEW u \in Version, version'[u].prepare.state \in Active PROVE profile'.desired = u
    <3>1. version[u].prepare.state \in Active
      BY <1>9, <2>1 DEF Quiet
    <3> QED
      BY <1>2, <3>1 DEF Inv, Pointers
  <2>2. version'[profile'.desired].state = "ready"
    BY <1>2, <1>6, <1>8
  <2>3. ASSUME NEW u \in Version, version'[u].state = "ready", version'[u].approved
        PROVE  profile'.current = u
    <3>1. u \notin old
      BY <1>7, <1>8, <2>3
    <3>2. CASE u # v
      <4>1. version'[u] = version[u]
        BY <1>8, <3>1, <3>2
      <4>2. profile.current = u
        BY <2>3, <4>1 DEF Inv, Pointers
      <4>3. u # NoVersion
        BY VisualAssumption DEF Version, NoVersion
      <4> QED
        BY <3>1, <3>2, <4>2, <4>3 DEF old
    <3> QED
      BY <1>2, <3>2
  <2>4. Fit(v)'
    <3>1. PICK n \in Attempt : Published(v) = {n}
      BY <1>3, OnePublished
    <3>2. Published(v)' = Published(v)
      BY <1>6, <1>8 DEF Published
    <3>3. version'[v].source \in source'
      <4>1. y.source = version[v].source
        BY <1>6 DEF Quiet
      <4>2. version[v].source \in source'
        BY <1>1, <1>3
      <4> QED
        BY <1>8, <4>1, <4>2
    <3>4. version'[v].state = "ready" /\ version'[v].approved
      BY <1>6, <1>8
    <3>5. Published(v)' = {n} /\ n \in Attempt
      BY <3>1, <3>2
    <3> QED
      BY <3>3, <3>4, <3>5 DEF Fit
  <2>5. profile'.current # NoVersion
    BY <1>2, VisualAssumption DEF Version, NoVersion
  <2>6. Fit(profile.current)'
    BY <1>2, <2>4 DEF Fit, Published
  <2> QED
    BY <2>1, <2>2, <2>3, <2>5, <2>6 DEF Pointers
<1> QED
  BY <1>1, <1>10, <1>11, <1>12, QuietInv

\* Every version is withdrawn at once, and no pointer is left.
LEMMA DeleteStep ==
  ASSUME Inv, NEW t \in Tab, Delete(t)
  PROVE  Inv'
<1> DEFINE S == {v \in Version : version[v].state # "absent"}
<1>1. UNCHANGED <<source, work, write, absent, store, landed, flight, crashes>>
  BY DEF Delete, ledger, external
<1>2. profile' = [current |-> NoVersion, desired |-> NoVersion, enabled |-> FALSE, deleted |-> TRUE]
  BY DEF Delete
<1>3. version' = WithdrawnSet(S)
  BY DEF Delete
<1>4. /\ version' \in [Version -> Row]
      /\ \A v \in Version :
           /\ RowOK(version'[v]) /\ Quiet(version[v], version'[v])
           /\ v \notin S => version'[v] = version[v]
           /\ v \in S => /\ version'[v].prepare.state \notin Active
                         /\ version'[v].state = IF version[v].state = "purged"
                                                THEN "purged" ELSE "purge_pending"
  BY <1>3, WithdrawnRows DEF Inv, TypeOK
<1>5. QuietStep
  BY <1>4 DEF QuietStep
<1>6. TypeOK'
  <2>1. profile' \in Profile
    BY <1>2 DEF Profile
  <2>2. seen' \in [Tab -> Profile \cup {None}]'
    BY DEF Delete, Outdated
  <2> QED
    BY <1>1, <1>4, <2>1, <2>2 DEF Inv, TypeOK
<1>7. Pointers'
  <2>1. \A v \in Version : version'[v].state # "ready"
    BY <1>4
  <2>2. \A v \in Version : version'[v].prepare.state \notin Active
    BY <1>4 DEF RowOK
  <2> QED
    BY <1>2, <2>1, <2>2 DEF Pointers
<1> QED
  BY <1>1, <1>5, <1>6, <1>7, QuietInv

\* What was made from the source is withdrawn, and its pointers with it.
LEMMA SourceDeleteStep ==
  ASSUME Inv, NEW s \in Source, SourceDelete(s)
  PROVE  Inv'
<1> DEFINE S == {v \in Version : version[v].source = s}
<1>1. /\ UNCHANGED <<work, write, absent, store, landed, flight, crashes>>
      /\ s \in source /\ source' = source \ {s}
  BY DEF SourceDelete, ledger, external
<1>2. CASE S = {}
  <2>1. UNCHANGED <<profile, version, seen>>
    BY <1>2 DEF SourceDelete
  <2>2. TypeOK'
    BY <1>1, <2>1 DEF Inv, TypeOK
  <2>3. QuietStep
    BY <2>1, SameRows
  <2>4. profile.current # NoVersion => Fit(profile.current)'
    <3>1. profile.current # NoVersion =>
            profile.current \in Version /\ version[profile.current].source # s
      BY <1>2 DEF Inv, TypeOK, Profile
    <3> QED
      BY <1>1, <2>1, <3>1 DEF Inv, Pointers, Fit, Published
  <2>5. Pointers'
    BY <2>1, <2>4 DEF Inv, Pointers
  <2> QED
    BY <1>1, <2>2, <2>3, <2>5, QuietInv
<1>3. CASE S # {}
  <2>1. /\ profile' = [profile EXCEPT
             !.current = IF @ \in S THEN NoVersion ELSE @,
             !.enabled = @ /\ profile.current \notin S,
             !.desired = IF @ \in S THEN NoVersion ELSE @]
        /\ version' = WithdrawnSet(S) /\ seen' = Outdated
    BY <1>3 DEF SourceDelete
  <2>2. /\ profile' \in Profile
        /\ profile'.current = (IF profile.current \in S THEN NoVersion ELSE profile.current)
        /\ profile'.desired = (IF profile.desired \in S THEN NoVersion ELSE profile.desired)
        /\ profile'.enabled = (profile.enabled /\ profile.current \notin S)
    BY <2>1 DEF Inv, TypeOK, Profile
  <2>3. \A v \in S : version[v].state # "absent"
    BY VisualAssumption DEF Inv, RowsOK, RowOK
  <2>4. /\ version' \in [Version -> Row]
        /\ \A v \in Version :
             /\ RowOK(version'[v]) /\ Quiet(version[v], version'[v])
             /\ v \notin S => version'[v] = version[v]
             /\ v \in S => /\ version'[v].prepare.state \notin Active
                           /\ version'[v].state = IF version[v].state = "purged"
                                                  THEN "purged" ELSE "purge_pending"
    BY <2>1, <2>3, WithdrawnRows DEF Inv, TypeOK
  <2>5. QuietStep
    BY <2>4 DEF QuietStep
  <2>6. TypeOK'
    <3>1. seen' \in [Tab -> Profile \cup {None}]'
      BY <2>1 DEF Outdated
    <3>2. source' \subseteq Source
      BY <1>1 DEF Inv, TypeOK
    <3> QED
      BY <1>1, <2>2, <2>4, <3>1, <3>2 DEF Inv, TypeOK
  <2>7. Pointers'
    <3>1. ASSUME NEW v \in Version, version'[v].prepare.state \in Active PROVE profile'.desired = v
      BY <2>2, <2>4, <3>1 DEF Inv, Pointers
    <3>2. ASSUME profile'.desired # NoVersion
          PROVE  version'[profile'.desired].state \in {"queued", "preparing", "ready", "failed"}
      <4>1. profile'.desired = profile.desired /\ profile.desired \in Version \ S
        BY <2>2, <3>2 DEF Inv, TypeOK, Profile
      <4> QED
        BY <2>4, <3>2, <4>1 DEF Inv, Pointers
    <3>3. ASSUME NEW v \in Version, version'[v].state = "ready", version'[v].approved
          PROVE  profile'.current = v
      <4>1. v \notin S /\ version'[v] = version[v]
        BY <2>4, <3>3
      <4>2. profile.current = v
        BY <3>3, <4>1 DEF Inv, Pointers
      <4> QED
        BY <2>2, <4>1, <4>2
    <3>4. ASSUME profile'.current # NoVersion PROVE Fit(profile.current)'
      <4>1. profile'.current = profile.current /\ profile.current \in Version \ S
        BY <2>2, <3>4 DEF Inv, TypeOK, Profile
      <4>2. version'[profile.current] = version[profile.current]
        BY <2>4, <4>1
      <4>3. version[profile.current].source # s
        BY <4>1
      <4>4. Fit(profile.current)
        BY <3>4, <4>1 DEF Inv, Pointers
      <4> QED
        BY <1>1, <4>1, <4>2, <4>3, <4>4 DEF Fit, Published
    <3>5. profile'.enabled => profile'.current # NoVersion
      BY <2>2 DEF Inv, Pointers
    <3> QED
      BY <3>1, <3>2, <3>3, <3>4, <3>5 DEF Pointers
  <2> QED
    BY <1>1, <2>5, <2>6, <2>7, QuietInv
<1> QED
  BY <1>2, <1>3

-----------------------------------------------------------------------------
\* The steps of the workers that are quiet.

\* One row takes a quiet step.
LEMMA OneRow ==
  ASSUME Inv, NEW v \in Version, NEW y \in Row, RowOK(y), Quiet(version[v], y),
         version' = [version EXCEPT ![v] = y]
  PROVE  /\ QuietStep /\ version'[v] = y
         /\ \A u \in Version \ {v} : version'[u] = version[u]
<1>1. \A u \in Version : version[u] \in Row /\ RowOK(version[u])
  BY DEF Inv, TypeOK, RowsOK
<1>2. version' \in [Version -> Row] /\ version'[v] = y
      /\ \A u \in Version \ {v} : version'[u] = version[u]
  BY DEF Inv, TypeOK
<1> QED
  BY <1>1, <1>2, QuietSame DEF QuietStep

\* A row that is steady leaves the pointers as they were.
LEMMA OneSteady ==
  ASSUME Inv, TypeOK', QuietStep, profile' = profile, source' = source, NEW v,
         \A u \in Version \ {v} : version'[u] = version[u],
         v \in Version => Steady(version[v], version'[v])
  PROVE  Pointers'
<1>1. RowsOK'
  BY DEF QuietStep, RowsOK
<1>2. \A u \in Version : Steady(version[u], version'[u])
  BY DEF Steady
<1>3. {} \in SUBSET Version /\ TypeOK /\ Pointers
  BY DEF Inv
<1>4. profile.current \notin {} /\ profile.desired \notin {}
  OBVIOUS
<1> QED
  BY <1>1, <1>2, <1>3, <1>4, PointersKept

\* The pointers of rows that nothing touches.
LEMMA SamePointers ==
  ASSUME Inv, UNCHANGED <<profile, version, source>>
  PROVE  Pointers'
BY DEF Inv, Pointers, Fit, Published

\* A worker that lays its job down.
LEMMA LaidDown ==
  ASSUME NEW u \in Worker, work'[u] = Idle
  PROVE  WorkerOK(u)' /\ work'[u].n = 0 /\ work'[u].pc = "idle"
<1>1. /\ work'[u].pc = "idle" /\ work'[u].n = 0
  BY DEF Idle
<1> QED
  BY <1>1 DEF WorkerOK, ShapeOf, Prepares, Erasing

\* What Inv says of a worker that prepares.
LEMMA AtAttempt ==
  ASSUME Inv, NEW w \in Worker, work[w].pc \in Prepares
  PROVE  /\ work[w] \in Work /\ work[w].v \in Version /\ work[w].n \in Attempt
         /\ version[work[w].v] \in Row /\ RowOK(version[work[w].v])
         /\ version[work[w].v].state # "absent"
         /\ AttemptOf(w) /\ ShapeOf(w) /\ work[w].n # 0
<1>1. work[w] \in Work /\ ShapeOf(w)
  BY DEF Inv, TypeOK, Shape
<1>2. work[w].v \in Version /\ work[w].n # 0 /\ version[work[w].v].state # "absent"
  BY <1>1 DEF ShapeOf, Prepares
<1>3. work[w].n \in Attempt
  BY <1>1, <1>2, VisualAssumption DEF Work, Attempt
<1> QED
  BY <1>1, <1>2, <1>3 DEF Inv, TypeOK, RowsOK, Attempts

\* What Inv says of a worker that purges.
LEMMA AtPurge ==
  ASSUME Inv, NEW w \in Worker, work[w].pc \in Erasing \cup {"look", "defer"}
  PROVE  /\ work[w] \in Work /\ work[w].v \in Version /\ work[w].n = 0
         /\ version[work[w].v] \in Row /\ RowOK(version[work[w].v])
         /\ version[work[w].v].state # "absent"
         /\ ShapeOf(w) /\ (work[w].pc \in Erasing => PurgeOf(w))
<1>1. work[w] \in Work /\ ShapeOf(w)
  BY DEF Inv, TypeOK, Shape
<1>2. work[w].v \in Version /\ work[w].n = 0 /\ version[work[w].v].state # "absent"
  BY <1>1 DEF ShapeOf, Prepares, Erasing
<1> QED
  BY <1>1, <1>2 DEF Inv, TypeOK, RowsOK, Purges

\* A worker that goes on with its attempt.
LEMMA GoesOn ==
  ASSUME Inv, TypeOK', QuietStep, NEW w \in Worker, work[w].pc \in Prepares,
         work'[w].v = work[w].v, work'[w].n = work[w].n, work'[w].pc \in Prepares,
         work'[w].pc \in {"put", "flight"} => work'[w].left \subseteq KeysOf(work[w].v, work[w].n),
         work'[w].pc = "flight" => work'[w].at \in KeysOf(work[w].v, work[w].n),
         work'[w].pc = "settle" => version'[work[w].v].bundle[work[w].n].state # "reserved",
         work'[w].pc = "publish" => KeysOf(work[w].v, work[w].n) \subseteq store'
  PROVE  WorkerOK(w)'
<1> DEFINE v == work[w].v
           n == work[w].n
<1>1. /\ v \in Version /\ n \in Attempt /\ n # 0 /\ AttemptOf(w)
      /\ version[v].state # "absent"
  BY AtAttempt
<1>2. Quiet(version[v], version'[v])
  BY <1>1 DEF QuietStep
<1>3. ShapeOf(w)'
  <2>1. version'[v].state # "absent"
    BY <1>1, <1>2 DEF Quiet
  <2>2. work'[w].pc \notin {"idle", "prove", "sweep", "count"}
    BY DEF Prepares
  <2> QED
    BY <1>1, <2>1, <2>2 DEF ShapeOf, KeysOf
<1>4. AttemptOf(w)'
  <2>1. w # None
    BY VisualAssumption
  <2>2. n <= version'[v].prepare.attempts
    BY <1>1, <1>2 DEF AttemptOf, Quiet, Job
  <2>3. version'[v].prepare.holder = w => n = version'[v].prepare.attempts
    BY <1>1, <1>2, <2>1 DEF AttemptOf, Quiet, Job
  <2> QED
    BY <2>2, <2>3 DEF AttemptOf, Job, KeysOf
<1>5. work'[w].pc \notin Erasing
  BY DEF Prepares, Erasing
<1> QED
  BY <1>3, <1>4, <1>5 DEF WorkerOK

\* A worker that goes on with its purge.
LEMMA PurgesOn ==
  ASSUME Inv, TypeOK', QuietStep, NEW w \in Worker,
         work[w].pc \in Erasing \cup {"look", "defer"},
         work'[w].v = work[w].v, work'[w].n = work[w].n,
         work'[w].pc \in Erasing \cup {"defer"},
         ~Remote => work'[w].pc \notin {"prove", "sweep", "count"},
         work'[w].pc \in Erasing => PurgeOf(w)'
  PROVE  WorkerOK(w)' /\ work'[w].n = 0
<1> DEFINE v == work[w].v
<1>1. v \in Version /\ version[v].state # "absent" /\ work[w].n = 0
  BY AtPurge
<1>2. Quiet(version[v], version'[v])
  BY <1>1 DEF QuietStep
<1>3. version'[v].state # "absent"
  BY <1>1, <1>2 DEF Quiet
<1>4. work'[w].pc \notin Prepares /\ work'[w].pc # "idle"
  BY DEF Erasing, Prepares
<1>5. ShapeOf(w)'
  <2>1. work'[w].pc \notin {"put", "flight"}
    BY <1>4 DEF Prepares
  <2> QED
    BY <1>1, <1>3, <1>4, <2>1 DEF ShapeOf
<1> QED
  BY <1>1, <1>5 DEF WorkerOK

\* The rows of a job whose lease is renewed.
LEMMA RenewedRow ==
  ASSUME NEW x \in Row, RowOK(x)
  PROVE  LET y == [x EXCEPT !.prepare = Renewed(@)]
         IN  y \in Row /\ RowOK(y) /\ Quiet(x, y) /\ Steady(x, y)
<1> DEFINE p == Renewed(x.prepare)
           y == [x EXCEPT !.prepare = p]
<1>1. x.prepare \in Prepare
  BY DEF Row
<1>2. Least(LeaseTTL, x.prepare.writer) \in 0..LeaseTTL
  BY <1>1, VisualAssumption DEF Least, Prepare
<1>3. /\ p \in Prepare /\ p.state = x.prepare.state /\ p.attempts = x.prepare.attempts
      /\ p.writer = x.prepare.writer /\ p.holder = x.prepare.holder
  BY <1>1, <1>2 DEF Renewed, Prepare
<1> HIDE DEF p
<1>4. /\ y \in Row /\ RowOK(y) /\ Quiet(x, y) /\ y.state = x.state /\ y.approved = x.approved
      /\ y.prepare = p /\ y.bundle = x.bundle
  BY <1>3, PrepareSet
<1> HIDE DEF y
<1>5. Steady(x, y)
  BY <1>3, <1>4 DEF Steady, Quiet
<1> QED
  BY <1>4, <1>5 DEF y, p

\* The rows of a purge job that stays active.
LEMMA PurgeKeptRow ==
  ASSUME NEW x \in Row, RowOK(x), x.state # "absent", NEW q \in Purge, q.state \in Active
  PROVE  LET y == [x EXCEPT !.purge = q]
         IN  y \in Row /\ RowOK(y) /\ Quiet(x, y) /\ Steady(x, y)
<1> DEFINE y == [x EXCEPT !.purge = q]
<1>1. /\ y \in Row /\ RowOK(y) /\ Quiet(x, y) /\ y.state = x.state /\ y.approved = x.approved
      /\ y.prepare = x.prepare /\ y.bundle = x.bundle
  BY PurgeSet
<1> HIDE DEF y
<1>2. Steady(x, y)
  BY <1>1 DEF Steady, Quiet
<1> QED
  BY <1>1, <1>2 DEF y

\* A heartbeat only renews a lease.
LEMMA HeartbeatStep ==
  ASSUME Inv, NEW w \in Worker, Heartbeat(w)
  PROVE  Inv'
<1> DEFINE v == work[w].v
           x == version[v]
<1>1. UNCHANGED <<profile, source, seen, work, write, absent, store, landed, flight, crashes>>
  BY DEF Heartbeat, ledger, external
<1>2. /\ v \in Version /\ x \in Row /\ RowOK(x) /\ x.state # "absent"
      /\ version \in [Version -> Row]
  BY DEF Inv, TypeOK, RowsOK, Shape, ShapeOf, Heartbeat
<1>3. \E y \in Row : /\ RowOK(y) /\ Quiet(x, y) /\ Steady(x, y)
                     /\ version' = [version EXCEPT ![v] = y]
  <2>1. CASE work[w].n # 0
    <3>1. version' = [version EXCEPT ![v] = [x EXCEPT !.prepare = Renewed(@)]]
      BY <1>2, <2>1 DEF Heartbeat
    <3> QED
      BY <1>2, <3>1, RenewedRow
  <2>2. CASE work[w].n = 0
    <3> DEFINE q == [x.purge EXCEPT !.lease = LeaseTTL]
    <3>1. x.purge \in Purge /\ x.purge.state = "running" /\ LeaseTTL \in 0..LeaseTTL
      BY <1>2, <2>2, VisualAssumption DEF Heartbeat, Leased, Row
    <3>2. q \in Purge /\ q.state \in Active
      BY <3>1 DEF Purge, Active
    <3>3. version' = [version EXCEPT ![v] = [x EXCEPT !.purge = q]]
      BY <1>2, <2>2 DEF Heartbeat
    <3> HIDE DEF q
    <3> QED
      BY <1>2, <3>2, <3>3, PurgeKeptRow
  <2> QED
    BY <2>1, <2>2
<1>4. PICK y \in Row : /\ RowOK(y) /\ Quiet(x, y) /\ Steady(x, y)
                       /\ version' = [version EXCEPT ![v] = y]
  BY <1>3
<1>5. QuietStep /\ version'[v] = y /\ \A u \in Version \ {v} : version'[u] = version[u]
  BY <1>2, <1>4, OneRow
<1>6. TypeOK'
  BY <1>1, <1>5 DEF Inv, TypeOK, QuietStep
<1>7. Pointers'
  BY <1>1, <1>4, <1>5, <1>6, OneSteady
<1> QED
  BY <1>1, <1>5, <1>6, <1>7, QuietInv

\* The worker w that goes to clean its attempt, of rows that nothing touches.
LEMMA FailingStep ==
  ASSUME Inv, NEW w \in Worker, work[w].pc \in Prepares \ {"flight"},
         NEW transient \in BOOLEAN, FailTo(w, transient),
         UNCHANGED <<profile, version, source, seen, ledger, external, crashes>>
  PROVE  Inv'
<1>1. work[w] \in Work /\ work \in [Worker -> Work]
  BY DEF Inv, TypeOK
<1> DEFINE z == [work[w] EXCEPT !.pc = "clean", !.flag = transient]
<1>2. work' = [work EXCEPT ![w] = z]
  BY <1>1 DEF FailTo
<1>3. z \in Work /\ z.pc = "clean" /\ z.v = work[w].v /\ z.n = work[w].n
  BY <1>1 DEF Work
<1> HIDE DEF z
<1>4. work' \in [Worker -> Work] /\ work'[w] = z /\ \A u \in Worker \ {w} : work'[u] = work[u]
  BY <1>1, <1>2, <1>3
<1>5. TypeOK'
  BY <1>4 DEF Inv, TypeOK, ledger, external
<1>6. QuietStep /\ Pointers'
  BY SameRows, SamePointers
<1>7. Moving(w)
  <2>1. "clean" \in Prepares /\ work[w].pc \in Prepares
    BY DEF Prepares
  <2>2. WorkerOK(w)'
    BY <1>3, <1>4, <1>5, <1>6, <2>1, GoesOn
  <2> QED
    BY <1>3, <1>4, <2>2 DEF Moving
<1>8. \A u \in Worker : work'[u] = work[u] \/ Moving(u)
  BY <1>4, <1>7
<1> QED
  BY <1>5, <1>6, <1>8, QuietInv DEF ledger, external

\* A failure leads the worker to its cleanup.
LEMMA FailsStep ==
  ASSUME Inv, NEW w \in Worker, NEW transient \in BOOLEAN, Fails(w, transient)
  PROVE  Inv'
<1>1. work[w].pc \in Prepares \ {"flight"}
  BY DEF Fails, Prepares
<1> QED
  BY <1>1, FailingStep DEF Fails

\* The first fence of an attempt renews its lease.
LEMMA LoadStep ==
  ASSUME Inv, NEW w \in Worker, Load(w)
  PROVE  Inv'
<1> DEFINE v == work[w].v
           x == version[v]
           z == [work[w] EXCEPT !.pc = "render"]
<1>1. UNCHANGED <<profile, source, seen, write, absent, store, landed, flight, crashes>>
  BY DEF Load, ledger, external
<1>2. work[w].pc = "load" /\ work[w].pc \in Prepares
  BY DEF Load, Prepares
<1>3. /\ v \in Version /\ x \in Row /\ RowOK(x) /\ work[w] \in Work
      /\ version \in [Version -> Row] /\ work \in [Worker -> Work]
  BY <1>2, AtAttempt DEF Inv, TypeOK
<1>4. CASE ~Fence(w)
  <2>1. FailTo(w, FALSE) /\ UNCHANGED version
    BY <1>4 DEF Load
  <2> QED
    BY <1>1, <1>2, <2>1, FailingStep DEF ledger, external
<1>5. CASE Fence(w)
  <2> DEFINE y == [x EXCEPT !.prepare = Renewed(@)]
  <2>1. version' = [version EXCEPT ![v] = y] /\ work' = [work EXCEPT ![w] = z]
    BY <1>3, <1>5 DEF Load, At
  <2>2. y \in Row /\ RowOK(y) /\ Quiet(x, y) /\ Steady(x, y)
    BY <1>3, RenewedRow
  <2> HIDE DEF y
  <2>3. QuietStep /\ version'[v] = y /\ \A u \in Version \ {v} : version'[u] = version[u]
    BY <1>3, <2>1, <2>2, OneRow
  <2>4. z \in Work /\ z.pc = "render" /\ z.v = work[w].v /\ z.n = work[w].n
    BY <1>3 DEF Work
  <2> HIDE DEF z
  <2>5. work' \in [Worker -> Work] /\ work'[w] = z /\ \A u \in Worker \ {w} : work'[u] = work[u]
    BY <1>3, <2>1, <2>4
  <2>6. TypeOK'
    BY <1>1, <2>3, <2>5 DEF Inv, TypeOK, QuietStep
  <2>7. Pointers'
    BY <1>1, <2>2, <2>3, <2>6, OneSteady
  <2>8. Moving(w)
    <3>1. "render" \in Prepares
      BY DEF Prepares
    <3>2. WorkerOK(w)'
      BY <1>2, <2>3, <2>4, <2>5, <2>6, <3>1, GoesOn
    <3> QED
      BY <1>2, <2>4, <2>5, <3>2 DEF Moving
  <2>9. \A u \in Worker : work'[u] = work[u] \/ Moving(u)
    BY <2>5, <2>8
  <2> QED
    BY <1>1, <2>3, <2>6, <2>7, <2>9, QuietInv
<1> QED
  BY <1>4, <1>5

\* The worker w moves, and no row does.
LEMMA SoloStep ==
  ASSUME Inv, NEW w \in Worker, NEW z \in Work, work' = [work EXCEPT ![w] = z],
         UNCHANGED <<profile, version, source, seen, landed, crashes>>,
         store' \subseteq store, write' \in [Key -> {"reserved", "dispatching", "confirmed"}],
         absent' \in [Key -> Absence], flight' \in [Key -> 0..PutTTL]
  PROVE  /\ TypeOK' /\ QuietStep /\ Pointers'
         /\ work'[w] = z /\ \A u \in Worker \ {w} : work'[u] = work[u]
<1>1. /\ work' \in [Worker -> Work] /\ work'[w] = z
      /\ \A u \in Worker \ {w} : work'[u] = work[u]
  BY DEF Inv, TypeOK
<1>2. store' \subseteq Key
  BY DEF Inv, TypeOK
<1>3. TypeOK'
  BY <1>1, <1>2 DEF Inv, TypeOK
<1> QED
  BY <1>1, <1>3, SameRows, SamePointers

\* Idle is a state of a worker.
LEMMA IdleWork == Idle \in Work /\ Idle.n = 0 /\ Idle.pc = "idle"
BY VisualAssumption DEF Idle, Work

\* The put has landed, and is recorded whatever became of the lease.
LEMMA PutReturnsStep ==
  ASSUME Inv, NEW w \in Worker, PutReturns(w)
  PROVE  Inv'
<1> DEFINE k == work[w].at
           rest == work[w].left \ {k}
           z == [work[w] EXCEPT !.left = rest, !.at = None,
                                !.pc = IF rest = {} THEN "verify" ELSE "put"]
<1>1. UNCHANGED <<profile, version, source, seen, absent, store, landed, flight, crashes>>
  BY DEF PutReturns, external
<1>2. work[w].pc = "flight" /\ work[w].pc \in Prepares
  BY DEF PutReturns, Prepares
<1>3. work[w] \in Work /\ ShapeOf(w)
  BY <1>2, AtAttempt
<1>4. /\ k \in Key /\ k \in landed
      /\ work[w].left \subseteq KeysOf(work[w].v, work[w].n)
  BY <1>2, <1>3 DEF ShapeOf, KeysOf, PutReturns
<1>5. flight[k] = 0
  BY <1>4 DEF Inv, Keys, KeyOK
<1>6. write' = [write EXCEPT ![k] = "confirmed"] /\ work' = [work EXCEPT ![w] = z]
  BY DEF PutReturns
<1>7. /\ z \in Work /\ z.pc \in {"verify", "put"} /\ z.v = work[w].v /\ z.n = work[w].n
      /\ z.left \subseteq KeysOf(work[w].v, work[w].n)
  BY <1>3, <1>4 DEF Work
<1> HIDE DEF z
<1>8. /\ write' \in [Key -> {"reserved", "dispatching", "confirmed"}]
      /\ \A l \in Key : write'[l] = write[l] \/ (write'[l] = "confirmed" /\ flight[l] = 0)
  BY <1>4, <1>5, <1>6 DEF Inv, TypeOK
<1>9. absent' \in [Key -> Absence] /\ flight' \in [Key -> 0..PutTTL] /\ store' \subseteq store
  BY <1>1 DEF Inv, TypeOK
<1>10. /\ TypeOK' /\ QuietStep /\ Pointers'
       /\ work'[w] = z /\ \A u \in Worker \ {w} : work'[u] = work[u]
  BY <1>1, <1>6, <1>7, <1>8, <1>9, SoloStep
<1>11. Moving(w)
  <2>1. z.pc \in Prepares /\ z.pc # "flight" /\ z.pc # "settle" /\ z.pc # "publish"
    BY <1>7 DEF Prepares
  <2>2. WorkerOK(w)'
    BY <1>2, <1>7, <1>10, <2>1, GoesOn
  <2>3. flight'[k] = 0
    BY <1>1, <1>5
  <2> QED
    BY <1>7, <1>10, <2>2, <2>3 DEF Moving
<1> QED
  BY <1>1, <1>8, <1>9, <1>10, <1>11, QuietInv

\* The put has raised: a local one is over.
LEMMA PutFailsStep ==
  ASSUME Inv, NEW w \in Worker, PutFails(w)
  PROVE  Inv'
<1> DEFINE k == work[w].at
           z == [work[w] EXCEPT !.pc = "clean", !.flag = TRUE, !.left = {}, !.at = None]
<1>1. UNCHANGED <<profile, version, source, seen, write, absent, store, landed, crashes>>
  BY DEF PutFails, ledger
<1>2. work[w].pc = "flight" /\ work[w].pc \in Prepares
  BY DEF PutFails, Prepares
<1>3. work[w] \in Work /\ ShapeOf(w)
  BY <1>2, AtAttempt
<1>4. k \in Key
  BY <1>2, <1>3 DEF ShapeOf, KeysOf
<1>5. /\ flight' = (IF Remote THEN flight ELSE [flight EXCEPT ![k] = 0])
      /\ work' = [work EXCEPT ![w] = z]
  BY DEF PutFails
<1>6. z \in Work /\ z.pc = "clean" /\ z.v = work[w].v /\ z.n = work[w].n
  BY <1>3 DEF Work
<1> HIDE DEF z
<1>7. /\ flight' \in [Key -> 0..PutTTL] /\ \A l \in Key : flight'[l] \in {flight[l], 0}
      /\ ~Remote => flight'[k] = 0
  <2>1. 0 \in 0..PutTTL /\ flight \in [Key -> 0..PutTTL]
    BY VisualAssumption DEF Inv, TypeOK
  <2> QED
    BY <1>4, <1>5, <2>1
<1>8. /\ absent' \in [Key -> Absence] /\ write' \in [Key -> {"reserved", "dispatching", "confirmed"}]
      /\ store' \subseteq store
  BY <1>1 DEF Inv, TypeOK
<1>9. /\ TypeOK' /\ QuietStep /\ Pointers'
      /\ work'[w] = z /\ \A u \in Worker \ {w} : work'[u] = work[u]
  BY <1>1, <1>5, <1>6, <1>7, <1>8, SoloStep
<1>10. Moving(w)
  <2>1. z.pc \in Prepares
    BY <1>6 DEF Prepares
  <2>2. WorkerOK(w)'
    BY <1>2, <1>6, <1>9, <2>1, GoesOn
  <2> QED
    BY <1>6, <1>7, <1>9, <2>2 DEF Moving
<1> QED
  BY <1>1, <1>7, <1>9, <1>10, QuietInv

\* The worker w steps on with its attempt, and nothing else changes.
LEMMA AdvanceStep ==
  ASSUME Inv, NEW w \in Worker, NEW pc, At(w, pc),
         work[w].pc \in Prepares \ {"flight"}, pc \in {"publish", "tidy"},
         pc = "publish" => KeysOf(work[w].v, work[w].n) \subseteq store,
         UNCHANGED <<profile, version, source, seen, ledger, external, crashes>>
  PROVE  Inv'
<1> DEFINE z == [work[w] EXCEPT !.pc = pc]
<1>1. work[w] \in Work
  BY AtAttempt
<1>2. work' = [work EXCEPT ![w] = z]
  BY DEF At
<1>3. z \in Work /\ z.pc = pc /\ z.v = work[w].v /\ z.n = work[w].n
  BY <1>1 DEF Work
<1> HIDE DEF z
<1>4. /\ absent' \in [Key -> Absence] /\ write' \in [Key -> {"reserved", "dispatching", "confirmed"}]
      /\ flight' \in [Key -> 0..PutTTL] /\ store' \subseteq store
  BY DEF Inv, TypeOK, ledger, external
<1>5. /\ TypeOK' /\ QuietStep /\ Pointers'
      /\ work'[w] = z /\ \A u \in Worker \ {w} : work'[u] = work[u]
  BY <1>2, <1>3, <1>4, SoloStep DEF external
<1>6. Moving(w)
  <2>1. z.pc \in Prepares /\ z.pc \notin {"put", "flight", "settle"}
    BY <1>3 DEF Prepares
  <2>2. store' = store
    BY DEF external
  <2>3. WorkerOK(w)'
    BY <1>3, <1>5, <2>1, <2>2, GoesOn
  <2> QED
    BY <1>3, <1>5, <2>3 DEF Moving
<1> QED
  BY <1>4, <1>5, <1>6, QuietInv DEF ledger, external

\* All objects of the attempt were seen in the store.
LEMMA VerifiedStep ==
  ASSUME Inv, NEW w \in Worker, Verified(w)
  PROVE  Inv'
<1>1. work[w].pc \in Prepares \ {"flight"}
  BY DEF Verified, Prepares
<1> QED
  BY <1>1, AdvanceStep DEF Verified

\* A publication that lost its fence publishes nothing.
LEMMA StalePublishStep ==
  ASSUME Inv, NEW w \in Worker, Publish(w), ~MayPublish(w)
  PROVE  Inv'
<1>1. work[w].pc \in Prepares \ {"flight"}
  BY DEF Publish, Prepares
<1>2. At(w, "tidy") /\ UNCHANGED version
  BY DEF Publish
<1> QED
  BY <1>1, <1>2, AdvanceStep DEF Publish

\* The bundle of the attempt is condemned and its purge is armed.
LEMMA CleanupStep ==
  ASSUME Inv, NEW w \in Worker, Cleanup(w)
  PROVE  Inv'
<1> DEFINE v == work[w].v
           n == work[w].n
           x == version[v]
           y == Cleaned(x, n)
           z == IF work[w].pc = "tidy" THEN Idle
                ELSE [Idle EXCEPT !.pc = "settle", !.v = v, !.n = n, !.flag = work[w].flag]
<1>1. UNCHANGED <<profile, source, seen, write, absent, store, landed, flight, crashes>>
  BY DEF Cleanup, ledger, external
<1>2. work[w].pc \in {"clean", "tidy"} /\ work[w].pc \in Prepares
  BY DEF Cleanup, Prepares
<1>3. /\ v \in Version /\ n \in Attempt /\ x \in Row /\ RowOK(x)
      /\ x.state # "absent" /\ work[w] \in Work
      /\ version \in [Version -> Row] /\ work \in [Worker -> Work]
  BY <1>2, AtAttempt DEF Inv, TypeOK
<1>4. version' = [version EXCEPT ![v] = y] /\ work' = [work EXCEPT ![w] = z]
  BY <1>3 DEF Cleanup
<1>5. /\ y \in Row /\ RowOK(y) /\ Quiet(x, y) /\ y.state = x.state /\ y.approved = x.approved
      /\ y.prepare = x.prepare /\ y.bundle[n].state # "reserved"
      /\ \A m \in Attempt : x.bundle[m].state = "available" => y.bundle[m].state = "available"
  BY <1>3, CleanedRow
<1> HIDE DEF y
<1>6. Steady(x, y)
  BY <1>5 DEF Steady, Quiet
<1>7. QuietStep /\ version'[v] = y /\ \A u \in Version \ {v} : version'[u] = version[u]
  BY <1>3, <1>4, <1>5, OneRow
<1>8. /\ z \in Work
      /\ z = Idle \/ (z.pc = "settle" /\ z.v = v /\ z.n = n)
  <2>1. n \in 0..MaxAttempts /\ work[w].flag \in BOOLEAN
    BY <1>3 DEF Work
  <2>2. CASE work[w].pc = "tidy"
    BY <2>2, IdleWork
  <2>3. CASE work[w].pc # "tidy"
    BY <1>3, <2>1, <2>3, IdleWork DEF Work, Idle
  <2> QED
    BY <2>2, <2>3
<1> HIDE DEF z
<1>9. work' \in [Worker -> Work] /\ work'[w] = z /\ \A u \in Worker \ {w} : work'[u] = work[u]
  BY <1>3, <1>4, <1>8
<1>10. TypeOK'
  BY <1>1, <1>7, <1>9 DEF Inv, TypeOK, QuietStep
<1>11. Pointers'
  BY <1>1, <1>6, <1>7, <1>10, OneSteady
<1>12. Moving(w)
  <2>1. CASE z = Idle
    BY <1>2, <1>9, <2>1, LaidDown DEF Moving
  <2>2. CASE z.pc = "settle" /\ z.v = v /\ z.n = n
    <3>1. z.pc \in Prepares /\ z.pc \notin {"put", "flight", "publish"}
      BY <2>2 DEF Prepares
    <3>2. WorkerOK(w)'
      BY <1>2, <1>5, <1>7, <1>9, <1>10, <2>2, <3>1, GoesOn
    <3> QED
      BY <1>2, <1>9, <2>2, <3>2 DEF Moving
  <2> QED
    BY <1>8, <2>1, <2>2
<1> QED
  BY <1>1, <1>7, <1>9, <1>10, <1>11, <1>12, QuietInv

\* The profile after a claim or a settlement has retired the versions of S.
LEMMA RetiredProfile ==
  ASSUME TypeOK, NEW S, NEW versions, Retire(S, versions)
  PROVE  /\ version' = versions
         /\ profile' \in Profile /\ seen' \in [Tab -> Profile \cup {None}]
         /\ profile'.current = profile.current /\ profile'.enabled = profile.enabled
         /\ profile'.desired = (IF profile.desired \in S THEN NoVersion ELSE profile.desired)
BY DEF TypeOK, Retire, Profile, Outdated

\* A worker goes idle, whatever rows have taken a quiet step with it.
LEMMA IdleStep ==
  ASSUME Inv, QuietStep, Pointers', NEW w \in Worker, work' = [work EXCEPT ![w] = Idle],
         work[w].pc # "flight",
         profile' \in Profile, seen' \in [Tab -> Profile \cup {None}],
         UNCHANGED <<source, ledger, external, crashes>>
  PROVE  Inv'
<1>1. work' \in [Worker -> Work] /\ work'[w] = Idle /\ \A u \in Worker \ {w} : work'[u] = work[u]
  BY IdleWork DEF Inv, TypeOK
<1>2. TypeOK'
  BY <1>1 DEF Inv, TypeOK, QuietStep, ledger, external
<1>3. Moving(w)
  BY <1>1, LaidDown DEF Moving
<1> QED
  BY <1>1, <1>2, <1>3, QuietInv DEF ledger, external

\* The attempt that w settles left no bundle reserved.
LEMMA NothingReserved ==
  ASSUME Inv, NEW w \in Worker, work[w].pc = "settle", Job(w).prepare.holder = w
  PROVE  \A m \in Attempt : Job(w).bundle[m].state # "reserved"
<1>1. work[w].pc \in Prepares
  BY DEF Prepares
<1>2. AttemptOf(w) /\ RowOK(Job(w))
  BY <1>1, AtAttempt DEF Job
<1> QED
  BY <1>2 DEF AttemptOf, RowOK, BundleOK

\* The job of a worker that still holds it is settled, another one is left alone.
LEMMA SettleStep ==
  ASSUME Inv, NEW w \in Worker, Settle(w)
  PROVE  Inv'
<1> DEFINE v == work[w].v
           x == version[v]
           mine == x.prepare.holder = w /\ x.prepare.state = "running"
           again == work[w].flag /\ HasAttempt(x.prepare)
<1>1. UNCHANGED <<source, ledger, external, crashes>> /\ work' = [work EXCEPT ![w] = Idle]
  BY DEF Settle
<1>2. work[w].pc = "settle" /\ work[w].pc # "flight" /\ work[w].pc \in Prepares
  BY DEF Settle, Prepares
<1>3. /\ v \in Version /\ x \in Row /\ RowOK(x) /\ x.state # "absent"
      /\ version \in [Version -> Row] /\ TypeOK
  BY <1>2, AtAttempt DEF Inv, TypeOK
<1>4. ASSUME UNCHANGED <<profile, seen>>,
             NEW y \in Row, RowOK(y), Quiet(x, y), Steady(x, y),
             version' = [version EXCEPT ![v] = y]
      PROVE  Inv'
  <2>1. QuietStep /\ version'[v] = y /\ \A u \in Version \ {v} : version'[u] = version[u]
    BY <1>3, <1>4, OneRow
  <2>2. profile' \in Profile /\ seen' \in [Tab -> Profile \cup {None}]
    BY <1>4 DEF Inv, TypeOK
  <2>3. TypeOK'
    BY <1>1, <2>1, <2>2, IdleWork DEF Inv, TypeOK, QuietStep, ledger, external
  <2>4. Pointers'
    BY <1>1, <1>4, <2>1, <2>3, OneSteady
  <2> QED
    BY <1>1, <1>2, <2>1, <2>2, <2>4, IdleStep
<1>5. CASE ~mine /\ UNCHANGED <<profile, version, seen>>
  <2>1. QuietStep /\ Pointers'
    BY <1>1, <1>5, SameRows, SamePointers
  <2>2. profile' \in Profile /\ seen' \in [Tab -> Profile \cup {None}]
    BY <1>5 DEF Inv, TypeOK
  <2> QED
    BY <1>1, <1>2, <2>1, <2>2, IdleStep
<1>6. CASE mine /\ ~Eligible(v) /\ Retire({v}, WithdrawnSet({v}))
  <2>1. /\ version' = WithdrawnSet({v})
        /\ profile' \in Profile /\ seen' \in [Tab -> Profile \cup {None}]
        /\ profile'.current = profile.current /\ profile'.enabled = profile.enabled
        /\ profile'.desired = (IF profile.desired \in {v} THEN NoVersion ELSE profile.desired)
    BY <1>3, <1>6, RetiredProfile
  <2>2. /\ version' \in [Version -> Row]
        /\ \A u \in Version :
             /\ RowOK(version'[u]) /\ Quiet(version[u], version'[u])
             /\ u \notin {v} => version'[u] = version[u]
             /\ u \in {v} => version'[u].state \in {"purge_pending", "purged"}
    <3>1. \A u \in {v} : version[u].state # "absent"
      BY <1>3
    <3>2. {v} \in SUBSET Version /\ RowsOK
      BY <1>3 DEF Inv
    <3> QED
      BY <1>3, <2>1, <3>1, <3>2, WithdrawnRows
  <2>3. QuietStep /\ RowsOK'
    BY <2>2 DEF QuietStep, RowsOK
  <2>4. TypeOK'
    BY <1>1, <2>1, <2>2, IdleWork DEF Inv, TypeOK, ledger, external
  <2>5. Pointers'
    <3>1. profile.current \notin {v}
      <4>1. x.state \in {"queued", "preparing"}
        BY <1>3, <1>6 DEF RowOK, Active
      <4>2. v # NoVersion
        BY <1>3, VisualAssumption DEF Version, NoVersion
      <4> QED
        BY <4>1, <4>2 DEF Inv, Pointers, Fit
    <3>2. \A u \in Version : u \notin {v} => Steady(version[u], version'[u])
      BY <2>2 DEF Steady
    <3>3. {v} \in SUBSET Version /\ TypeOK /\ Pointers
      BY <1>3 DEF Inv
    <3>4. \A u \in {v} : version'[u].state \in {"purge_pending", "purged"}
      BY <1>3, <2>2
    <3> QED
      BY <1>1, <2>1, <2>3, <2>4, <3>1, <3>2, <3>3, <3>4, PointersKept
  <2> QED
    BY <1>1, <1>2, <2>1, <2>3, <2>5, IdleStep
<1>7. CASE mine /\ Eligible(v)
           /\ \/ again /\ version' = [version EXCEPT ![v] = Retried(@)]
              \/ ~again /\ version' = [version EXCEPT ![v] = GivenUp(@)]
           /\ UNCHANGED <<profile, seen>>
  <2>1. x.state \in {"queued", "preparing"} /\ x.prepare.state \in Active
    BY <1>7 DEF Eligible, Active
  <2>2. \A m \in Attempt : x.bundle[m].state # "reserved"
    BY <1>2, <1>7, NothingReserved DEF Job
  <2>3. \E y \in Row : /\ RowOK(y) /\ Quiet(x, y) /\ Steady(x, y)
                       /\ version' = [version EXCEPT ![v] = y]
    <3>1. LET y == Retried(x)
          IN  /\ y \in Row /\ RowOK(y) /\ Quiet(x, y)
              /\ y.state = "queued" /\ y.approved = x.approved
      BY <1>3, <2>1, <2>2, RetriedRow
    <3>2. LET y == GivenUp(x)
          IN  /\ y \in Row /\ RowOK(y) /\ Quiet(x, y)
              /\ y.state = "failed" /\ y.approved = x.approved
      BY <1>3, <2>1, <2>2, GivenUpRow
    <3>3. Retried(x).bundle = x.bundle /\ GivenUp(x).bundle = x.bundle
      BY <1>3 DEF Retried, GivenUp, Row
    <3>4. Steady(x, Retried(x)) /\ Steady(x, GivenUp(x))
      BY <2>1, <3>1, <3>2, <3>3 DEF Steady, Quiet
    <3> QED
      BY <1>3, <1>7, <3>1, <3>2, <3>4
  <2> QED
    BY <1>4, <1>7, <2>3
<1>8. \/ ~mine /\ UNCHANGED <<profile, version, seen>>
      \/ mine /\ ~Eligible(v) /\ Retire({v}, WithdrawnSet({v}))
      \/ /\ mine /\ Eligible(v) /\ again
         /\ version' = [version EXCEPT ![v] = Retried(@)]
         /\ UNCHANGED <<profile, seen>>
      \/ /\ mine /\ Eligible(v) /\ ~again
         /\ version' = [version EXCEPT ![v] = GivenUp(@)]
         /\ UNCHANGED <<profile, seen>>
  BY DEF Settle
<1> QED
  BY <1>5, <1>6, <1>7, <1>8

\* The worker w goes on with its purge and erases at most what it is to erase.
LEMMA PurgeMove ==
  ASSUME Inv, NEW w \in Worker, NEW z \in Work, work' = [work EXCEPT ![w] = z],
         UNCHANGED <<profile, version, source, seen, landed, flight, crashes>>,
         work[w].pc \in Erasing \cup {"look", "defer"}, z.pc \in Erasing \cup {"defer"},
         z.v = work[w].v, z.n = work[w].n,
         ~Remote => z.pc \notin {"prove", "sweep", "count"},
         z.pc \in Erasing => PurgeOf(w)',
         store' \subseteq store,
         \A k \in store : k \notin store' => work[w].pc \in Erasing /\ IsTarget(w, k),
         write' \in [Key -> {"reserved", "dispatching", "confirmed"}],
         \A k \in Key : write'[k] = write[k] \/ (write'[k] = "confirmed" /\ flight[k] = 0),
         absent' \in [Key -> Absence]
  PROVE  Inv'
<1>1. flight' \in [Key -> 0..PutTTL]
  BY DEF Inv, TypeOK
<1>2. /\ TypeOK' /\ QuietStep /\ Pointers'
      /\ work'[w] = z /\ \A u \in Worker \ {w} : work'[u] = work[u]
  BY <1>1, SoloStep
<1>3. WorkerOK(w)' /\ work'[w].n = 0
  BY <1>2, PurgesOn
<1>4. Moving(w)
  <2>1. work[w].pc # "flight"
    BY DEF Erasing
  <2> QED
    BY <1>3, <2>1 DEF Moving
<1>5. \A k \in store : k \notin store' => BundleOf(k).state \in {"purge_pending", "purged"}
  <2> SUFFICES ASSUME NEW k \in store, k \notin store'
               PROVE  BundleOf(k).state \in {"purge_pending", "purged"}
    OBVIOUS
  <2>1. PurgeOf(w) /\ IsTarget(w, k)
    BY AtPurge
  <2> QED
    BY <2>1 DEF PurgeOf, IsTarget, BundleOf, Job
<1>6. \A k \in Key : flight'[k] \in {flight[k], 0}
  OBVIOUS
<1>7. \A u \in Worker : work'[u] = work[u] \/ Moving(u)
  BY <1>2, <1>4
<1> QED
  BY <1>2, <1>5, <1>6, <1>7, QuietInv

\* What w has made sure of, when it goes on with the same targets.
LEMMA PurgeKept ==
  ASSUME Inv, NEW w \in Worker, work[w].pc \in Erasing,
         version' = version, flight' = flight,
         work'[w].v = work[w].v, work'[w].targets = work[w].targets,
         \A k \in work'[w].left : k \in Key /\ IsTarget(w, k),
         work'[w].pc \in {"sweep", "count"} =>
           work'[w].at \in Key /\ IsTarget(w, work'[w].at) /\ flight[work'[w].at] = 0,
         work'[w].pc # "erase" /\ work'[w].flag =>
           \A k \in Key : IsTarget(w, k) /\ k \notin work'[w].left => flight[k] = 0,
         work'[w].pc = "erase" =>
           \A k \in Key : IsTarget(w, k) =>
             flight[k] = 0 /\ (k \notin work'[w].left => k \notin store')
  PROVE  PurgeOf(w)'
<1>1. PurgeOf(w)
  BY AtPurge
<1>2. \A k : IsTarget(w, k)' <=> IsTarget(w, k)
  BY DEF IsTarget
<1> QED
  BY <1>1, <1>2 DEF PurgeOf, Job

\* The keys of the targets of w.
LEMMA TargetKeys ==
  ASSUME NEW v, NEW targets \in SUBSET Attempt
  PROVE  LET keys == UNION {KeysOf(v, n) : n \in targets}
         IN  /\ keys \subseteq Key
             /\ \A k \in Key : k \in keys <=> k[1] = v /\ k[2] \in targets
BY DEF KeysOf

\* A purge takes its targets once no writer is left.
LEMMA LookStep ==
  ASSUME Inv, NEW w \in Worker, Look(w)
  PROVE  Inv'
<1> DEFINE v == work[w].v
           x == version[v]
           keys == UNION {KeysOf(v, n) : n \in Targets(x)}
           z == [work[w] EXCEPT !.pc = IF Remote THEN "prove" ELSE "erase",
                                !.targets = Targets(x), !.left = keys, !.flag = TRUE]
           d == [work[w] EXCEPT !.pc = "defer"]
<1>1. UNCHANGED <<profile, version, source, seen, write, absent, store, landed, flight, crashes>>
  BY DEF Look, ledger, external
<1>2. work[w].pc = "look"
  BY DEF Look
<1>3. /\ work[w] \in Work /\ v \in Version /\ work[w].n = 0
      /\ x \in Row /\ RowOK(x) /\ work \in [Worker -> Work]
  BY <1>2, AtPurge DEF Inv, TypeOK
<1>4. /\ write' \in [Key -> {"reserved", "dispatching", "confirmed"}]
      /\ absent' \in [Key -> Absence]
      /\ profile' \in Profile /\ seen' \in [Tab -> Profile \cup {None}]
  BY <1>1 DEF Inv, TypeOK
<1>5. CASE ~PurgeLeased(w)
  <2>1. work' = [work EXCEPT ![w] = Idle]
    BY <1>5 DEF Look
  <2>2. QuietStep /\ Pointers'
    BY <1>1, SameRows, SamePointers
  <2> QED
    BY <1>1, <1>2, <1>4, <2>1, <2>2, IdleStep DEF ledger, external
<1>6. CASE PurgeLeased(w) /\ Waiting(x)
  <2>1. work' = [work EXCEPT ![w] = d]
    BY <1>6 DEF Look, At, Job
  <2>2. d \in Work /\ d.pc = "defer" /\ d.v = work[w].v /\ d.n = work[w].n
    BY <1>3 DEF Work
  <2>3. d.pc \notin Erasing
    BY <2>2 DEF Erasing
  <2> HIDE DEF d
  <2> QED
    BY <1>1, <1>2, <1>4, <2>1, <2>2, <2>3, PurgeMove
<1>7. CASE PurgeLeased(w) /\ ~Waiting(x)
  <2>1. work' = [work EXCEPT ![w] = z]
    BY <1>7 DEF Look, Job
  <2>2. Targets(x) \in SUBSET Attempt
    BY DEF Targets
  <2>3. keys \subseteq Key /\ \A k \in Key : k \in keys <=> k[1] = v /\ k[2] \in Targets(x)
    BY <2>2, TargetKeys
  <2> HIDE DEF keys
  <2>4. /\ z \in Work /\ z.pc = (IF Remote THEN "prove" ELSE "erase") /\ z.v = v
        /\ z.n = work[w].n /\ z.targets = Targets(x) /\ z.left = keys
    BY <1>3, <2>2, <2>3 DEF Work
  <2> HIDE DEF z
  <2>5. work'[w] = z
    BY <1>3, <2>1
  <2>6. \A n \in Targets(x) :
          x.bundle[n].state \in {"purge_pending", "purged"} /\ x.bundle[n].writer = 0
    <3> SUFFICES ASSUME NEW n \in Targets(x)
                 PROVE  x.bundle[n].state \in {"purge_pending", "purged"} /\ x.bundle[n].writer = 0
      OBVIOUS
    <3>1. n \in Attempt /\ BundleOK(x, n)
      BY <1>3, <2>2 DEF RowOK
    <3>2. x.bundle[n].writer \in Nat
      BY <1>3, <3>1, VisualAssumption DEF Row, Bundle
    <3>3. x.bundle[n].writer = 0
      BY <1>7, <3>2 DEF Waiting
    <3> QED
      BY <3>1, <3>3 DEF Targets, BundleOK
  <2>7. \A k \in Key : IsTarget(w, k)' <=> k \in keys
    BY <2>3, <2>4, <2>5 DEF IsTarget
  <2>8. ~Remote => \A k \in keys : flight[k] = 0
    <3> SUFFICES ASSUME ~Remote, NEW k \in keys, flight[k] # 0 PROVE FALSE
      OBVIOUS
    <3>1. k \in Key /\ k[1] = v /\ k[2] \in Targets(x)
      BY <2>3
    <3>2. flight[k] \in Nat /\ flight[k] > 0
      BY <3>1, VisualAssumption DEF Inv, TypeOK
    <3>3. flight[k] < BundleOf(k).writer
      BY <3>1, <3>2 DEF Inv, LocalPuts, PutOf
    <3> QED
      BY <2>6, <3>1, <3>2, <3>3 DEF BundleOf
  <2>9. PurgeOf(w)'
    <3>1. \A n \in work'[w].targets :
            version'[work'[w].v].bundle[n].state \in {"purge_pending", "purged"}
            /\ version'[work'[w].v].bundle[n].writer = 0
      BY <1>1, <2>4, <2>5, <2>6
    <3>2. \A k \in work'[w].left : IsTarget(w, k)'
      BY <2>3, <2>4, <2>5, <2>7
    <3>3. \A k \in Key : IsTarget(w, k)' => k \in work'[w].left
      BY <2>4, <2>5, <2>7
    <3>4. ~Remote => \A k \in Key : IsTarget(w, k)' => flight'[k] = 0
      BY <1>1, <2>7, <2>8
    <3>5. work'[w].pc = (IF Remote THEN "prove" ELSE "erase")
      BY <2>4, <2>5
    <3> QED
      BY <3>1, <3>2, <3>3, <3>4, <3>5 DEF PurgeOf, Job
  <2>10. z.pc \in Erasing
    BY <2>4 DEF Erasing
  <2>11. ~Remote => z.pc \notin {"prove", "sweep", "count"}
    BY <2>4
  <2> QED
    BY <1>1, <1>2, <1>4, <2>1, <2>4, <2>9, <2>10, <2>11, PurgeMove
<1> QED
  BY <1>5, <1>6, <1>7

\* The worker w gives its purge up for now.
LEMMA GivesUp ==
  ASSUME Inv, NEW w \in Worker, NEW z \in Work, work' = [work EXCEPT ![w] = z],
         work[w].pc \in Erasing, z.pc = "defer", z.v = work[w].v, z.n = work[w].n,
         UNCHANGED <<profile, version, source, seen, ledger, external, crashes>>
  PROVE  Inv'
<1>1. /\ write' \in [Key -> {"reserved", "dispatching", "confirmed"}]
      /\ absent' \in [Key -> Absence]
  BY DEF Inv, TypeOK, ledger
<1>2. UNCHANGED <<write, absent, store, landed, flight>>
  BY DEF ledger, external
<1>3. z.pc \notin Erasing
  BY DEF Erasing
<1> QED
  BY <1>1, <1>2, <1>3, PurgeMove

\* A put of the target is proved complete, or the purge will be deferred.
LEMMA ProveStep ==
  ASSUME Inv, NEW w \in Worker, NEW k \in Key, Prove(w, k)
  PROVE  Inv'
<1>1. UNCHANGED <<profile, version, source, seen, absent, store, landed, flight, crashes>>
  BY DEF Prove, external
<1>2. work[w].pc = "prove" /\ work[w].pc \in Erasing /\ k \in work[w].left
  BY DEF Prove, Erasing
<1>3. work[w] \in Work /\ PurgeOf(w) /\ work \in [Worker -> Work] /\ Remote
  BY <1>2, AtPurge DEF Inv, TypeOK, ShapeOf
<1>4. IsTarget(w, k) /\ absent' \in [Key -> Absence]
  BY <1>1, <1>2, <1>3 DEF PurgeOf, Inv, TypeOK
<1>5. CASE At(w, "defer") /\ UNCHANGED write
  <2> DEFINE z == [work[w] EXCEPT !.pc = "defer"]
  <2>1. work' = [work EXCEPT ![w] = z]
    BY <1>5 DEF At
  <2>2. z \in Work /\ z.pc = "defer" /\ z.v = work[w].v /\ z.n = work[w].n
    BY <1>3 DEF Work
  <2> HIDE DEF z
  <2> QED
    BY <1>1, <1>2, <1>5, <2>1, <2>2, GivesUp DEF ledger, external
<1>6. CASE work' = [work EXCEPT ![w].left = @ \ {k}, ![w].flag = FALSE] /\ UNCHANGED write
  <2> DEFINE z == [work[w] EXCEPT !.left = @ \ {k}, !.flag = FALSE]
  <2>1. work' = [work EXCEPT ![w] = z]
    BY <1>3, <1>6
  <2>2. /\ z \in Work /\ z.pc = "prove" /\ z.v = work[w].v /\ z.n = work[w].n
        /\ z.targets = work[w].targets /\ ~z.flag /\ z.left = work[w].left \ {k}
    BY <1>2, <1>3 DEF Work
  <2> HIDE DEF z
  <2>3. work'[w] = z
    BY <1>3, <2>1
  <2>4. \A l \in z.left : l \in Key /\ IsTarget(w, l)
    BY <1>3, <2>2 DEF PurgeOf, Work
  <2>5. PurgeOf(w)'
    BY <1>1, <1>2, <2>2, <2>3, <2>4, PurgeKept
  <2>6. write' \in [Key -> {"reserved", "dispatching", "confirmed"}]
    BY <1>6 DEF Inv, TypeOK
  <2>7. z.pc \in Erasing
    BY <2>2 DEF Erasing
  <2> QED
    BY <1>1, <1>2, <1>3, <1>4, <1>6, <2>1, <2>2, <2>5, <2>6, <2>7, PurgeMove
<1>7. CASE /\ ~Unproven(k)
           /\ write' = [write EXCEPT ![k] = IF @ = "dispatching" THEN "confirmed" ELSE @]
           /\ work' = [work EXCEPT ![w].pc = "sweep", ![w].at = k]
  <2> DEFINE z == [work[w] EXCEPT !.pc = "sweep", !.at = k]
  <2>1. work' = [work EXCEPT ![w] = z]
    BY <1>3, <1>7
  <2>2. /\ z \in Work /\ z.pc = "sweep" /\ z.v = work[w].v /\ z.n = work[w].n
        /\ z.targets = work[w].targets /\ z.flag = work[w].flag /\ z.left = work[w].left
        /\ z.at = k
    BY <1>2, <1>3 DEF Work
  <2> HIDE DEF z
  <2>3. work'[w] = z
    BY <1>3, <2>1
  <2>4. flight[k] = 0
    <3>1. flight[k] \in Nat /\ KeyOK(k)
      BY VisualAssumption DEF Inv, TypeOK, Keys
    <3> QED
      BY <1>7, <3>1 DEF Unproven, KeyOK
  <2>5. \A l \in z.left : l \in Key /\ IsTarget(w, l)
    BY <1>3, <2>2 DEF PurgeOf, Work
  <2>6. z.flag => \A l \in Key : IsTarget(w, l) /\ l \notin z.left => flight[l] = 0
    BY <1>2, <1>3, <2>2 DEF PurgeOf
  <2>7. PurgeOf(w)'
    BY <1>1, <1>2, <1>4, <2>2, <2>3, <2>4, <2>5, <2>6, PurgeKept
  <2>8. /\ write' \in [Key -> {"reserved", "dispatching", "confirmed"}]
        /\ \A l \in Key : write'[l] = write[l] \/ (write'[l] = "confirmed" /\ flight[l] = 0)
    BY <1>7, <2>4 DEF Inv, TypeOK
  <2>9. z.pc \in Erasing
    BY <2>2 DEF Erasing
  <2> QED
    BY <1>1, <1>2, <1>3, <1>4, <2>1, <2>2, <2>7, <2>8, <2>9, PurgeMove
<1> QED
  BY <1>5, <1>6, <1>7 DEF Prove

\* The remote object is erased with its versions.
LEMMA SweepRemoteStep ==
  ASSUME Inv, NEW w \in Worker, SweepRemote(w)
  PROVE  Inv'
<1> DEFINE z == [work[w] EXCEPT !.pc = "count"]
<1>1. /\ UNCHANGED <<profile, version, source, seen, write, absent, landed, flight, crashes>>
      /\ store' = store \ {work[w].at} /\ work' = [work EXCEPT ![w] = z]
  BY DEF SweepRemote, ledger, At
<1>2. work[w].pc = "sweep" /\ work[w].pc \in Erasing
  BY DEF SweepRemote, Erasing
<1>3. work[w] \in Work /\ PurgeOf(w) /\ work \in [Worker -> Work] /\ Remote
  BY <1>2, AtPurge DEF Inv, TypeOK, ShapeOf
<1>4. /\ z \in Work /\ z.pc = "count" /\ z.v = work[w].v /\ z.n = work[w].n /\ z.at = work[w].at
      /\ z.targets = work[w].targets /\ z.flag = work[w].flag /\ z.left = work[w].left
  BY <1>3 DEF Work
<1> HIDE DEF z
<1>5. work'[w] = z
  BY <1>1, <1>3
<1>6. IsTarget(w, work[w].at) /\ work[w].at \in Key /\ flight[work[w].at] = 0
  BY <1>2, <1>3 DEF PurgeOf
<1>7. \A l \in z.left : l \in Key /\ IsTarget(w, l)
  BY <1>3, <1>4 DEF PurgeOf, Work
<1>8. z.flag => \A l \in Key : IsTarget(w, l) /\ l \notin z.left => flight[l] = 0
  BY <1>2, <1>3, <1>4 DEF PurgeOf
<1>9. PurgeOf(w)'
  BY <1>1, <1>2, <1>4, <1>5, <1>6, <1>7, <1>8, PurgeKept
<1>10. /\ write' \in [Key -> {"reserved", "dispatching", "confirmed"}]
       /\ absent' \in [Key -> Absence]
  BY <1>1 DEF Inv, TypeOK
<1>11. z.pc \in Erasing /\ store' \subseteq store /\ \A l \in store : l \notin store' => IsTarget(w, l)
  BY <1>1, <1>4, <1>6 DEF Erasing
<1> QED
  BY <1>1, <1>2, <1>3, <1>4, <1>9, <1>10, <1>11, PurgeMove

\* One more absence is on record.
LEMMA CountStep ==
  ASSUME Inv, NEW w \in Worker, Count(w)
  PROVE  Inv'
<1> DEFINE k == work[w].at
           now == [checks |-> Least(2, absent[k].checks + 1), rest |-> absent[k].rest]
<1>1. UNCHANGED <<profile, version, source, seen, write, store, landed, flight, crashes>>
  BY DEF Count, external
<1>2. work[w].pc = "count" /\ work[w].pc \in Erasing
  BY DEF Count, Erasing
<1>3. work[w] \in Work /\ PurgeOf(w) /\ work \in [Worker -> Work] /\ Remote
  BY <1>2, AtPurge DEF Inv, TypeOK, ShapeOf
<1>4. IsTarget(w, k) /\ k \in Key /\ flight[k] = 0
  BY <1>2, <1>3 DEF PurgeOf
<1>5. CASE ~PurgeLeased(w)
  <2> DEFINE z == [work[w] EXCEPT !.pc = "defer", !.at = None]
  <2>1. work' = [work EXCEPT ![w] = z] /\ UNCHANGED absent
    BY <1>3, <1>5 DEF Count
  <2>2. z \in Work /\ z.pc = "defer" /\ z.v = work[w].v /\ z.n = work[w].n
    BY <1>3 DEF Work
  <2> HIDE DEF z
  <2> QED
    BY <1>1, <1>2, <2>1, <2>2, GivesUp DEF ledger, external
<1>6. CASE PurgeLeased(w)
  <2> DEFINE f == work[w].flag /\ now.checks = 2 /\ now.rest = 0
             z == [work[w] EXCEPT !.pc = "prove", !.at = None, !.left = @ \ {k}, !.flag = f]
  <2>1. work' = [work EXCEPT ![w] = z] /\ absent' = [absent EXCEPT ![k] = now]
    BY <1>3, <1>6 DEF Count
  <2>2. absent' \in [Key -> Absence]
    <3>1. absent \in [Key -> Absence] /\ absent[k] \in Absence
      BY <1>4 DEF Inv, TypeOK
    <3>2. Least(2, absent[k].checks + 1) \in 0..2
      BY <3>1 DEF Absence, Least
    <3>3. now \in Absence
      BY <3>1, <3>2 DEF Absence
    <3> HIDE DEF now
    <3> QED
      BY <2>1, <3>1, <3>3
  <2>3. f \in BOOLEAN /\ (f => work[w].flag)
    BY <1>3 DEF Work
  <2> HIDE DEF f, now
  <2>4. /\ z \in Work /\ z.pc = "prove" /\ z.v = work[w].v /\ z.n = work[w].n
        /\ z.targets = work[w].targets /\ z.flag = f /\ z.left = work[w].left \ {k}
    BY <1>3, <2>3 DEF Work
  <2> HIDE DEF z
  <2>5. work'[w] = z
    BY <1>3, <2>1
  <2>6. \A l \in z.left : l \in Key /\ IsTarget(w, l)
    BY <1>3, <2>4 DEF PurgeOf, Work
  <2>7. z.flag => \A l \in Key : IsTarget(w, l) /\ l \notin z.left => flight[l] = 0
    BY <1>2, <1>3, <1>4, <2>3, <2>4 DEF PurgeOf
  <2>8. PurgeOf(w)'
    BY <1>1, <1>2, <2>4, <2>5, <2>6, <2>7, PurgeKept
  <2>9. write' \in [Key -> {"reserved", "dispatching", "confirmed"}] /\ z.pc \in Erasing
    BY <1>1, <2>4 DEF Inv, TypeOK, Erasing
  <2> QED
    BY <1>1, <1>2, <1>3, <2>1, <2>2, <2>4, <2>8, <2>9, PurgeMove
<1> QED
  BY <1>5, <1>6

\* The erasure begins only if every target was proved.
LEMMA ProvedStep ==
  ASSUME Inv, NEW w \in Worker, Proved(w)
  PROVE  Inv'
<1> DEFINE v == work[w].v
           keys == UNION {KeysOf(v, n) : n \in work[w].targets}
           z == [work[w] EXCEPT !.pc = IF work[w].flag THEN "erase" ELSE "defer", !.left = keys]
<1>1. UNCHANGED <<profile, version, source, seen, write, absent, store, landed, flight, crashes>>
  BY DEF Proved, ledger, external
<1>2. work[w].pc = "prove" /\ work[w].pc \in Erasing /\ work[w].left = {}
  BY DEF Proved, Erasing
<1>3. work[w] \in Work /\ PurgeOf(w) /\ work \in [Worker -> Work]
  BY <1>2, AtPurge DEF Inv, TypeOK
<1>4. work' = [work EXCEPT ![w] = z]
  BY <1>3 DEF Proved
<1>5. keys \subseteq Key /\ \A k \in Key : k \in keys <=> k[1] = v /\ k[2] \in work[w].targets
  <2>1. work[w].targets \in SUBSET Attempt
    BY <1>3 DEF Work
  <2> QED
    BY <2>1, TargetKeys
<1> HIDE DEF keys
<1>6. /\ z \in Work /\ z.pc = (IF work[w].flag THEN "erase" ELSE "defer") /\ z.v = work[w].v
      /\ z.n = work[w].n /\ z.targets = work[w].targets /\ z.left = keys
  BY <1>3, <1>5 DEF Work
<1> HIDE DEF z
<1>7. work'[w] = z
  BY <1>3, <1>4
<1>8. CASE ~work[w].flag
  BY <1>1, <1>2, <1>4, <1>6, <1>8, GivesUp DEF ledger, external
<1>9. CASE work[w].flag
  <2>1. z.pc = "erase" /\ z.pc \in Erasing
    BY <1>6, <1>9 DEF Erasing
  <2>2. \A k \in keys : k \in Key /\ IsTarget(w, k)
    BY <1>5 DEF IsTarget
  <2>3. \A k \in Key : IsTarget(w, k) => k \in keys /\ flight[k] = 0
    BY <1>2, <1>3, <1>5, <1>9 DEF PurgeOf, IsTarget
  <2>4. PurgeOf(w)'
    BY <1>1, <1>2, <1>6, <1>7, <2>1, <2>2, <2>3, PurgeKept
  <2>5. /\ write' \in [Key -> {"reserved", "dispatching", "confirmed"}]
        /\ absent' \in [Key -> Absence]
    BY <1>1 DEF Inv, TypeOK
  <2> QED
    BY <1>1, <1>2, <1>4, <1>6, <2>1, <2>4, <2>5, PurgeMove
<1> QED
  BY <1>8, <1>9

\* One key of the targets is erased.
LEMMA EraseStep ==
  ASSUME Inv, NEW w \in Worker, NEW k \in Key, Erase(w, k)
  PROVE  Inv'
<1> DEFINE z == [work[w] EXCEPT !.left = @ \ {k}]
<1>1. /\ UNCHANGED <<profile, version, source, seen, write, absent, landed, flight, crashes>>
      /\ store' = store \ {k}
  BY DEF Erase, ledger
<1>2. work[w].pc = "erase" /\ work[w].pc \in Erasing /\ k \in work[w].left
  BY DEF Erase, Erasing
<1>3. work[w] \in Work /\ PurgeOf(w) /\ work \in [Worker -> Work]
  BY <1>2, AtPurge DEF Inv, TypeOK
<1>4. work' = [work EXCEPT ![w] = z]
  BY <1>3 DEF Erase
<1>5. /\ z \in Work /\ z.pc = "erase" /\ z.v = work[w].v /\ z.n = work[w].n
      /\ z.targets = work[w].targets /\ z.left = work[w].left \ {k}
  BY <1>2, <1>3 DEF Work
<1> HIDE DEF z
<1>6. work'[w] = z /\ IsTarget(w, k)
  BY <1>2, <1>3, <1>4 DEF PurgeOf
<1>7. \A l \in z.left : l \in Key /\ IsTarget(w, l)
  BY <1>3, <1>5 DEF PurgeOf, Work
<1>8. \A l \in Key : IsTarget(w, l) => flight[l] = 0 /\ (l \notin z.left => l \notin store')
  BY <1>1, <1>2, <1>3, <1>5 DEF PurgeOf
<1>9. PurgeOf(w)'
  BY <1>1, <1>2, <1>5, <1>6, <1>7, <1>8, PurgeKept
<1>10. /\ write' \in [Key -> {"reserved", "dispatching", "confirmed"}]
       /\ absent' \in [Key -> Absence]
  BY <1>1 DEF Inv, TypeOK
<1>11. z.pc \in Erasing /\ store' \subseteq store /\ \A l \in store : l \notin store' => IsTarget(w, l)
  BY <1>1, <1>5, <1>6 DEF Erasing
<1>12. ~Remote => z.pc \notin {"prove", "sweep", "count"}
  BY <1>5
<1> QED
  BY <1>1, <1>2, <1>4, <1>5, <1>9, <1>10, <1>11, <1>12, PurgeMove

\* The store refuses an erasure.
LEMMA EraseFailsStep ==
  ASSUME Inv, NEW w \in Worker, EraseFails(w)
  PROVE  Inv'
<1> DEFINE z == [work[w] EXCEPT !.pc = "defer", !.at = None]
<1>1. work[w].pc \in Erasing
  BY DEF EraseFails, Erasing
<1>2. work[w] \in Work /\ work \in [Worker -> Work]
  BY <1>1, AtPurge DEF Inv, TypeOK
<1>3. work' = [work EXCEPT ![w] = z]
  BY <1>2 DEF EraseFails
<1>4. z \in Work /\ z.pc = "defer" /\ z.v = work[w].v /\ z.n = work[w].n
  BY <1>2 DEF Work
<1> HIDE DEF z
<1> QED
  BY <1>1, <1>3, <1>4, GivesUp DEF EraseFails

\* A purge is put off, if it still holds its lease.
LEMMA DeferStep ==
  ASSUME Inv, NEW w \in Worker, Defer(w)
  PROVE  Inv'
<1> DEFINE v == work[w].v
           x == version[v]
<1>1. UNCHANGED <<profile, source, seen, ledger, external, crashes>> /\ work' = [work EXCEPT ![w] = Idle]
  BY DEF Defer
<1>2. work[w].pc = "defer" /\ work[w].pc # "flight"
  BY DEF Defer
<1>3. /\ v \in Version /\ x \in Row /\ RowOK(x) /\ x.state # "absent"
      /\ version \in [Version -> Row]
  BY <1>2, AtPurge DEF Inv, TypeOK
<1>4. profile' \in Profile /\ seen' \in [Tab -> Profile \cup {None}]
  BY <1>1 DEF Inv, TypeOK
<1>5. CASE UNCHANGED version
  <2>1. QuietStep /\ Pointers'
    BY <1>1, <1>5, SameRows, SamePointers
  <2> QED
    BY <1>1, <1>2, <1>4, <2>1, IdleStep
<1>6. CASE PurgeLeased(w)
  <2> DEFINE q == Deferred(x.purge)
             y == [x EXCEPT !.purge = q]
  <2>1. version' = [version EXCEPT ![v] = y]
    BY <1>3, <1>6 DEF Defer
  <2>2. q \in Purge /\ q.state \in Active
    <3>1. RetryTTL \in 0..(RetryTTL + TransitionTTL) /\ 0 \in 0..LeaseTTL
      BY VisualAssumption
    <3> QED
      BY <3>1 DEF Deferred, Purge, Active
  <2> HIDE DEF q
  <2>3. y \in Row /\ RowOK(y) /\ Quiet(x, y) /\ Steady(x, y)
    BY <1>3, <2>2, PurgeKeptRow
  <2> HIDE DEF y
  <2>4. QuietStep /\ version'[v] = y /\ \A u \in Version \ {v} : version'[u] = version[u]
    BY <1>3, <2>1, <2>3, OneRow
  <2>5. TypeOK'
    BY <1>1, <2>4, IdleWork DEF Inv, TypeOK, QuietStep, ledger, external
  <2>6. Pointers'
    BY <1>1, <2>3, <2>4, <2>5, OneSteady
  <2> QED
    BY <1>1, <1>2, <1>4, <2>4, <2>6, IdleStep
<1> QED
  BY <1>5, <1>6 DEF Defer

\* A purge that has lost its lease commits nothing.
LEMMA LateCommitStep ==
  ASSUME Inv, NEW w \in Worker, Commit(w), ~PurgeLeased(w)
  PROVE  Inv'
<1>1. UNCHANGED <<profile, version, source, seen, ledger, external, crashes>>
  BY DEF Commit
<1>2. work[w].pc # "flight" /\ work' = [work EXCEPT ![w] = Idle]
  BY DEF Commit
<1>3. QuietStep /\ Pointers'
  BY <1>1, SameRows, SamePointers
<1>4. profile' \in Profile /\ seen' \in [Tab -> Profile \cup {None}]
  BY <1>1 DEF Inv, TypeOK
<1> QED
  BY <1>1, <1>2, <1>3, <1>4, IdleStep

\* A crash: the worker forgets, the rows and the store do not.
LEMMA CrashStep ==
  ASSUME Inv, NEW w \in Worker, Crash(w)
  PROVE  Inv'
<1>1. /\ UNCHANGED <<profile, version, source, seen, write, absent, store, landed>>
      /\ work' = [work EXCEPT ![w] = Idle]
      /\ flight' = (IF Remote \/ work[w].at = None THEN flight
                    ELSE [flight EXCEPT ![work[w].at] = 0])
  BY DEF Crash, ledger
<1>2. crashes' \in 0..MaxCrash
  BY VisualAssumption DEF Crash, Inv, TypeOK
<1>3. flight' \in [Key -> 0..PutTTL] /\ \A k \in Key : flight'[k] \in {flight[k], 0}
  <2>1. 0 \in 0..PutTTL /\ flight \in [Key -> 0..PutTTL]
    BY VisualAssumption DEF Inv, TypeOK
  <2>2. work[w].at \in Key \cup {None}
    BY DEF Inv, TypeOK, Work
  <2> QED
    BY <1>1, <2>1, <2>2
<1>4. /\ work' \in [Worker -> Work] /\ work'[w] = Idle
      /\ \A u \in Worker \ {w} : work'[u] = work[u]
  BY <1>1, IdleWork DEF Inv, TypeOK
<1>5. TypeOK'
  BY <1>1, <1>2, <1>3, <1>4 DEF Inv, TypeOK
<1>6. QuietStep /\ Pointers'
  BY <1>1, SameRows, SamePointers
<1>7. Moving(w)
  <2>1. ASSUME work[w].pc = "flight", ~Remote PROVE flight'[work[w].at] = 0
    <3>1. work[w].at \in Key
      BY <2>1 DEF Inv, Shape, ShapeOf, KeysOf
    <3>2. work[w].at # None
      BY <3>1, VisualAssumption
    <3>3. flight \in [Key -> 0..PutTTL]
      BY DEF Inv, TypeOK
    <3> QED
      BY <1>1, <2>1, <3>1, <3>2, <3>3
  <2> QED
    BY <1>4, <2>1, LaidDown DEF Moving
<1>8. \A u \in Worker : work'[u] = work[u] \/ Moving(u)
  BY <1>4, <1>7
<1> QED
  BY <1>1, <1>3, <1>5, <1>6, <1>8, QuietInv

-----------------------------------------------------------------------------
\* The claims.

\* The rows once the overdue versions are retired.
LEMMA SweptRows ==
  ASSUME Inv
  PROVE  /\ Overdue \in SUBSET Version /\ profile.current \notin Overdue
         /\ Swept \in [Version -> Row]
         /\ \A v \in Version :
              /\ RowOK(Swept[v]) /\ Quiet(version[v], Swept[v])
              /\ Swept[v].prepare.writer = version[v].prepare.writer
              /\ v \notin Overdue => Swept[v] = version[v]
              /\ v \in Overdue => Swept[v].prepare.state \notin Active
                                  /\ Swept[v].state = "purge_pending"
<1>1. Overdue \in SUBSET Version
  BY DEF Overdue
<1>2. profile.current \notin Overdue
  <2>1. NoVersion \notin Version
    BY DEF NoVersion, Version
  <2> QED
    BY <2>1 DEF Inv, Pointers, Fit, Overdue
<1>3. \A v \in Overdue : version[v].state # "absent" /\ version[v].state # "purged"
  BY DEF Overdue
<1>4. version \in [Version -> Row] /\ RowsOK
  BY DEF Inv, TypeOK
<1> QED
  BY <1>1, <1>2, <1>3, <1>4, WithdrawnRows DEF Swept

\* A transaction that retires the versions of S and leaves `rows`.
LEMMA RetiringStep ==
  ASSUME Inv, NEW rows \in [Version -> Row], NEW S \in SUBSET Version, Retire(S, rows),
         profile.current \notin S, UNCHANGED <<source, ledger, external, crashes>>,
         work' \in [Worker -> Work],
         \A v \in Version : RowOK(rows[v]),
         \A v \in S : rows[v].state \in {"purge_pending", "purged"},
         \A v \in Version : v \notin S => Steady(version[v], rows[v])
  PROVE  TypeOK' /\ RowsOK' /\ Pointers' /\ version' = rows
<1>1. /\ version' = rows
      /\ profile' \in Profile /\ seen' \in [Tab -> Profile \cup {None}]
      /\ profile'.current = profile.current /\ profile'.enabled = profile.enabled
      /\ profile'.desired = (IF profile.desired \in S THEN NoVersion ELSE profile.desired)
  BY RetiredProfile DEF Inv
<1>2. TypeOK'
  BY <1>1 DEF Inv, TypeOK, ledger, external
<1>3. RowsOK'
  BY <1>1 DEF RowsOK
<1>4. TypeOK /\ Pointers
  BY DEF Inv
<1>5. Pointers'
  BY <1>1, <1>2, <1>3, <1>4, PointersKept
<1> QED
  BY <1>1, <1>2, <1>3, <1>5

\* A claim without work still withdraws what is overdue.
LEMMA ClaimNothingStep ==
  ASSUME Inv, NEW w \in Worker, ClaimNothing(w)
  PROVE  Inv'
<1>1. UNCHANGED <<source, work, ledger, external, crashes>> /\ Retire(Overdue, Swept)
  BY DEF ClaimNothing
<1>2. /\ Overdue \in SUBSET Version /\ profile.current \notin Overdue
      /\ Swept \in [Version -> Row]
      /\ \A v \in Version :
           /\ RowOK(Swept[v]) /\ Quiet(version[v], Swept[v])
           /\ v \notin Overdue => Swept[v] = version[v]
           /\ v \in Overdue => Swept[v].state = "purge_pending"
  BY SweptRows
<1>3. \A v \in Version : v \notin Overdue => Steady(version[v], Swept[v])
  BY <1>2 DEF Steady
<1>4. work' \in [Worker -> Work]
  BY <1>1 DEF Inv, TypeOK
<1>5. TypeOK' /\ Pointers' /\ version' = Swept
  BY <1>1, <1>2, <1>3, <1>4, RetiringStep
<1>6. QuietStep
  BY <1>2, <1>5 DEF QuietStep
<1> QED
  BY <1>1, <1>5, <1>6, QuietInv DEF ledger, external

\* A purge is claimed.
LEMMA ClaimPurgeStep ==
  ASSUME Inv, NEW w \in Worker, ClaimPurge(w)
  PROVE  Inv'
<1>1. UNCHANGED <<source, ledger, external, crashes>> /\ work[w].pc = "idle"
  BY DEF ClaimPurge
<1>2. PICK v \in PurgesDue :
        /\ Retire(Overdue, [Swept EXCEPT ![v].purge = Claimed(@, w)])
        /\ work' = [work EXCEPT ![w] = [Idle EXCEPT !.pc = "look", !.v = v]]
  BY DEF ClaimPurge
<1> DEFINE q == Claimed(Swept[v].purge, w)
           y == [Swept[v] EXCEPT !.purge = q]
           rows == [Swept EXCEPT ![v] = y]
           z == [Idle EXCEPT !.pc = "look", !.v = v]
<1>3. /\ Overdue \in SUBSET Version /\ profile.current \notin Overdue
      /\ Swept \in [Version -> Row]
      /\ \A u \in Version :
           /\ RowOK(Swept[u]) /\ Quiet(version[u], Swept[u])
           /\ u \notin Overdue => Swept[u] = version[u]
           /\ u \in Overdue => Swept[u].state = "purge_pending"
  BY SweptRows
<1>4. v \in Version /\ Swept[v] \in Row /\ Swept[v].purge.state \in Active
  BY <1>3 DEF PurgesDue, Due
<1>5. Swept[v].state # "absent"
  BY <1>3, <1>4 DEF RowOK, Active
<1>6. q \in Purge /\ q.state \in Active
  <2>1. Swept[v].purge \in Purge /\ LeaseTTL \in 0..LeaseTTL /\ 0 \in 0..(RetryTTL + TransitionTTL)
    BY <1>4, VisualAssumption DEF Row
  <2> QED
    BY <2>1 DEF Claimed, Purge, Active
<1> HIDE DEF q
<1>7. /\ y \in Row /\ RowOK(y) /\ Quiet(Swept[v], y) /\ Steady(Swept[v], y)
      /\ y.state = Swept[v].state
  <2>1. y \in Row /\ RowOK(y) /\ Quiet(Swept[v], y) /\ y.state = Swept[v].state
    BY <1>3, <1>4, <1>5, <1>6, PurgeSet
  <2>2. Steady(Swept[v], y)
    BY <1>3, <1>4, <1>5, <1>6, PurgeKeptRow
  <2> QED
    BY <2>1, <2>2
<1>8. [Swept EXCEPT ![v].purge = Claimed(@, w)] = rows
  BY <1>3, <1>4 DEF q
<1> HIDE DEF y
<1>9. Quiet(version[v], y)
  <2>1. version[v] \in Row /\ Quiet(version[v], Swept[v])
    BY <1>3, <1>4 DEF Inv, TypeOK
  <2> QED
    BY <1>4, <1>7, <2>1, QuietTwice
<1>10. /\ rows \in [Version -> Row] /\ rows[v] = y
       /\ \A u \in Version \ {v} : rows[u] = Swept[u]
  BY <1>3, <1>4, <1>7
<1> HIDE DEF rows
<1>11. \A u \in Version : RowOK(rows[u]) /\ Quiet(version[u], rows[u])
  BY <1>3, <1>7, <1>9, <1>10
<1>12. \A u \in Overdue : rows[u].state = "purge_pending"
  BY <1>3, <1>7, <1>10
<1>13. \A u \in Version : u \notin Overdue => Steady(version[u], rows[u])
  <2>1. SUFFICES ASSUME NEW u \in Version, u \notin Overdue PROVE Steady(version[u], rows[u])
    OBVIOUS
  <2>2. CASE u = v
    BY <1>3, <1>7, <1>10, <2>1, <2>2
  <2>3. CASE u # v
    BY <1>3, <1>10, <2>1, <2>3 DEF Steady
  <2> QED
    BY <2>2, <2>3
<1>14. z \in Work /\ z.pc = "look" /\ z.v = v /\ z.n = 0
  BY <1>4, IdleWork DEF Idle, Work
<1> HIDE DEF z
<1>15. /\ work' \in [Worker -> Work] /\ work'[w] = z
       /\ \A u \in Worker \ {w} : work'[u] = work[u]
  <2>1. work' = [work EXCEPT ![w] = z]
    BY <1>2 DEF z
  <2> QED
    BY <1>14, <2>1 DEF Inv, TypeOK
<1>16. TypeOK' /\ Pointers' /\ version' = rows
  <2>1. Retire(Overdue, rows)
    BY <1>2, <1>8
  <2>2. \A u \in Overdue : rows[u].state \in {"purge_pending", "purged"}
    BY <1>12
  <2> QED
    BY <1>1, <1>3, <1>10, <1>11, <1>13, <1>15, <2>1, <2>2, RetiringStep
<1>17. QuietStep
  BY <1>10, <1>11, <1>16 DEF QuietStep
<1>18. Moving(w)
  <2>1. version'[v].state # "absent"
    BY <1>5, <1>7, <1>10, <1>16
  <2>2. WorkerOK(w)'
    BY <1>4, <1>14, <1>15, <2>1 DEF WorkerOK, ShapeOf, Prepares, Erasing
  <2> QED
    BY <1>1, <1>14, <1>15, <2>2 DEF Moving
<1>19. \A u \in Worker : work'[u] = work[u] \/ Moving(u)
  BY <1>15, <1>18
<1> QED
  BY <1>1, <1>16, <1>17, <1>19, QuietInv DEF ledger, external

\* The claim takes no attempt: the preparation is withdrawn or has failed.
LEMMA RefusedStep ==
  ASSUME Inv, NEW v \in PreparesDue, NEW wanted \in BOOLEAN,
         wanted => Eligible(v),
         Retire(Overdue \cup (IF wanted THEN {} ELSE {v}),
                [Swept EXCEPT ![v] = Refused(@, wanted)]),
         UNCHANGED <<source, work, ledger, external, crashes>>
  PROVE  Inv'
<1> DEFINE S == Overdue \cup (IF wanted THEN {} ELSE {v})
           y == Refused(Swept[v], wanted)
           rows == [Swept EXCEPT ![v] = y]
<1>1. /\ Overdue \in SUBSET Version /\ profile.current \notin Overdue
      /\ Swept \in [Version -> Row]
      /\ \A u \in Version :
           /\ RowOK(Swept[u]) /\ Quiet(version[u], Swept[u])
           /\ u \notin Overdue => Swept[u] = version[u]
           /\ u \in Overdue => Swept[u].prepare.state \notin Active
                               /\ Swept[u].state = "purge_pending"
  BY SweptRows
<1>2. /\ v \in Version /\ v \notin Overdue /\ Swept[v] = version[v] /\ version[v] \in Row
      /\ Swept[v].prepare.state \in Active
  BY <1>1 DEF PreparesDue, Due
<1>3. version[v].state \in {"queued", "preparing"} /\ RowOK(version[v])
  BY <1>1, <1>2 DEF RowOK
<1>4. profile.current # v
  BY <1>2, <1>3 DEF Inv, Pointers, Fit, NoVersion, Version
<1>5. /\ y \in Row /\ RowOK(y) /\ Quiet(version[v], y)
      /\ ~wanted => y.state = "purge_pending"
      /\ wanted => Steady(version[v], y)
  <2>1. CASE wanted
    <3>1. LET e == Exhausted(version[v])
          IN  /\ e \in Row /\ RowOK(e) /\ Quiet(version[v], e)
              /\ e.state = "failed" /\ e.approved = version[v].approved
              /\ e.prepare.state \notin Active
              /\ \A n \in Attempt :
                   version[v].bundle[n].state = "available" => e.bundle[n].state = "available"
      BY <1>2, <1>3, ExhaustedRow
    <3>2. y = Exhausted(version[v])
      BY <1>2, <2>1 DEF Refused
    <3>3. Steady(version[v], y)
      BY <1>3, <3>1, <3>2 DEF Steady, Quiet
    <3> QED
      BY <2>1, <3>1, <3>2, <3>3
  <2>2. CASE ~wanted
    <3>1. 0 \in {0, TransitionTTL} /\ version[v].state # "absent" /\ version[v].state # "purged"
      BY <1>3
    <3>2. y = Withdrawn(version[v], 0)
      BY <1>2, <2>2 DEF Refused
    <3> QED
      BY <1>2, <1>3, <2>2, <3>1, <3>2, WithdrawnRow
  <2> QED
    BY <2>1, <2>2
<1> HIDE DEF y
<1>6. /\ rows \in [Version -> Row] /\ rows[v] = y
      /\ \A u \in Version \ {v} : rows[u] = Swept[u]
  BY <1>1, <1>2, <1>5
<1>7. Retire(S, rows)
  BY DEF y
<1> HIDE DEF rows
<1>8. S \in SUBSET Version /\ profile.current \notin S
  BY <1>1, <1>2, <1>4
<1>9. \A u \in Version : RowOK(rows[u]) /\ Quiet(version[u], rows[u])
  BY <1>1, <1>5, <1>6
<1>10. \A u \in S : rows[u].state \in {"purge_pending", "purged"}
  BY <1>1, <1>2, <1>5, <1>6
<1>11. \A u \in Version : u \notin S => Steady(version[u], rows[u])
  <2>1. SUFFICES ASSUME NEW u \in Version, u \notin S PROVE Steady(version[u], rows[u])
    OBVIOUS
  <2>2. CASE u = v
    BY <1>5, <1>6, <2>1, <2>2
  <2>3. CASE u # v
    BY <1>1, <1>6, <2>1, <2>3 DEF Steady
  <2> QED
    BY <2>2, <2>3
<1> HIDE DEF S
<1>12. work' \in [Worker -> Work]
  BY DEF Inv, TypeOK
<1>13. TypeOK' /\ Pointers' /\ version' = rows
  BY <1>6, <1>7, <1>8, <1>9, <1>10, <1>11, <1>12, RetiringStep
<1>14. QuietStep
  BY <1>6, <1>9, <1>13 DEF QuietStep
<1> QED
  BY <1>13, <1>14, QuietInv DEF ledger, external

\* The parts of the invariant, for the steps that are not quiet.
LEMMA CloseInv ==
  ASSUME Inv, TypeOK', RowsOK', WritersSerial', Pointers', Keys', LocalPuts',
         NEW w \in Worker, \A u \in Worker \ {w} : work'[u] = work[u],
         WorkerOK(w)',
         \A u \in Worker \ {w} : work[u].pc # "idle" => RowsAround(u) /\ KeysAround(u),
         \/ work'[w].n = 0
         \/ work'[w].n = work[w].n /\ work'[w].v = work[w].v
         \/ \A u \in Worker \ {w} :
              work[u].n # 0 /\ work[u].v = work'[w].v => work[u].n # work'[w].n
  PROVE  Inv'
<1>1. \A u \in Worker : WorkerOK(u)'
  BY Staying
<1>2. Shape' /\ Purges' /\ \A u \in Worker : (work[u].n # 0 => AttemptOf(u))'
  BY <1>1 DEF WorkerOK, Shape, Purges
<1>3. \A x, u \in Worker :
        work'[x].n # 0 /\ work'[u].n = work'[x].n /\ work'[u].v = work'[x].v => u = x
  BY DEF Inv, Attempts
<1>4. Attempts'
  BY <1>2, <1>3 DEF Attempts
<1> QED
  BY <1>2, <1>4 DEF Inv

\* No put is on its way into a local store while no claim is occupied.
LEMMA NobodyWrites ==
  ASSUME Inv, ~Occupied
  PROVE  /\ \A v \in Version : version[v].prepare.writer = 0
         /\ ~Remote => \A k \in Key : flight[k] = 0
<1>1. \A v \in Version :
        /\ Swept[v] \in Row /\ version[v] \in Row /\ Quiet(version[v], Swept[v])
        /\ Swept[v].prepare.writer = version[v].prepare.writer
  BY SweptRows DEF Inv, TypeOK
<1>2. \A v \in Version : version[v].prepare.writer = 0
  <2>1. \A v \in Version : version[v].prepare.writer \in Nat
    BY <1>1, VisualAssumption DEF Row, Prepare
  <2> QED
    BY <1>1, <2>1 DEF Occupied
<1>3. ASSUME ~Remote, NEW k \in Key, flight[k] # 0 PROVE FALSE
  <2>1. k[1] \in Version /\ k[2] \in Attempt
    BY KeyParts
  <2>2. flight[k] \in Nat /\ flight[k] > 0
    BY <1>3, VisualAssumption DEF Inv, TypeOK
  <2>3. /\ flight[k] < BundleOf(k).writer
        /\ BundleOf(k).state \in {"reserved", "purge_pending"}
    BY <1>3, <2>2 DEF Inv, LocalPuts, PutOf, Keys, KeyOK
  <2>4. /\ Swept[k[1]].bundle[k[2]].writer = BundleOf(k).writer
        /\ Swept[k[1]].bundle[k[2]].state \in {"reserved", "purge_pending"}
    BY <1>1, <2>1, <2>3 DEF Quiet, BundleOf
  <2>5. BundleOf(k).writer \in Nat
    BY <1>1, <2>1, VisualAssumption DEF BundleOf, Row, Bundle
  <2> QED
    BY <2>1, <2>2, <2>3, <2>4, <2>5 DEF Occupied
<1> QED
  BY <1>2, <1>3

\* The claim starts an attempt of v: nobody else is inside a writer window.
LEMMA StartedInv ==
  ASSUME Inv, TypeOK', RowsOK', Pointers', ~Occupied,
         NEW w \in Worker, NEW v \in Version, version[v].state # "absent",
         version'[v].state = "preparing", version'[v].prepare.holder = w,
         version'[v].prepare.attempts = version[v].prepare.attempts + 1,
         \A n \in Attempt :
           /\ version'[v].bundle[n].writer = version[v].bundle[n].writer
           /\ version'[v].bundle[n].state # "reserved"
           /\ version'[v].bundle[n].state # version[v].bundle[n].state
                => version'[v].bundle[n].state = "purge_pending" /\ version[v].bundle[n].state # "absent",
         \A u \in Version \ {v} : Quiet(version[u], version'[u]),
         work'[w].pc = "load", work'[w].v = v, work'[w].n = version[v].prepare.attempts + 1,
         \A u \in Worker \ {w} : work'[u] = work[u],
         UNCHANGED <<write, store, landed, flight>>
  PROVE  Inv'
<1> DEFINE x == version[v]
           y == version'[v]
<1>1. x.prepare.attempts \in Nat
  BY VisualAssumption DEF Inv, TypeOK, Row, Prepare
<1>2. Keys'
  <2>1. Calm(x, y)
    BY DEF Calm
  <2>2. \A u \in Version : Calm(version[u], version'[u])
    BY <2>1 DEF Calm, Quiet
  <2> QED
    BY <2>2, CalmKeys
<1>3. (\A u \in Version : version[u].prepare.writer = 0)
      /\ (~Remote => \A k \in Key : flight[k] = 0)
  BY NobodyWrites
<1>4. WritersSerial'
  <2>1. \A u \in Version \ {v} : ~(version'[u].prepare.writer > 0)
    BY <1>3 DEF Quiet
  <2> QED
    BY <2>1 DEF WritersSerial
<1>5. LocalPuts'
  BY <1>3 DEF LocalPuts
<1>6. WorkerOK(w)'
  <2>1. "load" \in Prepares /\ "load" \notin Erasing
    BY DEF Prepares, Erasing
  <2>2. work'[w].n # 0
    BY <1>1
  <2>3. ShapeOf(w)'
    BY <2>1, <2>2 DEF ShapeOf
  <2>4. AttemptOf(w)'
    BY <1>1 DEF AttemptOf, Job
  <2> QED
    BY <2>1, <2>2, <2>3, <2>4 DEF WorkerOK
<1>7. ASSUME NEW u \in Worker \ {w}, work[u].pc # "idle" PROVE RowsAround(u) /\ KeysAround(u)
  <2>1. work[u].v \in Version /\ work[u] \in Work /\ u # None /\ u # w
    BY <1>7, VisualAssumption DEF Inv, Shape, ShapeOf, TypeOK
  <2>2. work[u].n = 0 \/ work[u].n \in Attempt
    BY <2>1, VisualAssumption DEF Work, Attempt
  <2>3. KeysAround(u)
    BY DEF KeysAround
  <2>4. CASE work[u].v = v
    <3>1. Job(u) = x /\ version'[work[u].v] = y
      BY <2>4 DEF Job
    <3>2. x.state # "absent" /\ y.prepare.holder # u /\ x.prepare.attempts <= y.prepare.attempts
      BY <1>1, <2>1
    <3>3. \A n \in Attempt :
            x.bundle[n].state \in {"purge_pending", "purged"} /\ x.bundle[n].writer = 0
              => y.bundle[n].state \in {"purge_pending", "purged"} /\ y.bundle[n].writer = 0
      OBVIOUS
    <3>4. work[u].n # 0 => y.bundle[work[u].n].state # "reserved"
      BY <2>2
    <3> QED
      BY <2>3, <3>1, <3>2, <3>3, <3>4 DEF RowsAround
  <2>5. CASE work[u].v # v
    <3>1. Quiet(Job(u), version'[work[u].v])
      BY <2>1, <2>5 DEF Job
    <3>2. Job(u).prepare.attempts \in Nat
      BY <2>1, VisualAssumption DEF Inv, TypeOK, Row, Prepare, Job
    <3> QED
      BY <2>1, <2>2, <2>3, <3>1, <3>2, SMTT(60) DEF RowsAround, Quiet
  <2> QED
    BY <2>3, <2>4, <2>5
<1>8. \A u \in Worker \ {w} : work[u].n # 0 /\ work[u].v = work'[w].v => work[u].n # work'[w].n
  <2>1. SUFFICES ASSUME NEW u \in Worker \ {w}, work[u].n # 0, work[u].v = v
                 PROVE  work[u].n # x.prepare.attempts + 1
    OBVIOUS
  <2>2. work[u].n <= x.prepare.attempts
    BY <2>1 DEF Inv, Attempts, AttemptOf, Job
  <2>3. work[u].n \in Nat
    BY <2>1, VisualAssumption DEF Inv, TypeOK, Work
  <2> QED
    BY <1>1, <2>2, <2>3
<1> QED
  BY <1>2, <1>4, <1>5, <1>6, <1>7, <1>8, CloseInv

\* The claim takes the next attempt of v.
LEMMA StartedStep ==
  ASSUME Inv, NEW w \in Worker, work[w].pc = "idle", ~Occupied, NEW v \in PreparesDue,
         Eligible(v), HasAttempt(Swept[v].prepare),
         Retire(Overdue, [Swept EXCEPT ![v] = Started(@, w)]),
         work' = [work EXCEPT ![w] =
           [Idle EXCEPT !.pc = "load", !.v = v, !.n = Swept[v].prepare.attempts + 1]],
         UNCHANGED <<source, ledger, external, crashes>>
  PROVE  Inv'
<1> DEFINE x == version[v]
           y == Started(Swept[v], w)
           rows == [Swept EXCEPT ![v] = y]
           m == x.prepare.attempts + 1
           z == [Idle EXCEPT !.pc = "load", !.v = v, !.n = m]
<1>1. /\ Overdue \in SUBSET Version /\ profile.current \notin Overdue
      /\ Swept \in [Version -> Row]
      /\ \A u \in Version :
           /\ RowOK(Swept[u]) /\ Quiet(version[u], Swept[u])
           /\ Swept[u].prepare.writer = version[u].prepare.writer
           /\ u \notin Overdue => Swept[u] = version[u]
           /\ u \in Overdue => Swept[u].prepare.state \notin Active
                               /\ Swept[u].state = "purge_pending"
  BY SweptRows
<1>2. /\ v \in Version /\ v \notin Overdue /\ Swept[v] = x /\ x \in Row
      /\ x.prepare.state \in Active
  BY <1>1 DEF PreparesDue, Due
<1>3. x.state \in {"queued", "preparing"} /\ RowOK(x)
  BY <1>1, <1>2 DEF RowOK
<1>4. /\ y \in Row /\ RowOK(y) /\ y.state = "preparing" /\ y.approved = x.approved
      /\ y.source = x.source /\ y.prepare.attempts = m /\ y.prepare.holder = w
      /\ \A n \in Attempt :
           /\ y.bundle[n].writer = x.bundle[n].writer
           /\ y.bundle[n].state # "reserved"
           /\ x.bundle[n].state = "available" => y.bundle[n].state = "available"
           /\ y.bundle[n].state # x.bundle[n].state
                => y.bundle[n].state = "purge_pending" /\ x.bundle[n].state # "absent"
  BY <1>2, <1>3, StartedRow
<1>5. m \in 1..MaxAttempts /\ x.prepare.attempts \in Nat
  <2>1. x.prepare.attempts \in 0..MaxAttempts /\ x.prepare.attempts < MaxAttempts
    BY <1>2 DEF HasAttempt, Row, Prepare
  <2> QED
    BY <2>1, VisualAssumption
<1>6. Steady(x, y)
  BY <1>2, <1>3, <1>4 DEF Steady
<1> HIDE DEF y
<1>7. /\ rows \in [Version -> Row] /\ rows[v] = y
      /\ \A u \in Version \ {v} : rows[u] = Swept[u]
  BY <1>1, <1>2, <1>4
<1>8. Retire(Overdue, rows)
  BY DEF y
<1> HIDE DEF rows, m
<1>9. z \in Work /\ z.pc = "load" /\ z.v = v /\ z.n = m
  <2>1. m \in 0..MaxAttempts
    BY <1>5, VisualAssumption
  <2> QED
    BY <1>2, <2>1, IdleWork DEF Idle, Work
<1>10. work' = [work EXCEPT ![w] = z]
  BY <1>2 DEF m
<1> HIDE DEF z
<1>11. /\ work' \in [Worker -> Work] /\ work'[w] = z
       /\ \A u \in Worker \ {w} : work'[u] = work[u]
  BY <1>9, <1>10 DEF Inv, TypeOK
<1>12. TypeOK' /\ RowsOK' /\ Pointers' /\ version' = rows
  <2>1. \A u \in Version : RowOK(rows[u])
    BY <1>1, <1>4, <1>7
  <2>2. \A u \in Overdue : rows[u].state \in {"purge_pending", "purged"}
    BY <1>1, <1>2, <1>7
  <2>3. \A u \in Version : u \notin Overdue => Steady(version[u], rows[u])
    <3>1. SUFFICES ASSUME NEW u \in Version, u \notin Overdue PROVE Steady(version[u], rows[u])
      OBVIOUS
    <3>2. CASE u = v
      BY <1>6, <1>7, <3>2
    <3>3. CASE u # v
      BY <1>1, <1>7, <3>1, <3>3 DEF Steady
    <3> QED
      BY <3>2, <3>3
  <2> QED
    BY <1>1, <1>7, <1>8, <1>11, <2>1, <2>2, <2>3, RetiringStep
<1>13. \A u \in Version \ {v} : Quiet(version[u], version'[u])
  BY <1>1, <1>7, <1>12
<1>14. version'[v] = y
  BY <1>7, <1>12
<1>15. UNCHANGED <<write, store, landed, flight>>
  BY DEF ledger, external
<1>16. x.state # "absent"
  BY <1>3
<1>17. work'[w].pc = "load" /\ work'[w].v = v /\ work'[w].n = x.prepare.attempts + 1
  BY <1>9, <1>11 DEF m
<1>18. \A n \in Attempt :
         /\ version'[v].bundle[n].writer = x.bundle[n].writer
         /\ version'[v].bundle[n].state # "reserved"
         /\ version'[v].bundle[n].state # x.bundle[n].state
              => version'[v].bundle[n].state = "purge_pending" /\ x.bundle[n].state # "absent"
  BY <1>4, <1>14
<1>19. /\ version'[v].state = "preparing" /\ version'[v].prepare.holder = w
       /\ version'[v].prepare.attempts = x.prepare.attempts + 1
  BY <1>4, <1>14 DEF m
<1> QED
  BY <1>2, <1>11, <1>12, <1>13, <1>15, <1>16, <1>17, <1>18, <1>19, StartedInv

\* A preparation is claimed, refused or given up.
LEMMA ClaimPrepareStep ==
  ASSUME Inv, NEW w \in Worker, ClaimPrepare(w)
  PROVE  Inv'
<1>1. /\ work[w].pc = "idle" /\ ~Occupied
      /\ UNCHANGED <<source, ledger, external, crashes>>
  BY DEF ClaimPrepare
<1>2. PICK v \in PreparesDue :
         \/ /\ ~(Eligible(v) /\ HasAttempt(Swept[v].prepare))
            /\ Retire(Overdue \cup (IF Eligible(v) THEN {} ELSE {v}),
                      [Swept EXCEPT ![v] = Refused(@, Eligible(v))])
            /\ UNCHANGED work
         \/ /\ Eligible(v) /\ HasAttempt(Swept[v].prepare)
            /\ Retire(Overdue, [Swept EXCEPT ![v] = Started(@, w)])
            /\ work' = [work EXCEPT ![w] =
                 [Idle EXCEPT !.pc = "load", !.v = v, !.n = Swept[v].prepare.attempts + 1]]
  BY DEF ClaimPrepare
<1>3. Eligible(v) \in BOOLEAN
  BY DEF Eligible
<1>4. CASE UNCHANGED work /\ Retire(Overdue \cup (IF Eligible(v) THEN {} ELSE {v}),
                                    [Swept EXCEPT ![v] = Refused(@, Eligible(v))])
  BY <1>1, <1>3, <1>4, RefusedStep
<1>5. CASE /\ Eligible(v) /\ HasAttempt(Swept[v].prepare)
           /\ Retire(Overdue, [Swept EXCEPT ![v] = Started(@, w)])
           /\ work' = [work EXCEPT ![w] =
                [Idle EXCEPT !.pc = "load", !.v = v, !.n = Swept[v].prepare.attempts + 1]]
  BY <1>1, <1>5, StartedStep
<1> QED
  BY <1>2, <1>4, <1>5

-----------------------------------------------------------------------------
\* The steps that are not quiet.

\* The parts of the invariant, for a step in which no worker moves.
LEMMA StayInv ==
  ASSUME Inv, TypeOK', RowsOK', WritersSerial', Pointers', Keys', LocalPuts', work' = work,
         \A u \in Worker : work[u].pc # "idle" => RowsAround(u) /\ KeysAround(u)
  PROVE  Inv'
<1>1. \A u \in Worker : WorkerOK(u)'
  BY Staying
<1>2. Shape' /\ Purges' /\ \A u \in Worker : (work[u].n # 0 => AttemptOf(u))'
  BY <1>1 DEF WorkerOK, Shape, Purges
<1>3. Attempts'
  BY <1>2 DEF Inv, Attempts
<1> QED
  BY <1>2, <1>3 DEF Inv

\* What Inv says of a worker at work.
LEMMA AtWork ==
  ASSUME Inv, NEW u \in Worker, work[u].pc # "idle"
  PROVE  /\ work[u].v \in Version /\ version[work[u].v].state # "absent"
         /\ work[u].n = 0 \/ work[u].n \in Attempt
         /\ Job(u).prepare.attempts \in Nat /\ u # None
<1>1. work[u].v \in Version /\ version[work[u].v].state # "absent" /\ work[u] \in Work
  BY DEF Inv, Shape, ShapeOf, TypeOK
<1> QED
  BY <1>1, VisualAssumption DEF Work, Attempt, Inv, TypeOK, Row, Prepare, Job

\* A quiet row does not disturb a worker.
LEMMA QuietAround ==
  ASSUME Inv, NEW u \in Worker, work[u].pc # "idle", Quiet(Job(u), version'[work[u].v])
  PROVE  RowsAround(u)
<1>1. /\ work[u].n = 0 \/ work[u].n \in Attempt
      /\ Job(u).prepare.attempts \in Nat /\ u # None
  BY AtWork
<1> QED
  BY <1>1 DEF RowsAround, Quiet

\* The rows, the store and the puts after a fresh request.
LEMMA AskedInv ==
  ASSUME Inv, TypeOK', RowsOK', Pointers', NEW v \in Version, version[v].state = "absent",
         version'[v].state = "queued", version'[v].prepare.writer = 0,
         \A n \in Attempt : version'[v].bundle[n].state = "absent",
         \A u \in Version \ {v} : Quiet(version[u], version'[u]),
         UNCHANGED <<work, write, store, landed, flight>>
  PROVE  Inv'
<1>1. RowOK(version[v])
  BY DEF Inv, RowsOK
<1>2. \A n \in Attempt : version[v].bundle[n].state = "absent"
  BY <1>1 DEF RowOK, BundleOK
<1>3. Keys'
  <2>1. Calm(version[v], version'[v])
    BY <1>2 DEF Calm
  <2>2. \A u \in Version : Calm(version[u], version'[u])
    BY <2>1 DEF Calm, Quiet
  <2> QED
    BY <2>2, CalmKeys
<1>4. \A u \in Version : version'[u].prepare.writer > 0 => u # v /\ version[u].prepare.writer > 0
  BY DEF Quiet
<1>5. WritersSerial'
  BY <1>4 DEF Inv, WritersSerial
<1>6. LocalPuts'
  <2> SUFFICES ASSUME ~Remote, NEW k \in Key, flight[k] > 0 PROVE PutOf(k)'
    BY DEF LocalPuts
  <2>1. PutOf(k) /\ BundleOf(k).state \in {"reserved", "purge_pending"}
    BY DEF Inv, LocalPuts, Keys, KeyOK
  <2>2. k[1] \in Version /\ k[2] \in Attempt /\ k[1] # v
    BY <1>2, <2>1, KeyParts DEF BundleOf
  <2>3. version'[k[1]].bundle[k[2]].writer = BundleOf(k).writer
    BY <2>2 DEF Quiet, BundleOf
  <2>4. \A u \in Version : version'[u].prepare.writer > 0 =>
          k[1] = u /\ k[2] = version'[u].prepare.attempts
    BY <1>4, <2>1, <2>2 DEF PutOf, Quiet
  <2> QED
    BY <2>1, <2>3, <2>4 DEF PutOf, BundleOf
<1>7. ASSUME NEW u \in Worker, work[u].pc # "idle" PROVE RowsAround(u) /\ KeysAround(u)
  <2>1. work[u].v \in Version /\ work[u].v # v
    BY <1>7, AtWork
  <2>2. Quiet(Job(u), version'[work[u].v])
    BY <2>1 DEF Job
  <2> QED
    BY <1>7, <2>2, QuietAround DEF KeysAround
<1> QED
  BY <1>3, <1>5, <1>6, <1>7, StayInv

\* A version is asked for, and the candidate before it is withdrawn.
LEMMA AdmitStep ==
  ASSUME Inv, NEW t \in Tab, NEW v \in Version, NEW s \in Source, Admit(t, v, s)
  PROVE  Inv'
<1> DEFINE rows == WithdrawnSet(Superseded)
           y == Requested(s)
<1>1. /\ UNCHANGED <<source, work, write, absent, store, landed, flight, crashes>>
      /\ version[v].state = "absent" /\ seen' = Outdated
      /\ version' = [rows EXCEPT ![v] = y]
      /\ profile' = [profile EXCEPT !.desired = v, !.deleted = FALSE]
  BY DEF Admit, ledger, external
<1>2. /\ profile' \in Profile /\ profile'.desired = v /\ profile'.current = profile.current
      /\ profile'.enabled = profile.enabled
      /\ profile.current \in Version \cup {NoVersion}
      /\ profile.desired \in Version \cup {NoVersion}
  BY <1>1 DEF Inv, TypeOK, Profile
<1>3. Superseded \in SUBSET Version /\ \A u \in Superseded : version[u].state # "absent"
  BY <1>2 DEF Superseded, Inv, Pointers
<1>4. /\ rows \in [Version -> Row]
      /\ \A u \in Version :
           /\ RowOK(rows[u]) /\ Quiet(version[u], rows[u])
           /\ u \notin Superseded => rows[u] = version[u]
           /\ u \in Superseded => /\ rows[u].prepare.state \notin Active
                                  /\ rows[u].state \in {"purge_pending", "purged"}
  BY <1>3, WithdrawnRows DEF Inv, TypeOK
<1>5. /\ y \in Row /\ RowOK(y) /\ y.state = "queued" /\ ~y.approved
      /\ y.prepare.writer = 0 /\ \A n \in Attempt : y.bundle[n].state = "absent"
  BY RequestedRow
<1> HIDE DEF rows, y
<1>6. /\ version' \in [Version -> Row] /\ version'[v] = y
      /\ \A u \in Version \ {v} : version'[u] = rows[u]
  BY <1>1, <1>4, <1>5
<1>7. TypeOK'
  <2>1. seen' \in [Tab -> Profile \cup {None}]'
    BY <1>1 DEF Outdated
  <2> QED
    BY <1>1, <1>2, <1>6, <2>1 DEF Inv, TypeOK
<1>8. RowsOK'
  BY <1>4, <1>5, <1>6 DEF RowsOK
<1>9. v \notin Superseded /\ profile.current # v
  <2>1. NoVersion \notin Version
    BY DEF NoVersion, Version
  <2> QED
    BY <1>1, <1>3, <2>1 DEF Inv, Pointers, Fit
<1>10. Pointers'
  <2>1. ASSUME NEW u \in Version, version'[u].prepare.state \in Active PROVE profile'.desired = u
    <3>1. SUFFICES ASSUME u # v PROVE FALSE
      BY <1>2
    <3>2. u \notin Superseded /\ version'[u] = version[u]
      BY <1>4, <1>6, <2>1, <3>1
    <3>3. profile.desired = u /\ version[u].state \in {"queued", "preparing"}
      BY <2>1, <3>2 DEF Inv, Pointers, RowsOK, RowOK
    <3>4. u = profile.current /\ u # NoVersion
      BY <3>2, <3>3 DEF Superseded, NoVersion, Version
    <3> QED
      BY <3>3, <3>4 DEF Inv, Pointers, Fit
  <2>2. version'[profile'.desired].state = "queued"
    BY <1>2, <1>5, <1>6
  <2>3. ASSUME NEW u \in Version, version'[u].state = "ready", version'[u].approved
        PROVE  profile'.current = u
    <3>1. u # v /\ u \notin Superseded
      BY <1>4, <1>5, <1>6, <2>3
    <3>2. version'[u] = version[u]
      BY <1>4, <1>6, <3>1
    <3> QED
      BY <1>2, <2>3, <3>2 DEF Inv, Pointers
  <2>4. ASSUME profile'.current # NoVersion PROVE Fit(profile.current)'
    <3>1. profile'.current = profile.current /\ profile.current \in Version
      BY <1>2, <2>4
    <3>2. profile.current \notin Superseded
      BY DEF Superseded
    <3>3. version'[profile.current] = version[profile.current]
      BY <1>4, <1>6, <1>9, <3>1, <3>2
    <3>4. Fit(profile.current)
      BY <2>4, <3>1 DEF Inv, Pointers
    <3> QED
      BY <1>1, <3>1, <3>3, <3>4 DEF Fit, Published
  <2>5. profile'.enabled => profile'.current # NoVersion
    BY <1>2 DEF Inv, Pointers
  <2> QED
    BY <2>1, <2>2, <2>3, <2>4, <2>5 DEF Pointers
<1>11. \A u \in Version \ {v} : Quiet(version[u], version'[u])
  BY <1>4, <1>6
<1>12. /\ version'[v].state = "queued" /\ version'[v].prepare.writer = 0
       /\ \A n \in Attempt : version'[v].bundle[n].state = "absent"
  BY <1>5, <1>6
<1> QED
  BY <1>1, <1>7, <1>8, <1>10, <1>11, <1>12, AskedInv

\* The pointers when every row is steady.
LEMMA SteadyPointers ==
  ASSUME Inv, TypeOK', RowsOK', profile' = profile, source' = source,
         \A u \in Version : Steady(version[u], version'[u])
  PROVE  Pointers'
<1>1. {} \in SUBSET Version /\ TypeOK /\ Pointers
  BY DEF Inv
<1>2. profile.current \notin {} /\ profile.desired \notin {}
  OBVIOUS
<1> QED
  BY <1>1, <1>2, PointersKept

\* One row changes, to another that is in order.
LEMMA OneRowOnly ==
  ASSUME Inv, NEW v \in Version, NEW y \in Row, RowOK(y), version' = [version EXCEPT ![v] = y]
  PROVE  /\ version' \in [Version -> Row] /\ version'[v] = y /\ RowsOK'
         /\ \A u \in Version \ {v} :
              version'[u] = version[u] /\ Quiet(version[u], version'[u])
<1>1. \A u \in Version : version[u] \in Row /\ RowOK(version[u])
  BY DEF Inv, TypeOK, RowsOK
<1>2. version' \in [Version -> Row] /\ version'[v] = y
      /\ \A u \in Version \ {v} : version'[u] = version[u]
  BY DEF Inv, TypeOK
<1> QED
  BY <1>1, <1>2, QuietSame DEF RowsOK

\* The tick: deadlines come nearer.
LEMMA TickStep ==
  ASSUME Inv, Tick
  PROVE  Inv'
<1>1. /\ UNCHANGED <<profile, source, seen, work, write, store, landed, crashes>>
      /\ version' = [v \in Version |-> Aged(version[v])]
      /\ flight' = (IF Remote THEN flight ELSE [k \in Key |-> Down(flight[k])])
      /\ absent' = [k \in Key |-> IF absent[k].checks = 0 THEN absent[k]
                                  ELSE [absent[k] EXCEPT !.rest = Down(@)]]
  BY DEF Tick
<1>2. \A v \in Version :
        /\ version'[v] \in Row /\ RowOK(version'[v])
        /\ version'[v].state = version[v].state /\ version'[v].approved = version[v].approved
        /\ version'[v].source = version[v].source
        /\ version'[v].prepare.state = version[v].prepare.state
        /\ version'[v].prepare.attempts = version[v].prepare.attempts
        /\ version'[v].prepare.holder = version[v].prepare.holder
        /\ version'[v].prepare.writer = Down(version[v].prepare.writer)
        /\ \A n \in Attempt :
             /\ version'[v].bundle[n].state = version[v].bundle[n].state
             /\ version'[v].bundle[n].writer = Down(version[v].bundle[n].writer)
  <2>1. \A v \in Version : version[v] \in Row /\ RowOK(version[v]) /\ version'[v] = Aged(version[v])
    BY <1>1 DEF Inv, TypeOK, RowsOK
  <2> QED
    BY <2>1, AgedRow
<1>3. \A k \in Key : /\ flight[k] \in 0..PutTTL /\ flight'[k] \in 0..PutTTL
                     /\ flight[k] = 0 => flight'[k] = 0
                     /\ ~Remote => flight'[k] = Down(flight[k])
  <2>1. flight \in [Key -> 0..PutTTL]
    BY DEF Inv, TypeOK
  <2>2. \A k \in Key : Down(flight[k]) \in 0..PutTTL /\ (flight[k] = 0 => Down(flight[k]) = 0)
    BY <2>1, VisualAssumption, DownDeadline DEF Down
  <2> QED
    BY <1>1, <2>1, <2>2
<1>4. TypeOK'
  <2>1. version' \in [Version -> Row]
    BY <1>1, <1>2
  <2>2. flight' \in [Key -> 0..PutTTL]
    BY <1>1, <1>3 DEF Inv, TypeOK
  <2>3. absent' \in [Key -> Absence]
    <3>1. \A k \in Key : absent[k] \in Absence /\ Down(absent[k].rest) \in 0..AbsenceTTL
      BY VisualAssumption, DownDeadline DEF Inv, TypeOK, Absence
    <3>2. \A k \in Key : [absent[k] EXCEPT !.rest = Down(@)] \in Absence
      BY <3>1 DEF Absence
    <3> QED
      BY <1>1, <3>1, <3>2
  <2> QED
    BY <1>1, <2>1, <2>2, <2>3 DEF Inv, TypeOK
<1>5. RowsOK'
  BY <1>2 DEF RowsOK
<1>6. \A v \in Version : /\ version[v].prepare.writer \in Nat
                         /\ version'[v].prepare.writer > 0 => version[v].prepare.writer > 0
                         /\ \A n \in Attempt : version[v].bundle[n].writer \in Nat
  <2>1. \A v \in Version : /\ version[v].prepare.writer \in Nat
                           /\ \A n \in Attempt : version[v].bundle[n].writer \in Nat
    BY VisualAssumption DEF Inv, TypeOK, Row, Prepare, Bundle
  <2> QED
    BY <1>2, <2>1 DEF Down
<1>7. WritersSerial'
  BY <1>6 DEF Inv, WritersSerial
<1>8. Pointers'
  <2>1. \A v \in Version : Steady(version[v], version'[v])
    BY <1>2 DEF Steady
  <2> QED
    BY <1>1, <1>4, <1>5, <2>1, SteadyPointers
<1>9. Keys'
  <2>1. \A v \in Version : Calm(version[v], version'[v])
    BY <1>2 DEF Calm
  <2> QED
    BY <1>1, <1>3, <1>4, <2>1, CalmKeys
<1>10. LocalPuts'
  <2> SUFFICES ASSUME ~Remote, NEW k \in Key, flight'[k] > 0 PROVE PutOf(k)'
    BY DEF LocalPuts
  <2>1. flight[k] > 0 /\ flight'[k] = flight[k] - 1 /\ flight[k] \in Nat
    BY <1>3, VisualAssumption DEF Down
  <2>2. PutOf(k)
    BY <2>1 DEF Inv, LocalPuts
  <2>3. k[1] \in Version /\ k[2] \in Attempt
    BY KeyParts
  <2>4. flight'[k] < version'[k[1]].bundle[k[2]].writer
    <3>1. /\ flight[k] < version[k[1]].bundle[k[2]].writer
          /\ version[k[1]].bundle[k[2]].writer \in Nat
          /\ version'[k[1]].bundle[k[2]].writer = Down(version[k[1]].bundle[k[2]].writer)
      BY <1>2, <1>6, <2>2, <2>3 DEF PutOf, BundleOf
    <3> QED
      BY <2>1, <3>1 DEF Down
  <2>5. \A v \in Version : version'[v].prepare.writer > 0 =>
          k[1] = v /\ k[2] = version'[v].prepare.attempts
    BY <1>2, <1>6, <2>2 DEF PutOf
  <2>6. \A l \in Key : flight'[l] > 0 => k = l
    <3>1. \A l \in Key : flight'[l] > 0 => flight[l] > 0
      BY <1>3, VisualAssumption
    <3> QED
      BY <2>2, <3>1 DEF PutOf
  <2>7. \E w \in Worker : work'[w].pc = "flight" /\ work'[w].at = k
    BY <1>1, <2>2 DEF PutOf
  <2> QED
    BY <2>4, <2>5, <2>6, <2>7 DEF PutOf, BundleOf
<1>11. ASSUME NEW u \in Worker, work[u].pc # "idle" PROVE RowsAround(u) /\ KeysAround(u)
  <2>1. /\ work[u].v \in Version /\ Job(u).prepare.attempts \in Nat
        /\ work[u].n = 0 \/ work[u].n \in Attempt
    BY <1>11, AtWork
  <2> DEFINE x == Job(u)
             y == version'[work[u].v]
  <2>2. /\ y.state = x.state /\ y.prepare.attempts = x.prepare.attempts
        /\ y.prepare.holder = x.prepare.holder
        /\ \A n \in Attempt : /\ y.bundle[n].state = x.bundle[n].state
                              /\ y.bundle[n].writer = Down(x.bundle[n].writer)
    BY <1>2, <2>1 DEF Job
  <2>3. RowsAround(u)
    BY <2>1, <2>2 DEF RowsAround, Down
  <2>4. KeysAround(u)
    BY <1>1, <1>3 DEF KeysAround
  <2> QED
    BY <2>3, <2>4
<1> QED
  BY <1>1, <1>4, <1>5, <1>7, <1>8, <1>9, <1>10, <1>11, StayInv

\* A put lands: its object is there, and it is no longer on its way.
LEMMA LandStep ==
  ASSUME Inv, NEW k \in Key, Land(k)
  PROVE  Inv'
<1>1. /\ UNCHANGED <<profile, version, source, seen, work, write, absent, crashes>>
      /\ flight[k] > 0 /\ flight' = [flight EXCEPT ![k] = 0]
      /\ store' = store \cup {k} /\ landed' = landed \cup {k}
  BY DEF Land, ledger
<1>2. /\ flight' \in [Key -> 0..PutTTL] /\ flight'[k] = 0
      /\ \A l \in Key \ {k} : flight'[l] = flight[l]
  <2>1. flight \in [Key -> 0..PutTTL] /\ 0 \in 0..PutTTL
    BY VisualAssumption DEF Inv, TypeOK
  <2> QED
    BY <1>1, <2>1
<1>3. TypeOK'
  BY <1>1, <1>2 DEF Inv, TypeOK
<1>4. RowsOK' /\ WritersSerial' /\ Pointers'
  BY <1>1, SamePointers DEF Inv, RowsOK, WritersSerial
<1>5. Keys'
  <2> SUFFICES ASSUME NEW l \in Key PROVE KeyOK(l)'
    BY DEF Keys
  <2>1. KeyOK(l)
    BY DEF Inv, Keys
  <2>2. CASE l = k
    BY <1>1, <1>2, <2>1, <2>2 DEF KeyOK, BundleOf
  <2>3. CASE l # k
    BY <1>1, <1>2, <2>1, <2>3 DEF KeyOK, BundleOf
  <2> QED
    BY <2>2, <2>3
<1>6. LocalPuts'
  <2> SUFFICES ASSUME ~Remote, NEW l \in Key, flight'[l] > 0 PROVE PutOf(l)'
    BY DEF LocalPuts
  <2>1. l # k /\ flight'[l] = flight[l]
    BY <1>2
  <2>2. PutOf(l)
    BY <2>1 DEF Inv, LocalPuts
  <2>3. \A j \in Key : flight'[j] > 0 => flight[j] > 0
    BY <1>2
  <2> QED
    BY <1>1, <2>1, <2>2, <2>3 DEF PutOf, BundleOf
<1>7. ASSUME NEW u \in Worker, work[u].pc # "idle" PROVE RowsAround(u) /\ KeysAround(u)
  <2>1. version[work[u].v] \in Row
    BY <1>7, AtWork DEF Inv, TypeOK
  <2>2. Quiet(Job(u), version'[work[u].v])
    BY <1>1, <2>1, QuietSame DEF Job
  <2>3. RowsAround(u)
    BY <1>7, <2>2, QuietAround
  <2>4. KeysAround(u)
    BY <1>1, <1>2 DEF KeysAround
  <2> QED
    BY <2>3, <2>4
<1> QED
  BY <1>1, <1>3, <1>4, <1>5, <1>6, <1>7, StayInv

\* The bundle of the attempt that w holds is registered.
LEMMA ReservedStep ==
  ASSUME Inv, NEW w \in Worker, Reserve(w), Fence(w),
         version[work[w].v].bundle[work[w].n].state = "absent"
  PROVE  Inv'
<1> DEFINE v == work[w].v
           n == work[w].n
           x == version[v]
           y == Reserved(x, n)
           z == [work[w] EXCEPT !.pc = "put", !.left = KeysOf(v, n)]
<1>1. UNCHANGED <<profile, source, seen, write, absent, store, landed, flight, crashes>>
  BY DEF Reserve, ledger, external
<1>2. work[w].pc = "render" /\ work[w].pc \in Prepares
  BY DEF Reserve, Prepares
<1>3. /\ v \in Version /\ n \in Attempt /\ x \in Row /\ RowOK(x) /\ AttemptOf(w)
      /\ work[w] \in Work /\ work \in [Worker -> Work] /\ version \in [Version -> Row] /\ n # 0
  BY <1>2, AtAttempt DEF Inv, TypeOK
<1>4. /\ x.prepare.state = "running" /\ x.prepare.attempts = n /\ x.state \in {"queued", "preparing"}
      /\ x.bundle[n].state = "absent"
  BY <1>3 DEF Fence, Leased, Eligible, AttemptOf, Job
<1>5. version' = [version EXCEPT ![v] = y] /\ work' = [work EXCEPT ![w] = z]
  BY <1>3 DEF Reserve
<1>6. /\ y \in Row /\ RowOK(y) /\ y.state = x.state /\ y.approved = x.approved
      /\ y.prepare = x.prepare /\ y.source = x.source
      /\ y.bundle[n].state = "reserved" /\ \A m \in Attempt \ {n} : y.bundle[m] = x.bundle[m]
  <2>1. /\ y \in Row /\ RowOK(y) /\ y.state = x.state /\ y.approved = x.approved
        /\ y.prepare = x.prepare /\ y.source = x.source
        /\ y.bundle[n] = [state |-> "reserved", writer |-> x.prepare.writer]
        /\ \A m \in Attempt \ {n} : y.bundle[m] = x.bundle[m]
    BY <1>3, <1>4, ReservedRow
  <2> HIDE DEF y
  <2> QED
    BY <2>1
<1> HIDE DEF y
<1>7. /\ version' \in [Version -> Row] /\ version'[v] = y /\ RowsOK'
      /\ \A u \in Version \ {v} : version'[u] = version[u] /\ Quiet(version[u], version'[u])
  BY <1>3, <1>5, <1>6, OneRowOnly
<1>8. /\ z \in Work /\ z.pc = "put" /\ z.v = v /\ z.n = n /\ z.left = KeysOf(v, n)
  <2>1. KeysOf(v, n) \in SUBSET Key
    BY DEF KeysOf
  <2> QED
    BY <1>3, <2>1 DEF Work
<1> HIDE DEF z
<1>9. /\ work' \in [Worker -> Work] /\ work'[w] = z
      /\ \A u \in Worker \ {w} : work'[u] = work[u]
  BY <1>3, <1>5, <1>8
<1>10. TypeOK'
  BY <1>1, <1>7, <1>9 DEF Inv, TypeOK
<1>11. WritersSerial'
  <2>1. \A u \in Version : version'[u].prepare = version[u].prepare
    BY <1>6, <1>7
  <2> QED
    BY <2>1 DEF Inv, WritersSerial
<1>12. Pointers'
  <2>1. Steady(x, y)
    BY <1>4, <1>6 DEF Steady
  <2>2. \A u \in Version : Steady(version[u], version'[u])
    BY <1>7, <2>1 DEF Steady
  <2> QED
    BY <1>1, <1>7, <1>10, <2>2, SteadyPointers
<1>13. \A k \in Key : k[1] = v /\ k[2] = n => k \notin store /\ flight[k] = 0
  <2> SUFFICES ASSUME NEW k \in Key, k[1] = v, k[2] = n PROVE k \notin store /\ flight[k] = 0
    OBVIOUS
  <2>1. KeyOK(k) /\ flight[k] \in Nat /\ BundleOf(k).state = "absent"
    BY <1>4, VisualAssumption DEF Inv, Keys, TypeOK, BundleOf
  <2> QED
    BY <2>1 DEF KeyOK
<1>14. \A k \in Key : ~(k[1] = v /\ k[2] = n) => BundleOf(k)' = BundleOf(k)
  BY <1>6, <1>7, KeyParts DEF BundleOf
<1>15. \A u \in Version : version'[u].state = version[u].state /\ version'[u].prepare = version[u].prepare
  BY <1>6, <1>7
<1>16. Keys'
  <2> SUFFICES ASSUME NEW k \in Key PROVE KeyOK(k)'
    BY DEF Keys
  <2>1. KeyOK(k) /\ k[1] \in Version
    BY KeyParts DEF Inv, Keys
  <2>2. CASE k[1] = v /\ k[2] = n
    <3>1. BundleOf(k)'.state = "reserved"
      BY <1>6, <1>7, <2>2 DEF BundleOf
    <3> QED
      BY <1>1, <1>13, <1>15, <2>1, <2>2, <3>1 DEF KeyOK
  <2>3. CASE ~(k[1] = v /\ k[2] = n)
    <3>1. BundleOf(k)' = BundleOf(k)
      BY <1>14, <2>3
    <3> QED
      BY <1>1, <1>15, <2>1, <3>1 DEF KeyOK
  <2> QED
    BY <2>2, <2>3
<1>17. LocalPuts'
  <2> SUFFICES ASSUME ~Remote, NEW k \in Key, flight'[k] > 0 PROVE PutOf(k)'
    BY DEF LocalPuts
  <2>1. PutOf(k) /\ BundleOf(k)' = BundleOf(k)
    BY <1>1, <1>13, <1>14 DEF Inv, LocalPuts
  <2>2. \E u \in Worker : work'[u].pc = "flight" /\ work'[u].at = k
    BY <1>2, <1>9, <2>1 DEF PutOf
  <2> QED
    BY <1>1, <1>15, <2>1, <2>2 DEF PutOf
<1>18. WorkerOK(w)'
  <2>1. work'[w].pc = "put" /\ work'[w].v = v /\ work'[w].n = n /\ work'[w].left = KeysOf(v, n)
    BY <1>8, <1>9
  <2>2. "put" \in Prepares /\ "put" \notin Erasing
    BY DEF Prepares, Erasing
  <2>3. version'[v].state # "absent" /\ version'[v].prepare = x.prepare
    BY <1>4, <1>6, <1>7
  <2>4. ShapeOf(w)'
    BY <1>3, <2>1, <2>2, <2>3 DEF ShapeOf, KeysOf
  <2>5. AttemptOf(w)'
    BY <1>3, <2>1, <2>3 DEF AttemptOf, Job
  <2> QED
    BY <2>1, <2>2, <2>4, <2>5 DEF WorkerOK
<1>19. ASSUME NEW u \in Worker \ {w}, work[u].pc # "idle" PROVE RowsAround(u) /\ KeysAround(u)
  <2>1. /\ work[u].v \in Version /\ Job(u).prepare.attempts \in Nat
        /\ work[u].n = 0 \/ work[u].n \in Attempt
    BY <1>19, AtWork
  <2>2. KeysAround(u)
    BY <1>1 DEF KeysAround
  <2>3. CASE work[u].v # v
    <3>1. Quiet(Job(u), version'[work[u].v])
      BY <1>7, <2>1, <2>3 DEF Job
    <3> QED
      BY <1>19, <2>2, <3>1, QuietAround
  <2>4. CASE work[u].v = v
    <3>1. Job(u) = x /\ version'[work[u].v] = y
      BY <1>7, <2>4 DEF Job
    <3>2. work[u].n # n
      BY <1>3, <2>4 DEF Inv, Attempts
    <3>3. work[u].n # 0 /\ y.bundle[work[u].n].state = "reserved"
            => x.bundle[work[u].n].state = "reserved"
      BY <1>6, <2>1, <3>2
    <3>4. \A m \in Attempt :
            x.bundle[m].state \in {"purge_pending", "purged"} /\ x.bundle[m].writer = 0
              => y.bundle[m].state \in {"purge_pending", "purged"} /\ y.bundle[m].writer = 0
      BY <1>4, <1>6
    <3>5. y.state = x.state /\ y.prepare = x.prepare
      BY <1>6
    <3> HIDE DEF x
    <3> QED
      BY <2>1, <2>2, <3>1, <3>3, <3>4, <3>5 DEF RowsAround
  <2> QED
    BY <2>3, <2>4
<1>20. work'[w].n = work[w].n /\ work'[w].v = work[w].v
  BY <1>8, <1>9
<1> QED
  BY <1>7, <1>9, <1>10, <1>11, <1>12, <1>16, <1>17, <1>18, <1>19, <1>20, CloseInv

\* A bundle is registered, or the fence refuses.
LEMMA ReserveStep ==
  ASSUME Inv, NEW w \in Worker, Reserve(w)
  PROVE  Inv'
<1>1. CASE Fence(w) /\ version[work[w].v].bundle[work[w].n].state = "absent"
  BY <1>1, ReservedStep
<1>2. CASE ~(Fence(w) /\ version[work[w].v].bundle[work[w].n].state = "absent")
  <2>1. work[w].pc \in Prepares \ {"flight"}
    BY DEF Reserve, Prepares
  <2>2. FailTo(w, FALSE) /\ UNCHANGED version
    BY <1>2 DEF Reserve
  <2> QED
    BY <2>1, <2>2, FailingStep DEF Reserve
<1> QED
  BY <1>1, <1>2

\* A put begins: nothing else is on its way into a local store, and it ends before the
\* writer window of its attempt.
LEMMA DispatchedStep ==
  ASSUME Inv, NEW w \in Worker, NEW k \in Key, BeginPut(w, k), MayDispatch(w, k)
  PROVE  Inv'
<1> DEFINE v == work[w].v
           n == work[w].n
           x == version[v]
           y == [x EXCEPT !.prepare = Renewed(@)]
           z == [work[w] EXCEPT !.pc = "flight", !.at = k]
<1>1. UNCHANGED <<profile, source, seen, absent, store, landed, crashes>>
  BY DEF BeginPut
<1>2. work[w].pc = "put" /\ work[w].pc \in Prepares /\ k \in work[w].left
  BY DEF BeginPut, Prepares
<1>3. /\ v \in Version /\ n \in Attempt /\ x \in Row /\ RowOK(x) /\ AttemptOf(w) /\ ShapeOf(w)
      /\ work[w] \in Work /\ work \in [Worker -> Work] /\ version \in [Version -> Row] /\ n # 0
  BY <1>2, AtAttempt DEF Inv, TypeOK
<1>4. /\ write[k] = "reserved" /\ x.bundle[n].writer > PutTTL
      /\ x.prepare.writer > 0 /\ x.prepare.attempts = n /\ x.state \in {"queued", "preparing"}
  BY <1>3 DEF MayDispatch, Fence, Leased, Eligible, AttemptOf, Job
<1>5. k[1] = v /\ k[2] = n
  BY <1>2, <1>3 DEF ShapeOf, KeysOf
<1>6. /\ version' = [version EXCEPT ![v] = y] /\ write' = [write EXCEPT ![k] = "dispatching"]
      /\ flight' = [flight EXCEPT ![k] = PutTTL] /\ work' = [work EXCEPT ![w] = z]
  BY <1>3 DEF BeginPut
<1>7. y \in Row /\ RowOK(y) /\ Quiet(x, y) /\ Steady(x, y)
  BY <1>3, RenewedRow
<1> HIDE DEF y
<1>8. QuietStep /\ version'[v] = y /\ \A u \in Version \ {v} : version'[u] = version[u]
  BY <1>3, <1>6, <1>7, OneRow
<1>9. z \in Work /\ z.pc = "flight" /\ z.v = v /\ z.n = n /\ z.left = work[w].left /\ z.at = k
  BY <1>3 DEF Work
<1> HIDE DEF z
<1>10. /\ work' \in [Worker -> Work] /\ work'[w] = z
       /\ \A u \in Worker \ {w} : work'[u] = work[u]
  BY <1>3, <1>6, <1>9
<1>11. /\ write' \in [Key -> {"reserved", "dispatching", "confirmed"}]
       /\ write'[k] = "dispatching" /\ \A l \in Key \ {k} : write'[l] = write[l]
  BY <1>6 DEF Inv, TypeOK
<1>12. /\ flight' \in [Key -> 0..PutTTL] /\ flight'[k] = PutTTL
       /\ \A l \in Key \ {k} : flight'[l] = flight[l]
  <2>1. PutTTL \in 0..PutTTL
    BY VisualAssumption
  <2> QED
    BY <1>6, <2>1 DEF Inv, TypeOK
<1>13. TypeOK'
  BY <1>1, <1>8, <1>10, <1>11, <1>12 DEF Inv, TypeOK, QuietStep
<1>14. RowsOK' /\ WritersSerial'
  BY <1>8 DEF Inv, QuietStep, RowsOK, WritersSerial, Quiet
<1>15. Pointers'
  BY <1>1, <1>7, <1>8, <1>13, OneSteady
<1>16. /\ k \notin landed /\ k \notin store
       /\ BundleOf(k).state \in {"reserved", "purge_pending"} /\ BundleOf(k) = x.bundle[n]
  <2>1. KeyOK(k) /\ BundleOf(k) = x.bundle[n]
    BY <1>5 DEF Inv, Keys, BundleOf
  <2>2. k \notin landed /\ k \notin store
    BY <1>4, <2>1 DEF KeyOK
  <2>3. x.bundle[n] \in Bundle /\ BundleOK(x, n)
    BY <1>3 DEF Row, RowOK
  <2>4. x.bundle[n].writer # 0
    BY <1>4, VisualAssumption
  <2>5. x.bundle[n].state \in {"reserved", "purge_pending"}
    BY <2>1, <2>2, <2>3, <2>4, SMTT(60) DEF KeyOK, BundleOK, Bundle
  <2> QED
    BY <2>1, <2>2, <2>5
<1>17. \A u \in Version : Quiet(version[u], version'[u])
  BY <1>8 DEF QuietStep
<1>18. Keys'
  <2> SUFFICES ASSUME NEW l \in Key PROVE KeyOK(l)'
    BY DEF Keys
  <2>1. /\ KeyOK(l) /\ l[1] \in Version /\ l[2] \in Attempt
        /\ Quiet(version[l[1]], version'[l[1]])
    BY <1>17, KeyParts DEF Inv, Keys
  <2>2. /\ BundleOf(l)'.state # BundleOf(l).state
             => BundleOf(l)'.state = "purge_pending" /\ BundleOf(l).state # "absent"
        /\ version'[l[1]].state = "purged" => version[l[1]].state = "purged"
    BY <2>1 DEF Quiet, BundleOf
  <2>3. CASE l = k
    <3>1. version'[l[1]].state # "purged"
      BY <1>4, <1>5, <2>2, <2>3
    <3> QED
      BY <1>1, <1>11, <1>16, <2>2, <2>3, <3>1 DEF KeyOK
  <2>4. CASE l # k
    BY <1>1, <1>11, <1>12, <2>1, <2>2, <2>4 DEF KeyOK
  <2> QED
    BY <2>3, <2>4
<1>19. ~Remote => \A l \in Key : flight[l] > 0 => FALSE
  <2> SUFFICES ASSUME ~Remote, NEW l \in Key, flight[l] > 0 PROVE FALSE
    OBVIOUS
  <2>1. PutOf(l)
    BY DEF Inv, LocalPuts
  <2>2. l[1] = v /\ l[2] = n
    BY <1>3, <1>4, <2>1 DEF PutOf
  <2>3. PICK u \in Worker : work[u].pc = "flight" /\ work[u].at = l
    BY <2>1 DEF PutOf
  <2>4. work[u].pc \in Prepares
    BY <2>3 DEF Prepares
  <2>5. work[u].v = v /\ work[u].n = n
    BY <2>2, <2>3, <2>4, AtAttempt DEF ShapeOf, KeysOf
  <2>6. u = w
    BY <1>3, <2>5 DEF Inv, Attempts
  <2> QED
    BY <1>2, <2>3, <2>6
<1>20. LocalPuts'
  <2> SUFFICES ASSUME ~Remote, NEW l \in Key, flight'[l] > 0 PROVE PutOf(l)'
    BY DEF LocalPuts
  <2>1. \A j \in Key : flight'[j] > 0 => j = k
    BY <1>12, <1>19
  <2>2. l = k
    BY <2>1
  <2>3. flight'[k] < version'[k[1]].bundle[k[2]].writer
    BY <1>3, <1>4, <1>5, <1>7, <1>8, <1>12 DEF Quiet
  <2>4. work'[w].pc = "flight" /\ work'[w].at = k
    BY <1>9, <1>10
  <2>5. \A u \in Version : version'[u].prepare.writer > 0 =>
          k[1] = u /\ k[2] = version'[u].prepare.attempts
    <3>1. SUFFICES ASSUME NEW u \in Version, version'[u].prepare.writer > 0
                   PROVE  k[1] = u /\ k[2] = version'[u].prepare.attempts
      OBVIOUS
    <3>2. version[u].prepare.writer > 0 /\ version'[u].prepare.attempts = version[u].prepare.attempts
      BY <1>17, <3>1 DEF Quiet
    <3>3. u = v
      BY <1>3, <1>4, <3>2 DEF Inv, WritersSerial
    <3> QED
      BY <1>4, <1>5, <3>2, <3>3
  <2> QED
    BY <2>1, <2>2, <2>3, <2>4, <2>5 DEF PutOf, BundleOf
<1>21. WorkerOK(w)'
  <2>1. "flight" \in Prepares
    BY DEF Prepares
  <2>2. work[w].left \subseteq KeysOf(v, n) /\ k \in KeysOf(v, n)
    BY <1>2, <1>3 DEF ShapeOf
  <2> QED
    BY <1>2, <1>8, <1>9, <1>10, <1>13, <2>1, <2>2, GoesOn
<1>22. ASSUME NEW u \in Worker \ {w}, work[u].pc # "idle" PROVE RowsAround(u) /\ KeysAround(u)
  <2>1. Quiet(Job(u), version'[work[u].v])
    BY <1>17, <1>22, AtWork DEF Job
  <2>2. RowsAround(u)
    BY <1>22, <2>1, QuietAround
  <2>3. BundleOf(k).writer # 0
    BY <1>4, <1>16, VisualAssumption
  <2>4. KeysAround(u)
    BY <1>1, <1>12, <2>3 DEF KeysAround
  <2> QED
    BY <2>2, <2>4
<1>23. work'[w].n = work[w].n /\ work'[w].v = work[w].v
  BY <1>9, <1>10
<1> QED
  BY <1>10, <1>13, <1>14, <1>15, <1>18, <1>20, <1>21, <1>22, <1>23, CloseInv

\* A put begins, or the fence refuses.
LEMMA BeginPutStep ==
  ASSUME Inv, NEW w \in Worker, NEW k \in Key, BeginPut(w, k)
  PROVE  Inv'
<1>1. CASE MayDispatch(w, k)
  BY <1>1, DispatchedStep
<1>2. CASE ~MayDispatch(w, k)
  <2>1. work[w].pc \in Prepares \ {"flight"}
    BY DEF BeginPut, Prepares
  <2>2. FailTo(w, FALSE) /\ UNCHANGED <<version, write, flight>>
    BY <1>2 DEF BeginPut
  <2> QED
    BY <2>1, <2>2, FailingStep DEF BeginPut, ledger, external
<1> QED
  BY <1>1, <1>2

\* The bundle of the attempt that w holds is published with its version.
LEMMA PublishedStep ==
  ASSUME Inv, NEW w \in Worker, Publish(w), MayPublish(w)
  PROVE  Inv'
<1> DEFINE v == work[w].v
           n == work[w].n
           x == version[v]
           y == Ready(x, n)
<1>1. UNCHANGED <<profile, source, seen, write, absent, store, landed, flight, crashes>>
  BY DEF Publish, ledger, external
<1>2. work[w].pc = "publish" /\ work[w].pc \in Prepares
  BY DEF Publish, Prepares
<1>3. /\ v \in Version /\ n \in Attempt /\ x \in Row /\ RowOK(x) /\ AttemptOf(w)
      /\ work[w] \in Work /\ work \in [Worker -> Work] /\ version \in [Version -> Row] /\ n # 0
  BY <1>2, AtAttempt DEF Inv, TypeOK
<1>4. /\ x.state \in {"queued", "preparing"} /\ ~x.approved /\ x.bundle[n].state = "reserved"
      /\ profile.desired = v
  <2>1. Eligible(v) /\ x.bundle[n].state = "reserved"
    BY DEF MayPublish, Fence, Job
  <2> QED
    BY <1>3, <2>1 DEF Eligible, RowOK
<1>5. version' = [version EXCEPT ![v] = y] /\ work' = [work EXCEPT ![w] = Idle]
  BY <1>3 DEF Publish
<1>6. /\ y \in Row /\ RowOK(y) /\ y.state = "ready" /\ y.approved = x.approved
      /\ y.source = x.source /\ y.prepare.state \notin Active
      /\ y.prepare.attempts = x.prepare.attempts /\ y.prepare.holder = None
      /\ y.prepare.writer = 0 /\ y.bundle[n].state = "available"
      /\ \A m \in Attempt \ {n} : y.bundle[m] = x.bundle[m]
  BY <1>3, <1>4, ReadyRow
<1> HIDE DEF y
<1>7. /\ version' \in [Version -> Row] /\ version'[v] = y /\ RowsOK'
      /\ \A u \in Version \ {v} : version'[u] = version[u] /\ Quiet(version[u], version'[u])
  BY <1>3, <1>5, <1>6, OneRowOnly
<1>8. /\ work' \in [Worker -> Work] /\ work'[w] = Idle
      /\ \A u \in Worker \ {w} : work'[u] = work[u]
  BY <1>3, <1>5, IdleWork
<1>9. TypeOK'
  BY <1>1, <1>7, <1>8 DEF Inv, TypeOK
<1>10. WritersSerial'
  <2>1. \A u \in Version : version'[u].prepare.writer > 0 => u # v
    BY <1>6, <1>7
  <2>2. \A u \in Version : version'[u].prepare.writer > 0 => version[u].prepare.writer > 0
    BY <1>7, <2>1
  <2> QED
    BY <2>2 DEF Inv, WritersSerial
<1>11. Pointers'
  <2>1. ASSUME NEW u \in Version, version'[u].prepare.state \in Active PROVE profile.desired = u
    BY <1>6, <1>7, <2>1 DEF Inv, Pointers
  <2>2. version'[profile.desired].state = "ready"
    BY <1>4, <1>6, <1>7
  <2>3. ASSUME NEW u \in Version, version'[u].state = "ready", version'[u].approved
        PROVE  profile.current = u
    BY <1>4, <1>6, <1>7, <2>3 DEF Inv, Pointers
  <2>4. ASSUME profile.current # NoVersion PROVE Fit(profile.current)'
    <3> DEFINE c == profile.current
    <3>1. Fit(c) /\ c \in Version
      BY <2>4 DEF Inv, Pointers, TypeOK, Profile
    <3>2. c # v
      BY <1>4, <3>1 DEF Fit
    <3>3. version'[c] = version[c] /\ c' = c
      BY <1>1, <1>7, <3>1, <3>2
    <3>4. (version[c].state = "ready")' /\ (version[c].approved)' /\ (version[c].source \in source)'
      BY <1>1, <3>1, <3>3 DEF Fit
    <3>5. Published(c)' = Published(c)
      BY <3>3 DEF Published
    <3> HIDE DEF c
    <3> QED
      BY <3>1, <3>4, <3>5 DEF Fit, c
  <2>5. profile.enabled => profile.current # NoVersion
    BY DEF Inv, Pointers
  <2> QED
    BY <1>1, <2>1, <2>2, <2>3, <2>4, <2>5 DEF Pointers
<1>12. \A k \in Key : k[1] = v /\ k[2] = n => k \in store /\ flight[k] = 0
  <2> SUFFICES ASSUME NEW k \in Key, k[1] = v, k[2] = n PROVE k \in store /\ flight[k] = 0
    OBVIOUS
  <2>1. k \in store
    BY <1>2, <1>3, <1>4 DEF AttemptOf, Job, KeysOf
  <2> QED
    BY <2>1 DEF Inv, Keys, KeyOK
<1>13. \A k \in Key : ~(k[1] = v /\ k[2] = n) => BundleOf(k)' = BundleOf(k)
  BY <1>6, <1>7, KeyParts DEF BundleOf
<1>14. Keys'
  <2> SUFFICES ASSUME NEW k \in Key PROVE KeyOK(k)'
    BY DEF Keys
  <2>1. KeyOK(k) /\ k[1] \in Version
    BY KeyParts DEF Inv, Keys
  <2>2. version'[k[1]].state = "purged" => version[k[1]].state = "purged"
    BY <1>6, <1>7, <2>1
  <2>3. CASE k[1] = v /\ k[2] = n
    <3>1. BundleOf(k)'.state = "available" /\ version'[k[1]].state = "ready"
      BY <1>6, <1>7, <2>3 DEF BundleOf
    <3> QED
      BY <1>1, <1>12, <2>1, <2>3, <3>1 DEF KeyOK
  <2>4. CASE ~(k[1] = v /\ k[2] = n)
    <3>1. BundleOf(k)' = BundleOf(k)
      BY <1>13, <2>4
    <3> QED
      BY <1>1, <2>1, <2>2, <3>1 DEF KeyOK
  <2> QED
    BY <2>3, <2>4
<1>15. LocalPuts'
  <2> SUFFICES ASSUME ~Remote, NEW k \in Key, flight'[k] > 0 PROVE PutOf(k)'
    BY DEF LocalPuts
  <2>1. PutOf(k) /\ BundleOf(k)' = BundleOf(k)
    BY <1>1, <1>12, <1>13 DEF Inv, LocalPuts
  <2>2. \E u \in Worker : work'[u].pc = "flight" /\ work'[u].at = k
    BY <1>2, <1>8, <2>1 DEF PutOf
  <2>3. \A u \in Version : version'[u].prepare.writer > 0 =>
          k[1] = u /\ k[2] = version'[u].prepare.attempts
    BY <1>6, <1>7, <2>1 DEF PutOf
  <2> QED
    BY <1>1, <2>1, <2>2, <2>3 DEF PutOf
<1>16. WorkerOK(w)' /\ work'[w].n = 0
  BY <1>8, LaidDown
<1>17. ASSUME NEW u \in Worker \ {w}, work[u].pc # "idle" PROVE RowsAround(u) /\ KeysAround(u)
  <2>1. /\ work[u].v \in Version /\ Job(u).prepare.attempts \in Nat
        /\ work[u].n = 0 \/ work[u].n \in Attempt
    BY <1>17, AtWork
  <2>2. KeysAround(u)
    BY <1>1 DEF KeysAround
  <2>3. CASE work[u].v # v
    <3>1. Quiet(Job(u), version'[work[u].v])
      BY <1>7, <2>1, <2>3 DEF Job
    <3> QED
      BY <1>17, <2>2, <3>1, QuietAround
  <2>4. CASE work[u].v = v
    <3>1. Job(u) = x /\ version'[work[u].v] = y
      BY <1>7, <2>4 DEF Job
    <3>2. work[u].n # n
      BY <1>3, <2>4 DEF Inv, Attempts
    <3>3. work[u].n # 0 /\ y.bundle[work[u].n].state = "reserved"
            => x.bundle[work[u].n].state = "reserved"
      BY <1>6, <2>1, <3>2
    <3>4. \A m \in Attempt :
            x.bundle[m].state \in {"purge_pending", "purged"} /\ x.bundle[m].writer = 0
              => y.bundle[m].state \in {"purge_pending", "purged"} /\ y.bundle[m].writer = 0
      BY <1>4, <1>6
    <3>5. /\ y.state = "ready" /\ y.prepare.attempts = x.prepare.attempts
          /\ y.prepare.holder # u
      BY <1>6, VisualAssumption
    <3> HIDE DEF x
    <3> QED
      BY <2>1, <2>2, <3>1, <3>3, <3>4, <3>5 DEF RowsAround
  <2> QED
    BY <2>3, <2>4
<1> QED
  BY <1>7, <1>8, <1>9, <1>10, <1>11, <1>14, <1>15, <1>16, <1>17, CloseInv

\* A bundle is published, or left for its worker to clean.
LEMMA PublishStep ==
  ASSUME Inv, NEW w \in Worker, Publish(w)
  PROVE  Inv'
BY PublishedStep, StalePublishStep

\* The targets of w are marked purged, and their version with them once nothing of it
\* is left.
LEMMA CommittedStep ==
  ASSUME Inv, NEW w \in Worker, Commit(w), PurgeLeased(w)
  PROVE  Inv'
<1> DEFINE v == work[w].v
           targets == work[w].targets
           x == version[v]
           y == AfterPurge(x, targets)
<1>1. UNCHANGED <<profile, source, seen, write, absent, store, landed, flight, crashes>>
  BY DEF Commit, ledger, external
<1>2. work[w].pc = "erase" /\ work[w].pc \in Erasing /\ work[w].left = {}
  BY DEF Commit, Erasing
<1>3. /\ v \in Version /\ x \in Row /\ RowOK(x) /\ x.state # "absent" /\ PurgeOf(w)
      /\ work[w] \in Work /\ work \in [Worker -> Work] /\ version \in [Version -> Row]
      /\ targets \in SUBSET Attempt
  BY <1>2, AtPurge DEF Inv, TypeOK, Work
<1>4. version' = [version EXCEPT ![v] = y] /\ work' = [work EXCEPT ![w] = Idle]
  BY <1>3 DEF Commit
<1>5. \A n \in targets : x.bundle[n].state \in {"purge_pending", "purged"} /\ x.bundle[n].writer = 0
  BY <1>3 DEF PurgeOf, Job
<1>6. /\ y \in Row /\ RowOK(y)
      /\ y.approved = x.approved /\ y.source = x.source /\ y.prepare = x.prepare
      /\ \/ y.state = x.state
         \/ /\ x.state = "purge_pending" /\ y.state = "purged"
            /\ \A m \in Attempt : y.bundle[m].state \in {"absent", "purged"}
      /\ \A m \in Attempt :
           /\ m \in targets => y.bundle[m].state = "purged"
           /\ m \notin targets => y.bundle[m] = x.bundle[m]
           /\ y.bundle[m].writer = x.bundle[m].writer
  BY <1>3, <1>5, PurgedRow
<1> HIDE DEF y
<1>7. /\ version' \in [Version -> Row] /\ version'[v] = y /\ RowsOK'
      /\ \A u \in Version \ {v} : version'[u] = version[u] /\ Quiet(version[u], version'[u])
  BY <1>3, <1>4, <1>6, OneRowOnly
<1>8. /\ work' \in [Worker -> Work] /\ work'[w] = Idle
      /\ \A u \in Worker \ {w} : work'[u] = work[u]
  BY <1>3, <1>4, IdleWork
<1>9. TypeOK'
  BY <1>1, <1>7, <1>8 DEF Inv, TypeOK
<1>10. \A u \in Version : version'[u].prepare = version[u].prepare
  BY <1>6, <1>7
<1>11. WritersSerial'
  BY <1>10 DEF Inv, WritersSerial
<1>12. Pointers'
  <2>1. \A m \in Attempt : y.bundle[m].state = "available" <=> x.bundle[m].state = "available"
    BY <1>5, <1>6
  <2>2. Steady(x, y)
    BY <1>6, <2>1 DEF Steady
  <2>3. \A u \in Version : Steady(version[u], version'[u])
    BY <1>7, <2>2 DEF Steady
  <2> QED
    BY <1>1, <1>7, <1>9, <2>3, SteadyPointers
<1>13. \A k \in Key : IsTarget(w, k) => k \notin store /\ flight[k] = 0
  BY <1>2, <1>3 DEF PurgeOf
<1>14. \A k \in Key : ~IsTarget(w, k) => BundleOf(k)' = BundleOf(k)
  BY <1>6, <1>7, KeyParts DEF BundleOf, IsTarget
<1>15. \A k \in Key : IsTarget(w, k) => BundleOf(k)'.state = "purged"
  BY <1>6, <1>7, KeyParts DEF BundleOf, IsTarget
<1>16. \A k \in Key : BundleOf(k)'.state \in {"absent", "purged"} => k \notin store /\ flight[k] = 0
  <2> SUFFICES ASSUME NEW k \in Key, BundleOf(k)'.state \in {"absent", "purged"}
               PROVE  k \notin store /\ flight[k] = 0
    OBVIOUS
  <2>1. CASE IsTarget(w, k)
    BY <1>13, <2>1
  <2>2. CASE ~IsTarget(w, k)
    <3>1. BundleOf(k)' = BundleOf(k) /\ KeyOK(k) /\ flight[k] \in Nat
      BY <1>14, <2>2, VisualAssumption DEF Inv, Keys, TypeOK
    <3> QED
      BY <3>1 DEF KeyOK
  <2> QED
    BY <2>1, <2>2
<1>17. Keys'
  <2> SUFFICES ASSUME NEW k \in Key PROVE KeyOK(k)'
    BY DEF Keys
  <2>1. KeyOK(k) /\ k[1] \in Version /\ k[2] \in Attempt
    BY KeyParts DEF Inv, Keys
  <2>2. version'[k[1]].state = "purged" =>
          version[k[1]].state = "purged" \/ BundleOf(k)'.state \in {"absent", "purged"}
    BY <1>6, <1>7, <2>1 DEF BundleOf
  <2>3. CASE IsTarget(w, k)
    BY <1>1, <1>13, <1>15, <2>1, <2>3 DEF KeyOK
  <2>4. CASE ~IsTarget(w, k)
    <3>1. BundleOf(k)' = BundleOf(k)
      BY <1>14, <2>4
    <3>2. version'[k[1]].state = "purged" => k \notin store /\ flight[k] = 0
      BY <1>16, <2>1, <2>2 DEF KeyOK
    <3> QED
      BY <1>1, <2>1, <3>1, <3>2 DEF KeyOK
  <2> QED
    BY <2>3, <2>4
<1>18. LocalPuts'
  <2> SUFFICES ASSUME ~Remote, NEW k \in Key, flight'[k] > 0 PROVE PutOf(k)'
    BY DEF LocalPuts
  <2>1. PutOf(k) /\ BundleOf(k)' = BundleOf(k)
    BY <1>1, <1>13, <1>14 DEF Inv, LocalPuts
  <2>2. \E u \in Worker : work'[u].pc = "flight" /\ work'[u].at = k
    BY <1>2, <1>8, <2>1 DEF PutOf
  <2> QED
    BY <1>1, <1>10, <2>1, <2>2 DEF PutOf
<1>19. WorkerOK(w)' /\ work'[w].n = 0
  BY <1>8, LaidDown
<1>20. ASSUME NEW u \in Worker \ {w}, work[u].pc # "idle" PROVE RowsAround(u) /\ KeysAround(u)
  <2>1. /\ work[u].v \in Version /\ Job(u).prepare.attempts \in Nat
        /\ work[u].n = 0 \/ work[u].n \in Attempt
    BY <1>20, AtWork
  <2>2. KeysAround(u)
    BY <1>1 DEF KeysAround
  <2>3. CASE work[u].v # v
    <3>1. Quiet(Job(u), version'[work[u].v])
      BY <1>7, <2>1, <2>3 DEF Job
    <3> QED
      BY <1>20, <2>2, <3>1, QuietAround
  <2>4. CASE work[u].v = v
    <3>1. Job(u) = x /\ version'[work[u].v] = y
      BY <1>7, <2>4 DEF Job
    <3>2. \A m \in Attempt : y.bundle[m].state = "reserved" => x.bundle[m].state = "reserved"
      BY <1>6
    <3>3. \A m \in Attempt :
            x.bundle[m].state \in {"purge_pending", "purged"} /\ x.bundle[m].writer = 0
              => y.bundle[m].state \in {"purge_pending", "purged"} /\ y.bundle[m].writer = 0
      BY <1>6
    <3>4. y.state # "absent" /\ y.prepare = x.prepare
      BY <1>3, <1>6
    <3> HIDE DEF x
    <3> QED
      BY <2>1, <2>2, <3>1, <3>2, <3>3, <3>4 DEF RowsAround
  <2> QED
    BY <2>3, <2>4
<1> QED
  BY <1>7, <1>8, <1>9, <1>11, <1>12, <1>17, <1>18, <1>19, <1>20, CloseInv

\* A purge ends, if it still holds its lease.
LEMMA CommitStep ==
  ASSUME Inv, NEW w \in Worker, Commit(w)
  PROVE  Inv'
BY CommittedStep, LateCommitStep

-----------------------------------------------------------------------------
\* The invariant holds at first, and every step keeps it.

\* The row of a version that nobody has asked for.
LEMMA AbsentRow ==
  LET x == [state |-> "absent", source |-> None, approved |-> FALSE, expired |-> FALSE,
            prepare |-> [state |-> "none", attempts |-> 0, holder |-> None,
                         lease |-> 0, writer |-> 0, wait |-> 0],
            purge |-> [state |-> "none", holder |-> None, lease |-> 0, wait |-> 0],
            bundle |-> [n \in Attempt |-> [state |-> "absent", writer |-> 0]]]
  IN  /\ x \in Row /\ RowOK(x) /\ x.state = "absent"
      /\ x.prepare.state \notin Active /\ x.prepare.writer = 0
      /\ \A n \in Attempt : x.bundle[n] = [state |-> "absent", writer |-> 0]
<1> DEFINE p == [state |-> "none", attempts |-> 0, holder |-> None,
                 lease |-> 0, writer |-> 0, wait |-> 0]
           q == [state |-> "none", holder |-> None, lease |-> 0, wait |-> 0]
           r == [state |-> "absent", writer |-> 0]
           b == [n \in Attempt |-> r]
           x == [state |-> "absent", source |-> None, approved |-> FALSE, expired |-> FALSE,
                 prepare |-> p, purge |-> q, bundle |-> b]
<1>1. p \in Prepare /\ p.state \notin Active /\ p.writer = 0
  <2>1. /\ 0 \in 0..MaxAttempts /\ 0 \in 0..LeaseTTL /\ 0 \in 0..WriterTTL /\ 0 \in 0..RetryTTL
    BY VisualAssumption
  <2> QED
    BY <2>1 DEF Prepare, Active
<1>2. q \in Purge /\ q.state = "none"
  <2>1. 0 \in 0..LeaseTTL /\ 0 \in 0..(RetryTTL + TransitionTTL)
    BY VisualAssumption
  <2> QED
    BY <2>1 DEF Purge
<1>3. r \in Bundle /\ r.state = "absent" /\ r.writer = 0
  BY VisualAssumption DEF Bundle
<1> HIDE DEF p, q, r
<1>4. b \in [Attempt -> Bundle] /\ \A n \in Attempt : b[n] = r
  BY <1>3
<1> HIDE DEF b
<1>5. /\ x \in Row /\ x.state = "absent" /\ x.source = None /\ ~x.approved
      /\ x.prepare = p /\ x.purge = q /\ x.bundle = b
  BY <1>1, <1>2, <1>4 DEF Row
<1> HIDE DEF x
<1>6. \A n \in Attempt : BundleOK(x, n)
  BY <1>3, <1>4, <1>5 DEF BundleOK
<1>7. RowOK(x)
  BY <1>1, <1>2, <1>5, <1>6 DEF RowOK
<1> QED
  BY <1>1, <1>4, <1>5, <1>7 DEF x, p, q, b, r

\* Nothing has happened yet.
LEMMA InitInv ==
  ASSUME Init
  PROVE  Inv
<1>1. /\ version \in [Version -> Row]
      /\ \A v \in Version :
           /\ RowOK(version[v]) /\ version[v].state = "absent"
           /\ version[v].prepare.state \notin Active /\ version[v].prepare.writer = 0
           /\ \A n \in Attempt : version[v].bundle[n] = [state |-> "absent", writer |-> 0]
  BY AbsentRow DEF Init
<1>2. /\ profile = [current |-> NoVersion, desired |-> NoVersion,
                    enabled |-> FALSE, deleted |-> FALSE]
      /\ source = Source /\ seen = [t \in Tab |-> None]
      /\ work = [w \in Worker |-> Idle]
      /\ write = [k \in Key |-> "reserved"]
      /\ absent = [k \in Key |-> [checks |-> 0, rest |-> AbsenceTTL]]
      /\ store = {} /\ landed = {} /\ flight = [k \in Key |-> 0] /\ crashes = 0
  BY DEF Init
<1>3. TypeOK
  <2>1. profile \in Profile
    BY <1>2 DEF Profile
  <2>2. work \in [Worker -> Work]
    BY <1>2, IdleWork
  <2>3. absent \in [Key -> Absence]
    BY <1>2, VisualAssumption DEF Absence
  <2>4. flight \in [Key -> 0..PutTTL] /\ crashes \in 0..MaxCrash
    BY <1>2, VisualAssumption
  <2>5. write \in [Key -> {"reserved", "dispatching", "confirmed"}]
    BY <1>2
  <2>6. seen \in [Tab -> Profile \cup {None}]
    BY <1>2
  <2>7. source \subseteq Source /\ store \subseteq Key /\ landed \subseteq Key
    BY <1>2
  <2> QED
    BY <1>1, <2>1, <2>2, <2>3, <2>4, <2>5, <2>6, <2>7 DEF TypeOK
<1>4. RowsOK /\ WritersSerial
  BY <1>1 DEF RowsOK, WritersSerial
<1>5. Pointers
  BY <1>1, <1>2 DEF Pointers
<1>6. \A w \in Worker : work[w].pc = "idle" /\ work[w].n = 0
  BY <1>2, IdleWork
<1>7. Shape /\ Attempts /\ Purges
  BY <1>6 DEF Shape, ShapeOf, Attempts, Purges, Prepares, Erasing
<1>8. Keys
  <2> SUFFICES ASSUME NEW k \in Key PROVE KeyOK(k)
    BY DEF Keys
  <2>1. k \notin store /\ k \notin landed /\ flight[k] = 0
    BY <1>2
  <2>2. BundleOf(k) = [state |-> "absent", writer |-> 0]
    BY <1>1, KeyParts DEF BundleOf
  <2>3. BundleOf(k).state = "absent"
    BY <2>2
  <2> QED
    BY <2>1, <2>3 DEF KeyOK
<1>9. LocalPuts
  BY <1>2 DEF LocalPuts
<1> QED
  BY <1>3, <1>4, <1>5, <1>7, <1>8, <1>9 DEF Inv

\* A step that changes nothing.
LEMMA StutterStep ==
  ASSUME Inv, UNCHANGED vars
  PROVE  Inv'
<1>1. UNCHANGED <<profile, version, source, seen, work, write, absent, store, landed,
                  flight, crashes>>
  BY DEF vars
<1>2. TypeOK'
  BY <1>1 DEF Inv, TypeOK
<1>3. QuietStep /\ Pointers'
  BY <1>1, SameRows, SamePointers
<1> QED
  BY <1>1, <1>2, <1>3, QuietInv

\* Every command of the owner keeps the invariant.
LEMMA CommandStep ==
  ASSUME Inv, Command
  PROVE  Inv'
<1>1. ASSUME NEW t \in Tab, NEW v \in Version, NEW s \in Source, Admit(t, v, s) PROVE Inv'
  BY <1>1, AdmitStep
<1> QED
  BY <1>1, ReadStep, DeleteStep, ActivateStep, ToggleStep, SourceDeleteStep, ExpireStep
     DEF Command

\* Every step of a worker keeps the invariant.
LEMMA LabourStep ==
  ASSUME Inv, NEW w \in Worker, Labour(w)
  PROVE  Inv'
<1>1. CASE ClaimPurge(w) \/ ClaimPrepare(w) \/ ClaimNothing(w)
  BY <1>1, ClaimPurgeStep, ClaimPrepareStep, ClaimNothingStep
<1>2. CASE Preparing(w)
  BY <1>2, LoadStep, FailsStep, ReserveStep, BeginPutStep, PutReturnsStep, PutFailsStep,
     VerifiedStep, PublishStep, CleanupStep, SettleStep DEF Preparing
<1>3. CASE Purging(w)
  BY <1>3, LookStep, ProveStep, EraseStep, SweepRemoteStep, CountStep, ProvedStep,
     EraseFailsStep, DeferStep, CommitStep DEF Purging
<1> QED
  BY <1>1, <1>2, <1>3 DEF Labour

\* The invariant is inductive.
LEMMA InvStep ==
  ASSUME Inv, [Next]_vars
  PROVE  Inv'
<1>1. CASE Command
  BY <1>1, CommandStep
<1>2. ASSUME NEW w \in Worker, Labour(w) \/ Heartbeat(w) \/ Crash(w) PROVE Inv'
  BY <1>2, LabourStep, HeartbeatStep, CrashStep
<1>3. ASSUME NEW k \in Key, Land(k) PROVE Inv'
  BY <1>3, LandStep
<1>4. CASE Tick
  BY <1>4, TickStep
<1>5. CASE UNCHANGED vars
  BY <1>5, StutterStep
<1> QED
  BY <1>1, <1>2, <1>3, <1>4, <1>5 DEF Next

\* Every reachable state satisfies the inductive invariant.
LEMMA Invariant == Spec => []Inv
<1>1. Init => Inv
  BY InitInv
<1>2. Inv /\ [Next]_vars => Inv'
  BY InvStep
<1> QED
  BY <1>1, <1>2, PTL DEF Spec

-----------------------------------------------------------------------------
\* The theorems.

\* The rows of the companion, what the workers hold in memory, the ledgers and the store
\* keep their types: no row is left in a state that the tables and the worker do not know.
THEOREM TypeCorrect == Spec => []TypeOK
<1>1. Inv => TypeOK
  BY DEF Inv
<1> QED
  BY <1>1, Invariant, PTL

\* Whatever puts land late, and whichever leases are lost: what the rows call purged has no
\* object in the store and none on its way, and the current version is approved, from a
\* source that exists, and has all objects of its one published bundle.
THEOREM StoreFollowsRows == Spec => []StoreMatchesRows
<1>1. ASSUME Inv PROVE PurgedMeansErased
  <2> SUFFICES ASSUME NEW k \in Key,
                      version[k[1]].state = "purged" \/ version[k[1]].bundle[k[2]].state = "purged"
               PROVE  k \notin store /\ flight[k] = 0
    BY DEF PurgedMeansErased
  <2>1. KeyOK(k) /\ flight[k] \in Nat
    BY <1>1, VisualAssumption DEF Inv, Keys, TypeOK
  <2> QED
    BY <2>1 DEF KeyOK, BundleOf
<1>2. ASSUME Inv PROVE CurrentIsServable
  <2> DEFINE v == profile.current
  <2>1. v # NoVersion => v \in Version /\ Fit(v)
    BY <1>2 DEF Inv, Pointers, TypeOK, Profile
  <2>2. ASSUME v # NoVersion, NEW n \in Attempt, Published(v) = {n} PROVE KeysOf(v, n) \subseteq store
    <3>1. version[v].bundle[n].state = "available"
      BY <2>2 DEF Published
    <3> QED
      BY <1>2, <3>1 DEF Inv, Keys, KeyOK, BundleOf, KeysOf
  <2>3. profile.enabled => v # NoVersion
    BY <1>2 DEF Inv, Pointers
  <2> HIDE DEF v
  <2>4. v # NoVersion =>
          /\ version[v].state = "ready" /\ version[v].approved
          /\ version[v].source \in source
          /\ \E n \in Attempt : Published(v) = {n} /\ KeysOf(v, n) \subseteq store
    BY <2>1, <2>2 DEF Fit
  <2> QED
    BY <2>3, <2>4 DEF CurrentIsServable, v
<1>3. Inv => StoreMatchesRows
  BY <1>1, <1>2 DEF StoreMatchesRows
<1> QED
  BY <1>3, Invariant, PTL

\* Over either store, only the version the owner wants has an active preparation, and at
\* most one preparation is inside its writer window.
THEOREM WantedPreparedAlone == Spec => [](OnlyDesiredPrepared /\ WritersSerial)
<1>1. Inv => OnlyDesiredPrepared /\ WritersSerial
  BY DEF Inv, OnlyDesiredPrepared, Pointers, RowsOK, RowOK
<1> QED
  BY <1>1, Invariant, PTL

\* Over a local store, whose puts end with the process that makes them, preparations are
\* serial altogether: at most one put is on its way.
THEOREM PreparationsSerial ==
  ASSUME ~Remote
  PROVE  Spec => []OnePreparation
<1>1. ASSUME Inv PROVE SerialPrepare
  <2>1. \A k, l \in Key : flight[k] > 0 /\ flight[l] > 0 => k = l
    BY <1>1 DEF Inv, LocalPuts, PutOf
  <2> QED
    BY <1>1, <2>1 DEF Inv, WritersSerial, SerialPrepare
<1>2. Inv => OnePreparation
  BY <1>1 DEF Inv, OnePreparation, OnlyDesiredPrepared, Pointers, RowsOK, RowOK
<1> QED
  BY <1>2, Invariant, PTL

\* A step leaves profile and tabs alone, lets one tab read, or outdates every tab.
LEMMA RevisionStep ==
  ASSUME [Next]_vars
  PROVE  \/ seen' = Outdated
         \/ UNCHANGED <<profile, seen>>
         \/ profile' = profile /\ \E t \in Tab : seen' = [seen EXCEPT ![t] = profile]
<1>1. CASE Command
  <2>1. ASSUME NEW t \in Tab, NEW v \in Version, NEW s \in Source, Admit(t, v, s)
        PROVE  seen' = Outdated
    BY <2>1 DEF Admit
  <2>2. ASSUME NEW t \in Tab, Delete(t) PROVE seen' = Outdated
    BY <2>2 DEF Delete
  <2>3. ASSUME NEW t \in Tab, NEW v \in Version, Activate(t, v) PROVE seen' = Outdated
    BY <2>3 DEF Activate
  <2>4. ASSUME NEW t \in Tab, NEW enabled \in BOOLEAN, Toggle(t, enabled) PROVE seen' = Outdated
    BY <2>4 DEF Toggle
  <2>5. ASSUME NEW s \in Source, SourceDelete(s)
        PROVE  seen' = Outdated \/ UNCHANGED <<profile, seen>>
    BY <2>5 DEF SourceDelete
  <2>6. ASSUME NEW t \in Tab, Read(t)
        PROVE  profile' = profile /\ seen' = [seen EXCEPT ![t] = profile]
    BY <2>6 DEF Read
  <2>7. ASSUME NEW v \in Version, Expire(v) PROVE UNCHANGED <<profile, seen>>
    BY <2>7 DEF Expire
  <2> QED
    BY <1>1, <2>1, <2>2, <2>3, <2>4, <2>5, <2>6, <2>7 DEF Command
<1>2. ASSUME NEW S, NEW rows, Retire(S, rows)
      PROVE  seen' = Outdated \/ UNCHANGED <<profile, seen>>
  BY <1>2 DEF Retire
<1>3. ASSUME NEW w \in Worker, Labour(w) PROVE seen' = Outdated \/ UNCHANGED <<profile, seen>>
  <2>1. CASE ClaimPurge(w)
    BY <1>2, <2>1 DEF ClaimPurge
  <2>2. CASE ClaimPrepare(w)
    BY <1>2, <2>2 DEF ClaimPrepare
  <2>3. CASE ClaimNothing(w)
    BY <1>2, <2>3 DEF ClaimNothing
  <2>4. CASE Settle(w)
    BY <1>2, <2>4 DEF Settle
  <2>5. CASE Preparing(w) /\ ~Settle(w)
    BY <2>5 DEF Preparing, Load, Fails, Reserve, BeginPut, PutReturns, PutFails, Verified,
       Publish, Cleanup
  <2>6. CASE Purging(w)
    BY <2>6 DEF Purging, Look, Prove, Erase, SweepRemote, Count, Proved, EraseFails, Defer,
       Commit
  <2> QED
    BY <1>3, <2>1, <2>2, <2>3, <2>4, <2>5, <2>6 DEF Labour
<1>4. ASSUME NEW w \in Worker, Heartbeat(w) \/ Crash(w) PROVE UNCHANGED <<profile, seen>>
  BY <1>4 DEF Heartbeat, Crash
<1>5. ASSUME (\E k \in Key : Land(k)) \/ Tick \/ UNCHANGED vars PROVE UNCHANGED <<profile, seen>>
  BY <1>5 DEF Land, Tick, vars
<1> QED
  BY <1>1, <1>3, <1>4, <1>5 DEF Next

\* Also after a crash each object belongs to a registered bundle, what nobody will publish
\* has a job that finds it, and a tab that knows the revision knows the whole profile.
THEOREM RowsTellAll == Spec => []RowsAccount
<1>1. ASSUME Inv PROVE NothingForgotten
  <2>1. \A k \in store :
          version[k[1]].bundle[k[2]].state \in {"reserved", "available", "purge_pending"}
    BY <1>1 DEF Inv, TypeOK, Keys, KeyOK, BundleOf
  <2>2. \A v \in Version, n \in Attempt :
          /\ version[v].bundle[n].state = "reserved" => version[v].prepare.state = "running"
          /\ version[v].bundle[n].state = "purge_pending" => version[v].purge.state \in Active
    BY <1>1 DEF Inv, RowsOK, RowOK, BundleOK
  <2>3. \A v \in Version : version[v].state = "purge_pending" => version[v].purge.state \in Active
    BY <1>1 DEF Inv, RowsOK, RowOK
  <2> QED
    BY <2>1, <2>2, <2>3 DEF NothingForgotten
<1>2. Init => RevisionTells
  BY DEF Init, RevisionTells
<1>3. ASSUME Inv, RevisionTells, [Next]_vars PROVE RevisionTells'
  <2>1. seen \in [Tab -> Profile \cup {None}]
    BY <1>3 DEF Inv, TypeOK
  <2>2. CASE seen' = Outdated
    BY <2>2 DEF RevisionTells, Outdated
  <2>3. CASE UNCHANGED <<profile, seen>>
    BY <1>3, <2>3 DEF RevisionTells
  <2>4. ASSUME profile' = profile, NEW t \in Tab, seen' = [seen EXCEPT ![t] = profile]
        PROVE  RevisionTells'
    BY <1>3, <2>1, <2>4 DEF RevisionTells
  <2> QED
    BY <1>3, <2>2, <2>3, <2>4, RevisionStep
<1>4. Inv /\ RevisionTells => RowsAccount
  BY <1>1 DEF RowsAccount
<1>5. Inv /\ RevisionTells /\ [Next]_vars => RevisionTells'
  BY <1>3
<1> QED
  BY <1>2, <1>4, <1>5, Invariant, PTL DEF Spec

-----------------------------------------------------------------------------
\* Every version lives the life of VisualConsent.

\* How far the version with the rows x has come.
StageOf(x) ==
  CASE x.state = "absent" -> "none"
    [] x.state \in {"queued", "preparing", "failed"} -> "asked"
    [] x.state = "ready" -> IF x.approved THEN "live" ELSE "offered"
    [] x.state = "purge_pending" -> "withdrawn"
    [] x.state = "purged" -> "erased"

\* The rows x and y are of the same stage.
SameStage(x, y) ==
  \/ y.state = x.state /\ y.approved = x.approved
  \/ {x.state, y.state} \subseteq {"queued", "preparing", "failed"}

\* The stages of the refinement mapping, before and after a step.
LEMMA StageBar ==
  /\ stageBar = [v \in Version |-> StageOf(version[v])]
  /\ stageBar' = [v \in Version |-> StageOf(version'[v])]
BY DEF stageBar, StageOf

\* The values of StageOf.
LEMMA StageValues ==
  ASSUME NEW x \in Row
  PROVE  /\ StageOf(x) = "none" <=> x.state = "absent"
         /\ StageOf(x) = "asked" <=> x.state \in {"queued", "preparing", "failed"}
         /\ StageOf(x) = "offered" <=> x.state = "ready" /\ ~x.approved
         /\ StageOf(x) = "live" <=> x.state = "ready" /\ x.approved
         /\ StageOf(x) = "withdrawn" <=> x.state = "purge_pending"
         /\ StageOf(x) = "erased" <=> x.state = "purged"
<1>1. x.state \in {"absent", "queued", "preparing", "ready", "failed", "purge_pending", "purged"}
  BY DEF Row
<1> QED
  BY <1>1 DEF StageOf

\* Rows of the same stage.
LEMMA StageKept ==
  ASSUME NEW x, NEW y, SameStage(x, y)
  PROVE  StageOf(y) = StageOf(x)
BY DEF StageOf, SameStage

\* The live versions are the current one, if there is one.
LEMMA LiveIsCurrent ==
  ASSUME Inv
  PROVE  /\ \A v \in Version : stageBar[v] = "live" <=> v = profile.current
         /\ Consent!Live = {profile.current} \cap Version
<1>1. \A v \in Version : version[v] \in Row
  BY DEF Inv, TypeOK
<1>2. \A v \in Version : version[v].state = "ready" /\ version[v].approved <=> v = profile.current
  <2>1. NoVersion \notin Version
    BY DEF NoVersion, Version
  <2> QED
    BY <2>1 DEF Inv, Pointers, Fit
<1>3. \A v \in Version : stageBar[v] = "live" <=> v = profile.current
  BY <1>1, <1>2, StageBar, StageValues
<1> QED
  BY <1>3 DEF Consent!Live

\* A step that leaves every version where it is.
LEMMA StageStutter ==
  ASSUME \A v \in Version : SameStage(version[v], version'[v]),
         profile'.enabled = profile.enabled
  PROVE  UNCHANGED Consent!consent
<1>1. \A v \in Version : StageOf(version'[v]) = StageOf(version[v])
  BY StageKept
<1>2. stageBar' = stageBar
  BY <1>1, StageBar
<1> QED
  BY <1>2 DEF Consent!consent

\* A step that leaves the rows alone, or one that touches one row within its stage.
LEMMA OneStage ==
  ASSUME version \in [Version -> Row], NEW v \in Version, NEW y, SameStage(version[v], y),
         version' = [version EXCEPT ![v] = y], profile' = profile
  PROVE  UNCHANGED Consent!consent
<1>1. \A u \in Version : SameStage(version[u], version'[u])
  BY DEF SameStage
<1> QED
  BY <1>1, StageStutter

\* A step that withdraws the versions of W.
LEMMA WithdrawMaps ==
  ASSUME Inv, TypeOK', NEW W \in SUBSET Version,
         \A v \in W : /\ version[v].state \in {"queued", "preparing", "failed", "ready"}
                      /\ version'[v].state = "purge_pending",
         \A v \in Version \ W : SameStage(version[v], version'[v]),
         profile'.enabled = (profile.enabled /\ profile.current \notin W)
  PROVE  Consent!Withdraw(W)
<1>1. \A v \in Version : version[v] \in Row /\ version'[v] \in Row
  BY DEF Inv, TypeOK
<1>2. \A v \in W : stageBar[v] \in {"asked", "offered", "live"}
  <2> SUFFICES ASSUME NEW v \in W PROVE StageOf(version[v]) \in {"asked", "offered", "live"}
    BY StageBar
  <2> QED
    BY <1>1, StageValues
<1>3. stageBar' = Consent!Moved(W, {}, "withdrawn")
  <2>1. \A v \in Version :
          StageOf(version'[v]) = IF v \in W THEN "withdrawn" ELSE StageOf(version[v])
    BY <1>1, StageValues, StageKept
  <2> QED
    BY <2>1, StageBar DEF Consent!Moved
<1>4. profile.enabled => (profile.current \notin W <=> Consent!Live \cap W = {})
  <2>1. profile.enabled => profile.current \in Version
    BY DEF Inv, TypeOK, Profile, Pointers
  <2> QED
    BY <2>1, LiveIsCurrent
<1>5. profile'.enabled = (profile.enabled /\ Consent!Live \cap W = {})
  BY <1>4
<1> QED
  BY <1>2, <1>3, <1>5 DEF Consent!Withdraw

\* The profile of a transaction that retires versions keeps its switch and its face.
LEMMA RetiredMaps ==
  ASSUME Inv, TypeOK', NEW S, NEW rows, Retire(S, rows), NEW W \in SUBSET Version,
         profile.current \notin W,
         \A v \in W : /\ version[v].state \in {"queued", "preparing", "failed", "ready"}
                      /\ rows[v].state = "purge_pending",
         \A v \in Version \ W : SameStage(version[v], rows[v])
  PROVE  Consent!Withdraw(W)
<1>1. TypeOK
  BY DEF Inv
<1>2. version' = rows /\ profile'.enabled = profile.enabled
  BY <1>1, RetiredProfile
<1>3. profile'.enabled = (profile.enabled /\ profile.current \notin W)
  <2>1. profile.enabled \in BOOLEAN /\ profile'.enabled \in BOOLEAN
    BY DEF Inv, TypeOK, Profile
  <2> QED
    BY <1>2, <2>1
<1> QED
  BY <1>2, <1>3, WithdrawMaps

\* A request: a fresh version is asked for, and a candidate before it is withdrawn.
LEMMA AdmitMaps ==
  ASSUME Inv, TypeOK', NEW t \in Tab, NEW v \in Version, NEW s \in Source, Admit(t, v, s)
  PROVE  Consent!Ask(v, Superseded)
<1> DEFINE rows == WithdrawnSet(Superseded)
           y == Requested(s)
<1>1. /\ version[v].state = "absent" /\ version' = [rows EXCEPT ![v] = y]
      /\ profile' = [profile EXCEPT !.desired = v, !.deleted = FALSE]
  BY DEF Admit
<1>2. profile'.enabled = profile.enabled
  BY <1>1 DEF Inv, TypeOK, Profile
<1>3. /\ Superseded \in SUBSET Version /\ v \notin Superseded
      /\ \A u \in Superseded :
           /\ version[u].state \in {"queued", "preparing", "failed", "ready"}
           /\ u # profile.current
  BY <1>1 DEF Superseded, Inv, TypeOK, Profile, Pointers
<1>4. /\ rows \in [Version -> Row]
      /\ \A u \in Version :
           /\ u \notin Superseded => rows[u] = version[u]
           /\ u \in Superseded => rows[u].state = "purge_pending"
  <2>1. \A u \in Superseded : version[u].state # "absent" /\ version[u].state # "purged"
    BY <1>3
  <2> QED
    BY <1>3, <2>1, WithdrawnRows DEF Inv, TypeOK
<1>5. y \in Row /\ y.state = "queued"
  BY RequestedRow
<1> HIDE DEF rows, y
<1>6. version'[v] = y /\ \A u \in Version \ {v} : version'[u] = rows[u]
  BY <1>1, <1>4, <1>5
<1>7. \A u \in Version : version[u] \in Row /\ version'[u] \in Row
  BY DEF Inv, TypeOK
<1>8. stageBar[v] = "none"
  BY <1>1, <1>7, StageBar, StageValues
<1>9. \A u \in Superseded : stageBar[u] \in {"asked", "offered"}
  <2> SUFFICES ASSUME NEW u \in Superseded PROVE StageOf(version[u]) \in {"asked", "offered"}
    BY <1>3, StageBar
  <2>1. ~(version[u].state = "ready" /\ version[u].approved)
    BY <1>3 DEF Inv, Pointers
  <2> QED
    BY <1>3, <1>7, <2>1, StageValues
<1>10. stageBar' = Consent!Moved(Superseded, {v}, "asked")
  <2>1. \A u \in Version :
          StageOf(version'[u]) = IF u \in {v} THEN "asked"
                                 ELSE IF u \in Superseded THEN "withdrawn"
                                 ELSE StageOf(version[u])
    <3> SUFFICES ASSUME NEW u \in Version
                 PROVE  StageOf(version'[u]) = IF u \in {v} THEN "asked"
                                               ELSE IF u \in Superseded THEN "withdrawn"
                                               ELSE StageOf(version[u])
      OBVIOUS
    <3>1. CASE u = v
      BY <1>5, <1>6, <1>7, <3>1, StageValues
    <3>2. CASE u # v /\ u \in Superseded
      BY <1>4, <1>6, <1>7, <3>2, StageValues
    <3>3. CASE u # v /\ u \notin Superseded
      BY <1>4, <1>6, <3>3
    <3> QED
      BY <3>1, <3>2, <3>3
  <2> QED
    BY <2>1, StageBar DEF Consent!Moved
<1> QED
  BY <1>2, <1>8, <1>9, <1>10 DEF Consent!Ask

\* An approval: the version is shown, and the one before it is withdrawn.
LEMMA ActivateMaps ==
  ASSUME Inv, TypeOK', NEW t \in Tab, NEW v \in Version, Activate(t, v)
  PROVE  Consent!Approve(v)
<1> DEFINE old == {profile.current} \ {v, NoVersion}
<1>1. /\ version[v].state = "ready"
      /\ profile' = [profile EXCEPT !.current = v, !.enabled = TRUE]
      /\ version' = [u \in Version |->
           IF u = v THEN [version[u] EXCEPT !.approved = TRUE]
           ELSE IF u \in old THEN Withdrawn(version[u], TransitionTTL) ELSE version[u]]
  BY DEF Activate
<1>2. profile'.enabled = TRUE
  BY <1>1 DEF Inv, TypeOK, Profile
<1>3. \A u \in Version : version[u] \in Row /\ version'[u] \in Row /\ RowOK(version[u])
  BY DEF Inv, TypeOK, RowsOK
<1>4. \A u \in old : u \in Version /\ u # v /\ version[u].state = "ready"
  BY DEF Inv, TypeOK, Profile, Pointers, Fit
<1>5. version'[v].state = "ready" /\ version'[v].approved = TRUE
  <2>1. version'[v] = [version[v] EXCEPT !.approved = TRUE]
    BY <1>1
  <2> QED
    BY <1>1, <1>3, <2>1 DEF Row
<1>6. \A u \in old : version'[u].state = "purge_pending"
  <2>1. TransitionTTL \in {0, TransitionTTL}
    OBVIOUS
  <2>2. \A u \in old : version[u].state # "absent" /\ version[u].state # "purged"
    BY <1>4
  <2>3. \A u \in old : Withdrawn(version[u], TransitionTTL).state = "purge_pending"
    BY <1>3, <1>4, <2>1, <2>2, WithdrawnRow
  <2>4. \A u \in old : version'[u] = Withdrawn(version[u], TransitionTTL)
    BY <1>1, <1>4
  <2> QED
    BY <2>3, <2>4
<1>7. \A u \in Version : u # v /\ u \notin old => version'[u] = version[u]
  BY <1>1
<1>8. stageBar[v] \in {"offered", "live"}
  BY <1>1, <1>3, StageBar, StageValues
<1>9. \A u \in Version : u # v => (u \in Consent!Live <=> u \in old)
  BY LiveIsCurrent DEF NoVersion, Version
<1> HIDE DEF old
<1>10. stageBar' = Consent!Moved(Consent!Live, {v}, "live")
  <2>1. \A u \in Version :
          StageOf(version'[u]) = IF u \in {v} THEN "live"
                                 ELSE IF u \in Consent!Live THEN "withdrawn"
                                 ELSE StageOf(version[u])
    <3> SUFFICES ASSUME NEW u \in Version
                 PROVE  StageOf(version'[u]) = IF u \in {v} THEN "live"
                                               ELSE IF u \in Consent!Live THEN "withdrawn"
                                               ELSE StageOf(version[u])
      OBVIOUS
    <3>1. CASE u = v
      BY <1>3, <1>5, <3>1, StageValues
    <3>2. CASE u # v /\ u \in old
      <4>1. StageOf(version'[u]) = "withdrawn"
        BY <1>3, <1>6, <3>2, StageValues
      <4> QED
        BY <1>9, <3>2, <4>1
    <3>3. CASE u # v /\ u \notin old
      BY <1>7, <1>9, <3>3
    <3> QED
      BY <3>1, <3>2, <3>3
  <2> QED
    BY <2>1, StageBar DEF Consent!Moved
<1> QED
  BY <1>2, <1>8, <1>10 DEF Consent!Approve

\* The switch is only turned on for a version that is live.
LEMMA ToggleMaps ==
  ASSUME Inv, NEW t \in Tab, NEW enabled \in BOOLEAN, Toggle(t, enabled)
  PROVE  Consent!Show(enabled)
<1>1. /\ version' = version /\ profile' = [profile EXCEPT !.enabled = enabled]
      /\ enabled => profile.current # NoVersion
  BY DEF Toggle
<1>2. profile'.enabled = enabled
  BY <1>1 DEF Inv, TypeOK, Profile
<1>3. stageBar' = stageBar
  BY <1>1, StageBar
<1>4. enabled => Consent!Live # {}
  <2>1. enabled => profile.current \in Version
    BY <1>1 DEF Inv, TypeOK, Profile
  <2> QED
    BY <2>1, LiveIsCurrent
<1> QED
  BY <1>2, <1>3, <1>4 DEF Consent!Show

Alive == {v \in Version : version[v].state \in {"queued", "preparing", "failed", "ready"}}

\* The tombstone withdraws all that is left.
LEMMA DeleteMaps ==
  ASSUME Inv, TypeOK', NEW t \in Tab, Delete(t)
  PROVE  Consent!Withdraw(Alive)
<1> DEFINE S == {v \in Version : version[v].state # "absent"}
<1>1. version' = WithdrawnSet(S) /\ profile'.enabled = FALSE
  BY DEF Delete
<1>2. S \in SUBSET Version /\ \A v \in S : version[v].state # "absent"
  OBVIOUS
<1> HIDE DEF S
<1>3. \A v \in Version :
        /\ version'[v].approved = version[v].approved
        /\ v \notin S => version'[v] = version[v]
        /\ v \in S => version'[v].state = IF version[v].state = "purged"
                                          THEN "purged" ELSE "purge_pending"
  BY <1>1, <1>2, WithdrawnRows DEF Inv, TypeOK
<1>4. \A v \in Alive : version'[v].state = "purge_pending"
  BY <1>3 DEF Alive, S
<1>5. \A v \in Version \ Alive : SameStage(version[v], version'[v])
  <2>1. \A v \in Version \ Alive : version[v].state \in {"absent", "purge_pending", "purged"}
    BY DEF Alive, Inv, TypeOK, Row
  <2> QED
    BY <1>3, <2>1 DEF SameStage, S
<1>6. profile'.enabled = (profile.enabled /\ profile.current \notin Alive)
  <2>1. profile.enabled => profile.current \in Alive
    BY DEF Inv, TypeOK, Profile, Pointers, Fit, Alive
  <2> QED
    BY <1>1, <2>1
<1>7. /\ Alive \in SUBSET Version
      /\ \A v \in Alive : version[v].state \in {"queued", "preparing", "failed", "ready"}
  BY DEF Alive
<1> QED
  BY <1>4, <1>5, <1>6, <1>7, WithdrawMaps

\* The loss of a source withdraws what was made from it.
LEMMA SourceDeleteMaps ==
  ASSUME Inv, TypeOK', NEW s \in Source, SourceDelete(s)
  PROVE  UNCHANGED Consent!consent \/ \E W \in SUBSET Version : Consent!Withdraw(W)
<1> DEFINE S == {v \in Version : version[v].source = s}
           W == S \cap Alive
<1>1. CASE S = {}
  <2>1. version' = version /\ profile' = profile
    BY <1>1 DEF SourceDelete
  <2> QED
    BY <2>1, StageStutter DEF SameStage
<1>2. CASE S # {}
  <2>1. /\ version' = WithdrawnSet(S)
        /\ profile' = [profile EXCEPT
             !.current = IF @ \in S THEN NoVersion ELSE @,
             !.enabled = @ /\ profile.current \notin S,
             !.desired = IF @ \in S THEN NoVersion ELSE @]
    BY <1>2 DEF SourceDelete
  <2>2. S \in SUBSET Version /\ \A v \in S : version[v].state # "absent"
    BY VisualAssumption DEF Inv, RowsOK, RowOK
  <2> HIDE DEF S
  <2>3. \A v \in Version :
          /\ version'[v].approved = version[v].approved
          /\ v \notin S => version'[v] = version[v]
          /\ v \in S => version'[v].state = IF version[v].state = "purged"
                                            THEN "purged" ELSE "purge_pending"
    BY <2>1, <2>2, WithdrawnRows DEF Inv, TypeOK
  <2>4. /\ W \in SUBSET Version
        /\ \A v \in W : /\ version[v].state \in {"queued", "preparing", "failed", "ready"}
                        /\ version'[v].state = "purge_pending"
    BY <2>3 DEF Alive
  <2>5. \A v \in Version \ W : SameStage(version[v], version'[v])
    <3>1. \A v \in S \ W : version[v].state \in {"purge_pending", "purged"}
      BY <2>2 DEF Alive, Inv, TypeOK, Row
    <3> QED
      BY <2>3, <3>1 DEF SameStage
  <2>6. profile'.enabled = (profile.enabled /\ profile.current \notin W)
    <3>1. profile.enabled => profile.current \in Alive
      BY DEF Inv, TypeOK, Profile, Pointers, Fit, Alive
    <3>2. profile'.enabled = (profile.enabled /\ profile.current \notin S)
      BY <2>1 DEF Inv, TypeOK, Profile
    <3> QED
      BY <3>1, <3>2
  <2>7. Consent!Withdraw(W)
    BY <2>4, <2>5, <2>6, WithdrawMaps
  <2> QED
    BY <2>4, <2>7
<1> QED
  BY <1>1, <1>2

\* An unapproved version that has waited too long is still the candidate.
LEMMA ExpireMaps ==
  ASSUME Inv, NEW v \in Version, Expire(v)
  PROVE  UNCHANGED Consent!consent
<1> DEFINE y == [version[v] EXCEPT !.expired = TRUE]
<1>1. version[v] \in Row /\ version \in [Version -> Row]
  BY DEF Inv, TypeOK
<1>2. version' = [version EXCEPT ![v] = y] /\ profile' = profile
  BY <1>1 DEF Expire
<1>3. y.state = version[v].state /\ y.approved = version[v].approved
  BY <1>1 DEF Row
<1> HIDE DEF y
<1> QED
  BY <1>1, <1>2, <1>3, OneStage DEF SameStage

\* The commands of the owner and of their time.
LEMMA CommandMaps ==
  ASSUME Inv, TypeOK', Command
  PROVE  [Consent!Next]_(Consent!consent)
<1>1. ASSUME NEW t \in Tab, NEW v \in Version, NEW s \in Source, Admit(t, v, s)
      PROVE  Consent!Next
  <2>1. Consent!Ask(v, Superseded)
    BY <1>1, AdmitMaps
  <2>2. Superseded \in SUBSET Version
    BY DEF Superseded, Inv, TypeOK, Profile
  <2> QED
    BY <2>1, <2>2 DEF Consent!Next
<1>2. ASSUME NEW t \in Tab, Delete(t) PROVE Consent!Next
  <2>1. Alive \in SUBSET Version
    BY DEF Alive
  <2> QED
    BY <1>2, <2>1, DeleteMaps DEF Consent!Next
<1>3. ASSUME NEW t \in Tab, NEW v \in Version, Activate(t, v) PROVE Consent!Next
  BY <1>3, ActivateMaps DEF Consent!Next
<1>4. ASSUME NEW t \in Tab, NEW enabled \in BOOLEAN, Toggle(t, enabled) PROVE Consent!Next
  BY <1>4, ToggleMaps DEF Consent!Next
<1>5. ASSUME NEW s \in Source, SourceDelete(s) PROVE [Consent!Next]_(Consent!consent)
  BY <1>5, SourceDeleteMaps DEF Consent!Next
<1>6. ASSUME NEW t \in Tab, Read(t) PROVE UNCHANGED Consent!consent
  <2>1. version' = version /\ profile' = profile
    BY <1>6 DEF Read
  <2> QED
    BY <2>1, StageStutter DEF SameStage
<1>7. ASSUME NEW v \in Version, Expire(v) PROVE UNCHANGED Consent!consent
  BY <1>7, ExpireMaps
<1> QED
  BY <1>1, <1>2, <1>3, <1>4, <1>5, <1>6, <1>7 DEF Command

\* The overdue versions, as a claim retires them.
LEMMA OverdueRows ==
  ASSUME Inv
  PROVE  /\ Overdue \in SUBSET Version /\ profile.current \notin Overdue
         /\ Swept \in [Version -> Row]
         /\ \A v \in Overdue :
              /\ version[v].state \in {"queued", "preparing", "failed", "ready"}
              /\ Swept[v].state = "purge_pending" /\ Swept[v].prepare.state \notin Active
         /\ \A v \in Version \ Overdue : Swept[v] = version[v]
<1>1. \A v \in Overdue : version[v].state \in {"queued", "preparing", "failed", "ready"}
  BY DEF Overdue
<1> QED
  BY <1>1, SweptRows

\* A claim of a purge withdraws what is overdue.
LEMMA ClaimPurgeMaps ==
  ASSUME Inv, TypeOK', NEW w \in Worker, ClaimPurge(w)
  PROVE  Consent!Withdraw(Overdue)
<1>1. PICK v \in PurgesDue : Retire(Overdue, [Swept EXCEPT ![v].purge = Claimed(@, w)])
  BY DEF ClaimPurge
<1> DEFINE rows == [Swept EXCEPT ![v].purge = Claimed(@, w)]
<1>2. \A u \in Version : rows[u].state = Swept[u].state /\ rows[u].approved = Swept[u].approved
  BY OverdueRows DEF PurgesDue, Row
<1> HIDE DEF rows
<1>3. \A u \in Overdue : rows[u].state = "purge_pending"
  BY <1>2, OverdueRows
<1>4. \A u \in Version \ Overdue : SameStage(version[u], rows[u])
  BY <1>2, OverdueRows DEF SameStage
<1>5. Retire(Overdue, rows)
  BY <1>1 DEF rows
<1> QED
  BY <1>3, <1>4, <1>5, OverdueRows, RetiredMaps

\* A claim of a preparation withdraws what is overdue, and the version it refuses.
LEMMA ClaimPrepareMaps ==
  ASSUME Inv, TypeOK', NEW w \in Worker, ClaimPrepare(w)
  PROVE  \E W \in SUBSET Version : Consent!Withdraw(W)
<1>1. PICK v \in PreparesDue :
         \/ /\ ~(Eligible(v) /\ HasAttempt(Swept[v].prepare))
            /\ Retire(Overdue \cup (IF Eligible(v) THEN {} ELSE {v}),
                      [Swept EXCEPT ![v] = Refused(@, Eligible(v))])
         \/ /\ Eligible(v) /\ HasAttempt(Swept[v].prepare)
            /\ Retire(Overdue, [Swept EXCEPT ![v] = Started(@, w)])
  BY DEF ClaimPrepare
<1> DEFINE x == version[v]
<1>2. /\ v \in Version /\ v \notin Overdue /\ Swept[v] = x /\ x \in Row /\ RowOK(x)
      /\ x.prepare.state \in Active
  BY OverdueRows DEF PreparesDue, Due, Inv, TypeOK, RowsOK
<1>3. x.state \in {"queued", "preparing"}
  BY <1>2 DEF RowOK
<1>4. profile.current # v
  BY <1>2, <1>3 DEF Inv, Pointers, Fit, NoVersion, Version
<1>5. ASSUME NEW S, NEW y, Retire(S, [Swept EXCEPT ![v] = y]),
             y.state \in {"queued", "preparing", "failed"}
      PROVE  Consent!Withdraw(Overdue)
  <2> DEFINE rows == [Swept EXCEPT ![v] = y]
  <2>1. rows[v] = y /\ \A u \in Version \ {v} : rows[u] = Swept[u]
    BY <1>2, OverdueRows
  <2> HIDE DEF rows
  <2>2. SameStage(x, y)
    BY <1>3, <1>5 DEF SameStage
  <2>3. \A u \in Version \ Overdue : SameStage(version[u], rows[u])
    BY <2>1, <2>2, OverdueRows DEF SameStage
  <2>4. \A u \in Overdue : rows[u].state = "purge_pending"
    BY <1>2, <2>1, OverdueRows
  <2>5. Retire(S, rows)
    BY <1>5 DEF rows
  <2> QED
    BY <2>3, <2>4, <2>5, OverdueRows, RetiredMaps
<1>6. CASE Eligible(v) /\ HasAttempt(Swept[v].prepare)
           /\ Retire(Overdue, [Swept EXCEPT ![v] = Started(@, w)])
  <2>1. Started(x, w).state = "preparing"
    BY <1>2, <1>3, <1>6, StartedRow
  <2>2. Retire(Overdue, [Swept EXCEPT ![v] = Started(x, w)])
    BY <1>2, <1>6
  <2> QED
    BY <1>5, <2>1, <2>2, OverdueRows
<1>7. CASE Eligible(v) /\ Retire(Overdue \cup (IF Eligible(v) THEN {} ELSE {v}),
                                 [Swept EXCEPT ![v] = Refused(@, Eligible(v))])
  <2>1. Exhausted(x).state = "failed"
    BY <1>2, <1>3, ExhaustedRow
  <2>2. [Swept EXCEPT ![v] = Refused(@, Eligible(v))] = [Swept EXCEPT ![v] = Exhausted(x)]
    BY <1>2, <1>7 DEF Refused
  <2> QED
    BY <1>5, <1>7, <2>1, <2>2, OverdueRows
<1>8. CASE ~Eligible(v) /\ Retire(Overdue \cup (IF Eligible(v) THEN {} ELSE {v}),
                                  [Swept EXCEPT ![v] = Refused(@, Eligible(v))])
  <2> DEFINE y == Withdrawn(x, 0)
             rows == [Swept EXCEPT ![v] = Refused(@, Eligible(v))]
             W == Overdue \cup {v}
  <2>1. y.state = "purge_pending"
    <3>1. 0 \in {0, TransitionTTL} /\ x.state # "absent" /\ x.state # "purged"
      BY <1>3
    <3> QED
      BY <1>2, <3>1, WithdrawnRow
  <2> HIDE DEF y
  <2>2. rows[v] = y /\ \A u \in Version \ {v} : rows[u] = Swept[u]
    BY <1>2, <1>8, OverdueRows DEF Refused, y
  <2>3. Retire(W, rows)
    BY <1>8
  <2> HIDE DEF rows
  <2>4. \A u \in Version \ W : SameStage(version[u], rows[u])
    BY <2>2, OverdueRows DEF SameStage
  <2>5. \A u \in W : /\ version[u].state \in {"queued", "preparing", "failed", "ready"}
                     /\ rows[u].state = "purge_pending"
    BY <1>2, <1>3, <2>1, <2>2, OverdueRows
  <2>6. W \in SUBSET Version /\ profile.current \notin W
    BY <1>2, <1>4, OverdueRows
  <2> HIDE DEF W
  <2>7. Consent!Withdraw(W)
    BY <2>3, <2>4, <2>5, <2>6, RetiredMaps
  <2> QED
    BY <2>6, <2>7
<1> QED
  BY <1>1, <1>6, <1>7, <1>8, OverdueRows

\* A claim that finds nothing still withdraws what is overdue.
LEMMA ClaimNothingMaps ==
  ASSUME Inv, TypeOK', NEW w \in Worker, ClaimNothing(w)
  PROVE  Consent!Withdraw(Overdue)
<1>1. Retire(Overdue, Swept)
  BY DEF ClaimNothing
<1>2. \A u \in Version \ Overdue : SameStage(version[u], Swept[u])
  BY OverdueRows DEF SameStage
<1> QED
  BY <1>1, <1>2, OverdueRows, RetiredMaps

\* A failed attempt is tried again, given up or withdrawn.
LEMMA SettleMaps ==
  ASSUME Inv, TypeOK', NEW w \in Worker, Settle(w)
  PROVE  UNCHANGED Consent!consent \/ \E W \in SUBSET Version : Consent!Withdraw(W)
<1> DEFINE v == work[w].v
           x == version[v]
           mine == x.prepare.holder = w /\ x.prepare.state = "running"
<1>1. work[w].pc = "settle" /\ work[w].pc \in Prepares
  BY DEF Settle, Prepares
<1>2. v \in Version /\ x \in Row /\ RowOK(x) /\ version \in [Version -> Row]
  BY <1>1, AtAttempt DEF Inv, TypeOK
<1>3. CASE UNCHANGED <<profile, version>>
  BY <1>3, StageStutter DEF SameStage
<1>4. CASE mine /\ Retire({v}, WithdrawnSet({v}))
  <2>1. x.state \in {"queued", "preparing"}
    BY <1>2, <1>4 DEF RowOK, Active
  <2>2. profile.current # v
    BY <1>2, <2>1 DEF Inv, Pointers, Fit, NoVersion, Version
  <2>3. \A u \in Version : /\ u \notin {v} => WithdrawnSet({v})[u] = version[u]
                           /\ u \in {v} => WithdrawnSet({v})[u].state = "purge_pending"
    <3>1. {v} \in SUBSET Version /\ \A u \in {v} : version[u].state # "absent" /\ version[u].state # "purged"
      BY <1>2, <2>1
    <3> QED
      BY <1>2, <3>1, WithdrawnRows DEF Inv
  <2>4. \A u \in Version \ {v} : SameStage(version[u], WithdrawnSet({v})[u])
    BY <2>3 DEF SameStage
  <2>5. /\ {v} \in SUBSET Version /\ profile.current \notin {v}
        /\ \A u \in {v} : /\ version[u].state \in {"queued", "preparing", "failed", "ready"}
                          /\ WithdrawnSet({v})[u].state = "purge_pending"
    BY <1>2, <2>1, <2>2, <2>3
  <2>6. Consent!Withdraw({v})
    BY <1>4, <2>4, <2>5, RetiredMaps
  <2> QED
    BY <2>5, <2>6
<1>5. ASSUME mine, Eligible(v), profile' = profile, NEW y, version' = [version EXCEPT ![v] = y],
             y = Retried(x) \/ y = GivenUp(x)
      PROVE  UNCHANGED Consent!consent
  <2>1. x.state \in {"queued", "preparing"}
    BY <1>5 DEF Eligible
  <2>2. y.state \in {"queued", "failed"}
    BY <1>2, <1>5 DEF Retried, GivenUp, Row
  <2>3. SameStage(x, y)
    BY <2>1, <2>2 DEF SameStage
  <2> QED
    BY <1>2, <1>5, <2>3, OneStage
<1>6. \/ UNCHANGED <<profile, version>>
      \/ mine /\ Retire({v}, WithdrawnSet({v}))
      \/ /\ mine /\ Eligible(v) /\ profile' = profile
         /\ version' = [version EXCEPT ![v] = Retried(x)]
      \/ /\ mine /\ Eligible(v) /\ profile' = profile
         /\ version' = [version EXCEPT ![v] = GivenUp(x)]
  BY <1>2 DEF Settle
<1> QED
  BY <1>3, <1>4, <1>5, <1>6

\* A published bundle offers its version.
LEMMA PublishMaps ==
  ASSUME Inv, TypeOK', NEW w \in Worker, Publish(w)
  PROVE  UNCHANGED Consent!consent \/ \E v \in Version : Consent!Offer(v)
<1> DEFINE v == work[w].v
           x == version[v]
           y == Ready(x, work[w].n)
<1>1. work[w].pc \in Prepares /\ profile' = profile
  BY DEF Publish, Prepares
<1>2. /\ v \in Version /\ x \in Row /\ RowOK(x) /\ version \in [Version -> Row]
      /\ work[w].n \in Attempt
  BY <1>1, AtAttempt DEF Inv, TypeOK
<1>3. CASE ~MayPublish(w)
  <2>1. version' = version
    BY <1>3 DEF Publish
  <2> QED
    BY <1>1, <2>1, StageStutter DEF SameStage
<1>4. CASE MayPublish(w)
  <2>1. version' = [version EXCEPT ![v] = y]
    BY <1>2, <1>4 DEF Publish
  <2>2. x.state \in {"queued", "preparing"} /\ ~x.approved /\ x.bundle[work[w].n].state = "reserved"
    <3>1. Eligible(v) /\ x.bundle[work[w].n].state = "reserved"
      BY <1>4 DEF MayPublish, Fence, Job
    <3> QED
      BY <1>2, <3>1 DEF Eligible, RowOK
  <2>3. y \in Row /\ y.state = "ready" /\ ~y.approved
    <3>1. LET z == Ready(x, work[w].n)
          IN  z \in Row /\ z.state = "ready" /\ z.approved = x.approved
      BY <1>2, <2>2, ReadyRow
    <3> QED
      BY <2>2, <3>1
  <2> HIDE DEF y
  <2>4. version'[v] = y /\ \A u \in Version \ {v} : version'[u] = version[u]
    BY <1>2, <2>1
  <2>5. stageBar[v] = "asked"
    BY <1>2, <2>2, StageBar, StageValues
  <2>6. StageOf(y) = "offered"
    BY <2>3, StageValues
  <2>7. stageBar' = Consent!Moved({}, {v}, "offered")
    BY <2>4, <2>6, StageBar DEF Consent!Moved
  <2>8. Consent!Offer(v)
    BY <1>1, <2>5, <2>7 DEF Consent!Offer
  <2> QED
    BY <1>2, <2>8
<1> QED
  BY <1>3, <1>4

\* A purge that leaves nothing of a withdrawn version erases it.
LEMMA CommitMaps ==
  ASSUME Inv, TypeOK', NEW w \in Worker, Commit(w)
  PROVE  UNCHANGED Consent!consent \/ \E v \in Version : Consent!Erase(v)
<1> DEFINE v == work[w].v
           x == version[v]
           y == AfterPurge(x, work[w].targets)
<1>1. work[w].pc \in Erasing /\ profile' = profile
  BY DEF Commit, Erasing
<1>2. /\ v \in Version /\ x \in Row /\ RowOK(x) /\ x.state # "absent" /\ PurgeOf(w)
      /\ version \in [Version -> Row] /\ work[w].targets \in SUBSET Attempt
  BY <1>1, AtPurge DEF Inv, TypeOK, Work
<1>3. CASE ~PurgeLeased(w)
  <2>1. version' = version
    BY <1>3 DEF Commit
  <2> QED
    BY <1>1, <2>1, StageStutter DEF SameStage
<1>4. CASE PurgeLeased(w)
  <2>1. version' = [version EXCEPT ![v] = y]
    BY <1>2, <1>4 DEF Commit
  <2>2. \A n \in work[w].targets :
          x.bundle[n].state \in {"purge_pending", "purged"} /\ x.bundle[n].writer = 0
    BY <1>2 DEF PurgeOf, Job
  <2>3. /\ y \in Row /\ y.approved = x.approved
        /\ y.state = x.state \/ (x.state = "purge_pending" /\ y.state = "purged")
    BY <1>2, <2>2, PurgedRow
  <2> HIDE DEF y
  <2>4. version'[v] = y /\ \A u \in Version \ {v} : version'[u] = version[u]
    BY <1>2, <2>1
  <2>5. CASE y.state = x.state
    BY <1>1, <1>2, <2>1, <2>3, <2>5, OneStage DEF SameStage
  <2>6. CASE x.state = "purge_pending" /\ y.state = "purged"
    <3>1. stageBar[v] = "withdrawn"
      BY <1>2, <2>6, StageBar, StageValues
    <3>2. StageOf(y) = "erased"
      BY <2>3, <2>6, StageValues
    <3>3. stageBar' = Consent!Moved({}, {v}, "erased")
      BY <2>4, <3>2, StageBar DEF Consent!Moved
    <3>4. Consent!Erase(v)
      BY <1>1, <3>1, <3>3 DEF Consent!Erase
    <3> QED
      BY <1>2, <3>4
  <2> QED
    BY <2>3, <2>5, <2>6
<1> QED
  BY <1>3, <1>4

\* A step that changes a job or a bundle of one version, and its stage never.
LEMMA JobMaps ==
  ASSUME Inv, NEW v \in Version, profile' = profile,
         \/ version' = version
         \/ version' = [version EXCEPT ![v].prepare = Renewed(@)]
         \/ version' = [version EXCEPT ![v].purge.lease = LeaseTTL]
         \/ version' = [version EXCEPT ![v].purge = Deferred(@)]
         \/ \E n \in Attempt : \/ version' = [version EXCEPT ![v] = Reserved(@, n)]
                               \/ version' = [version EXCEPT ![v] = Cleaned(@, n)]
  PROVE  UNCHANGED Consent!consent
<1>1. version \in [Version -> Row] /\ version[v] \in Row
  BY DEF Inv, TypeOK
<1>2. CASE version' = version
  BY <1>2, StageStutter DEF SameStage
<1>3. CASE \/ version' = [version EXCEPT ![v].prepare = Renewed(@)]
           \/ version' = [version EXCEPT ![v].purge.lease = LeaseTTL]
           \/ version' = [version EXCEPT ![v].purge = Deferred(@)]
  <2>1. \A u \in Version :
          version'[u].state = version[u].state /\ version'[u].approved = version[u].approved
    BY <1>1, <1>3 DEF Row
  <2> QED
    BY <2>1, StageStutter DEF SameStage
<1>4. ASSUME NEW n \in Attempt,
             \/ version' = [version EXCEPT ![v] = Reserved(@, n)]
             \/ version' = [version EXCEPT ![v] = Cleaned(@, n)]
      PROVE  UNCHANGED Consent!consent
  <2>1. /\ Reserved(version[v], n).state = version[v].state
        /\ Reserved(version[v], n).approved = version[v].approved
    BY <1>1 DEF Reserved, Row
  <2>2. /\ Cleaned(version[v], n).state = version[v].state
        /\ Cleaned(version[v], n).approved = version[v].approved
    BY <1>1 DEF Cleaned, Row
  <2>3. SameStage(version[v], Reserved(version[v], n)) /\ SameStage(version[v], Cleaned(version[v], n))
    BY <2>1, <2>2 DEF SameStage
  <2> QED
    BY <1>1, <1>4, <2>3, OneStage
<1> QED
  BY <1>2, <1>3, <1>4

\* What a worker does maps to a step of VisualConsent or to none.
LEMMA LabourMaps ==
  ASSUME Inv, TypeOK', NEW w \in Worker, Labour(w)
  PROVE  [Consent!Next]_(Consent!consent)
<1>1. CASE ClaimPurge(w) \/ ClaimPrepare(w) \/ ClaimNothing(w) \/ Settle(w)
  <2>1. UNCHANGED Consent!consent \/ \E W \in SUBSET Version : Consent!Withdraw(W)
    BY <1>1, OverdueRows, ClaimPurgeMaps, ClaimPrepareMaps, ClaimNothingMaps, SettleMaps
  <2> QED
    BY <2>1 DEF Consent!Next
<1>2. CASE Publish(w)
  BY <1>2, PublishMaps DEF Consent!Next
<1>3. CASE Commit(w)
  BY <1>3, CommitMaps DEF Consent!Next
<1>4. CASE Load(w) \/ Reserve(w) \/ Cleanup(w) \/ \E k \in Key : BeginPut(w, k)
  <2>1. work[w].pc \in Prepares /\ profile' = profile
    BY <1>4 DEF Load, Reserve, Cleanup, BeginPut, Prepares
  <2>2. work[w].v \in Version /\ work[w].n \in Attempt
    BY <2>1, AtAttempt
  <2>3. \/ version' = version
        \/ version' = [version EXCEPT ![work[w].v].prepare = Renewed(@)]
        \/ version' = [version EXCEPT ![work[w].v] = Reserved(@, work[w].n)]
        \/ version' = [version EXCEPT ![work[w].v] = Cleaned(@, work[w].n)]
    BY <1>4 DEF Load, Reserve, Cleanup, BeginPut
  <2> QED
    BY <2>1, <2>2, <2>3, JobMaps
<1>5. CASE Defer(w)
  <2>1. work[w].pc \in Erasing \cup {"look", "defer"} /\ profile' = profile
    BY <1>5 DEF Defer
  <2>2. work[w].v \in Version
    BY <2>1, AtPurge
  <2>3. version' = version \/ version' = [version EXCEPT ![work[w].v].purge = Deferred(@)]
    BY <1>5 DEF Defer
  <2> QED
    BY <2>1, <2>2, <2>3, JobMaps
<1>6. CASE \/ \E transient \in BOOLEAN : Fails(w, transient)
           \/ PutReturns(w) \/ PutFails(w) \/ Verified(w)
           \/ Look(w) \/ \E k \in Key : Prove(w, k) \/ Erase(w, k)
           \/ SweepRemote(w) \/ Count(w) \/ Proved(w) \/ EraseFails(w)
  <2>1. version' = version /\ profile' = profile
    BY <1>6 DEF Fails, PutReturns, PutFails, Verified, Look, Prove, Erase, SweepRemote, Count,
       Proved, EraseFails
  <2> QED
    BY <2>1, StageStutter DEF SameStage
<1> QED
  BY <1>1, <1>2, <1>3, <1>4, <1>5, <1>6 DEF Labour, Preparing, Purging

\* Heartbeats, crashes, late objects and time move no version.
LEMMA OtherMaps ==
  ASSUME Inv, \/ \E w \in Worker : Heartbeat(w) \/ Crash(w)
              \/ \E k \in Key : Land(k)
              \/ Tick
              \/ UNCHANGED vars
  PROVE  UNCHANGED Consent!consent
<1>1. ASSUME NEW w \in Worker, Heartbeat(w) PROVE UNCHANGED Consent!consent
  <2>1. work[w].v \in Version /\ profile' = profile
    BY <1>1 DEF Heartbeat, Inv, Shape, ShapeOf
  <2>2. \/ version' = [version EXCEPT ![work[w].v].prepare = Renewed(@)]
        \/ version' = [version EXCEPT ![work[w].v].purge.lease = LeaseTTL]
    BY <1>1 DEF Heartbeat
  <2> QED
    BY <2>1, <2>2, JobMaps
<1>2. ASSUME (\E w \in Worker : Crash(w)) \/ (\E k \in Key : Land(k)) \/ UNCHANGED vars
      PROVE  UNCHANGED Consent!consent
  <2>1. version' = version /\ profile' = profile
    BY <1>2 DEF Crash, Land, vars
  <2> QED
    BY <2>1, StageStutter DEF SameStage
<1>3. CASE Tick
  <2>1. profile' = profile /\ version' = [v \in Version |-> Aged(version[v])]
    BY <1>3 DEF Tick
  <2>2. \A v \in Version : version[v] \in Row /\ RowOK(version[v])
    BY DEF Inv, TypeOK, RowsOK
  <2>3. \A v \in Version : /\ Aged(version[v]).state = version[v].state
                           /\ Aged(version[v]).approved = version[v].approved
    BY <2>2, AgedRow
  <2>4. \A v \in Version : SameStage(version[v], version'[v])
    BY <2>1, <2>3 DEF SameStage
  <2> QED
    BY <2>1, <2>4, StageStutter
<1> QED
  BY <1>1, <1>2, <1>3

\* The promise of VisualConsent is kept: a version is offered only after it was asked for,
\* at most one is live, a replaced or withdrawn one never comes back, and viewers are shown
\* the live one only, through every claim, crash, deletion and expiry.
THEOREM VersionsLiveAsPromised == Spec => ImplementsConsent
<1>1. Init => Consent!Init
  <2> SUFFICES ASSUME Init PROVE Consent!Init
    OBVIOUS
  <2>1. \A v \in Version : StageOf(version[v]) = "none"
    BY AbsentRow DEF Init, StageOf
  <2>2. stageBar = [v \in Version |-> "none"]
    BY <2>1, StageBar
  <2>3. profile.enabled = FALSE
    BY DEF Init
  <2> QED
    BY <2>2, <2>3 DEF Consent!Init
<1>2. Inv /\ Inv' /\ [Next]_vars => [Consent!Next]_(Consent!consent)
  <2> SUFFICES ASSUME Inv, Inv', [Next]_vars PROVE [Consent!Next]_(Consent!consent)
    OBVIOUS
  <2>1. TypeOK'
    BY DEF Inv
  <2>2. CASE Command
    BY <2>1, <2>2, CommandMaps
  <2>3. ASSUME NEW w \in Worker, Labour(w) PROVE [Consent!Next]_(Consent!consent)
    BY <2>1, <2>3, LabourMaps
  <2>4. CASE \/ \E w \in Worker : Heartbeat(w) \/ Crash(w)
             \/ \E k \in Key : Land(k)
             \/ Tick
             \/ UNCHANGED vars
    BY <2>4, OtherMaps
  <2> QED
    BY <2>2, <2>3, <2>4 DEF Next
<1> QED
  BY <1>1, <1>2, Invariant, PTL DEF Spec, ImplementsConsent, Consent!Spec

-----------------------------------------------------------------------------
(* What the life of VisualConsent itself promises.                         *)

\* What Moved makes of one version.
LEMMA MovedAt ==
  ASSUME NEW S, NEW V, NEW s, NEW v \in Version
  PROVE  Consent!Moved(S, V, s)[v] =
           IF v \in V THEN s ELSE IF v \in S THEN "withdrawn" ELSE stageBar[v]
BY DEF Consent!Moved

\* Moved is a function to stages.
LEMMA MovedType ==
  ASSUME NEW S, NEW V, NEW s \in Consent!Stage, Consent!ConsentTypeOK
  PROVE  Consent!Moved(S, V, s) \in [Version -> Consent!Stage]
<1>1. "withdrawn" \in Consent!Stage
  BY DEF Consent!Stage
<1> QED
  BY <1>1 DEF Consent!Moved, Consent!ConsentTypeOK

\* Type correctness of the consent life cycle.
THEOREM ConsentTypeCorrect == Consent!Spec => []Consent!ConsentTypeOK
<1>1. Consent!Init => Consent!ConsentTypeOK
  BY DEF Consent!Init, Consent!ConsentTypeOK, Consent!Stage
<1>2. Consent!ConsentTypeOK /\ [Consent!Next]_(Consent!consent) => Consent!ConsentTypeOK'
  <2> SUFFICES ASSUME Consent!ConsentTypeOK, [Consent!Next]_(Consent!consent) PROVE Consent!ConsentTypeOK'
    OBVIOUS
  <2>0. {"asked", "offered", "live", "withdrawn", "erased"} \subseteq Consent!Stage
    BY DEF Consent!Stage
  <2>1. ASSUME NEW v \in Version, NEW S \in SUBSET Version, Consent!Ask(v, S) PROVE Consent!ConsentTypeOK'
    BY <2>0, <2>1, MovedType DEF Consent!Ask, Consent!ConsentTypeOK
  <2>2. ASSUME NEW v \in Version, Consent!Offer(v) PROVE Consent!ConsentTypeOK'
    BY <2>0, <2>2, MovedType DEF Consent!Offer, Consent!ConsentTypeOK
  <2>3. ASSUME NEW v \in Version, Consent!Approve(v) PROVE Consent!ConsentTypeOK'
    BY <2>0, <2>3, MovedType DEF Consent!Approve, Consent!ConsentTypeOK
  <2>4. ASSUME NEW v \in Version, Consent!Erase(v) PROVE Consent!ConsentTypeOK'
    BY <2>0, <2>4, MovedType DEF Consent!Erase, Consent!ConsentTypeOK
  <2>5. ASSUME NEW on \in BOOLEAN, Consent!Show(on) PROVE Consent!ConsentTypeOK'
    BY <2>5 DEF Consent!Show, Consent!ConsentTypeOK
  <2>6. ASSUME NEW S \in SUBSET Version, Consent!Withdraw(S) PROVE Consent!ConsentTypeOK'
    BY <2>0, <2>6, MovedType DEF Consent!Withdraw, Consent!ConsentTypeOK
  <2>7. CASE UNCHANGED Consent!consent
    BY <2>7 DEF Consent!consent, Consent!ConsentTypeOK
  <2> QED
    BY <2>1, <2>2, <2>3, <2>4, <2>5, <2>6, <2>7 DEF Consent!Next
<1> QED
  BY <1>1, <1>2, PTL DEF Consent!Spec

\* A step that makes no version live keeps OneLive.
LEMMA FewerLive ==
  ASSUME NEW S, NEW V, NEW s, s # "live", Consent!OneLive, stageBar' = Consent!Moved(S, V, s)
  PROVE  Consent!OneLive' /\ Consent!Live' \subseteq Consent!Live
<1>1. \A v \in Version : stageBar'[v] = "live" => stageBar[v] = "live"
  BY MovedAt
<1> QED
  BY <1>1 DEF Consent!OneLive, Consent!Live

\* At most one version is approved at a time.
THEOREM AtMostOneLive == Consent!Spec => []Consent!OneLive
<1>1. Consent!Init => Consent!OneLive
  BY DEF Consent!Init, Consent!OneLive, Consent!Live
<1>2. Consent!OneLive /\ [Consent!Next]_(Consent!consent) => Consent!OneLive'
  <2> SUFFICES ASSUME Consent!OneLive, [Consent!Next]_(Consent!consent) PROVE Consent!OneLive'
    OBVIOUS
  <2>1. ASSUME NEW v \in Version, NEW S \in SUBSET Version, Consent!Ask(v, S) PROVE Consent!OneLive'
    BY <2>1, FewerLive DEF Consent!Ask
  <2>2. ASSUME NEW v \in Version, Consent!Offer(v) PROVE Consent!OneLive'
    BY <2>2, FewerLive DEF Consent!Offer
  <2>3. ASSUME NEW v \in Version, Consent!Approve(v) PROVE Consent!OneLive'
    <3>1. \A u \in Version : stageBar'[u] = "live" => u = v
      <4>1. \A u \in Version : stageBar'[u] = IF u \in {v} THEN "live"
              ELSE IF u \in Consent!Live THEN "withdrawn" ELSE stageBar[u]
        BY <2>3, MovedAt DEF Consent!Approve
      <4> QED
        BY <4>1 DEF Consent!Live
    <3> QED
      BY <3>1 DEF Consent!OneLive, Consent!Live
  <2>4. ASSUME NEW v \in Version, Consent!Erase(v) PROVE Consent!OneLive'
    BY <2>4, FewerLive DEF Consent!Erase
  <2>5. ASSUME NEW on \in BOOLEAN, Consent!Show(on) PROVE Consent!OneLive'
    BY <2>5 DEF Consent!Show, Consent!OneLive, Consent!Live
  <2>6. ASSUME NEW S \in SUBSET Version, Consent!Withdraw(S) PROVE Consent!OneLive'
    BY <2>6, FewerLive DEF Consent!Withdraw
  <2>7. CASE UNCHANGED Consent!consent
    BY <2>7 DEF Consent!consent, Consent!OneLive, Consent!Live
  <2> QED
    BY <2>1, <2>2, <2>3, <2>4, <2>5, <2>6, <2>7 DEF Consent!Next
<1> QED
  BY <1>1, <1>2, PTL DEF Consent!Spec

\* The live versions keep one when no step takes it away.
LEMMA LiveKept ==
  ASSUME NEW S, NEW V, NEW s, stageBar' = Consent!Moved(S, V, s), Consent!Live \cap (S \cup V) = {}
  PROVE  Consent!Live \subseteq Consent!Live'
<1>1. \A v \in Consent!Live : stageBar'[v] = "live"
  BY MovedAt DEF Consent!Live
<1> QED
  BY <1>1 DEF Consent!Live

\* Viewers are shown a companion only while one version is approved.
THEOREM ShownOnlyWhileLive == Consent!Spec => []Consent!ShownIsLive
<1>1. Consent!Init => Consent!ShownIsLive
  BY DEF Consent!Init, Consent!ShownIsLive
<1>2. Consent!ShownIsLive /\ [Consent!Next]_(Consent!consent) => Consent!ShownIsLive'
  <2> SUFFICES ASSUME Consent!ShownIsLive, [Consent!Next]_(Consent!consent) PROVE Consent!ShownIsLive'
    OBVIOUS
  <2>1. ASSUME NEW v \in Version, NEW S \in SUBSET Version, Consent!Ask(v, S) PROVE Consent!ShownIsLive'
    <3>1. Consent!Live \cap (S \cup {v}) = {}
      BY <2>1 DEF Consent!Ask, Consent!Live
    <3> QED
      BY <2>1, <3>1, LiveKept DEF Consent!Ask, Consent!ShownIsLive
  <2>2. ASSUME NEW v \in Version, Consent!Offer(v) PROVE Consent!ShownIsLive'
    <3>1. Consent!Live \cap ({} \cup {v}) = {}
      BY <2>2 DEF Consent!Offer, Consent!Live
    <3> QED
      BY <2>2, <3>1, LiveKept DEF Consent!Offer, Consent!ShownIsLive
  <2>3. ASSUME NEW v \in Version, Consent!Approve(v) PROVE Consent!ShownIsLive'
    <3>1. stageBar'[v] = "live"
      BY <2>3, MovedAt DEF Consent!Approve
    <3> QED
      BY <3>1 DEF Consent!ShownIsLive, Consent!Live
  <2>4. ASSUME NEW v \in Version, Consent!Erase(v) PROVE Consent!ShownIsLive'
    <3>1. Consent!Live \cap ({} \cup {v}) = {}
      BY <2>4 DEF Consent!Erase, Consent!Live
    <3> QED
      BY <2>4, <3>1, LiveKept DEF Consent!Erase, Consent!ShownIsLive
  <2>5. ASSUME NEW on \in BOOLEAN, Consent!Show(on) PROVE Consent!ShownIsLive'
    BY <2>5 DEF Consent!Show, Consent!ShownIsLive, Consent!Live
  <2>6. ASSUME NEW S \in SUBSET Version, Consent!Withdraw(S) PROVE Consent!ShownIsLive'
    <3>1. CASE Consent!Live \cap S = {}
      <4>1. Consent!Live \cap (S \cup {}) = {}
        BY <3>1
      <4> QED
        BY <2>6, <4>1, LiveKept DEF Consent!Withdraw, Consent!ShownIsLive
    <3>2. CASE Consent!Live \cap S # {}
      BY <2>6, <3>2 DEF Consent!Withdraw, Consent!ShownIsLive
    <3> QED
      BY <3>1, <3>2
  <2>7. CASE UNCHANGED Consent!consent
    BY <2>7 DEF Consent!consent, Consent!ShownIsLive, Consent!Live
  <2> QED
    BY <2>1, <2>2, <2>3, <2>4, <2>5, <2>6, <2>7 DEF Consent!Next
<1> QED
  BY <1>1, <1>2, PTL DEF Consent!Spec

\* So no two versions of the pipeline are ever approved at once, and viewers are shown
\* nothing without an approved one, through every claim, crash, deletion and expiry.
THEOREM ApprovedAlone == Spec => [](Consent!OneLive /\ Consent!ShownIsLive)
BY VersionsLiveAsPromised, AtMostOneLive, ShownOnlyWhileLive, PTL DEF ImplementsConsent
=============================================================================
