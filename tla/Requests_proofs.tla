--------------------------- MODULE Requests_proofs ----------------------------
(***************************************************************************)
(* The components of MCRequests, for any number of requests, accounts,     *)
(* versions, calls and sources.  Each part has an invariant of its own and *)
(* the steps that it must never take; the part that moves leaves the       *)
(* others as they began.                                                   *)
(***************************************************************************)
EXTENDS MCRequests, SequenceTheorems, FiniteSetTheorems, WellFoundedInduction, TLAPS

-----------------------------------------------------------------------------
(* PlanVoice: sums over the connections, and the parts of a day.           *)

\* A set of numbers that goes on to the end has them all: of the sets of those below a
\* number that is missing some is the smallest.
LEMMA Climb ==
  ASSUME NEW N \in Nat, NEW S \in SUBSET (0 .. N), 0 \in S, \A n \in S : n < N => n + 1 \in S
  PROVE  S = 0 .. N
<1>. DEFINE T == (0 .. N) \ S
            Below(t) == {u \in T : u < t}
            All == {Below(t) : t \in T}
<1>1. IsFiniteSet(T) /\ T \subseteq 0 .. N
  <2>1. T \subseteq 0 .. N
    OBVIOUS
  <2>2. IsFiniteSet(0 .. N)
    BY FS_Interval
  <2>. HIDE DEF T
  <2>. QED
    BY <2>1, <2>2, FS_Subset
<1>2. SUFFICES ASSUME T # {} PROVE FALSE
  BY <1>2
<1>3. All \subseteq FiniteSubsetsOf(T) /\ All # {}
  <2>1. ASSUME NEW t \in T PROVE Below(t) \in SUBSET T /\ IsFiniteSet(Below(t))
    BY <1>1, FS_Subset
  <2>. QED
    BY <1>2, <2>1 DEF FiniteSubsetsOf
<1>4. PICK X \in All : \A Y \in All : <<Y, X>> \notin StrictSubsetOrdering(T)
  <2>. HIDE DEF All
  <2>. QED
    BY <1>1, <1>3, FS_StrictSubsetOrderingWellFounded, WFMin
<1>5. PICK t \in T : X = Below(t)
  BY <1>4
<1>6. t \in 1 .. N /\ t - 1 \in 0 .. N
  <2>1. t \in 0 .. N /\ t # 0
    BY <1>1
  <2>. QED
    BY <2>1
<1>7. t - 1 \in T
  <2>1. t \notin S /\ t - 1 < N /\ (t - 1) + 1 = t
    BY <1>6
  <2>2. t - 1 \notin S
    BY <2>1
  <2>. QED
    BY <1>6, <2>2
<1>8. Below(t - 1) \subseteq Below(t) /\ t - 1 \in Below(t) /\ t - 1 \notin Below(t - 1)
  <2>1. \A u \in T : u \in Int
    BY <1>1
  <2>2. t - 1 \in Int /\ t \in Int /\ t - 1 < t /\ ~ (t - 1 < t - 1)
    BY <1>6
  <2>3. \A u \in Int : u < t - 1 => u < t
    BY <2>2
  <2>. HIDE DEF T
  <2>. QED
    BY <1>7, <2>1, <2>2, <2>3
<1>9. Below(t - 1) \in All /\ Below(t - 1) \in SUBSET T /\ X \in SUBSET T
  BY <1>5, <1>7
<1>10. <<Below(t - 1), X>> \in StrictSubsetOrdering(T)
  <2>. HIDE DEF Below, T
  <2>. QED
    BY <1>5, <1>8, <1>9 DEF StrictSubsetOrdering
<1>. QED
  BY <1>4, <1>9, <1>10

\* The sums of the first amounts are there.
LEMMA SumsExist ==
  ASSUME NEW f PROVE \E t : t = [g \in 0 .. MaxCall |-> IF g = 0 THEN 0 ELSE t[g - 1] + f[g]]
<1>. DEFINE Upto(n, t) == t = [g \in 0 .. n |-> IF g = 0 THEN 0 ELSE t[g - 1] + f[g]]
            S == {n \in 0 .. MaxCall : \E t : Upto(n, t)}
<1>1. MaxCall \in Nat
  BY PlanVoiceAssumption
<1>2. 0 \in S
  <2>. DEFINE z == [g \in 0 .. 0 |-> 0]
  <2>1. \A g \in 0 .. 0 : z[g] = IF g = 0 THEN 0 ELSE z[g - 1] + f[g]
    OBVIOUS
  <2>2. z = [g \in 0 .. 0 |-> z[g]]
    OBVIOUS
  <2>3. Upto(0, z)
    <3>. HIDE DEF z
    <3>. QED
      BY <2>1, <2>2
  <2>. HIDE DEF z, Upto
  <2>. QED
    BY <1>1, <2>3
<1>3. ASSUME NEW n \in S, n < MaxCall PROVE n + 1 \in S
  <2>1. PICK t : Upto(n, t)
    OBVIOUS
  <2>. DEFINE u == [g \in 0 .. (n + 1) |-> IF g = n + 1 THEN t[n] + f[n + 1] ELSE t[g]]
  <2>2. n \in Nat /\ n + 1 \in 0 .. MaxCall
    BY <1>1, <1>3
  <2>3. ASSUME NEW g \in 0 .. (n + 1) PROVE u[g] = IF g = 0 THEN 0 ELSE u[g - 1] + f[g]
    <3>1. CASE g = n + 1
      <4>1. g # 0 /\ g - 1 = n /\ n \in 0 .. (n + 1) /\ n # n + 1
        BY <2>2, <3>1
      <4>2. u[g] = t[n] + f[n + 1] /\ u[n] = t[n]
        BY <3>1, <4>1
      <4>. QED
        BY <3>1, <4>1, <4>2
    <3>2. CASE g # n + 1
      <4>1. g \in 0 .. n
        BY <2>2, <3>2
      <4>2. g # 0 => g - 1 \in 0 .. (n + 1) /\ g - 1 # n + 1
        BY <2>2, <4>1
      <4>3. u[g] = t[g] /\ (g # 0 => u[g - 1] = t[g - 1])
        BY <3>2, <4>2
      <4>4. t[g] = IF g = 0 THEN 0 ELSE t[g - 1] + f[g]
        BY <2>1, <4>1
      <4>. QED
        BY <4>3, <4>4
    <3>. QED
      BY <3>1, <3>2
  <2>4. Upto(n + 1, u)
    <3>1. u = [g \in 0 .. (n + 1) |-> u[g]]
      OBVIOUS
    <3>. HIDE DEF u
    <3>. QED
      BY <2>3, <3>1
  <2>. HIDE DEF u, Upto
  <2>. QED
    BY <2>2, <2>4
<1>4. S = 0 .. MaxCall
  <2>. HIDE DEF Upto
  <2>1. S \in SUBSET (0 .. MaxCall)
    OBVIOUS
  <2>. HIDE DEF S
  <2>. QED
    BY <1>1, <1>2, <1>3, <2>1, Climb
<1>5. MaxCall \in S
  <2>. HIDE DEF S
  <2>. QED
    BY <1>1, <1>4
<1>. QED
  BY <1>5

\* The sum that Total chooses is the last of these.
LEMMA TotalIsLast ==
  ASSUME NEW f
  PROVE  \E t : /\ Total(f) = t[MaxCall] /\ t[0] = 0
                /\ \A g \in 0 .. MaxCall : g # 0 => t[g] = t[g - 1] + f[g]
<1>. DEFINE t == CHOOSE upTo : upTo = [g \in 0 .. MaxCall |-> IF g = 0 THEN 0 ELSE upTo[g - 1] + f[g]]
<1>1. t = [g \in 0 .. MaxCall |-> IF g = 0 THEN 0 ELSE t[g - 1] + f[g]]
  BY SumsExist
<1>2. Total(f) = t[MaxCall]
  BY DEF Total
<1>3. 0 \in 0 .. MaxCall
  BY PlanVoiceAssumption
<1>. HIDE DEF t
<1>4. t[0] = 0 /\ \A g \in 0 .. MaxCall : g # 0 => t[g] = t[g - 1] + f[g]
  BY <1>1, <1>3
<1>. QED
  BY <1>2, <1>4

\* What a sum of amounts is, how it compares, and what one of them changes.
LEMMA TotalIsZero ==
  ASSUME NEW f, \A g \in Generation : f[g] = 0
  PROVE  Total(f) = 0
<1>1. PICK t : Total(f) = t[MaxCall] /\ t[0] = 0 /\ \A g \in 0 .. MaxCall : g # 0 => t[g] = t[g - 1] + f[g]
  BY TotalIsLast
<1>2. MaxCall \in Nat
  BY PlanVoiceAssumption
<1>. DEFINE S == {n \in 0 .. MaxCall : t[n] = 0}
<1>3. 0 \in S /\ S \in SUBSET (0 .. MaxCall)
  BY <1>1, <1>2
<1>4. ASSUME NEW n \in S, n < MaxCall PROVE n + 1 \in S
  <2>1. n + 1 \in Generation /\ n + 1 \in 0 .. MaxCall /\ n + 1 # 0 /\ (n + 1) - 1 = n
    BY <1>2, <1>4 DEF Generation
  <2>. QED
    BY <1>1, <2>1
<1>5. MaxCall \in S
  <2>. HIDE DEF S
  <2>1. S = 0 .. MaxCall
    BY <1>2, <1>3, <1>4, Climb
  <2>. QED
    BY <1>2, <2>1
<1>. QED
  BY <1>1, <1>5

LEMMA TotalInNat ==
  ASSUME NEW f, \A g \in Generation : f[g] \in Nat
  PROVE  Total(f) \in Nat
<1>1. PICK t : Total(f) = t[MaxCall] /\ t[0] = 0 /\ \A g \in 0 .. MaxCall : g # 0 => t[g] = t[g - 1] + f[g]
  BY TotalIsLast
<1>2. MaxCall \in Nat
  BY PlanVoiceAssumption
<1>. DEFINE S == {n \in 0 .. MaxCall : t[n] \in Nat}
<1>3. 0 \in S /\ S \in SUBSET (0 .. MaxCall)
  BY <1>1, <1>2
<1>4. ASSUME NEW n \in S, n < MaxCall PROVE n + 1 \in S
  <2>1. n + 1 \in Generation /\ n + 1 \in 0 .. MaxCall /\ n + 1 # 0 /\ (n + 1) - 1 = n
    BY <1>2, <1>4 DEF Generation
  <2>. QED
    BY <1>1, <2>1
<1>5. MaxCall \in S
  <2>. HIDE DEF S
  <2>1. S = 0 .. MaxCall
    BY <1>2, <1>3, <1>4, Climb
  <2>. QED
    BY <1>2, <2>1
<1>. QED
  BY <1>1, <1>5

LEMMA TotalIsMonotone ==
  ASSUME NEW f, NEW h, \A g \in Generation : f[g] \in Nat /\ h[g] \in Nat /\ f[g] <= h[g]
  PROVE  Total(f) <= Total(h)
<1>1. PICK t : Total(f) = t[MaxCall] /\ t[0] = 0 /\ \A g \in 0 .. MaxCall : g # 0 => t[g] = t[g - 1] + f[g]
  BY TotalIsLast
<1>2. PICK u : Total(h) = u[MaxCall] /\ u[0] = 0 /\ \A g \in 0 .. MaxCall : g # 0 => u[g] = u[g - 1] + h[g]
  BY TotalIsLast
<1>3. MaxCall \in Nat
  BY PlanVoiceAssumption
<1>. DEFINE S == {n \in 0 .. MaxCall : t[n] \in Nat /\ u[n] \in Nat /\ t[n] <= u[n]}
<1>4. 0 \in S /\ S \in SUBSET (0 .. MaxCall)
  BY <1>1, <1>2, <1>3
<1>5. ASSUME NEW n \in S, n < MaxCall PROVE n + 1 \in S
  <2>1. n + 1 \in Generation /\ n + 1 \in 0 .. MaxCall /\ n + 1 # 0 /\ (n + 1) - 1 = n
    BY <1>3, <1>5 DEF Generation
  <2>2. t[n + 1] = t[n] + f[n + 1] /\ u[n + 1] = u[n] + h[n + 1]
    BY <1>1, <1>2, <2>1
  <2>. QED
    BY <2>1, <2>2
<1>6. MaxCall \in S
  <2>. HIDE DEF S
  <2>1. S = 0 .. MaxCall
    BY <1>3, <1>4, <1>5, Climb
  <2>. QED
    BY <1>3, <2>1
<1>. QED
  BY <1>1, <1>2, <1>6

LEMMA TotalChanges ==
  ASSUME NEW f, NEW h, NEW n \in Generation,
         \A g \in Generation : f[g] \in Int /\ h[g] \in Int /\ (g # n => f[g] = h[g])
  PROVE  Total(f) + h[n] = Total(h) + f[n]
<1>1. PICK t : Total(f) = t[MaxCall] /\ t[0] = 0 /\ \A g \in 0 .. MaxCall : g # 0 => t[g] = t[g - 1] + f[g]
  BY TotalIsLast
<1>2. PICK u : Total(h) = u[MaxCall] /\ u[0] = 0 /\ \A g \in 0 .. MaxCall : g # 0 => u[g] = u[g - 1] + h[g]
  BY TotalIsLast
<1>3. MaxCall \in Nat /\ n \in 1 .. MaxCall
  BY PlanVoiceAssumption DEF Generation
<1>. DEFINE S == {m \in 0 .. MaxCall : t[m] \in Int /\ u[m] \in Int
                                       /\ (m < n => t[m] = u[m])
                                       /\ (n <= m => t[m] + h[n] = u[m] + f[n])}
<1>4. 0 \in S /\ S \in SUBSET (0 .. MaxCall)
  BY <1>1, <1>2, <1>3
<1>5. ASSUME NEW m \in S, m < MaxCall PROVE m + 1 \in S
  <2>1. m \in Nat /\ m + 1 \in Generation /\ m + 1 \in 0 .. MaxCall /\ m + 1 # 0 /\ (m + 1) - 1 = m
    BY <1>3, <1>5 DEF Generation
  <2>2. t[m + 1] = t[m] + f[m + 1] /\ u[m + 1] = u[m] + h[m + 1]
    BY <1>1, <1>2, <2>1
  <2>3. t[m] \in Int /\ u[m] \in Int /\ f[m + 1] \in Int /\ h[m + 1] \in Int /\ f[n] \in Int /\ h[n] \in Int
    BY <2>1
  <2>4. CASE m + 1 = n
    <3>1. t[m] = u[m]
      BY <2>1, <2>4
    <3>. QED
      BY <2>1, <2>2, <2>3, <2>4, <3>1
  <2>5. CASE m + 1 < n
    <3>1. t[m] = u[m] /\ f[m + 1] = h[m + 1]
      BY <1>3, <2>1, <2>5
    <3>. QED
      BY <1>3, <2>1, <2>2, <2>3, <2>5, <3>1
  <2>6. CASE n < m + 1
    <3>1. t[m] + h[n] = u[m] + f[n] /\ f[m + 1] = h[m + 1]
      BY <1>3, <2>1, <2>6
    <3>. QED
      BY <1>3, <2>1, <2>2, <2>3, <2>6, <3>1
  <2>. QED
    BY <1>3, <2>1, <2>4, <2>5, <2>6
<1>6. MaxCall \in S
  <2>. HIDE DEF S
  <2>1. S = 0 .. MaxCall
    BY <1>3, <1>4, <1>5, Climb
  <2>. QED
    BY <1>3, <2>1
<1>. QED
  BY <1>1, <1>2, <1>3, <1>6

\* The bounds of a day and the day a tick belongs to.
LEMMA DayBounds ==
  ASSUME NEW d \in Nat
  PROVE  /\ d * DayLen \in Nat /\ (d + 1) * DayLen \in Nat /\ d * DayLen < (d + 1) * DayLen
<1>1. DayLen \in Nat \ {0}
  BY PlanVoiceAssumption
<1>2. d * DayLen \in Nat /\ (d + 1) * DayLen = d * DayLen + DayLen
  BY <1>1
<1>. QED
  BY <1>1, <1>2

LEMMA DayOf ==
  ASSUME NEW d \in Nat, NEW x \in Nat, d * DayLen <= x, x < (d + 1) * DayLen
  PROVE  d = x \div DayLen
<1>. DEFINE q == x \div DayLen
<1>1. DayLen \in Nat \ {0}
  BY PlanVoiceAssumption
<1>2. q \in Nat /\ q * DayLen <= x /\ x < (q + 1) * DayLen
  BY <1>1
<1>. HIDE DEF q
<1>3. ASSUME NEW a \in Nat, NEW b \in Nat, a < b PROVE (a + 1) * DayLen <= b * DayLen
  <2>1. PICK k \in Nat : b = (a + 1) + k
    <3>1. b - (a + 1) \in Nat /\ b = (a + 1) + (b - (a + 1))
      BY <1>3
    <3>. QED
      BY <3>1
  <2>2. b * DayLen = (a + 1) * DayLen + k * DayLen
    BY <1>1, <2>1
  <2>3. k * DayLen \in Nat /\ (a + 1) * DayLen \in Nat
    BY <1>1
  <2>. QED
    BY <2>2, <2>3
<1>4. d * DayLen \in Nat /\ (d + 1) * DayLen \in Nat /\ q * DayLen \in Nat /\ (q + 1) * DayLen \in Nat
  BY <1>1, <1>2
<1>5. ~ (d < q)
  <2>1. d < q => (d + 1) * DayLen <= q * DayLen
    BY <1>2, <1>3
  <2>. QED
    BY <1>2, <1>4, <2>1
<1>6. ~ (q < d)
  <2>1. q < d => (q + 1) * DayLen <= d * DayLen
    BY <1>2, <1>3
  <2>. QED
    BY <1>2, <1>4, <2>1
<1>. QED
  BY <1>2, <1>5, <1>6 DEF q

\* What lies on a day of an interval, of the parts of an interval, and of a shorter one.
LEMMA SegmentIsNat ==
  ASSUME NEW a \in Int, NEW b \in Int, NEW d \in Nat
  PROVE  Segment(a, b, d) \in Nat /\ (b <= a => Segment(a, b, d) = 0)
<1>. DEFINE lo == d * DayLen
            hi == (d + 1) * DayLen
<1>1. lo \in Nat /\ hi \in Nat
  BY DayBounds
<1>2. Segment(a, b, d) = Most(0, Least(b, hi) - Most(a, lo))
  BY DEF Segment
<1>. HIDE DEF lo, hi
<1>. QED
  BY <1>1, <1>2 DEF Most, Least

LEMMA SegmentJoins ==
  ASSUME NEW a \in Int, NEW b \in Int, NEW c \in Int, NEW d \in Nat, a <= b, b <= c
  PROVE  Segment(a, c, d) = Segment(a, b, d) + Segment(b, c, d)
<1>. DEFINE lo == d * DayLen
            hi == (d + 1) * DayLen
<1>1. lo \in Nat /\ hi \in Nat /\ lo < hi
  BY DayBounds
<1>2. \A x, y : Segment(x, y, d) = Most(0, Least(y, hi) - Most(x, lo))
  BY DEF Segment
<1>. HIDE DEF lo, hi
<1>. QED
  BY <1>1, <1>2 DEF Most, Least

LEMMA SegmentShrinks ==
  ASSUME NEW a \in Int, NEW b \in Int, NEW c \in Int, NEW d \in Nat, a <= b
  PROVE  Segment(b, c, d) <= Segment(a, c, d)
<1>. DEFINE lo == d * DayLen
            hi == (d + 1) * DayLen
<1>1. lo \in Nat /\ hi \in Nat
  BY DayBounds
<1>2. \A x, y : Segment(x, y, d) = Most(0, Least(y, hi) - Most(x, lo))
  BY DEF Segment
<1>. HIDE DEF lo, hi
<1>. QED
  BY <1>1, <1>2 DEF Most, Least

\* A tick adds one, on its day alone.
LEMMA SegmentTicks ==
  ASSUME NEW a \in Int, NEW x \in Nat, NEW d \in Nat
  PROVE  /\ Segment(a, x + 1, d) <= Segment(a, x, d) + 1
         /\ d # x \div DayLen => Segment(a, x + 1, d) = Segment(a, x, d)
<1>. DEFINE lo == d * DayLen
            hi == (d + 1) * DayLen
<1>1. lo \in Nat /\ hi \in Nat
  BY DayBounds
<1>2. \A p, y : Segment(p, y, d) = Most(0, Least(y, hi) - Most(p, lo))
  BY DEF Segment
<1>3. d # x \div DayLen => ~ (lo <= x /\ x < hi)
  BY DayOf
<1>. HIDE DEF lo, hi
<1>4. Segment(a, x + 1, d) <= Segment(a, x, d) + 1
  BY <1>1, <1>2 DEF Most, Least
<1>5. ~ (lo <= x /\ x < hi) => Segment(a, x + 1, d) = Segment(a, x, d)
  BY <1>1, <1>2 DEF Most, Least
<1>. QED
  BY <1>3, <1>4, <1>5

-----------------------------------------------------------------------------
(* PlanVoice.                                                              *)

\* What the intervals of a day come to, and what its connected row will still add.
Spent(g, d) == Segment(interval[g].started, interval[g].observed, d)
Unspent(d) ==
  IF call.state = "connected" /\ interval[call.gen].state = "open"
  THEN Segment(interval[call.gen].observed, Stamp, d) ELSE 0

\* An interval is written while the row has its generation.
Intervals ==
  /\ call.state # "none" => call.gen # 0
  /\ call.state = "connecting" => interval[call.gen].state = "none"
  /\ \A g \in Generation :
       /\ g > call.gen => interval[g].state = "none"
       /\ interval[g].state = "none" => interval[g].started = 0 /\ interval[g].observed = 0
       /\ interval[g].started <= interval[g].observed /\ interval[g].observed <= now

\* A receipt is completed only with the interval it is for, and charges no more of a day than
\* lies in the interval.
Charged ==
  \A g \in Generation : \A d \in Day :
    /\ quota[g][d].state = "completed" => interval[g].state = "ended"
    /\ quota[g][d].amount <= Spent(g, d)

Covered == \A d \in Day : Total([g \in Generation |-> Spent(g, d)]) + Unspent(d) <= talk[d]

VoiceInv == TypeOK /\ call.ends \in Nat /\ Intervals /\ Charged /\ Covered

\* What a step may never do, as SettledStays and NeverOvercharged say it.
VoiceStep ==
  /\ \A g \in Generation, d \in Day : quota[g][d].state = "completed" => quota'[g][d] = quota[g][d]
  /\ \A d \in Day : enforcing /\ Charge(d)' > Charge(d) => Charge(d)' <= Limit

LEMMA DaysAreNat == \A d \in Day : d \in Nat
BY DEF Day

LEMMA VoiceInit == Init => VoiceInv
<1>. SUFFICES ASSUME Init PROVE VoiceInv
  OBVIOUS
<1>p. MaxTime \in Nat /\ MaxCall \in Nat
  BY PlanVoiceAssumption
<1>1. interval = [g \in Generation |-> [state |-> "none", started |-> 0, observed |-> 0]]
  BY DEF Init
<1>2. quota = [g \in Generation |-> [d \in Day |-> [state |-> "none", amount |-> 0]]]
  BY DEF Init
<1>3. call = [gen |-> 0, state |-> "none", lease |-> 0, ends |-> 0, peer |-> "gone"]
  BY DEF Init
<1>4. TypeOK
  <2>1. interval \in [Generation -> Interval]
    BY <1>p, <1>1 DEF Interval
  <2>2. quota \in [Generation -> [Day -> Receipt]]
    BY <1>2 DEF Receipt
  <2>3. call \in Call
    BY <1>p, <1>3 DEF Call, Peer
  <2>4. talk \in [Day -> Nat]
    BY DEF Init
  <2>5. now \in 0 .. MaxTime /\ cutover \in 0 .. NotYet
    BY <1>p DEF Init, NotYet
  <2>6. enforcing \in BOOLEAN
    BY DEF Init
  <2>. QED
    BY <2>1, <2>2, <2>3, <2>4, <2>5, <2>6 DEF TypeOK
<1>5. \A g \in Generation : \A d \in Day : Spent(g, d) = 0
  BY <1>1, DaysAreNat, SegmentIsNat DEF Spent
<1>6. Intervals
  BY <1>1, <1>3 DEF Intervals, Init
<1>7. Charged
  BY <1>1, <1>2, <1>5 DEF Charged
<1>8. Covered
  <2>1. \A d \in Day : Total([g \in Generation |-> Spent(g, d)]) = 0
    BY <1>5, TotalIsZero
  <2>2. \A d \in Day : Unspent(d) = 0 /\ talk[d] = 0
    BY <1>3 DEF Unspent, Init
  <2>. QED
    BY <2>1, <2>2 DEF Covered
<1>. QED
  BY <1>3, <1>4, <1>6, <1>7, <1>8 DEF VoiceInv

\* What a receipt may charge.
LEMMA AmountIsBounded ==
  ASSUME VoiceInv, NEW n \in Generation, NEW i \in Interval, NEW d \in Day
  PROVE  /\ Other(n, d) \in Nat
         /\ Amount(i, n, d) \in Nat
         /\ Amount(i, n, d) <= Segment(i.started, i.observed, d)
         /\ enforcing => Amount(i, n, d) <= Most(0, Limit - Other(n, d))
<1>1. Other(n, d) \in Nat
  <2>. DEFINE f == [h \in Generation |-> IF h = n THEN 0 ELSE quota[h][d].amount]
  <2>1. \A h \in Generation : f[h] \in Nat
    BY DEF VoiceInv, TypeOK, Receipt
  <2>. HIDE DEF f
  <2>2. Total(f) \in Nat
    BY <2>1, TotalInNat
  <2>. QED
    BY <2>2 DEF Other, f
<1>2. /\ i.started \in Int /\ i.observed \in Int /\ cutover \in Int /\ d \in Nat /\ Limit \in Nat
      /\ Most(i.started, cutover) \in Int /\ i.started <= Most(i.started, cutover)
  BY PlanVoiceAssumption, DaysAreNat DEF VoiceInv, TypeOK, Interval, NotYet, Most
<1>. DEFINE spoken == Segment(Most(i.started, cutover), i.observed, d)
<1>3. spoken \in Nat /\ spoken <= Segment(i.started, i.observed, d) /\ Segment(i.started, i.observed, d) \in Nat
  BY <1>2, SegmentIsNat, SegmentShrinks
<1>4. Amount(i, n, d) = IF enforcing THEN Least(spoken, Most(0, Limit - Other(n, d))) ELSE spoken
  BY DEF Amount
<1>. HIDE DEF spoken
<1>. QED
  BY <1>1, <1>2, <1>3, <1>4 DEF Least, Most

\* The charge of a day without and with one of its receipts.
LEMMA ChargeOfOthers ==
  ASSUME NEW q \in [Generation -> [Day -> Receipt]], NEW n \in Generation, NEW d \in Day
  PROVE  /\ Total([g \in Generation |-> q[g][d].amount])
              = Total([g \in Generation |-> IF g = n THEN 0 ELSE q[g][d].amount]) + q[n][d].amount
         /\ Total([g \in Generation |-> IF g = n THEN 0 ELSE q[g][d].amount]) \in Nat
         /\ Total([g \in Generation |-> q[g][d].amount]) \in Nat
<1>. DEFINE f == [g \in Generation |-> q[g][d].amount]
            h == [g \in Generation |-> IF g = n THEN 0 ELSE q[g][d].amount]
<1>1. \A g \in Generation : f[g] \in Nat /\ h[g] \in Nat /\ (g # n => f[g] = h[g])
  BY DEF Receipt
<1>2. h[n] = 0 /\ f[n] = q[n][d].amount
  OBVIOUS
<1>. HIDE DEF f, h
<1>3. Total(f) + h[n] = Total(h) + f[n]
  <2>1. \A g \in Generation : f[g] \in Int /\ h[g] \in Int /\ (g # n => f[g] = h[g])
    BY <1>1
  <2>. QED
    BY <2>1, TotalChanges
<1>4. Total(f) \in Nat /\ Total(h) \in Nat
  BY <1>1, TotalInNat
<1>5. Total(f) = Total(h) + q[n][d].amount
  BY <1>1, <1>2, <1>3, <1>4
<1>. QED
  BY <1>4, <1>5 DEF f, h

\* An interval that is open, or none yet, is written with its receipts.
LEMMA ReceiptsKeep ==
  ASSUME VoiceInv, NEW n \in Generation, NEW i \in Interval, Write(i, n), interval[n].state # "ended",
         i.started <= i.observed,
         interval[n].state # "none" => i.started = interval[n].started /\ interval[n].observed <= i.observed
  PROVE  /\ interval' = [interval EXCEPT ![n] = i] /\ interval' \in [Generation -> Interval]
         /\ quota' \in [Generation -> [Day -> Receipt]]
         /\ Charged' /\ VoiceStep
<1>. DEFINE counts(d) == cutover # NotYet /\ Segment(Most(i.started, cutover), i.observed, d) > 0
            due(d) == [state |-> IF i.state = "ended" THEN "completed" ELSE "pending", amount |-> Amount(i, n, d)]
            receipts == [d \in Day |-> IF counts(d) THEN Put(quota[n][d], due(d)) ELSE quota[n][d]]
<1>1. interval' = [interval EXCEPT ![n] = i] /\ quota' = [quota EXCEPT ![n] = receipts]
  BY DEF Write, Receipts
<1>2. \A d \in Day : due(d).amount = Amount(i, n, d) /\ due(d).state = IF i.state = "ended" THEN "completed" ELSE "pending"
  OBVIOUS
<1>3. \A d \in Day : due(d) \in Receipt
  BY AmountIsBounded DEF Receipt
<1>. HIDE DEF counts, due
<1>4. \A d \in Day : receipts[d] = quota[n][d] \/ receipts[d] = due(d)
  BY DEF Put
<1>. HIDE DEF receipts
<1>5. quota \in [Generation -> [Day -> Receipt]] /\ interval \in [Generation -> Interval]
  BY DEF VoiceInv, TypeOK
<1>6. receipts \in [Day -> Receipt]
  <2>1. receipts = [d \in Day |-> receipts[d]]
    BY DEF receipts
  <2>2. \A d \in Day : receipts[d] \in Receipt
    BY <1>3, <1>4, <1>5
  <2>. QED
    BY <2>1, <2>2
<1>7. /\ interval' \in [Generation -> Interval]
      /\ \A g \in Generation : interval'[g] = IF g = n THEN i ELSE interval[g]
  BY <1>1, <1>5
<1>8. /\ quota' \in [Generation -> [Day -> Receipt]]
      /\ \A g \in Generation : quota'[g] = IF g = n THEN receipts ELSE quota[g]
  BY <1>1, <1>5, <1>6
<1>9. \A d \in Day : quota[n][d].state # "completed"
  BY DEF VoiceInv, Charged
<1>10. \A d \in Day : quota[n][d].amount <= Segment(i.started, i.observed, d)
  <2>. SUFFICES ASSUME NEW d \in Day PROVE quota[n][d].amount <= Segment(i.started, i.observed, d)
    OBVIOUS
  <2>1. quota[n][d].amount \in Nat /\ quota[n][d].amount <= Spent(n, d)
    BY <1>5 DEF VoiceInv, Charged, Receipt
  <2>2. /\ d \in Nat /\ i.started \in Int /\ i.observed \in Int
        /\ interval[n].started \in Int /\ interval[n].observed \in Int /\ interval[n].started <= interval[n].observed
    BY <1>5, DaysAreNat DEF Interval, VoiceInv, Intervals
  <2>3. CASE interval[n].state = "none"
    <3>1. Spent(n, d) = 0
      BY <2>2, <2>3, SegmentIsNat DEF Spent, VoiceInv, Intervals
    <3>2. Segment(i.started, i.observed, d) \in Nat
      BY <2>2, SegmentIsNat
    <3>. QED
      BY <2>1, <3>1, <3>2
  <2>4. CASE interval[n].state # "none"
    <3>1. i.started = interval[n].started /\ interval[n].observed <= i.observed
      BY <2>4
    <3>2. Segment(i.started, i.observed, d) = Spent(n, d) + Segment(interval[n].observed, i.observed, d)
      BY <2>2, <3>1, SegmentJoins DEF Spent
    <3>3. Segment(interval[n].observed, i.observed, d) \in Nat /\ Spent(n, d) \in Nat
      BY <2>2, SegmentIsNat DEF Spent
    <3>. QED
      BY <2>1, <3>2, <3>3
  <2>. QED
    BY <2>3, <2>4
<1>11. Charged'
  <2>. SUFFICES ASSUME NEW g \in Generation, NEW d \in Day
       PROVE  /\ quota'[g][d].state = "completed" => interval'[g].state = "ended"
              /\ quota'[g][d].amount <= Segment(interval'[g].started, interval'[g].observed, d)
    BY DEF Charged, Spent, Segment, Least, Most
  <2>1. CASE g = n
    <3>1. quota'[g] = receipts /\ interval'[g] = i
      BY <1>7, <1>8, <2>1
    <3>2. receipts[d].state = "completed" => i.state = "ended"
      BY <1>2, <1>4, <1>9
    <3>3. receipts[d].amount <= Segment(i.started, i.observed, d)
      BY <1>2, <1>4, <1>10, AmountIsBounded
    <3>. QED
      BY <3>1, <3>2, <3>3
  <2>2. CASE g # n
    <3>1. quota'[g] = quota[g] /\ interval'[g] = interval[g]
      BY <1>7, <1>8, <2>2
    <3>. QED
      BY <3>1 DEF VoiceInv, Charged, Spent
  <2>. QED
    BY <2>1, <2>2
<1>12. ASSUME NEW d \in Day, enforcing, Charge(d)' > Charge(d) PROVE Charge(d)' <= Limit
  <2>. DEFINE others == Total([g \in Generation |-> IF g = n THEN 0 ELSE quota[g][d].amount])
  <2>1. Charge(d) = others + quota[n][d].amount /\ others \in Nat
    BY <1>5, ChargeOfOthers DEF Charge
  <2>2. Charge(d)' = others + receipts[d].amount
    <3>1. Total([g \in Generation |-> quota'[g][d].amount])
            = Total([g \in Generation |-> IF g = n THEN 0 ELSE quota'[g][d].amount]) + quota'[n][d].amount
      BY <1>8, ChargeOfOthers
    <3>2. [g \in Generation |-> IF g = n THEN 0 ELSE quota'[g][d].amount]
            = [g \in Generation |-> IF g = n THEN 0 ELSE quota[g][d].amount]
      BY <1>8
    <3>3. quota'[n][d].amount = receipts[d].amount
      BY <1>8
    <3>4. Charge(d)' = Total([g \in Generation |-> quota'[g][d].amount])
      BY DEF Charge, Total
    <3>. QED
      BY <3>1, <3>2, <3>3, <3>4
  <2>3. others = Other(n, d)
    BY DEF Other
  <2>. HIDE DEF others
  <2>4. quota[n][d].amount \in Nat /\ receipts[d].amount \in Nat /\ Limit \in Nat
    BY <1>5, <1>6, PlanVoiceAssumption DEF Receipt
  <2>5. receipts[d] # quota[n][d]
    BY <1>12, <2>1, <2>2, <2>4
  <2>6. receipts[d].amount = Amount(i, n, d)
    BY <1>2, <1>4, <2>5
  <2>7. receipts[d].amount <= Most(0, Limit - others)
    BY <1>12, <2>3, <2>6, AmountIsBounded
  <2>. QED
    BY <1>12, <2>1, <2>2, <2>4, <2>7 DEF Most
<1>13. VoiceStep
  <2>1. \A g \in Generation, d \in Day : quota[g][d].state = "completed" => quota'[g][d] = quota[g][d]
    BY <1>8, <1>9
  <2>. QED
    BY <1>12, <2>1 DEF VoiceStep
<1>. QED
  BY <1>1, <1>7, <1>8, <1>11, <1>13

\* The types that the steps below use again and again.
LEMMA VoiceTypes ==
  VoiceInv =>
    /\ now \in Nat /\ now <= MaxTime /\ MaxTime \in Nat /\ MaxCall \in Nat /\ LeaseTTL \in Nat /\ SessionTTL \in Nat
    /\ call \in Call /\ call.ends \in Nat /\ call.gen \in 0 .. MaxCall
    /\ Stamp \in Nat /\ Stamp <= now
    /\ \A g \in Generation :
         interval[g].started \in Nat /\ interval[g].observed \in Nat /\ interval[g] \in Interval
<1>. SUFFICES ASSUME VoiceInv
     PROVE  /\ now \in Nat /\ now <= MaxTime /\ MaxTime \in Nat /\ MaxCall \in Nat /\ LeaseTTL \in Nat /\ SessionTTL \in Nat
            /\ call \in Call /\ call.ends \in Nat /\ call.gen \in 0 .. MaxCall
            /\ Stamp \in Nat /\ Stamp <= now
            /\ \A g \in Generation :
                 interval[g].started \in Nat /\ interval[g].observed \in Nat /\ interval[g] \in Interval
  OBVIOUS
<1>1. /\ now \in Nat /\ now <= MaxTime /\ MaxTime \in Nat /\ MaxCall \in Nat /\ LeaseTTL \in Nat /\ SessionTTL \in Nat
      /\ call \in Call /\ call.ends \in Nat
  BY PlanVoiceAssumption DEF VoiceInv, TypeOK
<1>2. call.gen \in 0 .. MaxCall
  BY <1>1 DEF Call
<1>3. Stamp \in Nat /\ Stamp <= now
  BY <1>1 DEF Stamp, Least
<1>4. \A g \in Generation : interval[g] \in Interval
  BY DEF VoiceInv, TypeOK
<1>5. \A g \in Generation : interval[g].started \in Nat /\ interval[g].observed \in Nat
  BY <1>1, <1>4 DEF Interval
<1>. QED
  BY <1>1, <1>2, <1>3, <1>4, <1>5

\* What a connected row will still add is a number.
LEMMA UnspentIsNat == VoiceInv => \A d \in Day : Unspent(d) \in Nat
<1>. SUFFICES ASSUME VoiceInv, NEW d \in Day PROVE Unspent(d) \in Nat
  OBVIOUS
<1>1. CASE call.state = "connected"
  <2>1. call.gen \in Generation
    BY <1>1, VoiceTypes DEF VoiceInv, Intervals, Generation
  <2>2. interval[call.gen].observed \in Int /\ Stamp \in Int /\ d \in Nat
    BY <2>1, VoiceTypes, DaysAreNat
  <2>3. Segment(interval[call.gen].observed, Stamp, d) \in Nat
    BY <2>2, SegmentIsNat
  <2>. QED
    BY <2>3 DEF Unspent
<1>2. CASE call.state # "connected"
  BY <1>2 DEF Unspent
<1>. QED
  BY <1>1, <1>2

\* What the intervals come to is a number, and the writing of one changes its part alone.
LEMMA SpentIsNat ==
  VoiceInv => \A d \in Day : Total([g \in Generation |-> Spent(g, d)]) \in Nat /\ \A g \in Generation : Spent(g, d) \in Nat
<1>. SUFFICES ASSUME VoiceInv, NEW d \in Day
     PROVE  Total([g \in Generation |-> Spent(g, d)]) \in Nat /\ \A g \in Generation : Spent(g, d) \in Nat
  OBVIOUS
<1>1. \A g \in Generation : Spent(g, d) \in Nat
  <2>1. d \in Nat /\ \A g \in Generation : interval[g].started \in Int /\ interval[g].observed \in Int
    BY VoiceTypes, DaysAreNat
  <2>. QED
    BY <2>1, SegmentIsNat DEF Spent
<1>. DEFINE f == [g \in Generation |-> Spent(g, d)]
<1>2. \A g \in Generation : f[g] \in Nat
  BY <1>1
<1>. HIDE DEF f
<1>3. Total(f) \in Nat
  BY <1>2, TotalInNat
<1>. QED
  BY <1>1, <1>3 DEF f

LEMMA SpentChanges ==
  ASSUME VoiceInv, NEW n \in Generation, NEW i \in Interval, interval' = [interval EXCEPT ![n] = i], NEW d \in Day
  PROVE  Total([g \in Generation |-> Spent(g, d)])' + Spent(n, d)
           = Total([g \in Generation |-> Spent(g, d)]) + Segment(i.started, i.observed, d)
<1>. DEFINE f == [g \in Generation |-> Segment(interval'[g].started, interval'[g].observed, d)]
            h == [g \in Generation |-> Spent(g, d)]
<1>1. \A g \in Generation : interval'[g] = IF g = n THEN i ELSE interval[g]
  BY DEF VoiceInv, TypeOK
<1>2. i.started \in Int /\ i.observed \in Int /\ d \in Nat
  BY DaysAreNat DEF Interval
<1>3. Segment(i.started, i.observed, d) \in Nat
  BY <1>2, SegmentIsNat
<1>4. \A g \in Generation : f[g] \in Int /\ h[g] \in Int /\ (g # n => f[g] = h[g])
  <2>1. \A g \in Generation : h[g] \in Nat
    BY SpentIsNat
  <2>2. \A g \in Generation : f[g] = IF g = n THEN Segment(i.started, i.observed, d) ELSE h[g]
    BY <1>1 DEF Spent
  <2>. HIDE DEF f, h
  <2>. QED
    BY <1>3, <2>1, <2>2
<1>5. f[n] = Segment(i.started, i.observed, d) /\ h[n] = Spent(n, d)
  BY <1>1
<1>6. Total([g \in Generation |-> Spent(g, d)])' = Total(f)
  BY DEF Total, Spent, Segment, Least, Most
<1>. HIDE DEF f
<1>7. Total(f) + h[n] = Total(h) + f[n]
  <2>. HIDE DEF h
  <2>. QED
    BY <1>4, TotalChanges
<1>. QED
  BY <1>5, <1>6, <1>7

\* What a tracked connection comes to: what it had, and what it had not spent.
LEMMA TrackKeeps ==
  ASSUME VoiceInv, NEW ready \in BOOLEAN, NEW ending \in BOOLEAN, NEW recovered \in BOOLEAN,
         call.state \in {"connecting", "connected"}, call.state = "connecting" => ~ recovered,
         Track(ready, ending, recovered), UNCHANGED <<now, cutover, enforcing, talk>>,
         call' \in Call, call'.gen = call.gen, call'.ends = call.ends,
         \/ call'.state = "none" /\ ending /\ ~ ready
         \/ call'.state = "connected" /\ ~ ending /\ ~ recovered /\ (call.state = "connecting" => ready)
  PROVE  VoiceInv' /\ VoiceStep
<1>k. call.gen \in Generation
  BY VoiceTypes DEF VoiceInv, Intervals, Generation
<1>s. Stamp' = Stamp
  BY DEF Stamp, Least
<1>. DEFINE n == call.gen
            was == interval[n]
<1>1. CASE UNCHANGED <<interval, quota>>
  <2>1. TypeOK' /\ call'.ends \in Nat
    BY <1>1 DEF VoiceInv, TypeOK
  <2>2. call'.state # "connecting"
    OBVIOUS
  <2>3. Intervals'
    BY <1>1, <1>k, <2>2 DEF VoiceInv, Intervals, Generation
  <2>4. Charged'
    BY <1>1 DEF VoiceInv, Charged, Spent, Segment, Least, Most
  <2>5. \A d \in Day : Unspent(d)' <= Unspent(d) /\ Unspent(d)' \in Nat
    <3>. SUFFICES ASSUME NEW d \in Day PROVE Unspent(d)' <= Unspent(d) /\ Unspent(d)' \in Nat
      OBVIOUS
    <3>1. Unspent(d) \in Nat
      BY UnspentIsNat
    <3>2. Unspent(d)' = IF call'.state = "connected" /\ interval[n].state = "open"
                        THEN Segment(interval[n].observed, Stamp, d) ELSE 0
      BY <1>1, <1>s DEF Unspent, Segment, Least, Most
    <3>3. interval[n].state = "open" => call.state = "connected"
      BY DEF VoiceInv, Intervals
    <3>. QED
      BY <3>1, <3>2, <3>3 DEF Unspent
  <2>6. Covered'
    <3>. SUFFICES ASSUME NEW d \in Day
         PROVE  Total([g \in Generation |-> Spent(g, d)])' + Unspent(d)' <= talk[d]
      BY DEF Covered
    <3>1. Total([g \in Generation |-> Spent(g, d)])' = Total([g \in Generation |-> Spent(g, d)])
      BY <1>1 DEF Total, Spent, Segment, Least, Most
    <3>2. Total([g \in Generation |-> Spent(g, d)]) + Unspent(d) <= talk[d] /\ talk[d] \in Nat
      BY DEF VoiceInv, Covered, TypeOK
    <3>3. Total([g \in Generation |-> Spent(g, d)]) \in Nat /\ Unspent(d) \in Nat
      BY SpentIsNat, UnspentIsNat
    <3>. QED
      BY <2>5, <3>1, <3>2, <3>3
  <2>7. VoiceStep
    <3>1. \A d \in Day : Charge(d)' = Charge(d) /\ Charge(d) \in Nat
      <4>1. \A d \in Day : Charge(d)' = Charge(d)
        BY <1>1 DEF Charge, Total
      <4>. QED
        BY <1>k, <4>1, ChargeOfOthers DEF Charge, VoiceInv, TypeOK
    <3>. QED
      BY <1>1, <3>1 DEF VoiceStep
  <2>. QED
    BY <2>1, <2>3, <2>4, <2>6, <2>7 DEF VoiceInv
<1>2. CASE Trackable(ready, ending) /\ Write(Tracked(ready, ending, recovered), n)
  <2>. DEFINE i == Tracked(ready, ending, recovered)
  <2>1. was.state # "ended" /\ (was.state = "none" => ready \/ (~ ending /\ call.state = "connected"))
    BY <1>2 DEF Trackable
  <2>2. /\ Stamp \in Nat /\ Stamp <= now /\ now \in 0 .. MaxTime /\ was \in Interval
        /\ was.started \in Nat /\ was.observed \in Nat /\ was.started <= was.observed /\ was.observed <= now
        /\ was.state \in {"none", "open", "ended"}
    BY <1>k, VoiceTypes DEF VoiceInv, Intervals, TypeOK, Interval
  <2>3. /\ i.state = IF ending THEN "ended" ELSE "open"
        /\ i.started = IF was.state # "none" THEN was.started ELSE Stamp
        /\ i.observed = IF was.state = "none" THEN Stamp
                        ELSE IF recovered THEN was.observed ELSE Most(was.observed, Stamp)
        /\ i = [state |-> i.state, started |-> i.started, observed |-> i.observed]
    BY DEF Tracked
  <2>4. Write(i, n)
    BY <1>2
  <2>. HIDE DEF i
  <2>5. i.started \in 0 .. MaxTime /\ i.observed \in 0 .. MaxTime /\ i.started <= i.observed /\ i.observed <= now
    <3>1. Most(was.observed, Stamp) \in {was.observed, Stamp} /\ was.observed <= Most(was.observed, Stamp)
      BY <2>2 DEF Most
    <3>2. i.observed \in {was.observed, Stamp} /\ i.started \in {was.started, Stamp} /\ i.started <= i.observed
      <4>1. CASE was.state = "none"
        BY <2>2, <2>3, <4>1
      <4>2. CASE was.state # "none"
        <5>1. i.started = was.started /\ i.observed \in {was.observed, Most(was.observed, Stamp)}
          BY <2>3, <4>2
        <5>. HIDE DEF was
        <5>. QED
          BY <2>2, <3>1, <5>1
      <4>. QED
        BY <4>1, <4>2
    <3>3. Stamp \in 0 .. MaxTime /\ was.started \in 0 .. MaxTime /\ was.observed \in 0 .. MaxTime
      <4>1. MaxTime \in Nat
        BY VoiceTypes
      <4>. HIDE DEF was
      <4>. QED
        BY <2>2, <4>1
    <3>. HIDE DEF was
    <3>. QED
      BY <2>2, <3>2, <3>3
  <2>6. i \in Interval
    BY <2>3, <2>5 DEF Interval
  <2>7. was.state # "none" => i.started = was.started /\ was.observed <= i.observed
    BY <2>2, <2>3 DEF Most
  <2>8. /\ interval' = [interval EXCEPT ![n] = i] /\ interval' \in [Generation -> Interval]
        /\ quota' \in [Generation -> [Day -> Receipt]]
        /\ Charged' /\ VoiceStep
    BY <1>k, <2>1, <2>4, <2>5, <2>6, <2>7, ReceiptsKeep
  <2>9. TypeOK' /\ call'.ends \in Nat
    BY <2>8 DEF VoiceInv, TypeOK
  <2>10. \A g \in Generation : interval'[g] = IF g = n THEN i ELSE interval[g]
    BY <2>8 DEF VoiceInv, TypeOK
  <2>11. Intervals'
    <3>1. i.state # "none" /\ call'.state # "connecting" /\ call'.gen = n /\ now' = now
      BY <2>3
    <3>2. n # 0 /\ n \in Nat
      BY <1>k DEF Generation
    <3>3. ASSUME NEW g \in Generation
          PROVE  /\ g > n => interval'[g].state = "none"
                 /\ interval'[g].state = "none" => interval'[g].started = 0 /\ interval'[g].observed = 0
                 /\ interval'[g].started <= interval'[g].observed /\ interval'[g].observed <= now
      <4>1. CASE g = n
        BY <2>5, <2>10, <3>1, <3>2, <4>1
      <4>2. CASE g # n
        BY <2>10, <4>2 DEF VoiceInv, Intervals
      <4>. QED
        BY <4>1, <4>2
    <3>. QED
      BY <3>1, <3>2, <3>3 DEF Intervals
  <2>12. Covered'
    <3>. SUFFICES ASSUME NEW d \in Day
         PROVE  Total([g \in Generation |-> Spent(g, d)])' + Unspent(d)' <= talk[d]
      BY DEF Covered
    <3>. DEFINE before == Total([g \in Generation |-> Spent(g, d)])
                after == Total([g \in Generation |-> Spent(g, d)])'
                seg == Segment(i.started, i.observed, d)
    <3>1. before + Unspent(d) <= talk[d] /\ talk[d] \in Nat
      BY DEF VoiceInv, Covered, TypeOK
    <3>2. before \in Nat /\ Unspent(d) \in Nat /\ Spent(n, d) \in Nat
      BY <1>k, SpentIsNat, UnspentIsNat
    <3>3. after + Spent(n, d) = before + seg
      BY <1>k, <2>6, <2>8, SpentChanges
    <3>4. seg \in Nat /\ d \in Nat
      <4>1. i.started \in Int /\ i.observed \in Int /\ d \in Nat
        BY <2>5, DaysAreNat
      <4>. QED
        BY <4>1, SegmentIsNat
    <3>5. after \in Nat
      <4>. DEFINE f == [g \in Generation |-> Segment(interval'[g].started, interval'[g].observed, d)]
      <4>1. \A g \in Generation : f[g] \in Nat
        <5>1. \A g \in Generation : interval'[g].started \in Int /\ interval'[g].observed \in Int
          BY <2>8 DEF Interval
        <5>. QED
          BY <3>4, <5>1, SegmentIsNat
      <4>2. after = Total(f)
        BY DEF Total, Spent, Segment, Least, Most
      <4>. HIDE DEF f, after
      <4>. QED
        BY <4>1, <4>2, TotalInNat
    <3>6. Unspent(d)' = IF call'.state = "connected" /\ i.state = "open" THEN Segment(i.observed, Stamp, d) ELSE 0
      <4>1. interval'[n] = i
        BY <1>k, <2>10
      <4>. QED
        BY <1>s, <4>1 DEF Unspent, Segment, Least, Most
    <3>7. seg + Unspent(d)' <= Spent(n, d) + Unspent(d) /\ Unspent(d)' \in Nat
      <4>1. CASE was.state = "none"
        <5>1. i.started = Stamp /\ i.observed = Stamp
          BY <2>3, <4>1
        <5>2. Segment(Stamp, Stamp, d) = 0
          <6>1. Stamp \in Int /\ Stamp <= Stamp
            BY <2>2
          <6>. QED
            BY <3>4, <6>1, SegmentIsNat
        <5>3. seg = 0 /\ Segment(i.observed, Stamp, d) = 0
          BY <5>1, <5>2
        <5>. QED
          BY <3>2, <3>6, <5>3
      <4>2. CASE was.state # "none"
        <5>1. was.state = "open" /\ call.state = "connected"
          BY <2>1, <2>2, <4>2 DEF VoiceInv, Intervals
        <5>2. Unspent(d) = Segment(was.observed, Stamp, d) /\ Spent(n, d) = Segment(was.started, was.observed, d)
          BY <5>1 DEF Unspent, Spent
        <5>3. CASE i.observed = was.observed
          <6>1. seg = Spent(n, d)
            BY <2>7, <4>2, <5>2, <5>3
          <6>2. Unspent(d)' <= Unspent(d) /\ Unspent(d)' \in Nat
            BY <3>2, <3>6, <5>2, <5>3
          <6>. QED
            BY <3>2, <3>4, <6>1, <6>2
        <5>4. CASE i.observed = Stamp /\ was.observed <= Stamp
          <6>1. seg = Spent(n, d) + Unspent(d)
            BY <2>2, <2>7, <3>4, <4>2, <5>2, <5>4, SegmentJoins
          <6>2. Segment(i.observed, Stamp, d) = 0
            BY <2>2, <3>4, <5>4, SegmentIsNat
          <6>. QED
            BY <3>2, <3>4, <3>6, <6>1, <6>2
        <5>5. i.observed = was.observed \/ (i.observed = Stamp /\ was.observed <= Stamp)
          BY <2>2, <2>3, <4>2 DEF Most
        <5>. QED
          BY <5>3, <5>4, <5>5
      <4>. QED
        BY <4>1, <4>2
    <3>. HIDE DEF before, after, seg
    <3>8. after + Unspent(d)' <= talk[d]
      BY <3>1, <3>2, <3>3, <3>4, <3>5, <3>7
    <3>. QED
      BY <3>8 DEF after
  <2>. QED
    BY <2>8, <2>9, <2>11, <2>12 DEF VoiceInv
<1>. QED
  BY <1>1, <1>2 DEF Track

\* Nothing is written to the intervals and the receipts.
LEMMA ChargeStays == VoiceInv /\ UNCHANGED <<interval, quota>> => VoiceStep
<1>. SUFFICES ASSUME VoiceInv, UNCHANGED <<interval, quota>> PROVE VoiceStep
  OBVIOUS
<1>1. \A d \in Day : Charge(d)' = Charge(d)
  BY DEF Charge, Total
<1>2. \A d \in Day : Charge(d) \in Nat
  <2>1. 1 \in Generation
    BY PlanVoiceAssumption DEF Generation
  <2>. QED
    BY <2>1, ChargeOfOthers DEF Charge, VoiceInv, TypeOK
<1>. QED
  BY <1>1, <1>2 DEF VoiceStep

\* A step of the row alone: it may leave "connected", the clock stands.
LEMMA RowKeeps ==
  ASSUME VoiceInv, UNCHANGED <<now, interval, quota, talk>>, cutover' \in 0 .. NotYet, enforcing' \in BOOLEAN,
         call' \in Call, call'.ends \in Nat, call.gen <= call'.gen,
         call'.state # "none" => call'.gen # 0,
         call'.state = "connecting" => call'.gen \in Generation /\ interval[call'.gen].state = "none",
         call'.state = "connected" =>
           call.state = "connected" /\ call'.gen = call.gen /\ call'.ends = call.ends
  PROVE  VoiceInv' /\ VoiceStep
<1>1. TypeOK'
  BY DEF VoiceInv, TypeOK
<1>2. Intervals'
  <2>1. call.gen \in Int /\ call'.gen \in Int
    BY DEF VoiceInv, TypeOK, Call
  <2>. QED
    BY <2>1 DEF VoiceInv, Intervals, Generation
<1>3. Charged'
  BY DEF VoiceInv, Charged, Spent, Segment, Least, Most
<1>4. Covered'
  <2>. SUFFICES ASSUME NEW d \in Day
       PROVE  Total([g \in Generation |-> Spent(g, d)])' + Unspent(d)' <= talk[d]
    BY DEF Covered
  <2>1. Total([g \in Generation |-> Spent(g, d)])' = Total([g \in Generation |-> Spent(g, d)])
    BY DEF Total, Spent, Segment, Least, Most
  <2>2. Total([g \in Generation |-> Spent(g, d)]) + Unspent(d) <= talk[d] /\ talk[d] \in Nat
    BY DEF VoiceInv, Covered, TypeOK
  <2>3. Total([g \in Generation |-> Spent(g, d)]) \in Nat /\ Unspent(d) \in Nat
    BY SpentIsNat, UnspentIsNat
  <2>4. Unspent(d)' \in {0, Unspent(d)}
    <3>1. CASE call'.state = "connected"
      <4>1. call.state = "connected" /\ call'.gen = call.gen /\ Stamp' = Stamp
        BY <3>1 DEF Stamp, Least
      <4>. QED
        BY <3>1, <4>1 DEF Unspent, Segment, Least, Most
    <3>2. CASE call'.state # "connected"
      BY <3>2 DEF Unspent
    <3>. QED
      BY <3>1, <3>2
  <2>. QED
    BY <2>1, <2>2, <2>3, <2>4
<1>. QED
  BY <1>1, <1>2, <1>3, <1>4, ChargeStays DEF VoiceInv

\* The repair pass ends an interval where it was last observed.
LEMMA ReconcileKeeps ==
  ASSUME VoiceInv, NEW n \in Generation, Reconcile(n) PROVE VoiceInv' /\ VoiceStep
<1>. DEFINE i == [interval[n] EXCEPT !.state = "ended"]
<1>1. interval[n].state = "open" /\ Write(i, n) /\ UNCHANGED <<now, cutover, enforcing, call, talk>>
  BY DEF Reconcile
<1>2. /\ interval[n] \in Interval
      /\ interval[n].started \in Nat /\ interval[n].observed \in Nat /\ interval[n].started <= interval[n].observed
  BY VoiceTypes DEF VoiceInv, Intervals
<1>3. /\ i \in Interval /\ i.started = interval[n].started /\ i.observed = interval[n].observed
      /\ i.state = "ended"
  BY <1>2 DEF Interval
<1>. HIDE DEF i
<1>4. /\ interval' = [interval EXCEPT ![n] = i] /\ interval' \in [Generation -> Interval]
      /\ quota' \in [Generation -> [Day -> Receipt]]
      /\ Charged' /\ VoiceStep
  <2>1. i.started <= i.observed /\ interval[n].observed <= i.observed /\ interval[n].state # "ended"
    BY <1>1, <1>2, <1>3
  <2>. QED
    BY <1>1, <1>3, <2>1, ReceiptsKeep
<1>5. TypeOK'
  BY <1>1, <1>4 DEF VoiceInv, TypeOK
<1>6. \A g \in Generation : interval'[g] = IF g = n THEN i ELSE interval[g]
  BY <1>4 DEF VoiceInv, TypeOK
<1>7. Intervals'
  <2>1. call.state = "connecting" => call.gen # n
    BY <1>1 DEF VoiceInv, Intervals
  <2>2. call.state # "none" => call.gen \in Generation
    BY VoiceTypes DEF VoiceInv, Intervals, Generation
  <2>3. ASSUME NEW g \in Generation
        PROVE  /\ g > call.gen => interval'[g].state = "none"
               /\ interval'[g].state = "none" => interval'[g].started = 0 /\ interval'[g].observed = 0
               /\ interval'[g].started <= interval'[g].observed /\ interval'[g].observed <= now
    <3>1. CASE g = n
      BY <1>1, <1>3, <1>6, <3>1 DEF VoiceInv, Intervals
    <3>2. CASE g # n
      BY <1>6, <3>2 DEF VoiceInv, Intervals
    <3>. QED
      BY <3>1, <3>2
  <2>4. /\ call.state # "none" => call.gen # 0
        /\ call.state = "connecting" => interval[call.gen].state = "none"
    BY DEF VoiceInv, Intervals
  <2>5. call.state = "connecting" => interval'[call.gen].state = "none"
    BY <1>6, <2>1, <2>2, <2>4
  <2>. QED
    BY <1>1, <2>3, <2>4, <2>5 DEF Intervals
<1>8. Covered'
  <2>. SUFFICES ASSUME NEW d \in Day
       PROVE  Total([g \in Generation |-> Spent(g, d)])' + Unspent(d)' <= talk[d]
    BY <1>1 DEF Covered
  <2>. DEFINE before == Total([g \in Generation |-> Spent(g, d)])
              after == Total([g \in Generation |-> Spent(g, d)])'
  <2>1. before + Unspent(d) <= talk[d] /\ talk[d] \in Nat
    BY DEF VoiceInv, Covered, TypeOK
  <2>2. before \in Nat /\ Unspent(d) \in Nat /\ Spent(n, d) \in Nat
    BY SpentIsNat, UnspentIsNat
  <2>3. after + Spent(n, d) = before + Segment(i.started, i.observed, d)
    BY <1>3, <1>4, SpentChanges
  <2>4. Segment(i.started, i.observed, d) = Spent(n, d)
    BY <1>3 DEF Spent
  <2>5. after \in Nat
    <3>. DEFINE f == [g \in Generation |-> Segment(interval'[g].started, interval'[g].observed, d)]
    <3>1. \A g \in Generation : f[g] \in Nat
      <4>1. \A g \in Generation : interval'[g].started \in Int /\ interval'[g].observed \in Int
        BY <1>4 DEF Interval
      <4>. QED
        BY <4>1, DaysAreNat, SegmentIsNat
    <3>2. after = Total(f)
      BY DEF Total, Spent, Segment, Least, Most
    <3>. HIDE DEF f, after
    <3>. QED
      BY <3>1, <3>2, TotalInNat
  <2>6. Unspent(d)' \in {0, Unspent(d)}
    <3>1. CASE call.state = "connected" /\ interval'[call.gen].state = "open"
      <4>1. call.gen \in Generation
        BY <3>1, VoiceTypes DEF VoiceInv, Intervals, Generation
      <4>2. call.gen # n
        BY <1>3, <1>6, <3>1, <4>1
      <4>3. interval'[call.gen] = interval[call.gen] /\ Stamp' = Stamp
        BY <1>1, <1>6, <4>1, <4>2 DEF Stamp, Least
      <4>. QED
        BY <1>1, <3>1, <4>3 DEF Unspent, Segment, Least, Most
    <3>2. CASE ~ (call.state = "connected" /\ interval'[call.gen].state = "open")
      BY <1>1, <3>2 DEF Unspent
    <3>. QED
      BY <3>1, <3>2
  <2>. HIDE DEF before, after
  <2>7. after + Unspent(d)' <= talk[d]
    BY <2>1, <2>2, <2>3, <2>4, <2>5, <2>6
  <2>. QED
    BY <2>7 DEF after
<1>. QED
  BY <1>1, <1>4, <1>5, <1>7, <1>8 DEF VoiceInv

\* A tick adds to the day what a connected row may still be charged.
LEMMA TickKeeps == ASSUME VoiceInv, Tick PROVE VoiceInv' /\ VoiceStep
<1>1. /\ now < MaxTime /\ now' = now + 1 /\ UNCHANGED <<cutover, enforcing, interval, quota>>
      /\ call' = [call EXCEPT !.lease = Most(0, call.lease - 1)]
      /\ talk' = IF call.state = "connected" THEN [talk EXCEPT ![Today] = talk[Today] + 1] ELSE talk
  BY DEF Tick
<1>2. /\ call' \in Call /\ call'.ends = call.ends /\ call'.gen = call.gen /\ call'.state = call.state
  <2>1. call.lease \in Int
    BY VoiceTypes DEF Call
  <2>2. Most(0, call.lease - 1) \in Int
    BY <2>1 DEF Most
  <2>. QED
    BY <1>1, <2>2, VoiceTypes DEF Call
<1>3. now \in Nat /\ now' \in 0 .. MaxTime
  BY <1>1, VoiceTypes
<1>4. talk' \in [Day -> Nat] /\ \A d \in Day : talk'[d] = IF call.state = "connected" /\ d = Today THEN talk[d] + 1 ELSE talk[d]
  <2>1. talk \in [Day -> Nat]
    BY DEF VoiceInv, TypeOK
  <2>2. CASE call.state = "connected"
    <3>1. talk' = [talk EXCEPT ![Today] = talk[Today] + 1]
      BY <1>1, <2>2
    <3>2. Today \in Day => talk[Today] + 1 \in Nat
      BY <2>1
    <3>3. talk' \in [Day -> Nat]
      BY <2>1, <3>1, <3>2
    <3>4. \A d \in Day : talk'[d] = IF d = Today THEN talk[d] + 1 ELSE talk[d]
      BY <2>1, <3>1
    <3>. QED
      BY <2>2, <3>3, <3>4
  <2>3. CASE call.state # "connected"
    BY <1>1, <2>1, <2>3
  <2>. QED
    BY <2>2, <2>3
<1>5. TypeOK'
  BY <1>1, <1>2, <1>3, <1>4 DEF VoiceInv, TypeOK
<1>6. Intervals'
  <2>1. \A g \in Generation : interval[g].observed \in Nat /\ interval[g].observed <= now
    BY VoiceTypes DEF VoiceInv, Intervals
  <2>2. \A g \in Generation : interval[g].observed <= now'
    BY <1>1, <1>3, <2>1
  <2>. QED
    BY <1>1, <1>2, <2>2 DEF VoiceInv, Intervals
<1>7. Charged'
  BY <1>1 DEF VoiceInv, Charged, Spent, Segment, Least, Most
<1>8. Covered'
  <2>. SUFFICES ASSUME NEW d \in Day
       PROVE  Total([g \in Generation |-> Spent(g, d)])' + Unspent(d)' <= talk'[d]
    BY DEF Covered
  <2>1. Total([g \in Generation |-> Spent(g, d)])' = Total([g \in Generation |-> Spent(g, d)])
    BY <1>1 DEF Total, Spent, Segment, Least, Most
  <2>2. Total([g \in Generation |-> Spent(g, d)]) + Unspent(d) <= talk[d] /\ talk[d] \in Nat
    BY DEF VoiceInv, Covered, TypeOK
  <2>3. Total([g \in Generation |-> Spent(g, d)]) \in Nat /\ Unspent(d) \in Nat
    BY SpentIsNat, UnspentIsNat
  <2>4. CASE call.state = "connected" /\ interval[call.gen].state = "open"
    <3>. DEFINE o == interval[call.gen].observed
    <3>1. call.gen \in Generation /\ o \in Int /\ call.ends \in Nat /\ d \in Nat
      <4>1. call.gen \in Generation
        BY <2>4, VoiceTypes DEF VoiceInv, Intervals, Generation
      <4>. QED
        BY <4>1, VoiceTypes, DaysAreNat
    <3>2. Unspent(d) = Segment(o, Stamp, d) /\ Unspent(d)' = Segment(o, Stamp', d)
      BY <1>1, <1>2, <2>4 DEF Unspent, Segment, Least, Most
    <3>3. (Stamp = now /\ Stamp' = now + 1) \/ Stamp' = Stamp
      BY <1>1, <1>2, <1>3, <3>1 DEF Stamp, Least
    <3>4. Segment(o, now + 1, d) <= Segment(o, now, d) + 1
          /\ (d # Today => Segment(o, now + 1, d) = Segment(o, now, d))
      BY <1>3, <3>1, SegmentTicks DEF Today
    <3>5. Segment(o, Stamp', d) \in Nat
      <4>1. Stamp' \in Int
        BY <1>3, <3>3, VoiceTypes
      <4>. QED
        BY <3>1, <4>1, SegmentIsNat
    <3>6. Unspent(d)' \in Nat /\ Unspent(d)' <= Unspent(d) + 1 /\ (d # Today => Unspent(d)' = Unspent(d))
      <4>1. CASE Stamp' = Stamp
        BY <2>3, <3>2, <3>5, <4>1
      <4>2. CASE Stamp = now /\ Stamp' = now + 1
        BY <2>3, <3>2, <3>4, <3>5, <4>2
      <4>. QED
        BY <3>3, <4>1, <4>2
    <3>7. talk'[d] = IF d = Today THEN talk[d] + 1 ELSE talk[d]
      BY <1>4, <2>4
    <3>. QED
      BY <2>1, <2>2, <2>3, <3>6, <3>7
  <2>5. CASE ~ (call.state = "connected" /\ interval[call.gen].state = "open")
    <3>1. Unspent(d)' = 0
      BY <1>1, <1>2, <2>5 DEF Unspent
    <3>2. talk'[d] \in Nat /\ talk[d] <= talk'[d]
      BY <1>4, <2>2
    <3>. QED
      BY <2>1, <2>2, <2>3, <3>1, <3>2
  <2>. QED
    BY <2>4, <2>5
<1>. QED
  BY <1>1, <1>2, <1>5, <1>6, <1>7, <1>8, ChargeStays DEF VoiceInv

\* A new connection begins with no interval.
LEMMA ConnectKeeps == ASSUME VoiceInv, Connect PROVE VoiceInv' /\ VoiceStep
<1>1. PICK e \in {now + SessionTTL, call.ends} :
        call' = [gen |-> call.gen + 1, state |-> "connecting", lease |-> LeaseTTL, ends |-> e, peer |-> "alive"]
  BY DEF Connect
<1>2. call.gen < MaxCall /\ UNCHANGED <<now, cutover, enforcing, interval, quota, talk>>
  BY DEF Connect
<1>3. e \in Nat /\ call.gen + 1 \in 0 .. MaxCall /\ call.gen + 1 \in Generation /\ call.gen + 1 > call.gen /\ LeaseTTL \in Int
  BY <1>2, VoiceTypes DEF Generation
<1>4. interval[call.gen + 1].state = "none"
  BY <1>3 DEF VoiceInv, Intervals
<1>5. /\ call' \in Call /\ call'.ends \in Nat /\ call'.gen = call.gen + 1 /\ call'.state = "connecting"
  BY <1>1, <1>3 DEF Call, Peer
<1>6. call'.gen # 0 /\ call.gen <= call'.gen /\ call'.gen \in Generation /\ interval[call'.gen].state = "none"
  BY <1>3, <1>4, <1>5, VoiceTypes
<1>7. cutover' \in 0 .. NotYet /\ enforcing' \in BOOLEAN
  BY <1>2 DEF VoiceInv, TypeOK
<1>. QED
  BY <1>2, <1>5, <1>6, <1>7, RowKeeps

\* Each action by itself.
LEMMA VoiceNext == VoiceInv /\ [Next]_vars => VoiceInv' /\ [VoiceStep]_vars
<1>. SUFFICES ASSUME VoiceInv, [Next]_vars PROVE VoiceInv' /\ (VoiceStep \/ UNCHANGED vars)
  OBVIOUS
<1>k. /\ call \in Call /\ call.ends \in Nat /\ LeaseTTL \in Int
      /\ cutover \in 0 .. NotYet /\ enforcing \in BOOLEAN /\ call.gen <= call.gen
      /\ (call.state # "none" => call.gen # 0)
      /\ (call.state = "connecting" => call.gen \in Generation /\ interval[call.gen].state = "none")
  BY VoiceTypes DEF VoiceInv, TypeOK, Intervals, Generation
<1>1. CASE UNCHANGED vars
  <2>1. UNCHANGED <<now, cutover, enforcing, call, interval, quota, talk>>
    BY <1>1 DEF vars
  <2>. QED
    BY <1>k, <2>1, RowKeeps
<1>2. CASE Ready
  <2>1. /\ call.state = "connecting" /\ Track(TRUE, FALSE, FALSE) /\ UNCHANGED <<now, cutover, enforcing, talk>>
        /\ call' = [call EXCEPT !.state = "connected", !.lease = LeaseTTL, !.peer = IF Exhausted THEN "stopping" ELSE "alive"]
    BY <1>2 DEF Ready, Renewed
  <2>2. call' \in Call /\ call'.gen = call.gen /\ call'.ends = call.ends /\ call'.state = "connected"
    <3>1. (IF Exhausted THEN "stopping" ELSE "alive") \in Peer
      BY DEF Peer
    <3>. QED
      BY <1>k, <2>1, <3>1 DEF Call
  <2>. QED
    BY <2>1, <2>2, TrackKeeps
<1>3. CASE Heartbeat
  <2>1. /\ call.state # "none" /\ UNCHANGED <<now, cutover, enforcing, talk>>
        /\ call' = [call EXCEPT !.state = call.state, !.lease = LeaseTTL, !.peer = IF Exhausted THEN "stopping" ELSE "alive"]
        /\ call.state = "connected" => Track(FALSE, FALSE, FALSE)
        /\ call.state # "connected" => UNCHANGED <<interval, quota>>
    BY <1>3 DEF Heartbeat, Renewed, Owned
  <2>2. call' \in Call /\ call'.gen = call.gen /\ call'.ends = call.ends /\ call'.state = call.state
    <3>1. (IF Exhausted THEN "stopping" ELSE "alive") \in Peer
      BY DEF Peer
    <3>. QED
      BY <1>k, <2>1, <3>1 DEF Call
  <2>3. CASE call.state = "connected"
    BY <2>1, <2>2, <2>3, TrackKeeps
  <2>4. CASE call.state # "connected"
    <3>1. UNCHANGED <<now, interval, quota, talk>> /\ cutover' \in 0 .. NotYet /\ enforcing' \in BOOLEAN
      BY <1>k, <2>1, <2>4
    <3>. QED
      BY <1>k, <2>2, <2>4, <3>1, RowKeeps
  <2>. QED
    BY <2>3, <2>4
<1>4. CASE Close \/ Recover \/ Revoke
  <2>1. /\ call.state # "none" /\ UNCHANGED <<now, cutover, enforcing, talk>>
        /\ call' = [call EXCEPT !.state = "none", !.peer = "gone"]
        /\ \/ Track(FALSE, TRUE, FALSE)
           \/ call.state = "connected" /\ Track(FALSE, TRUE, TRUE)
           \/ UNCHANGED <<interval, quota>>
    BY <1>4 DEF Close, Recover, Revoke
  <2>2. call' \in Call /\ call'.gen = call.gen /\ call'.ends = call.ends /\ call'.state = "none"
    BY <1>k, <2>1 DEF Call, Peer
  <2>3. call.state \in {"connecting", "connected"}
    BY <1>k, <2>1 DEF Call
  <2>4. CASE Track(FALSE, TRUE, FALSE)
    BY <2>1, <2>2, <2>3, <2>4, TrackKeeps
  <2>5. CASE call.state = "connected" /\ Track(FALSE, TRUE, TRUE)
    BY <2>1, <2>2, <2>5, TrackKeeps
  <2>6. CASE UNCHANGED <<interval, quota>>
    <3>1. UNCHANGED <<now, interval, quota, talk>> /\ cutover' \in 0 .. NotYet /\ enforcing' \in BOOLEAN
      BY <1>k, <2>1, <2>6
    <3>. QED
      BY <1>k, <2>2, <3>1, RowKeeps
  <2>. QED
    BY <2>1, <2>4, <2>5, <2>6
<1>5. CASE Crash \/ InitializeEnforcement \/ Switch
  <2>1. UNCHANGED <<now, interval, quota, talk>> /\ cutover' \in 0 .. NotYet /\ enforcing' \in BOOLEAN
    <3>1. \/ UNCHANGED <<now, cutover, enforcing, interval, quota, talk>>
          \/ cutover' = now /\ UNCHANGED <<now, enforcing, interval, quota, talk>>
          \/ enforcing' = ~ enforcing /\ UNCHANGED <<now, cutover, interval, quota, talk>>
      BY <1>5 DEF Crash, InitializeEnforcement, Switch
    <3>2. now \in 0 .. NotYet
      BY VoiceTypes DEF NotYet
    <3>. QED
      BY <1>k, <3>1, <3>2
  <2>2. call' \in Call /\ call'.gen = call.gen /\ call'.ends = call.ends /\ call'.state = call.state
    BY <1>5, <1>k DEF Crash, InitializeEnforcement, Switch, Call, Peer
  <2>. QED
    BY <1>k, <2>1, <2>2, RowKeeps
<1>. QED
  BY <1>1, <1>2, <1>3, <1>4, <1>5, ConnectKeeps, ReconcileKeeps, TickKeeps DEF Next

\* A day is charged no more than what its intervals come to.
LEMMA VoiceSafe == VoiceInv => TypeOK /\ ChargedOnce
<1>. SUFFICES ASSUME VoiceInv, NEW d \in Day PROVE Charge(d) <= talk[d]
  BY DEF VoiceInv, ChargedOnce
<1>. DEFINE f == [g \in Generation |-> quota[g][d].amount]
            h == [g \in Generation |-> Spent(g, d)]
<1>1. \A g \in Generation : f[g] \in Nat /\ h[g] \in Nat /\ f[g] <= h[g]
  <2>1. \A g \in Generation : quota[g][d].amount \in Nat
    BY DEF VoiceInv, TypeOK, Receipt
  <2>. QED
    BY <2>1, SpentIsNat DEF VoiceInv, Charged
<1>2. Charge(d) = Total(f)
  BY DEF Charge
<1>3. Total(h) + Unspent(d) <= talk[d] /\ talk[d] \in Nat /\ Unspent(d) \in Nat /\ Total(h) \in Nat
  BY SpentIsNat, UnspentIsNat DEF VoiceInv, Covered, TypeOK
<1>. HIDE DEF f, h
<1>4. Total(f) <= Total(h) /\ Total(f) \in Nat
  BY <1>1, TotalIsMonotone, TotalInNat
<1>. QED
  BY <1>2, <1>3, <1>4

-----------------------------------------------------------------------------
(* StoryDrafts.                                                            *)

Draft == [at : {"idle", "asked", "writing", "failing"}, op : Story!Op, key : Key \cup {None},
         chapter : Story!Number, row : Story!Row, number : Story!Number, on : Story!Rests]

\* Who writes holds the row lock, and his number is the next one; an edit names a chapter
\* that is there.
Drafting(q, c) ==
  /\ q.at = "writing" => writing = c /\ q.number = Len(version) + 1
  /\ q.op = "edit" => q.chapter \in 1 .. Len(version)

\* A story that has a current version keeps having one: who loaded one finds one.
StoryInv ==
  /\ fact \in [Told -> 0 .. MaxTelling]
  /\ changing \in [fact : Told \cup {None}, linked : BOOLEAN]
  /\ changing.fact # None => fact[changing.fact] < MaxTelling
  /\ row \in Story!Row
  /\ version \in Seq(Story!Version) /\ Len(version) <= MaxVersion
  /\ caller \in [Request -> Draft] /\ writing \in Request \cup {None}
  /\ \A c \in Request : /\ Drafting(caller[c], c)
                        /\ caller[c].row.current # 0 => row.current # 0

LEMMA StoryTyped == StoryInv => Story!TypeOK
<1>. SUFFICES ASSUME StoryInv PROVE Story!TypeOK
  OBVIOUS
<1>1. \A n \in 1 .. Len(version) : version[n] \in Story!Version
  BY ElementOfSeq DEF StoryInv
<1>. QED
  BY <1>1 DEF StoryInv, Story!TypeOK, Draft

LEMMA RestingDraft == Story!Resting \in Draft
  /\ Story!Resting.row.current = 0 /\ Story!Resting.at = "idle" /\ Story!Resting.op = "generate"
  /\ Story!NoRow \in Story!Row
<1>1. Story!NoRow \in Story!Row /\ Story!NoRow.current = 0
  BY MCRequestsAssumption DEF Story!NoRow, Story!Row, Story!Number
<1>2. Story!Bare \in Story!Rests
  BY DEF Story!Bare, Story!Rests
<1>. QED
  BY <1>1, <1>2, MCRequestsAssumption DEF Story!Resting, Draft, Story!Op, Story!Number

LEMMA StoryInit == Story!Init => StoryInv
<1>. SUFFICES ASSUME Story!Init PROVE StoryInv
  OBVIOUS
<1>1. caller = [c \in Request |-> Story!Resting] /\ version = <<>>
  BY DEF Story!Init
<1>2. \A c \in Request : Drafting(caller[c], c) /\ caller[c].row.current = 0
  BY <1>1, RestingDraft DEF Drafting
<1>. QED
  BY <1>1, <1>2, RestingDraft, MCRequestsAssumption DEF StoryInv, Story!Init

\* One request goes on, and what the others rely on is left alone.
LEMMA DraftGoesOn ==
  ASSUME StoryInv, NEW c \in Request, NEW q \in Draft, caller' = [caller EXCEPT ![c] = q],
         q.at = "writing" => writing' = c /\ q.number = Len(version') + 1,
         q.op = "edit" => q.chapter \in 1 .. Len(version'),
         q.row.current # 0 => row'.current # 0,
         row.current # 0 => row'.current # 0,
         Len(version)' \in Nat /\ Len(version') >= Len(version),
         \A d \in Request : d # c /\ caller[d].at = "writing" => UNCHANGED <<writing, version>>
  PROVE  /\ caller' \in [Request -> Draft]
         /\ \A d \in Request : /\ Drafting(caller[d], d)'
                               /\ caller'[d].row.current # 0 => row'.current # 0
<1>1. caller' \in [Request -> Draft] /\ caller'[c] = q /\ \A d \in Request : d # c => caller'[d] = caller[d]
  BY DEF StoryInv
<1>2. ASSUME NEW d \in Request, d # c
      PROVE  Drafting(caller[d], d)' /\ (caller'[d].row.current # 0 => row'.current # 0)
  <2>1. caller'[d] = caller[d] /\ Drafting(caller[d], d) /\ (caller[d].row.current # 0 => row.current # 0)
    BY <1>1, <1>2 DEF StoryInv
  <2>2. Len(version) \in Nat
    BY LenProperties DEF StoryInv
  <2>3. 1 .. Len(version) \subseteq 1 .. Len(version')
    BY <2>2
  <2>. QED
    BY <1>2, <2>1, <2>3 DEF Drafting
<1>. QED
  BY <1>1, <1>2 DEF Drafting

\* A request is over: the others know what they knew.
LEMMA DraftIsOver ==
  ASSUME StoryInv, NEW c \in Request, Story!Done(c), row.current # 0 => row'.current # 0,
         Len(version)' \in Nat /\ Len(version') >= Len(version),
         \A d \in Request : d # c /\ caller[d].at = "writing" => UNCHANGED <<writing, version>>
  PROVE  /\ caller' \in [Request -> Draft]
         /\ \A d \in Request : /\ Drafting(caller[d], d)'
                               /\ caller'[d].row.current # 0 => row'.current # 0
<1>1. caller' = [caller EXCEPT ![c] = Story!Resting]
  BY DEF Story!Done
<1>. QED
  BY <1>1, RestingDraft, DraftGoesOn

\* A version is added behind the others.
LEMMA VersionAdded ==
  ASSUME StoryInv, NEW v \in Story!Version, version' = Append(version, v), Len(version) < MaxVersion
  PROVE  /\ version' \in Seq(Story!Version) /\ Len(version') = Len(version) + 1
         /\ Len(version) \in Nat /\ Len(version') <= MaxVersion /\ Len(version) + 1 \in 1 .. MaxVersion
         /\ version'[Len(version) + 1] = v
<1>1. version \in Seq(Story!Version) /\ Len(version) \in Nat
  BY LenProperties DEF StoryInv
<1>2. version' \in Seq(Story!Version) /\ Len(version') = Len(version) + 1 /\ version'[Len(version) + 1] = v
  BY <1>1, AppendProperties
<1>. QED
  BY <1>1, <1>2, MCRequestsAssumption

\* While the row lock is free nobody writes; who holds it is alone.
LEMMA WriterAlone ==
  ASSUME StoryInv, NEW c \in Request, writing = None \/ caller[c].at = "writing"
  PROVE  \A d \in Request : d # c /\ caller[d].at = "writing" => FALSE
BY MCRequestsAssumption DEF StoryInv, Drafting

LEMMA VersionCount == StoryInv => Len(version) \in Nat
BY LenProperties DEF StoryInv

\* What a step may never do, as NewestWins says it.
NewestStep ==
  row'.current # row.current /\ version'[row'.current].key # None =>
    version'[row'.current].from = row.current

\* The versions and the facts are left alone, and so is which version is current.
LEMMA OnlyDrafts ==
  ASSUME StoryInv, UNCHANGED <<fact, changing, version>>, row' \in Story!Row, row'.current = row.current,
         writing' \in Request \cup {None},
         /\ caller' \in [Request -> Draft]
         /\ \A d \in Request : /\ Drafting(caller[d], d)'
                               /\ caller'[d].row.current # 0 => row'.current # 0
  PROVE  StoryInv' /\ NewestStep
<1>1. StoryInv'
  BY DEF StoryInv
<1>. QED
  BY <1>1 DEF NewestStep

LEMMA AskKeeps ==
  ASSUME StoryInv, NEW c \in Request, NEW op \in Story!Op, NEW k \in Key \cup {None},
         NEW chapter \in Story!Number, Story!Ask(c, op, k, chapter)
  PROVE  StoryInv' /\ NewestStep
<1>. DEFINE q == [Story!Resting EXCEPT !.at = "asked", !.op = op, !.key = k, !.chapter = chapter, !.row = row]
<1>1. /\ caller' = [caller EXCEPT ![c] = q] /\ UNCHANGED <<fact, changing, row, version, writing>>
      /\ op = "edit" => chapter \in 1 .. Len(version)
  BY DEF Story!Ask
<1>2. /\ q \in Draft /\ q.row = row /\ q.at = "asked" /\ q.op = op /\ q.chapter = chapter
  BY RestingDraft DEF StoryInv, Draft
<1>. HIDE DEF q
<1>3. (q.at = "writing" => writing' = c /\ q.number = Len(version') + 1)
      /\ (q.op = "edit" => q.chapter \in 1 .. Len(version'))
  BY <1>1, <1>2
<1>4. Len(version)' \in Nat /\ Len(version') >= Len(version)
  BY <1>1, VersionCount
<1>5. /\ caller' \in [Request -> Draft]
      /\ \A d \in Request : /\ Drafting(caller[d], d)'
                            /\ caller'[d].row.current # 0 => row'.current # 0
  BY <1>1, <1>2, <1>3, <1>4, DraftGoesOn
<1>6. row' \in Story!Row /\ row'.current = row.current /\ writing' \in Request \cup {None}
  BY <1>1 DEF StoryInv
<1>. QED
  BY <1>1, <1>5, <1>6, OnlyDrafts

LEMMA WriteKeeps ==
  ASSUME StoryInv, NEW c \in Request, Story!Write(c)
  PROVE  StoryInv' /\ NewestStep
<1>. DEFINE rests(chosen) == [f \in Told |-> IF f \in chosen THEN fact[f] ELSE None]
            goes(chosen) == [caller[c] EXCEPT !.at = "writing", !.number = Len(version) + 1, !.on = rests(chosen)]
<1>1. PICK chosen \in SUBSET Told :
        caller' = [caller EXCEPT ![c].at = "writing", ![c].number = Len(version) + 1,
                                 ![c].on = rests(chosen)]
  BY DEF Story!Write
<1>2. /\ caller[c].at = "asked" /\ caller[c].op = "generate" /\ writing = None /\ Len(version) < MaxVersion
      /\ writing' = c /\ UNCHANGED <<fact, changing, row, version>>
  BY DEF Story!Write, Story!Locks
<1>3. rests(chosen) \in Story!Rests
  BY DEF StoryInv, Story!Rests
<1>. DEFINE q == goes(chosen)
<1>. HIDE DEF rests
<1>4. Len(version) \in Nat /\ Len(version) + 1 \in Story!Number
  BY <1>2, VersionCount, MCRequestsAssumption DEF Story!Number
<1>5. caller[c] \in Draft
  BY DEF StoryInv
<1>6. /\ q \in Draft /\ q.row = caller[c].row /\ q.op = "generate"
      /\ q.number = Len(version) + 1 /\ q.at = "writing"
  BY <1>2, <1>3, <1>4, <1>5 DEF Draft
<1>7. caller' = [caller EXCEPT ![c] = q]
  BY <1>1 DEF StoryInv
<1>. HIDE DEF q
<1>8. (q.at = "writing" => writing' = c /\ q.number = Len(version') + 1)
      /\ (q.op = "edit" => q.chapter \in 1 .. Len(version'))
  BY <1>2, <1>6
<1>9. /\ Len(version)' \in Nat /\ Len(version') >= Len(version)
      /\ \A d \in Request : d # c /\ caller[d].at = "writing" => UNCHANGED <<writing, version>>
  BY <1>2, <1>4, WriterAlone
<1>10. q.row.current # 0 => row'.current # 0
  BY <1>2, <1>6 DEF StoryInv
<1>11. /\ caller' \in [Request -> Draft]
       /\ \A d \in Request : /\ Drafting(caller[d], d)'
                             /\ caller'[d].row.current # 0 => row'.current # 0
  BY <1>2, <1>6, <1>7, <1>8, <1>9, <1>10, DraftGoesOn
<1>12. row' \in Story!Row /\ row'.current = row.current /\ writing' \in Request \cup {None}
  BY <1>2 DEF StoryInv
<1>. QED
  BY <1>2, <1>11, <1>12, OnlyDrafts

\* A request writes nothing, or publishes, withdraws or archives: it is over.
LEMMA NoVersionKeeps ==
  ASSUME StoryInv, NEW c \in Request,
         \/ Story!Replay(c) \/ Story!EditRefused(c) \/ Story!Archive(c)
         \/ Story!Show(c, "publish", "published") \/ Story!Show(c, "unpublish", "draft")
         \/ Story!Crash(c)
  PROVE  StoryInv' /\ NewestStep
<1>1. /\ Story!Done(c) /\ UNCHANGED <<fact, changing, version>>
      /\ row' \in Story!Row /\ row'.current = row.current
  BY DEF Story!Replay, Story!EditRefused, Story!Archive, Story!Show, Story!Crash, StoryInv, Story!Row
<1>2. \/ UNCHANGED writing
      \/ writing = c /\ writing' = None
  BY DEF Story!Replay, Story!EditRefused, Story!Archive, Story!Show, Story!Crash
<1>3. writing' \in Request \cup {None}
  BY <1>2 DEF StoryInv
<1>4. \A d \in Request : d # c /\ caller[d].at = "writing" => UNCHANGED <<writing, version>>
  BY <1>1, <1>2 DEF StoryInv, Drafting
<1>5. Len(version)' \in Nat /\ Len(version') >= Len(version)
  BY <1>1, VersionCount
<1>6. /\ caller' \in [Request -> Draft]
      /\ \A d \in Request : /\ Drafting(caller[d], d)'
                            /\ caller'[d].row.current # 0 => row'.current # 0
  BY <1>1, <1>4, <1>5, DraftIsOver
<1>. QED
  BY <1>1, <1>3, <1>6, OnlyDrafts

LEMMA FailKeeps ==
  ASSUME StoryInv, NEW c \in Request, Story!Fail(c)
  PROVE  StoryInv' /\ NewestStep
<1>. DEFINE q == [caller[c] EXCEPT !.at = "failing"]
<1>1. /\ caller[c].at = "writing" /\ caller' = [caller EXCEPT ![c] = q] /\ writing' = None
      /\ UNCHANGED <<fact, changing, row, version>>
  BY DEF Story!Fail, StoryInv
<1>2. caller[c] \in Draft /\ Drafting(caller[c], c) /\ (caller[c].row.current # 0 => row.current # 0)
  BY DEF StoryInv
<1>3. /\ q \in Draft /\ q.at = "failing" /\ q.op = caller[c].op /\ q.chapter = caller[c].chapter
      /\ q.row = caller[c].row
  BY <1>2 DEF Draft
<1>. HIDE DEF q
<1>4. (q.at = "writing" => writing' = c /\ q.number = Len(version') + 1)
      /\ (q.op = "edit" => q.chapter \in 1 .. Len(version'))
      /\ (q.row.current # 0 => row'.current # 0)
  BY <1>1, <1>2, <1>3 DEF Drafting
<1>5. /\ Len(version)' \in Nat /\ Len(version') >= Len(version)
      /\ \A d \in Request : d # c /\ caller[d].at = "writing" => UNCHANGED <<writing, version>>
  BY <1>1, VersionCount, WriterAlone
<1>6. /\ caller' \in [Request -> Draft]
      /\ \A d \in Request : /\ Drafting(caller[d], d)'
                            /\ caller'[d].row.current # 0 => row'.current # 0
  BY <1>1, <1>3, <1>4, <1>5, DraftGoesOn
<1>7. row' \in Story!Row /\ row'.current = row.current /\ writing' \in Request \cup {None}
  BY <1>1 DEF StoryInv
<1>. QED
  BY <1>1, <1>6, <1>7, OnlyDrafts

\* A version is added by a request that holds the row lock or finds it free: it is over.
LEMMA AddsVersion ==
  ASSUME StoryInv, NEW c \in Request, NEW v \in Story!Version, Story!Done(c),
         version' = Append(version, v), Len(version) < MaxVersion,
         writing = None \/ caller[c].at = "writing", writing' = None,
         UNCHANGED <<fact, changing>>, row' \in Story!Row,
         row'.current \in {row.current, Len(version) + 1}
  PROVE  StoryInv'
<1>1. /\ version' \in Seq(Story!Version) /\ Len(version') = Len(version) + 1
      /\ Len(version) \in Nat /\ Len(version') <= MaxVersion /\ Len(version) + 1 \in 1 .. MaxVersion
      /\ version'[Len(version) + 1] = v
  BY VersionAdded
<1>2. \A d \in Request : d # c /\ caller[d].at = "writing" => UNCHANGED <<writing, version>>
  BY WriterAlone
<1>3. row.current # 0 => row'.current # 0
  BY <1>1
<1>4. Len(version)' \in Nat /\ Len(version') >= Len(version)
  BY <1>1
<1>5. /\ caller' \in [Request -> Draft]
      /\ \A d \in Request : /\ Drafting(caller[d], d)'
                            /\ caller'[d].row.current # 0 => row'.current # 0
  BY <1>2, <1>3, <1>4, DraftIsOver
<1>. QED
  BY <1>1, <1>5 DEF StoryInv

\* What the model and the audit made of the facts is stored under the number that was taken.
LEMMA StoresKeeps ==
  ASSUME StoryInv, NEW c \in Request, Story!Accept(c) \/ Story!Supersede(c)
  PROVE  StoryInv' /\ NewestStep
<1>1. /\ caller[c].at = "writing" /\ caller[c].number = Len(version) + 1 /\ caller[c] \in Draft
      /\ caller[c].row.current # 0 => row.current # 0
  BY DEF StoryInv, Drafting, Story!Accept, Story!Supersede
<1>2. Len(version) \in Nat /\ Len(version) < MaxVersion
  BY <1>1, VersionCount, MCRequestsAssumption DEF Draft, Story!Number
<1>3. CASE Story!Accept(c)
  <2>. DEFINE v == Story!Drafted(c, "ready")
  <2>1. /\ version' = Append(version, v) /\ Story!Newest(c) /\ Story!Done(c) /\ writing' = None
        /\ row' = [row EXCEPT !.current = caller[c].number, !.stale = Story!Fresh(c)]
        /\ UNCHANGED <<fact, changing>>
    BY <1>3 DEF Story!Accept
  <2>2. v \in Story!Version /\ v.from = caller[c].row.current
    BY <1>1 DEF Story!Drafted, Story!Loaded, Story!Version, Draft, Story!Row
  <2>3. row \in Story!Row /\ Story!Fresh(c) \in BOOLEAN
    BY <1>1 DEF Story!Fresh, Story!Loaded, StoryInv, Draft, Story!Row
  <2>4. row' \in Story!Row /\ row'.current = Len(version) + 1
    BY <1>1, <2>1, <2>3 DEF Story!Row, Draft
  <2>. HIDE DEF v
  <2>5. StoryInv'
    BY <1>1, <1>2, <2>1, <2>2, <2>4, AddsVersion
  <2>6. version'[row'.current] = v
    BY <1>2, <2>1, <2>2, <2>4, VersionAdded
  <2>7. v.from = row.current
    BY <1>1, <2>1, <2>2 DEF Story!Newest, Story!Loaded
  <2>. QED
    BY <2>5, <2>6, <2>7 DEF NewestStep
<1>4. CASE Story!Supersede(c)
  <2>. DEFINE v == Story!Drafted(c, "superseded")
  <2>1. /\ version' = Append(version, v) /\ Story!Done(c) /\ writing' = None
        /\ UNCHANGED <<fact, changing, row>>
    BY <1>4 DEF Story!Supersede
  <2>2. v \in Story!Version
    BY <1>1 DEF Story!Drafted, Story!Loaded, Story!Version, Draft, Story!Row
  <2>. HIDE DEF v
  <2>3. row' \in Story!Row /\ row'.current = row.current
    BY <2>1 DEF StoryInv
  <2>4. StoryInv'
    BY <1>1, <1>2, <2>1, <2>2, <2>3, AddsVersion
  <2>. QED
    BY <2>3, <2>4 DEF NewestStep
<1>. QED
  BY <1>3, <1>4

LEMMA RecordKeeps ==
  ASSUME StoryInv, NEW c \in Request, Story!Record(c)
  PROVE  StoryInv' /\ NewestStep
<1>. DEFINE v == [key |-> caller[c].key, ready |-> "failed", from |-> caller[c].row.current, on |-> Story!Bare]
<1>1. /\ writing = None /\ Story!Done(c) /\ UNCHANGED <<fact, changing, row, writing>>
      /\ \/ UNCHANGED version
         \/ ~ Len(version) >= caller[c].number /\ version' = Append(version, v)
  BY DEF Story!Record, Story!Loaded
<1>2. caller[c] \in Draft /\ Len(version) \in Nat /\ row' \in Story!Row /\ row'.current = row.current
      /\ writing' \in Request \cup {None}
  BY <1>1, VersionCount DEF StoryInv
<1>3. v \in Story!Version
  BY <1>2 DEF Story!Version, Draft, Story!Row, Story!Bare, Story!Rests
<1>. HIDE DEF v
<1>4. CASE UNCHANGED version
  <2>1. \A d \in Request : d # c /\ caller[d].at = "writing" => UNCHANGED <<writing, version>>
    BY <1>1, <1>4
  <2>2. Len(version)' \in Nat /\ Len(version') >= Len(version)
    BY <1>2, <1>4
  <2>3. /\ caller' \in [Request -> Draft]
        /\ \A d \in Request : /\ Drafting(caller[d], d)'
                              /\ caller'[d].row.current # 0 => row'.current # 0
    BY <1>1, <1>2, <2>1, <2>2, DraftIsOver
  <2>. QED
    BY <1>1, <1>2, <1>4, <2>3, OnlyDrafts
<1>5. CASE ~ Len(version) >= caller[c].number /\ version' = Append(version, v)
  <2>1. Len(version) < MaxVersion
    BY <1>2, <1>5, MCRequestsAssumption DEF Draft, Story!Number
  <2>2. StoryInv'
    BY <1>1, <1>2, <1>3, <1>5, <2>1, AddsVersion
  <2>. QED
    BY <1>2, <2>2 DEF NewestStep
<1>. QED
  BY <1>1, <1>4, <1>5

\* An edit becomes current, and has no key.
LEMMA EditKeeps ==
  ASSUME StoryInv, NEW c \in Request, Story!Edit(c)
  PROVE  StoryInv' /\ NewestStep
<1>. DEFINE l == caller[c].row.current
            v == [key |-> None, ready |-> "ready", from |-> l, on |-> version[l].on]
<1>1. /\ writing = None /\ Story!Done(c) /\ UNCHANGED <<fact, changing, writing>>
      /\ caller[c].op = "edit" /\ caller[c].chapter = l /\ Len(version) < MaxVersion
      /\ version' = Append(version, v)
      /\ row' = [row EXCEPT !.current = Len(version) + 1, !.stale = Story!Fresh(c)]
  BY DEF Story!Edit, Story!Locks, Story!Loaded
<1>2. caller[c] \in Draft /\ l \in 1 .. Len(version) /\ Len(version) \in Nat
  BY <1>1, VersionCount DEF StoryInv, Drafting
<1>3. version[l] \in Story!Version
  BY <1>2, ElementOfSeq DEF StoryInv
<1>4. v \in Story!Version /\ v.key = None
  BY <1>2, <1>3 DEF Story!Version, Draft, Story!Row
<1>5. row \in Story!Row /\ Story!Fresh(c) \in BOOLEAN
  BY <1>2 DEF Story!Fresh, Story!Loaded, StoryInv, Draft, Story!Row
<1>6. Len(version) + 1 \in Story!Number
  BY <1>1, <1>2, MCRequestsAssumption DEF Story!Number
<1>7. row' \in Story!Row /\ row'.current = Len(version) + 1
  BY <1>1, <1>5, <1>6 DEF Story!Row
<1>. HIDE DEF v
<1>8. StoryInv'
  BY <1>1, <1>4, <1>7, AddsVersion
<1>9. version'[row'.current] = v
  BY <1>1, <1>4, <1>7, VersionAdded
<1>. QED
  BY <1>4, <1>8, <1>9 DEF NewestStep

\* A fact changes, and may mark the story.
LEMMA ChangeKeeps ==
  ASSUME StoryInv, NEW f \in Told, Story!Flush(f) \/ Story!CommitChange(f)
  PROVE  StoryInv' /\ NewestStep
<1>1. UNCHANGED <<version, caller, writing>>
  BY DEF Story!Flush, Story!CommitChange
<1>2. row' \in Story!Row /\ row'.current = row.current
  BY DEF Story!Flush, Story!CommitChange, Story!Row, StoryInv
<1>3. \A d \in Request : Drafting(caller[d], d)' /\ (caller'[d].row.current # 0 => row'.current # 0)
  BY <1>1, <1>2 DEF StoryInv, Drafting
<1>4. CASE Story!Flush(f)
  <2>1. changing' = [fact |-> f, linked |-> Story!Links(f)] /\ fact[f] < MaxTelling /\ UNCHANGED fact
    BY <1>4 DEF Story!Flush
  <2>2. changing' \in [fact : Told \cup {None}, linked : BOOLEAN]
    BY <2>1 DEF Story!Links
  <2>. QED
    BY <1>1, <1>2, <1>3, <2>1, <2>2 DEF StoryInv, NewestStep
<1>5. CASE Story!CommitChange(f)
  <2>1. /\ changing.fact = f /\ changing' = [fact |-> None, linked |-> FALSE]
        /\ fact' = [fact EXCEPT ![f] = @ + 1]
    BY <1>5 DEF Story!CommitChange
  <2>2. fact[f] < MaxTelling /\ fact \in [Told -> 0 .. MaxTelling]
    BY <2>1, MCRequestsAssumption DEF StoryInv
  <2>3. fact' \in [Told -> 0 .. MaxTelling]
    BY <2>1, <2>2, MCRequestsAssumption
  <2>. QED
    BY <1>1, <1>2, <1>3, <2>1, <2>3 DEF StoryInv, NewestStep
<1>. QED
  BY <1>4, <1>5

LEMMA StoryNext == StoryInv /\ [Story!Next]_story => StoryInv' /\ [NewestStep]_story
<1>. SUFFICES ASSUME StoryInv, [Story!Next]_story PROVE StoryInv' /\ [NewestStep]_story
  OBVIOUS
<1>1. CASE UNCHANGED story
  BY <1>1 DEF story, StoryInv, Drafting
<1>2. ASSUME NEW c \in Request, Story!AskDraft(c) PROVE StoryInv' /\ NewestStep
  BY <1>2, AskKeeps, WriteKeeps, NoVersionKeeps, FailKeeps, StoresKeeps, RecordKeeps, EditKeeps
     DEF Story!AskDraft
<1>. QED
  BY <1>1, <1>2, ChangeKeeps DEF Story!Next

-----------------------------------------------------------------------------
(* ConversationTools.                                                      *)

Runs == {"check", "await", "answer", "accept"}

\* A call says that it went well only when its answer waits to be accepted; the calls of a
\* plan are still to run, run, or have run.
ToolsInv ==
  /\ Tools!TypeOK
  /\ running.ok => running.at = "accept"
  /\ running.at \in Runs => running.tool \in Tools!Tool
  /\ Len(results) + Len(plan) + (IF running.at \in Runs THEN 1 ELSE 0) <= MaxCalls

\* What a step may never do, as AnswersAreCurrent and PublishedTogether say it.
ToolsStep ==
  /\ running.at = "answer" /\ running'.ok =>
       /\ running'.rows \subseteq Tools!Active
       /\ running.tool # "timeline" => \A r \in running'.rows : r.fact \in Private => verified
  /\ published' # published => allowed /\ plan = <<>> /\ running.at = "idle"

LEMMA ToolsInit == Tools!Init => ToolsInv
<1>. SUFFICES ASSUME Tools!Init PROVE ToolsInv
  OBVIOUS
<1>1. PICK n \in 1 .. MaxCalls : plan \in [1 .. n -> Tools!Tool]
  BY DEF Tools!Init
<1>2. n \in Nat /\ n <= MaxCalls
  BY <1>1, MCRequestsAssumption
<1>3. plan \in Seq(Tools!Tool)
  BY <1>1, <1>2, SeqDef
<1>4. Len(plan) = n
  BY <1>1, <1>2, <1>3, LenProperties
<1>5. results = <<>> /\ results \in Seq(Tools!Result) /\ Len(results) = 0
  BY DEF Tools!Init
<1>6. running = Tools!NoCall /\ running \in Tools!Call /\ running.at = "idle" /\ ~ running.ok
  BY DEF Tools!Init, Tools!NoCall, Tools!Call
<1>7. Tools!TypeOK
  <2>1. /\ known = [f \in Public \union Private |-> 1] /\ verified \in BOOLEAN /\ allowed = TRUE
        /\ published = FALSE /\ changes = 0
    BY DEF Tools!Init
  <2>2. known \in [Public \union Private -> 0 .. MaxEdit + 1] /\ changes \in 0 .. MaxEdit
    BY <2>1, MCRequestsAssumption
  <2>3. Len(results) <= MaxCalls
    BY <1>5, MCRequestsAssumption
  <2>. QED
    BY <1>2, <1>3, <1>4, <1>5, <1>6, <2>1, <2>2, <2>3 DEF Tools!TypeOK
<1>. QED
  BY <1>2, <1>4, <1>5, <1>6, <1>7 DEF ToolsInv, Runs

\* The rows that may be told.
LEMMA ActiveRows ==
  ASSUME Tools!TypeOK
  PROVE  /\ Tools!Active \subseteq Tools!Row
         /\ Tools!Visible \subseteq Tools!Active
         /\ \A r \in Tools!Visible : r.fact \in Private => verified
<1>1. ASSUME NEW f \in Public \union Private, known[f] > 0
      PROVE  [fact |-> f, version |-> known[f]] \in Tools!Row
  <2>1. known[f] \in 0 .. MaxEdit + 1
    BY DEF Tools!TypeOK
  <2>2. known[f] \in 1 .. MaxEdit + 1
    BY <1>1, <2>1, MCRequestsAssumption
  <2>. QED
    BY <2>2 DEF Tools!Row
<1>2. Tools!Active \subseteq Tools!Row
  BY <1>1 DEF Tools!Active
<1>. QED
  BY <1>2 DEF Tools!Visible

\* The second session returns rows that are there, and no name to a visitor who may not
\* hear it.
LEMMA CurrentRows ==
  ASSUME Tools!TypeOK, NEW tool, NEW rows
  PROVE  /\ Tools!Current(tool, rows) \subseteq Tools!Active
         /\ tool # "timeline" => \A r \in Tools!Current(tool, rows) : r.fact \in Private => verified
<1>. DEFINE again(pool) == {r \in pool : \E s \in rows : s.fact = r.fact}
<1>1. Tools!Current(tool, rows) \in
        {again(Tools!Visible), {r \in Tools!Visible : r.fact \in Private /\ verified}, {}}
        \cup IF tool = "timeline" THEN {again(Tools!Active)} ELSE {}
  BY DEF Tools!Current
<1>2. again(Tools!Visible) \subseteq Tools!Visible /\ again(Tools!Active) \subseteq Tools!Active
  OBVIOUS
<1>. HIDE DEF again
<1>. QED
  BY <1>1, <1>2, ActiveRows

\* What others do leaves the call, and what it has, alone.
LEMMA OthersKeep ==
  ASSUME ToolsInv, Tools!Others
  PROVE  ToolsInv' /\ ToolsStep
<1>1. UNCHANGED <<plan, running, results, published>>
  BY DEF Tools!Others, Tools!Edit, Tools!Regard, Tools!Withdraw
<1>2. known' \in [Public \union Private -> 0 .. MaxEdit + 1] /\ changes' \in 0 .. MaxEdit
  <2>1. CASE Tools!Edit
    <3>1. PICK f \in Public \union Private, v \in {0, changes + 2} : known' = [known EXCEPT ![f] = v]
      BY <2>1 DEF Tools!Edit
    <3>2. changes \in 0 .. MaxEdit /\ changes < MaxEdit /\ changes' = changes + 1
      BY <2>1 DEF Tools!Edit, ToolsInv, Tools!TypeOK
    <3>3. v \in 0 .. MaxEdit + 1
      BY <3>2, MCRequestsAssumption
    <3>. QED
      BY <3>1, <3>2, <3>3, MCRequestsAssumption DEF ToolsInv, Tools!TypeOK
  <2>2. CASE Tools!Regard
    BY <2>2, MCRequestsAssumption DEF Tools!Regard, ToolsInv, Tools!TypeOK
  <2>3. CASE Tools!Withdraw
    BY <2>3 DEF Tools!Withdraw, ToolsInv, Tools!TypeOK
  <2>. QED
    BY <2>1, <2>2, <2>3 DEF Tools!Others
<1>3. verified' \in BOOLEAN /\ allowed' \in BOOLEAN
  BY DEF Tools!Others, Tools!Edit, Tools!Regard, Tools!Withdraw, ToolsInv, Tools!TypeOK
<1>4. Tools!TypeOK'
  BY <1>1, <1>2, <1>3 DEF ToolsInv, Tools!TypeOK
<1>. QED
  BY <1>1, <1>4 DEF ToolsInv, ToolsStep

\* One call goes on: the plan and the results stay as they are.
LEMMA RunGoesOn ==
  ASSUME ToolsInv, UNCHANGED <<known, verified, allowed, plan, results, changes>>,
         running' \in Tools!Call, published' \in BOOLEAN,
         running'.ok => running'.at = "accept",
         running'.at \in Runs => running.at \in Runs /\ running'.tool \in Tools!Tool
  PROVE  ToolsInv'
<1>1. Tools!TypeOK'
  BY DEF ToolsInv, Tools!TypeOK
<1>2. Len(results) \in Nat /\ Len(plan) \in Nat
  BY LenProperties DEF ToolsInv, Tools!TypeOK
<1>. QED
  BY <1>1, <1>2, MCRequestsAssumption DEF ToolsInv

LEMMA Aborted == LET q == [Tools!NoCall EXCEPT !.at = "aborted"]
                 IN  q \in Tools!Call /\ ~ q.ok /\ q.at \notin Runs
BY DEF Tools!NoCall, Tools!Call, Runs

LEMMA RunsKeep ==
  ASSUME ToolsInv, Tools!Runs
  PROVE  ToolsInv' /\ ToolsStep
<1>t. /\ running \in Tools!Call /\ running.rows \subseteq Tools!Row /\ running.ok \in BOOLEAN
      /\ plan \in Seq(Tools!Tool) /\ results \in Seq(Tools!Result)
      /\ Len(plan) \in Nat /\ Len(results) \in Nat /\ published \in BOOLEAN
      /\ Len(results) + Len(plan) + (IF running.at \in Runs THEN 1 ELSE 0) <= MaxCalls
      /\ MaxCalls \in Nat
  BY LenProperties, MCRequestsAssumption DEF ToolsInv, Tools!TypeOK, Tools!Call
<1>. DEFINE gone == [Tools!NoCall EXCEPT !.at = "aborted"]
<1>a. gone \in Tools!Call /\ ~ gone.ok /\ gone.at \notin Runs
  BY Aborted
<1>1. CASE Tools!Begin
  <2>1. CASE running' = gone /\ UNCHANGED plan
    <3>1. ToolsInv'
      BY <1>1, <1>t, <1>a, <2>1, RunGoesOn DEF Tools!Begin, Tools!people
    <3>. QED
      BY <1>1, <3>1 DEF ToolsStep, Tools!Begin
  <2>2. CASE /\ running' = [Tools!NoCall EXCEPT !.at = "check", !.tool = Head(plan)]
             /\ plan' = Tail(plan)
    <3>1. plan # <<>> /\ running.at = "idle" /\ UNCHANGED <<known, verified, allowed, changes, results, published>>
      BY <1>1 DEF Tools!Begin, Tools!people
    <3>2. Head(plan) \in Tools!Tool /\ Tail(plan) \in Seq(Tools!Tool) /\ Len(Tail(plan)) = Len(plan) - 1
      BY <1>t, <3>1, HeadTailProperties
    <3>3. /\ running' \in Tools!Call /\ running'.at = "check" /\ ~ running'.ok /\ running'.tool = Head(plan)
      BY <2>2, <3>2 DEF Tools!NoCall, Tools!Call
    <3>4. Len(plan') = Len(plan) - 1 /\ plan' \in Seq(Tools!Tool) /\ Len(plan') <= MaxCalls
      BY <1>t, <2>2, <3>2
    <3>5. Tools!TypeOK'
      BY <3>1, <3>3, <3>4 DEF ToolsInv, Tools!TypeOK
    <3>6. Len(results') + Len(plan') + (IF running'.at \in Runs THEN 1 ELSE 0) <= MaxCalls
      BY <1>t, <3>1, <3>3, <3>4 DEF Runs
    <3>. QED
      BY <3>1, <3>2, <3>3, <3>5, <3>6 DEF ToolsInv, ToolsStep
  <2>. QED
    BY <1>1, <2>1, <2>2 DEF Tools!Begin, Tools!Abort
<1>2. CASE Tools!Select
  <2>1. running.at = "check" /\ UNCHANGED <<known, verified, allowed, changes, plan, results, published>>
    BY <1>2 DEF Tools!Select, Tools!people
  <2>2. ~ running.ok /\ running.tool \in Tools!Tool
    BY <2>1 DEF ToolsInv, Runs
  <2>3. /\ running' \in Tools!Call /\ ~ running'.ok /\ running'.tool = running.tool
    <3>1. CASE running' = [running EXCEPT !.at = "accept"]
      BY <1>t, <2>2, <3>1 DEF Tools!Call
    <3>2. ASSUME NEW rows \in SUBSET Tools!Active, running' = [running EXCEPT !.at = "await", !.rows = rows]
          PROVE  /\ running' \in Tools!Call /\ ~ running'.ok /\ running'.tool = running.tool
      <4>1. rows \subseteq Tools!Row
        BY ActiveRows DEF ToolsInv
      <4>. QED
        BY <1>t, <2>2, <3>2, <4>1 DEF Tools!Call
    <3>. QED
      BY <1>2, <3>1, <3>2 DEF Tools!Select
  <2>4. ToolsInv'
    BY <1>t, <2>1, <2>2, <2>3, RunGoesOn DEF Runs
  <2>. QED
    BY <2>1, <2>4 DEF ToolsStep
<1>3. CASE Tools!Await
  <2>1. running.at = "await" /\ UNCHANGED <<known, verified, allowed, changes, plan, results, published>>
    BY <1>3 DEF Tools!Await, Tools!people
  <2>2. ~ running.ok /\ running.tool \in Tools!Tool
    BY <2>1 DEF ToolsInv, Runs
  <2>3. CASE running' = gone
    <3>1. ToolsInv'
      BY <1>t, <1>a, <2>1, <2>3, RunGoesOn
    <3>. QED
      BY <2>1, <3>1 DEF ToolsStep
  <2>4. CASE \/ running' = [running EXCEPT !.at = "answer"]
             \/ running' = [running EXCEPT !.at = "accept", !.rows = {}]
    <3>1. running' \in Tools!Call /\ ~ running'.ok /\ running'.tool = running.tool
      BY <1>t, <2>2, <2>4 DEF Tools!Call
    <3>2. ToolsInv'
      BY <1>t, <2>1, <2>2, <3>1, RunGoesOn DEF Runs
    <3>. QED
      BY <2>1, <3>2 DEF ToolsStep
  <2>. QED
    BY <1>3, <2>3, <2>4 DEF Tools!Await, Tools!Abort
<1>4. CASE Tools!Answer
  <2>1. running.at = "answer" /\ UNCHANGED <<known, verified, allowed, changes, plan, results, published>>
    BY <1>4 DEF Tools!Answer, Tools!people
  <2>2. ~ running.ok /\ running.tool \in Tools!Tool /\ Tools!TypeOK
    BY <2>1 DEF ToolsInv, Runs
  <2>. DEFINE rows == Tools!Current(running.tool, running.rows)
  <2>3. /\ rows \subseteq Tools!Active /\ Tools!Active \subseteq Tools!Row
        /\ running.tool # "timeline" => \A r \in rows : r.fact \in Private => verified
    BY <2>2, CurrentRows, ActiveRows
  <2>. HIDE DEF rows
  <2>4. \/ running' = [running EXCEPT !.at = "accept", !.ok = TRUE, !.rows = rows]
        \/ running' = [running EXCEPT !.at = "accept", !.rows = {}]
    BY <1>4 DEF Tools!Answer, rows
  <2>5. /\ running' \in Tools!Call /\ running'.at = "accept" /\ running'.tool = running.tool
        /\ running'.ok => running'.rows = rows
    BY <1>t, <2>2, <2>3, <2>4 DEF Tools!Call
  <2>6. ToolsInv'
    BY <1>t, <2>1, <2>2, <2>5, RunGoesOn DEF Runs
  <2>. QED
    BY <2>1, <2>3, <2>5, <2>6 DEF ToolsStep
<1>5. CASE Tools!Accept
  <2>1. running.at = "accept" /\ UNCHANGED <<known, verified, allowed, changes, plan, published>>
    BY <1>5 DEF Tools!Accept, Tools!people
  <2>2. CASE running' = gone /\ UNCHANGED results
    <3>1. ToolsInv'
      BY <1>t, <1>a, <2>1, <2>2, RunGoesOn
    <3>. QED
      BY <2>1, <3>1 DEF ToolsStep
  <2>. DEFINE told == [tool |-> running.tool, ok |-> running.ok, rows |-> IF running.ok THEN running.rows ELSE {}]
  <2>3. CASE results' = Append(results, told) /\ running' = Tools!NoCall
    <3>1. told \in Tools!Result
      BY <1>t, <2>1 DEF ToolsInv, Runs, Tools!Result
    <3>. HIDE DEF told
    <3>2. results' \in Seq(Tools!Result) /\ Len(results') = Len(results) + 1
      BY <1>t, <2>3, <3>1, AppendProperties
    <3>3. running' \in Tools!Call /\ running'.at = "idle" /\ ~ running'.ok
      BY <2>3 DEF Tools!NoCall, Tools!Call
    <3>4. Len(results') + Len(plan') <= MaxCalls /\ Len(results') <= MaxCalls
      BY <1>t, <2>1, <3>2 DEF Runs
    <3>5. Tools!TypeOK'
      BY <2>1, <3>2, <3>3, <3>4 DEF ToolsInv, Tools!TypeOK
    <3>6. Len(results') + Len(plan') + (IF running'.at \in Runs THEN 1 ELSE 0) <= MaxCalls
      BY <1>t, <2>1, <3>2, <3>3, <3>4 DEF Runs
    <3>. QED
      BY <2>1, <3>3, <3>5, <3>6 DEF ToolsInv, ToolsStep, Runs
  <2>. QED
    BY <1>5, <2>2, <2>3 DEF Tools!Accept, Tools!Abort
<1>6. CASE Tools!Publish
  <2>1. /\ running.at = "idle" /\ plan = <<>>
        /\ UNCHANGED <<known, verified, allowed, changes, plan, results>>
        /\ \/ allowed /\ published' = TRUE /\ UNCHANGED running
           \/ running' = gone /\ UNCHANGED published
    BY <1>6 DEF Tools!Publish, Tools!people, Tools!StillOurs, Tools!Abort
  <2>2. ToolsInv'
    BY <1>t, <1>a, <2>1, RunGoesOn DEF ToolsInv, Runs
  <2>. QED
    BY <2>1, <2>2 DEF ToolsStep
<1>. QED
  BY <1>1, <1>2, <1>3, <1>4, <1>5, <1>6 DEF Tools!Runs

LEMMA ToolsNext == ToolsInv /\ [Tools!Next]_tools => ToolsInv' /\ [ToolsStep]_tools
<1>. SUFFICES ASSUME ToolsInv, [Tools!Next]_tools PROVE ToolsInv' /\ [ToolsStep]_tools
  OBVIOUS
<1>1. CASE UNCHANGED tools
  BY <1>1 DEF tools, ToolsInv, Tools!TypeOK
<1>. QED
  BY <1>1, RunsKeep, OthersKeep DEF Tools!Next

-----------------------------------------------------------------------------
(* AccountAccess.                                                          *)

Challenge == [email : Address, purpose : Account!Purpose, consumed : BOOLEAN,
              tries : 0 .. MaxTries, grant : Request \cup {None}, used : BOOLEAN]
User == [email : Address, hash : 1 .. MaxHash, sub : Account!Subjects \cup {None},
         origin : 0 .. MaxCode]

\* What a request may be about to commit.
Asks == {Account!Idle}
        \cup [op : {"code"}, email : Address, purpose : Account!Purpose, open : SUBSET Nat]
        \cup [op : {"wrong", "right"}, code : Nat, tries : 0 .. MaxTries - 1]
        \cup [op : {"complete", "reset"}, code : Nat]
        \cup [op : {"reread"}, user : Nat, proved : 0 .. MaxHash]
        \cup [op : {"hand"}, cookie : Account!Cookie]
        \cup [op : {"link", "enrol"}, who : [sub : Subject, email : Address], found : SUBSET Nat]

\* A cookie carries the fingerprint of the hash that the sign-in behind it read.
AsRead(k) == k.since = k.print

\* A request works on rows that are there, spends an authorization for what it was bought
\* for, and hands over a cookie that is as its sign-in read the row.
Informed(q) ==
  /\ q.op \in {"wrong", "right", "complete", "reset"} => q.code \in DOMAIN challenge
  /\ q.op = "complete" => challenge[q.code].purpose = "registration"
  /\ q.op = "reset" => challenge[q.code].purpose = "password_reset"
  /\ q.op = "reread" => q.user \in DOMAIN users
  /\ q.op = "hand" => AsRead(q.cookie)
  /\ q.op = "link" => q.found \subseteq DOMAIN users

\* Every account was made with a hash of its own.
AccountRows ==
  /\ challenge \in Seq(Challenge) /\ Len(challenge) <= MaxCode
  /\ users \in Seq(User) /\ Len(users) <= hashes
  /\ hashes \in 0 .. MaxHash
  /\ cookies \subseteq Account!Cookie /\ \A k \in cookies : AsRead(k)

\* An account names the authorization that it was made from.
Origins ==
  \A u \in DOMAIN users : users[u].origin # 0 =>
    /\ users[u].origin \in DOMAIN challenge
    /\ challenge[users[u].origin].used
    /\ challenge[users[u].origin].email = users[u].email
    /\ \A v \in DOMAIN users : users[v].origin = users[u].origin => v = u

Made ==
  \A c \in DOMAIN challenge :
    challenge[c].used /\ challenge[c].purpose = "registration" =>
      \E u \in DOMAIN users : users[u].origin = c

AccountInv ==
  /\ AccountRows
  /\ req \in [Request -> Asks] /\ \A r \in Request : Informed(req[r])
  /\ Origins /\ Made

LEMMA AccountSafe == AccountInv => ProofsHold
<1>. SUFFICES ASSUME AccountInv PROVE ProofsHold
  OBVIOUS
<1>1. Account!CookiesFollowPassword
  BY DEF AccountInv, AccountRows, AsRead, Account!CookiesFollowPassword, Account!RefreshTokenMatches
<1>2. Account!SpentOnAnAccount
  BY DEF AccountInv, Origins, Made, Account!SpentOnAnAccount
<1>. QED
  BY <1>1, <1>2 DEF ProofsHold

LEMMA AccountTyped == AccountInv => Account!TypeOK
<1>. SUFFICES ASSUME AccountInv PROVE Account!TypeOK
  OBVIOUS
<1>1. \A r \in Request : req[r].op \in {"idle", "code", "wrong", "right", "complete",
                                        "reset", "reread", "hand", "link", "enrol"}
  BY DEF AccountInv, Asks, Account!Idle
<1>. QED
  BY <1>1 DEF AccountInv, AccountRows, Account!TypeOK, Challenge, User

LEMMA AccountInit == Account!Init => AccountInv
<1>. SUFFICES ASSUME Account!Init PROVE AccountInv
  OBVIOUS
<1>1. challenge = <<>> /\ users = <<>> /\ cookies = {} /\ hashes = 0
      /\ req = [r \in Request |-> Account!Idle]
  BY DEF Account!Init
<1>2. AccountRows
  BY <1>1, MCRequestsAssumption DEF AccountRows
<1>3. Account!Idle \in Asks /\ Informed(Account!Idle)
  BY DEF Asks, Informed, Account!Idle
<1>. QED
  BY <1>1, <1>2, <1>3 DEF AccountInv, Origins, Made

\* Rows that are there stay, and are for what they were for.
RowsStay ==
  /\ \A c \in DOMAIN challenge : c \in DOMAIN challenge' /\ challenge'[c].purpose = challenge[c].purpose
  /\ DOMAIN users \subseteq DOMAIN users'

\* What a request knew it still knows, and one of them may have gone on.
LEMMA InformedKept ==
  ASSUME AccountInv, NEW r \in Request, NEW q \in Asks, req' = [req EXCEPT ![r] = q],
         RowsStay, Informed(q)'
  PROVE  req' \in [Request -> Asks] /\ \A p \in Request : Informed(req[p])'
<1>1. req' \in [Request -> Asks] /\ req'[r] = q /\ \A p \in Request : p # r => req'[p] = req[p]
  BY DEF AccountInv
<1>2. ASSUME NEW p \in Request, p # r PROVE Informed(req[p])'
  BY <1>1, <1>2 DEF AccountInv, RowsStay, Informed, AsRead
<1>. QED
  BY <1>1, <1>2 DEF Informed, AsRead

\* A request reads, and writes nothing yet.
LEMMA OnlyAsks ==
  ASSUME AccountInv, NEW r \in Request, NEW q \in Asks, req' = [req EXCEPT ![r] = q],
         Informed(q), UNCHANGED <<challenge, users, cookies, hashes>>
  PROVE  AccountInv'
<1>1. RowsStay
  BY DEF RowsStay
<1>2. Informed(q)'
  BY DEF Informed, AsRead
<1>3. req' \in [Request -> Asks] /\ \A p \in Request : Informed(req[p])'
  BY <1>1, <1>2, InformedKept
<1>4. AccountRows' /\ Origins' /\ Made'
  BY DEF AccountInv, AccountRows, Origins, Made, AsRead
<1>. QED
  BY <1>3, <1>4 DEF AccountInv

LEMMA IdleAsks == Account!Idle \in Asks /\ Informed(Account!Idle) /\ Informed(Account!Idle)'
BY DEF Asks, Informed, Account!Idle

LEMMA RowsDomain ==
  ASSUME AccountRows
  PROVE  /\ Len(challenge) \in Nat /\ DOMAIN challenge = 1 .. Len(challenge)
         /\ Len(users) \in Nat /\ DOMAIN users = 1 .. Len(users)
         /\ \A c \in DOMAIN challenge : challenge[c] \in Challenge
         /\ \A u \in DOMAIN users : users[u] \in User
BY LenProperties, ElementOfSeq DEF AccountRows

\* Who has just read the row of a user hands over what he read.
LEMMA HandsOver ==
  ASSUME AccountInv, NEW r \in Request, NEW u \in DOMAIN users, NEW h \in 0 .. MaxHash,
         req' = [req EXCEPT ![r] = [op |-> "hand", cookie |-> Account!SignedIn(u, h)]],
         UNCHANGED <<challenge, users, cookies, hashes>>
  PROVE  AccountInv'
<1>. DEFINE k == Account!SignedIn(u, h)
            q == [op |-> "hand", cookie |-> k]
<1>1. u \in 1 .. MaxHash /\ users[u].hash \in 1 .. MaxHash
  BY RowsDomain, MCRequestsAssumption DEF AccountInv, AccountRows, User
<1>2. k \in Account!Cookie /\ AsRead(k)
  BY <1>1 DEF Account!SignedIn, Account!Cookie, AsRead
<1>. HIDE DEF k
<1>3. q \in Asks /\ Informed(q)
  BY <1>2 DEF Asks, Informed
<1>4. req' = [req EXCEPT ![r] = q]
  BY DEF k
<1>. QED
  BY <1>3, <1>4, OnlyAsks

LEMMA ArrivesKeeps ==
  ASSUME AccountInv, NEW r \in Request, Account!Arrives(r)
  PROVE  AccountInv'
<1>d. /\ DOMAIN challenge \subseteq Nat /\ DOMAIN users \subseteq Nat
      /\ \A c \in DOMAIN challenge : challenge[c] \in Challenge
      /\ \A u \in DOMAIN users : users[u] \in User
  BY RowsDomain DEF AccountInv
<1>1. ASSUME NEW a \in Address, NEW p \in Account!Purpose, Account!AsksCode(r, a, p) PROVE AccountInv'
  <2>. DEFINE q == [op |-> "code", email |-> a, purpose |-> p,
                    open |-> {c \in Account!Codes(a, p) : ~ challenge[c].consumed}]
  <2>1. q \in Asks /\ Informed(q)
    BY <1>d DEF Asks, Informed, Account!Codes
  <2>2. req' = [req EXCEPT ![r] = q] /\ UNCHANGED <<challenge, users, cookies, hashes>>
    BY <1>1 DEF Account!AsksCode, Account!Goes
  <2>. HIDE DEF q
  <2>. QED
    BY <2>1, <2>2, OnlyAsks
<1>2. ASSUME NEW a \in Address, Account!Register(r, a) \/ Account!ForgotPassword(r, a) PROVE AccountInv'
  BY <1>1, <1>2 DEF Account!Register, Account!ForgotPassword, Account!Purpose
<1>3. ASSUME NEW a \in Address, NEW p \in Account!Purpose, Account!ResendOtp(r, a, p) PROVE AccountInv'
  BY <1>1, <1>3 DEF Account!ResendOtp
<1>4. ASSUME NEW a \in Address, NEW p \in Account!Purpose, NEW right \in BOOLEAN,
             Account!VerifyChallenge(r, a, p, right)
      PROVE  AccountInv'
  <2>1. PICK c \in Account!Triable(a, p) :
          req' = [req EXCEPT ![r] = [op |-> IF right THEN "right" ELSE "wrong", code |-> c,
                                     tries |-> challenge[c].tries]]
    BY <1>4 DEF Account!VerifyChallenge, Account!Goes
  <2>. DEFINE q == [op |-> IF right THEN "right" ELSE "wrong", code |-> c, tries |-> challenge[c].tries]
  <2>2. c \in DOMAIN challenge /\ challenge[c].tries < MaxTries
    BY DEF Account!Triable, Account!Codes
  <2>3. challenge[c].tries \in 0 .. MaxTries - 1
    BY <1>d, <2>2, MCRequestsAssumption DEF Challenge
  <2>4. q \in Asks /\ Informed(q)
    BY <1>d, <2>2, <2>3 DEF Asks, Informed
  <2>5. UNCHANGED <<challenge, users, cookies, hashes>>
    BY <1>4 DEF Account!VerifyChallenge
  <2>. HIDE DEF q
  <2>. QED
    BY <2>1, <2>4, <2>5, OnlyAsks DEF q
<1>5. ASSUME NEW by \in Request, NEW p \in Account!Purpose, Account!ConsumeAuthorization(r, by, p)
      PROVE  AccountInv'
  <2>1. PICK c \in Account!Authorized(by, p) :
          req' = [req EXCEPT ![r] = [op |-> IF p = "registration" THEN "complete" ELSE "reset", code |-> c]]
    BY <1>5 DEF Account!ConsumeAuthorization, Account!Goes
  <2>. DEFINE q == [op |-> IF p = "registration" THEN "complete" ELSE "reset", code |-> c]
  <2>2. c \in DOMAIN challenge /\ challenge[c].purpose = p
    BY DEF Account!Authorized
  <2>4. q \in Asks /\ Informed(q)
    BY <1>d, <2>2 DEF Asks, Informed, Account!Purpose
  <2>5. UNCHANGED <<challenge, users, cookies, hashes>>
    BY <1>5 DEF Account!ConsumeAuthorization
  <2>. QED
    BY <2>1, <2>4, <2>5, OnlyAsks
<1>6. ASSUME NEW u \in DOMAIN users, Account!Login(r, u) PROVE AccountInv'
  <2>1. users[u].hash \in 0 .. MaxHash
    BY <1>d, MCRequestsAssumption DEF User
  <2>. QED
    BY <1>6, <2>1, HandsOver DEF Account!Login, Account!Goes
<1>7. ASSUME NEW old \in cookies, Account!Refresh(r, old) PROVE AccountInv'
  <2>. DEFINE k == [old EXCEPT !.print = users[old.user].hash]
              q == [op |-> "hand", cookie |-> k]
  <2>1. old \in Account!Cookie /\ AsRead(old) /\ users[old.user].hash = old.print
    BY <1>7 DEF AccountInv, AccountRows, Account!Refresh, Account!RefreshTokenMatches
  <2>2. k \in Account!Cookie /\ AsRead(k)
    BY <2>1 DEF Account!Cookie, AsRead
  <2>. HIDE DEF k
  <2>3. q \in Asks /\ Informed(q)
    BY <2>2 DEF Asks, Informed
  <2>4. req' = [req EXCEPT ![r] = q] /\ UNCHANGED <<challenge, users, cookies, hashes>>
    BY <1>7 DEF Account!Refresh, Account!Goes, k
  <2>. QED
    BY <2>3, <2>4, OnlyAsks
<1>8. ASSUME NEW i \in [sub : Subject, email : Address], Account!GoogleLogin(r, i) PROVE AccountInv'
  <2>. DEFINE found == Account!Holder(i.sub) \cup Account!Account(i.email)
              q == [op |-> IF found = {} THEN "enrol" ELSE "link", who |-> i, found |-> found]
  <2>1. found \subseteq DOMAIN users
    BY DEF Account!Holder, Account!Account
  <2>2. req' = [req EXCEPT ![r] = q] /\ UNCHANGED <<challenge, users, cookies, hashes>>
    BY <1>8 DEF Account!GoogleLogin, Account!Goes
  <2>. HIDE DEF found
  <2>3. q \in Asks /\ Informed(q)
    BY <1>d, <2>1 DEF Asks, Informed
  <2>. QED
    BY <2>2, <2>3, OnlyAsks
<1>. QED
  BY <1>2, <1>3, <1>4, <1>5, <1>6, <1>7, <1>8 DEF Account!Arrives

\* One challenge is written, its address and purpose are not, and it is used only if
\* it was: what the accounts say of the authorizations is left alone.
LEMMA ChallengeWritten ==
  ASSUME AccountInv, NEW r \in Request, NEW c \in DOMAIN challenge, NEW entry \in Challenge,
         entry.email = challenge[c].email, entry.purpose = challenge[c].purpose,
         entry.used = challenge[c].used,
         challenge' = [challenge EXCEPT ![c] = entry], Account!Done(r),
         UNCHANGED <<users, cookies, hashes>>
  PROVE  AccountInv'
<1>1. /\ challenge' \in Seq(Challenge) /\ Len(challenge') = Len(challenge)
      /\ DOMAIN challenge' = DOMAIN challenge
      /\ challenge'[c] = entry /\ \A d \in DOMAIN challenge : d # c => challenge'[d] = challenge[d]
  BY ExceptSeq, RowsDomain DEF AccountInv, AccountRows
<1>2. \A d \in DOMAIN challenge :
        /\ challenge'[d].email = challenge[d].email /\ challenge'[d].purpose = challenge[d].purpose
        /\ challenge'[d].used = challenge[d].used
  BY <1>1
<1>3. RowsStay
  BY <1>1, <1>2 DEF RowsStay
<1>4. req' \in [Request -> Asks] /\ \A p \in Request : Informed(req[p])'
  BY <1>3, IdleAsks, InformedKept DEF Account!Done, Account!Goes
<1>5. AccountRows'
  BY <1>1 DEF AccountInv, AccountRows, AsRead
<1>6. Origins' /\ Made'
  BY <1>1, <1>2 DEF AccountInv, Origins, Made
<1>. QED
  BY <1>4, <1>5, <1>6 DEF AccountInv

LEMMA CountAttemptKeeps ==
  ASSUME AccountInv, NEW r \in Request, Account!CountAttempt(r) \/ Account!Authorize(r)
  PROVE  AccountInv'
<1>d. \A c \in DOMAIN challenge : challenge[c] \in Challenge
  BY RowsDomain DEF AccountInv
<1>1. CASE Account!CountAttempt(r)
  <2>. DEFINE c == req[r].code
              tries == req[r].tries + 1
              entry == [challenge[c] EXCEPT !.tries = tries, !.consumed = challenge[c].consumed \/ tries >= MaxTries]
  <2>1. req[r].op = "wrong" /\ req[r] \in Asks /\ Informed(req[r])
    BY <1>1 DEF AccountInv, Account!CountAttempt
  <2>2. c \in DOMAIN challenge /\ tries \in 0 .. MaxTries
    BY <2>1, MCRequestsAssumption DEF Asks, Informed, Account!Idle
  <2>3. challenge[c] \in Challenge
    BY <1>d, <2>2
  <2>4. /\ challenge' = [challenge EXCEPT ![c].tries = tries, ![c].consumed = @ \/ tries >= MaxTries]
        /\ Account!Done(r) /\ UNCHANGED <<users, cookies, hashes>>
    BY <1>1 DEF Account!CountAttempt
  <2>5. challenge' = [challenge EXCEPT ![c] = entry]
    BY <2>2, <2>4
  <2>6. /\ entry \in Challenge /\ entry.email = challenge[c].email
        /\ entry.purpose = challenge[c].purpose /\ entry.used = challenge[c].used
    BY <2>2, <2>3 DEF Challenge
  <2>. HIDE DEF entry, c, tries
  <2>. QED
    BY <2>2, <2>4, <2>5, <2>6, ChallengeWritten
<1>2. CASE Account!Authorize(r)
  <2>. DEFINE c == req[r].code
              entry == [challenge[c] EXCEPT !.consumed = TRUE, !.grant = r]
  <2>1. req[r].op = "right" /\ req[r] \in Asks /\ Informed(req[r])
    BY <1>2 DEF AccountInv, Account!Authorize
  <2>2. c \in DOMAIN challenge
    BY <2>1 DEF Informed
  <2>3. challenge[c] \in Challenge
    BY <1>d, <2>2
  <2>4. /\ challenge' = [challenge EXCEPT ![c].consumed = TRUE, ![c].grant = r]
        /\ Account!Done(r) /\ UNCHANGED <<users, cookies, hashes>>
    BY <1>2 DEF Account!Authorize
  <2>5. challenge' = [challenge EXCEPT ![c] = entry]
    BY <2>2, <2>4
  <2>6. /\ entry \in Challenge /\ entry.email = challenge[c].email
        /\ entry.purpose = challenge[c].purpose /\ entry.used = challenge[c].used
    BY <2>3 DEF Challenge
  <2>. HIDE DEF entry, c
  <2>. QED
    BY <2>2, <2>4, <2>5, <2>6, ChallengeWritten
<1>. QED
  BY <1>1, <1>2

LEMMA CreateChallengeKeeps ==
  ASSUME AccountInv, NEW r \in Request, Account!CreateChallenge(r)
  PROVE  AccountInv'
<1>. DEFINE q == req[r]
            closed == [c \in DOMAIN challenge |->
                         IF c \in q.open THEN [challenge[c] EXCEPT !.consumed = TRUE] ELSE challenge[c]]
            entry == [email |-> q.email, purpose |-> q.purpose, consumed |-> FALSE,
                    tries |-> 0, grant |-> None, used |-> FALSE]
            n == Len(challenge)
<1>1. /\ q.op = "code" /\ n < MaxCode /\ challenge' = Append(closed, entry) /\ Account!Done(r)
      /\ UNCHANGED <<users, cookies, hashes>>
  BY DEF Account!CreateChallenge
<1>d. n \in Nat /\ DOMAIN challenge = 1 .. n /\ \A c \in 1 .. n : challenge[c] \in Challenge
  BY RowsDomain DEF AccountInv
<1>2. entry \in Challenge
  <2>1. q \in Asks
    BY DEF AccountInv
  <2>. QED
    BY <1>1, <2>1, MCRequestsAssumption DEF Asks, Challenge, Account!Idle
<1>3. \A c \in 1 .. n : /\ closed[c] \in Challenge /\ closed[c].email = challenge[c].email
                        /\ closed[c].purpose = challenge[c].purpose /\ closed[c].used = challenge[c].used
  BY <1>d DEF Challenge
<1>4. closed \in Seq(Challenge) /\ Len(closed) = n
  BY <1>d, <1>3, IsASeq
<1>. HIDE DEF closed, entry, q
<1>5. /\ challenge' \in Seq(Challenge) /\ Len(challenge') = n + 1
      /\ \A c \in 1 .. n : challenge'[c] = closed[c]
      /\ challenge'[n + 1] = entry
  BY <1>1, <1>2, <1>4, AppendProperties
<1>6. DOMAIN challenge' = 1 .. n + 1
  BY <1>5, LenProperties
<1>7. \A c \in 1 .. n : /\ c \in DOMAIN challenge' /\ challenge'[c].email = challenge[c].email
                        /\ challenge'[c].purpose = challenge[c].purpose /\ challenge'[c].used = challenge[c].used
  BY <1>3, <1>5, <1>6, <1>d
<1>8. ~ challenge'[n + 1].used
  BY <1>5 DEF entry
<1>9. RowsStay
  BY <1>1, <1>7, <1>d DEF RowsStay
<1>10. req' \in [Request -> Asks] /\ \A p \in Request : Informed(req[p])'
  BY <1>1, <1>9, IdleAsks, InformedKept DEF Account!Done, Account!Goes
<1>11. AccountRows'
  BY <1>1, <1>5, <1>d, MCRequestsAssumption DEF AccountInv, AccountRows, AsRead
<1>12. Origins'
  BY <1>1, <1>7, <1>d DEF AccountInv, Origins
<1>13. Made'
  <2>1. \A c \in DOMAIN challenge' : challenge'[c].used => c \in 1 .. n
    BY <1>6, <1>8, <1>d
  <2>. QED
    BY <1>1, <1>7, <1>d, <2>1 DEF AccountInv, Made
<1>. QED
  BY <1>10, <1>11, <1>12, <1>13 DEF AccountInv

\* The authorization is spent: nothing else of the challenges changes.
LEMMA SpentRows ==
  ASSUME AccountInv, NEW c \in DOMAIN challenge, challenge' = Account!Spent(c)
  PROVE  /\ challenge' \in Seq(Challenge) /\ Len(challenge') = Len(challenge)
         /\ DOMAIN challenge' = DOMAIN challenge
         /\ challenge'[c].used
         /\ \A d \in DOMAIN challenge :
              /\ challenge'[d].email = challenge[d].email /\ challenge'[d].purpose = challenge[d].purpose
              /\ d # c => challenge'[d] = challenge[d]
<1>. DEFINE entry == [challenge[c] EXCEPT !.used = TRUE]
<1>1. challenge[c] \in Challenge /\ DOMAIN challenge = 1 .. Len(challenge) /\ challenge \in Seq(Challenge)
  BY RowsDomain DEF AccountInv, AccountRows
<1>2. /\ entry \in Challenge /\ entry.used /\ entry.email = challenge[c].email
      /\ entry.purpose = challenge[c].purpose
  BY <1>1 DEF Challenge
<1>3. challenge' = [challenge EXCEPT ![c] = entry]
  BY DEF Account!Spent
<1>. HIDE DEF entry
<1>4. /\ challenge' \in Seq(Challenge) /\ Len(challenge') = Len(challenge)
      /\ \A d \in DOMAIN challenge : challenge'[d] = IF d = c THEN entry ELSE challenge[d]
  BY <1>1, <1>2, <1>3, ExceptSeq
<1>5. DOMAIN challenge' = DOMAIN challenge
  BY <1>1, <1>4, LenProperties
<1>. QED
  BY <1>2, <1>4, <1>5

\* A user is added, with the next hash.
LEMMA UserAdded ==
  ASSUME AccountInv, NEW entry \in User, users' = Append(users, entry), hashes' = hashes + 1, hashes < MaxHash
  PROVE  /\ users' \in Seq(User) /\ Len(users') <= hashes' /\ hashes' \in 0 .. MaxHash
         /\ Len(users) + 1 \in 1 .. MaxHash
         /\ DOMAIN users' = DOMAIN users \cup {Len(users) + 1} /\ Len(users) + 1 \notin DOMAIN users
         /\ users'[Len(users) + 1] = entry /\ \A u \in DOMAIN users : users'[u] = users[u]
<1>1. /\ users \in Seq(User) /\ Len(users) \in Nat /\ DOMAIN users = 1 .. Len(users)
      /\ Len(users) <= hashes /\ hashes \in 0 .. MaxHash
  BY RowsDomain DEF AccountInv, AccountRows
<1>2. /\ users' \in Seq(User) /\ Len(users') = Len(users) + 1
      /\ \A u \in 1 .. Len(users) : users'[u] = users[u]
      /\ users'[Len(users) + 1] = entry
  BY <1>1, AppendProperties
<1>3. DOMAIN users' = 1 .. Len(users) + 1
  BY <1>2, LenProperties
<1>. QED
  BY <1>1, <1>2, <1>3, MCRequestsAssumption

\* Who has committed a user that is there has yet to read its row.
LEMMA CommittedAsks ==
  ASSUME AccountInv, NEW r \in Request, NEW u \in Nat, NEW h \in 0 .. MaxHash,
         Account!Committed(r, u, h), RowsStay, u \in DOMAIN users'
  PROVE  req' \in [Request -> Asks] /\ \A p \in Request : Informed(req[p])'
<1>. DEFINE q == [op |-> "reread", user |-> u, proved |-> h]
<1>1. q \in Asks /\ Informed(q)'
  BY DEF Asks, Informed
<1>2. req' = [req EXCEPT ![r] = q]
  BY DEF Account!Committed, Account!Goes
<1>. HIDE DEF q
<1>. QED
  BY <1>1, <1>2, InformedKept

LEMMA CompleteRegistrationKeeps ==
  ASSUME AccountInv, NEW r \in Request, Account!CompleteRegistration(r)
  PROVE  AccountInv'
<1>. DEFINE c == req[r].code
            a == challenge[c].email
<1>1. /\ req[r].op = "complete" /\ UNCHANGED cookies
      /\ IF Account!Account(a) # {}
         THEN Account!Done(r) /\ UNCHANGED <<challenge, users, hashes>>
         ELSE /\ hashes < MaxHash /\ hashes' = hashes + 1
              /\ challenge' = Account!Spent(c)
              /\ users' = Append(users, [email |-> a, hash |-> hashes', sub |-> None, origin |-> c])
              /\ Account!Committed(r, Len(users) + 1, hashes')
  BY DEF Account!CompleteRegistration, Account!GivenBack
<1>2. CASE Account!Account(a) # {}
  BY <1>1, <1>2, IdleAsks, OnlyAsks DEF Account!Done, Account!Goes
<1>3. CASE Account!Account(a) = {}
  <2>. DEFINE entry == [email |-> a, hash |-> hashes + 1, sub |-> None, origin |-> c]
              n == Len(users) + 1
  <2>1. c \in DOMAIN challenge
    BY <1>1 DEF AccountInv, Informed
  <2>2. challenge[c] \in Challenge /\ c \in 1 .. MaxCode
    BY <2>1, RowsDomain, MCRequestsAssumption DEF AccountInv, AccountRows
  <2>3. hashes + 1 \in 1 .. MaxHash
    BY <1>1, <1>3, MCRequestsAssumption DEF AccountInv, AccountRows
  <2>4. entry \in User /\ entry.email = a /\ entry.origin = c
    BY <2>2, <2>3 DEF User, Challenge
  <2>5. users' = Append(users, entry) /\ hashes' = hashes + 1 /\ hashes < MaxHash
    BY <1>1, <1>3
  <2>. HIDE DEF entry
  <2>6. /\ users' \in Seq(User) /\ Len(users') <= hashes' /\ hashes' \in 0 .. MaxHash /\ n \in 1 .. MaxHash
        /\ DOMAIN users' = DOMAIN users \cup {n} /\ n \notin DOMAIN users
        /\ users'[n] = entry /\ \A u \in DOMAIN users : users'[u] = users[u]
    BY <2>4, <2>5, UserAdded
  <2>7. /\ challenge' \in Seq(Challenge) /\ Len(challenge') = Len(challenge)
        /\ DOMAIN challenge' = DOMAIN challenge
        /\ challenge'[c].used
        /\ \A d \in DOMAIN challenge :
             /\ challenge'[d].email = challenge[d].email /\ challenge'[d].purpose = challenge[d].purpose
             /\ d # c => challenge'[d] = challenge[d]
    BY <1>1, <1>3, <2>1, SpentRows
  <2>8. Account!Committed(r, n, hashes + 1)
    BY <1>1, <1>3
  <2>. HIDE DEF n
  <2>9. AccountRows'
    BY <1>1, <2>6, <2>7 DEF AccountInv, AccountRows, AsRead
  <2>10. RowsStay
    BY <2>6, <2>7 DEF RowsStay
  <2>11. n \in DOMAIN users' /\ n \in Nat /\ hashes + 1 \in 0 .. MaxHash
    BY <2>3, <2>6, MCRequestsAssumption
  <2>12. req' \in [Request -> Asks] /\ \A p \in Request : Informed(req[p])'
    BY <2>8, <2>10, <2>11, CommittedAsks
  <2>13. \A u \in DOMAIN users : users[u].origin # c
    <3>1. c # 0 /\ \A u \in DOMAIN users : users[u].email # a
      BY <1>3, <2>2 DEF Account!Account
    <3>. QED
      BY <3>1 DEF AccountInv, Origins
  <2>14. Origins'
    BY <2>1, <2>4, <2>6, <2>7, <2>13 DEF AccountInv, Origins
  <2>15. Made'
    BY <2>4, <2>6, <2>7 DEF AccountInv, Made
  <2>. QED
    BY <2>9, <2>12, <2>14, <2>15 DEF AccountInv
<1>. QED
  BY <1>2, <1>3

\* One user is written, its address and its origin are not.
LEMMA UserWritten ==
  ASSUME AccountInv, NEW u \in DOMAIN users, NEW entry \in User, users' = [users EXCEPT ![u] = entry],
         entry.email = users[u].email, entry.origin = users[u].origin
  PROVE  /\ users' \in Seq(User) /\ Len(users') = Len(users) /\ DOMAIN users' = DOMAIN users
         /\ \A v \in DOMAIN users : users'[v].email = users[v].email /\ users'[v].origin = users[v].origin
<1>1. users \in Seq(User) /\ DOMAIN users = 1 .. Len(users)
  BY RowsDomain DEF AccountInv, AccountRows
<1>2. /\ users' \in Seq(User) /\ Len(users') = Len(users)
      /\ \A v \in DOMAIN users : users'[v] = IF v = u THEN entry ELSE users[v]
  BY <1>1, ExceptSeq
<1>3. DOMAIN users' = DOMAIN users
  BY <1>1, <1>2, LenProperties
<1>. QED
  BY <1>2, <1>3

LEMMA ResetPasswordKeeps ==
  ASSUME AccountInv, NEW r \in Request, Account!ResetPassword(r)
  PROVE  AccountInv'
<1>. DEFINE c == req[r].code
<1>1. /\ req[r].op = "reset" /\ hashes < MaxHash /\ hashes' = hashes + 1
      /\ challenge' = Account!Spent(c) /\ Account!Done(r) /\ UNCHANGED cookies
  BY DEF Account!ResetPassword
<1>2. PICK u \in Account!Account(challenge[c].email) : users' = [users EXCEPT ![u].hash = hashes']
  BY DEF Account!ResetPassword
<1>. DEFINE entry == [users[u] EXCEPT !.hash = hashes']
<1>3. u \in DOMAIN users /\ users[u] \in User
  BY RowsDomain DEF AccountInv, Account!Account
<1>4. hashes' \in 1 .. MaxHash
  BY <1>1, MCRequestsAssumption DEF AccountInv, AccountRows
<1>5. entry \in User /\ entry.email = users[u].email /\ entry.origin = users[u].origin
  BY <1>3, <1>4 DEF User
<1>6. users' = [users EXCEPT ![u] = entry]
  BY <1>2, <1>3
<1>. HIDE DEF entry
<1>7. /\ users' \in Seq(User) /\ Len(users') = Len(users) /\ DOMAIN users' = DOMAIN users
      /\ \A v \in DOMAIN users : users'[v].email = users[v].email /\ users'[v].origin = users[v].origin
  BY <1>3, <1>5, <1>6, UserWritten
<1>8. c \in DOMAIN challenge /\ challenge[c].purpose = "password_reset"
  BY <1>1 DEF AccountInv, Informed
<1>9. /\ challenge' \in Seq(Challenge) /\ Len(challenge') = Len(challenge)
      /\ DOMAIN challenge' = DOMAIN challenge
      /\ challenge'[c].used
      /\ \A d \in DOMAIN challenge :
           /\ challenge'[d].email = challenge[d].email /\ challenge'[d].purpose = challenge[d].purpose
           /\ d # c => challenge'[d] = challenge[d]
  BY <1>1, <1>8, SpentRows
<1>10. RowsStay
  BY <1>7, <1>9 DEF RowsStay
<1>11. req' \in [Request -> Asks] /\ \A p \in Request : Informed(req[p])'
  BY <1>1, <1>10, IdleAsks, InformedKept DEF Account!Done, Account!Goes
<1>12. AccountRows'
  <2>1. Len(users) \in Nat /\ hashes \in Nat
    BY RowsDomain DEF AccountInv, AccountRows
  <2>. QED
    BY <1>1, <1>4, <1>7, <1>9, <2>1, MCRequestsAssumption DEF AccountInv, AccountRows, AsRead
<1>13. Origins'
  <2>1. \A d \in DOMAIN challenge : challenge[d].used => challenge'[d].used
    BY <1>9
  <2>2. /\ DOMAIN users' = DOMAIN users /\ DOMAIN challenge' = DOMAIN challenge
        /\ \A v \in DOMAIN users : users'[v].email = users[v].email /\ users'[v].origin = users[v].origin
        /\ \A d \in DOMAIN challenge : challenge'[d].email = challenge[d].email
    BY <1>7, <1>9
  <2>. QED
    BY <2>1, <2>2 DEF AccountInv, Origins
<1>14. Made'
  <2>1. \A d \in DOMAIN challenge' :
          challenge'[d].used /\ challenge'[d].purpose = "registration" =>
            d \in DOMAIN challenge /\ challenge[d].used /\ challenge[d].purpose = "registration"
    BY <1>8, <1>9
  <2>. QED
    BY <1>7, <2>1 DEF AccountInv, Made
<1>. QED
  BY <1>11, <1>12, <1>13, <1>14 DEF AccountInv

\* The rows of the accounts change and those of the challenges do not: what they say of one
\* another is kept when no origin and no address changes, and a new account has no origin.
LEMMA OriginsAlone ==
  ASSUME AccountInv, UNCHANGED challenge, DOMAIN users \subseteq DOMAIN users',
         \A v \in DOMAIN users : users'[v].email = users[v].email /\ users'[v].origin = users[v].origin,
         \A v \in DOMAIN users' : v \notin DOMAIN users => users'[v].origin = 0
  PROVE  Origins' /\ Made' /\ RowsStay
<1>1. \A v \in DOMAIN users' : users'[v].origin # 0 => v \in DOMAIN users
  OBVIOUS
<1>2. Origins'
  BY <1>1 DEF AccountInv, Origins
<1>3. Made'
  BY DEF AccountInv, Made
<1>. QED
  BY <1>2, <1>3 DEF RowsStay

LEMMA SetSessionKeeps ==
  ASSUME AccountInv, NEW r \in Request, Account!SetSession(r)
  PROVE  AccountInv'
<1>. DEFINE k == req[r].cookie
<1>1. /\ req[r].op = "hand" /\ cookies' = cookies \cup {k} /\ Account!Done(r)
      /\ UNCHANGED <<challenge, users, hashes>>
  BY DEF Account!SetSession, Account!Fingerprint
<1>2. k \in Account!Cookie /\ AsRead(k)
  <2>1. req[r] \in Asks /\ Informed(req[r])
    BY DEF AccountInv
  <2>. QED
    BY <1>1, <2>1 DEF Asks, Informed, Account!Idle
<1>. HIDE DEF k
<1>3. AccountRows'
  BY <1>1, <1>2 DEF AccountInv, AccountRows, AsRead
<1>4. Origins' /\ Made' /\ RowsStay
  BY <1>1, OriginsAlone
<1>5. req' \in [Request -> Asks] /\ \A p \in Request : Informed(req[p])'
  BY <1>1, <1>4, IdleAsks, InformedKept DEF Account!Done, Account!Goes
<1>. QED
  BY <1>3, <1>4, <1>5 DEF AccountInv

LEMMA LogoutKeeps ==
  ASSUME AccountInv, NEW k \in cookies, Account!Logout(k)
  PROVE  AccountInv'
<1>1. cookies' = cookies \ {k} /\ UNCHANGED <<challenge, users, hashes, req>>
  BY DEF Account!Logout
<1>2. AccountRows'
  BY <1>1 DEF AccountInv, AccountRows, AsRead
<1>3. Origins' /\ Made'
  BY <1>1, OriginsAlone
<1>4. req' \in [Request -> Asks] /\ \A p \in Request : Informed(req[p])'
  BY <1>1 DEF AccountInv, Informed, AsRead
<1>. QED
  BY <1>2, <1>3, <1>4 DEF AccountInv

LEMMA WhoIs ==
  ASSUME AccountInv, NEW r \in Request, req[r].op \in {"link", "enrol"}
  PROVE  req[r].who \in [sub : Subject, email : Address] /\ req[r].who.sub \in Account!Subjects
<1>1. req[r] \in Asks
  BY DEF AccountInv
<1>2. req[r].who \in [sub : Subject, email : Address]
  BY <1>1 DEF Asks, Account!Idle
<1>. QED
  BY <1>2 DEF Account!Subjects

LEMMA ReReadKeeps ==
  ASSUME AccountInv, NEW r \in Request, Account!ReRead(r)
  PROVE  AccountInv'
<1>1. req[r].op = "reread" /\ req[r] \in Asks /\ Informed(req[r])
  BY DEF AccountInv, Account!ReRead
<1>2. req[r].user \in DOMAIN users /\ req[r].proved \in 0 .. MaxHash
  BY <1>1 DEF Asks, Informed, Account!Idle
<1>. QED
  BY <1>2, HandsOver DEF Account!ReRead, Account!Goes

LEMMA LinkKeeps ==
  ASSUME AccountInv, NEW r \in Request, Account!Link(r)
  PROVE  AccountInv'
<1>. DEFINE g == req[r].who.sub
<1>1. req[r].op = "link" /\ UNCHANGED <<challenge, cookies, hashes>>
  BY DEF Account!Link
<1>2. PICK u \in req[r].found :
         IF Account!Holder(g) \subseteq {u}
         THEN users' = [users EXCEPT ![u].sub = g] /\ Account!Committed(r, u, Account!ByGoogle)
         ELSE UNCHANGED users /\ Account!Done(r)
  BY DEF Account!Link
<1>3. u \in DOMAIN users
  BY <1>1 DEF AccountInv, Informed
<1>4. CASE UNCHANGED users /\ Account!Done(r)
  BY <1>1, <1>4, IdleAsks, OnlyAsks DEF Account!Done, Account!Goes
<1>5. CASE users' = [users EXCEPT ![u].sub = g] /\ Account!Committed(r, u, Account!ByGoogle)
  <2>. DEFINE entry == [users[u] EXCEPT !.sub = g]
  <2>1. users[u] \in User /\ u \in Nat
    BY <1>3, RowsDomain DEF AccountInv
  <2>2. g \in Account!Subjects
    BY <1>1, WhoIs
  <2>3. entry \in User /\ entry.email = users[u].email /\ entry.origin = users[u].origin
    BY <2>1, <2>2 DEF User
  <2>4. users' = [users EXCEPT ![u] = entry]
    BY <1>3, <1>5
  <2>. HIDE DEF entry
  <2>5. /\ users' \in Seq(User) /\ Len(users') = Len(users) /\ DOMAIN users' = DOMAIN users
        /\ \A v \in DOMAIN users : users'[v].email = users[v].email /\ users'[v].origin = users[v].origin
    BY <1>3, <2>3, <2>4, UserWritten
  <2>6. AccountRows'
    BY <1>1, <2>5 DEF AccountInv, AccountRows, AsRead
  <2>7. Origins' /\ Made' /\ RowsStay
    BY <1>1, <2>5, OriginsAlone
  <2>8. Account!ByGoogle \in 0 .. MaxHash
    BY MCRequestsAssumption DEF Account!ByGoogle
  <2>9. req' \in [Request -> Asks] /\ \A p \in Request : Informed(req[p])'
    BY <1>3, <1>5, <2>1, <2>5, <2>7, <2>8, CommittedAsks
  <2>. QED
    BY <2>6, <2>7, <2>9 DEF AccountInv
<1>. QED
  BY <1>2, <1>4, <1>5

LEMMA EnrolKeeps ==
  ASSUME AccountInv, NEW r \in Request, Account!Enrol(r)
  PROVE  AccountInv'
<1>. DEFINE i == req[r].who
            n == Len(users) + 1
            entry == [email |-> i.email, hash |-> hashes + 1, sub |-> i.sub, origin |-> 0]
<1>1. /\ req[r].op = "enrol" /\ UNCHANGED <<challenge, cookies>>
      /\ \/ UNCHANGED <<users, hashes>> /\ Account!Done(r)
         \/ /\ hashes < MaxHash /\ hashes' = hashes + 1
            /\ users' = Append(users, entry) /\ Account!Committed(r, n, Account!ByGoogle)
  BY DEF Account!Enrol
<1>2. CASE UNCHANGED <<users, hashes>> /\ Account!Done(r)
  BY <1>1, <1>2, IdleAsks, OnlyAsks DEF Account!Done, Account!Goes
<1>3. CASE /\ hashes < MaxHash /\ hashes' = hashes + 1
           /\ users' = Append(users, entry) /\ Account!Committed(r, n, Account!ByGoogle)
  <2>1. hashes + 1 \in 1 .. MaxHash
    BY <1>3, MCRequestsAssumption DEF AccountInv, AccountRows
  <2>2. i.email \in Address /\ i.sub \in Account!Subjects
    BY <1>1, WhoIs
  <2>3. entry \in User /\ entry.origin = 0
    BY <2>1, <2>2, MCRequestsAssumption DEF User
  <2>. HIDE DEF entry, i
  <2>4. /\ users' \in Seq(User) /\ Len(users') <= hashes' /\ hashes' \in 0 .. MaxHash /\ n \in 1 .. MaxHash
        /\ DOMAIN users' = DOMAIN users \cup {n} /\ n \notin DOMAIN users
        /\ users'[n] = entry /\ \A u \in DOMAIN users : users'[u] = users[u]
    BY <1>3, <2>3, UserAdded
  <2>5. n \in Nat /\ n \in DOMAIN users' /\ Account!ByGoogle \in 0 .. MaxHash
    BY <2>4, MCRequestsAssumption DEF Account!ByGoogle
  <2>. HIDE DEF n
  <2>6. AccountRows'
    BY <1>1, <2>4 DEF AccountInv, AccountRows, AsRead
  <2>7. Origins' /\ Made' /\ RowsStay
    BY <1>1, <2>3, <2>4, OriginsAlone
  <2>8. req' \in [Request -> Asks] /\ \A p \in Request : Informed(req[p])'
    BY <1>3, <2>5, <2>7, CommittedAsks
  <2>. QED
    BY <2>6, <2>7, <2>8 DEF AccountInv
<1>. QED
  BY <1>1, <1>2, <1>3

LEMMA AccountNext == AccountInv /\ [Account!Next]_account => AccountInv'
<1>. SUFFICES ASSUME AccountInv, [Account!Next]_account PROVE AccountInv'
  OBVIOUS
<1>1. CASE UNCHANGED account
  <2>1. UNCHANGED <<challenge, users, cookies, hashes, req>>
    BY <1>1 DEF account
  <2>2. AccountRows' /\ Origins' /\ Made'
    BY <2>1 DEF AccountInv, AccountRows, Origins, Made, AsRead
  <2>3. req' \in [Request -> Asks] /\ \A p \in Request : Informed(req[p])'
    BY <2>1 DEF AccountInv, Informed, AsRead
  <2>. QED
    BY <2>2, <2>3 DEF AccountInv
<1>2. ASSUME NEW r \in Request, Account!Arrives(r) \/ Account!Commits(r) PROVE AccountInv'
  BY <1>2, ArrivesKeeps, CreateChallengeKeeps, CountAttemptKeeps, CompleteRegistrationKeeps,
     ResetPasswordKeeps, ReReadKeeps, SetSessionKeeps, LinkKeeps, EnrolKeeps DEF Account!Commits
<1>. QED
  BY <1>1, <1>2, LogoutKeeps DEF Account!Next

-----------------------------------------------------------------------------
(* DisplayPicture.                                                         *)

\* A mark is on a source that was ready when it was set: such a source leaves that state
\* only to be deleted.
MarkedStays == \A s \in Source : source[s].revision # 0 => source[s].state \in {"ready", "deleting"}

\* The selection that holds the Legacy row has read every mark, and what it selects stays
\* ready.
Choosing ==
  \A o \in Request : choice[o] # None =>
    /\ holder = o /\ Picture!Eligible(choice[o].source)
    /\ Picture!Marked \subseteq choice[o].marked

\* Of the marks only that of the latest choice is set.
LatestAlone ==
  latest # None =>
    /\ latest \in Picture!Chosen
    /\ \A s \in Picture!Chosen : s = latest

\* A portrait that can be enabled was activated.
Activated == portrait.source # None => portrait.revision # 0

PictureInv ==
  Picture!TypeOK /\ MarkedStays /\ Choosing /\ LatestAlone /\ Activated

LEMMA PictureCardinality == ASSUME NEW S PROVE Picture!Cardinality(S) = Cardinality(S)
BY DEF Picture!Cardinality, Cardinality, Picture!IsFiniteSet, IsFiniteSet

\* With one mark set, the selection is that source or nothing.
LEMMA PictureSafe == PictureInv => Picture!LatestIsShown
<1>. SUFFICES ASSUME PictureInv, latest # None
              PROVE  {p.source : p \in Picture!Selection} = {s \in {latest} : Picture!Eligible(s)}
  BY DEF Picture!LatestIsShown
<1>1. Picture!Chosen = {latest} /\ latest \in Picture!Marked /\ latest \in Source
  BY DEF PictureInv, LatestAlone, Picture!Chosen, Picture!Marked
<1>2. Picture!Cardinality(Picture!Chosen) = 1
  BY <1>1, PictureCardinality, FS_Singleton
<1>. DEFINE shows(s) == [as |-> "picture", source |-> s, revision |-> source[s].revision]
<1>3. Picture!Selection = {shows(s) : s \in {c \in {latest} : Picture!Eligible(c)}}
  BY <1>1, <1>2 DEF Picture!Selection
<1>4. \A s : shows(s).source = s
  OBVIOUS
<1>. HIDE DEF shows
<1>. QED
  BY <1>3, <1>4

LEMMA PictureInit == Picture!Init => PictureInv
<1>. SUFFICES ASSUME Picture!Init PROVE PictureInv
  OBVIOUS
<1>1. /\ source = [s \in Source |-> [state |-> "absent", revision |-> 0, selected |-> FALSE]]
      /\ portrait = [enabled |-> FALSE, source |-> None, revision |-> 0]
      /\ choice = [o \in Request |-> None] /\ latest = None
  BY DEF Picture!Init
<1>2. 0 \in 0 .. MaxStamp
  BY MCRequestsAssumption
<1>3. Picture!TypeOK
  BY <1>1, <1>2 DEF Picture!Init, Picture!TypeOK
<1>. QED
  BY <1>1, <1>3 DEF PictureInv, MarkedStays, Choosing, LatestAlone, Activated

\* What is shown has the type of a picture.
LEMMA ShownTyped ==
  ASSUME PictureInv
  PROVE  Picture!Shown \subseteq Picture!Picture
<1>1. ASSUME NEW s \in Source, source[s].revision # 0 PROVE source[s].revision \in 1 .. MaxStamp
  <2>1. source[s].revision \in 0 .. MaxStamp
    BY DEF PictureInv, Picture!TypeOK
  <2>. QED
    BY <1>1, <2>1, MCRequestsAssumption
<1>2. ASSUME NEW s \in Picture!Approved PROVE s \in Source /\ portrait.revision \in 1 .. MaxStamp
  <2>1. s \in Source /\ portrait.source = s
    BY DEF Picture!Approved
  <2>2. portrait.revision # 0 /\ portrait.revision \in 0 .. MaxStamp
    BY <2>1, MCRequestsAssumption DEF PictureInv, Activated, Picture!TypeOK
  <2>. QED
    BY <2>1, <2>2, MCRequestsAssumption
<1>3. Picture!Portrait \subseteq Picture!Picture
  BY <1>2 DEF Picture!Portrait, Picture!Picture
<1>4. Picture!Selection \subseteq Picture!Picture
  <2>1. CASE Picture!Marked # {}
    <3>1. ASSUME NEW p \in Picture!Selection
          PROVE  \E s \in Picture!Marked :
                   p = [as |-> "picture", source |-> s, revision |-> source[s].revision]
      BY <2>1 DEF Picture!Selection, Picture!Chosen
    <3>. QED
      BY <1>1, <3>1 DEF Picture!Picture, Picture!Marked
  <2>2. CASE Picture!Marked = {}
    BY <1>2, <2>2 DEF Picture!Selection, Picture!Picture
  <2>. QED
    BY <2>1, <2>2
<1>. QED
  BY <1>3, <1>4 DEF Picture!Shown

\* What a step may never do, as SentWasCurrent says it.
PictureStep == shown' # shown => welcome /\ shown' \in Picture!Shown

Selections == <<source, holder, choice, latest, portrait, stamp>>

\* A reader opens or receives bytes, or loses access: no mark and no portrait is touched.
LEMMA ReaderKeeps ==
  ASSUME PictureInv, \/ \E x \in Reader : Picture!Open(x) \/ Picture!Send(x)
                     \/ Picture!Revoke
  PROVE  PictureInv' /\ PictureStep
<1>1. UNCHANGED Selections
  BY DEF Picture!Open, Picture!Send, Picture!Revoke, Selections
<1>2. (MarkedStays /\ Choosing /\ LatestAlone /\ Activated)'
  BY <1>1 DEF PictureInv, Selections, MarkedStays, Choosing, LatestAlone, Activated,
              Picture!Eligible, Picture!Marked, Picture!Chosen
<1>3. ASSUME NEW x \in Reader, Picture!Open(x) PROVE Picture!TypeOK' /\ PictureStep
  <2>1. PICK p \in Picture!Shown : reading' = [reading EXCEPT ![x] = p]
    BY <1>3 DEF Picture!Open
  <2>2. reading' \in [Reader -> {None} \cup Picture!Picture]
    BY <2>1, ShownTyped DEF PictureInv, Picture!TypeOK
  <2>. QED
    BY <1>1, <1>3, <2>2 DEF Picture!Open, PictureInv, Picture!TypeOK, PictureStep, Selections
<1>4. ASSUME NEW x \in Reader, Picture!Send(x) PROVE Picture!TypeOK' /\ PictureStep
  <2>1. /\ reading[x] # None /\ reading' = [reading EXCEPT ![x] = None]
        /\ shown' = IF Picture!SameStill(reading[x]) THEN reading[x] ELSE shown
        /\ UNCHANGED welcome
    BY <1>4 DEF Picture!Send
  <2>2. reading' \in [Reader -> {None} \cup Picture!Picture] /\ shown' \in {None} \cup Picture!Picture
    BY <2>1 DEF PictureInv, Picture!TypeOK
  <2>. QED
    BY <1>1, <2>1, <2>2 DEF PictureInv, Picture!TypeOK, PictureStep, Selections, Picture!SameStill
<1>5. CASE Picture!Revoke
  <2>1. welcome' = FALSE /\ UNCHANGED <<reading, shown>>
    BY <1>5 DEF Picture!Revoke
  <2>2. Picture!TypeOK' /\ PictureStep
    BY <1>1, <2>1 DEF PictureInv, Picture!TypeOK, PictureStep, Selections
  <2>. QED
    BY <1>2, <2>2 DEF PictureInv
<1>. QED
  BY <1>2, <1>3, <1>4, <1>5 DEF PictureInv

\* The portrait changes while no selection holds the row.
LEMMA PortraitKeeps ==
  ASSUME PictureInv, \/ \E s \in Source : Picture!Activate(s)
                     \/ \E on \in BOOLEAN : Picture!Toggle(on)
                     \/ Picture!DeletePortrait
  PROVE  PictureInv' /\ PictureStep
<1>1. UNCHANGED <<source, holder, choice, latest, welcome, reading, shown>>
  BY DEF Picture!Activate, Picture!Toggle, Picture!DeletePortrait
<1>2. (MarkedStays /\ Choosing /\ LatestAlone)'
  BY <1>1 DEF PictureInv, MarkedStays, Choosing, LatestAlone,
              Picture!Eligible, Picture!Marked, Picture!Chosen
<1>t. /\ portrait \in [enabled : BOOLEAN, source : Source \cup {None}, revision : 0 .. MaxStamp]
      /\ stamp \in 0 .. MaxStamp /\ Activated /\ MaxStamp \in Nat
  BY MCRequestsAssumption DEF PictureInv, Picture!TypeOK
<1>3. /\ portrait' \in [enabled : BOOLEAN, source : Source \cup {None}, revision : 0 .. MaxStamp]
      /\ stamp' \in 0 .. MaxStamp /\ Activated'
  <2>1. ASSUME NEW s \in Source, Picture!Activate(s)
        PROVE  /\ portrait' \in [enabled : BOOLEAN, source : Source \cup {None}, revision : 0 .. MaxStamp]
               /\ stamp' \in 0 .. MaxStamp /\ Activated'
    <3>1. /\ stamp < MaxStamp /\ stamp' = stamp + 1
          /\ portrait' = [enabled |-> TRUE, source |-> s, revision |-> stamp']
      BY <2>1 DEF Picture!Activate
    <3>2. stamp' \in 0 .. MaxStamp /\ stamp' # 0
      BY <1>t, <3>1
    <3>. QED
      BY <3>1, <3>2 DEF Activated
  <2>2. ASSUME NEW on \in BOOLEAN, Picture!Toggle(on)
        PROVE  /\ portrait' \in [enabled : BOOLEAN, source : Source \cup {None}, revision : 0 .. MaxStamp]
               /\ stamp' \in 0 .. MaxStamp /\ Activated'
    BY <1>t, <2>2 DEF Picture!Toggle, Activated
  <2>3. CASE Picture!DeletePortrait
    BY <1>t, <2>3 DEF Picture!DeletePortrait, Activated
  <2>. QED
    BY <2>1, <2>2, <2>3
<1>4. Picture!TypeOK'
  BY <1>1, <1>3 DEF PictureInv, Picture!TypeOK
<1>. QED
  BY <1>1, <1>2, <1>3, <1>4 DEF PictureInv, PictureStep

SourceRow == [state : {"absent", "queued", "failed", "ready", "deleting"},
              revision : 0 .. MaxStamp, selected : BOOLEAN]

\* A source changes its state: no mark moves, and what is about to be selected stays ready.
LEMMA SourceBecomes ==
  ASSUME PictureInv, NEW s \in Source, NEW r \in SourceRow, source' = [source EXCEPT ![s] = r],
         r.revision = source[s].revision, r.selected = source[s].selected \/ r.revision = 0,
         r.revision # 0 => r.state \in {"ready", "deleting"},
         source[s].state = "ready" => holder = None,
         UNCHANGED <<stamp, welcome, holder, choice, reading, latest, shown>>,
         portrait' \in [enabled : BOOLEAN, source : Source \cup {None}, revision : 0 .. MaxStamp],
         Activated'
  PROVE  PictureInv' /\ PictureStep
<1>1. source \in [Source -> SourceRow]
  BY DEF PictureInv, Picture!TypeOK, SourceRow
<1>2. /\ source' \in [Source -> SourceRow] /\ source'[s] = r
      /\ \A d \in Source : d # s => source'[d] = source[d]
  BY <1>1
<1>3. Picture!TypeOK'
  BY <1>2 DEF PictureInv, Picture!TypeOK, SourceRow
<1>4. MarkedStays'
  BY <1>2 DEF PictureInv, MarkedStays
<1>5. /\ \A d \in Source : (source'[d].revision # 0) <=> (source[d].revision # 0)
      /\ \A d \in Source : source[d].revision # 0 => source'[d].selected = source[d].selected
  BY <1>2
<1>6. UNCHANGED Picture!Marked /\ UNCHANGED Picture!Chosen
  BY <1>5 DEF Picture!Marked, Picture!Chosen
<1>7. LatestAlone'
  BY <1>6 DEF PictureInv, LatestAlone
<1>8. Choosing'
  <2>1. ASSUME NEW o \in Request, choice[o] # None
        PROVE  holder = o /\ Picture!Eligible(choice[o].source)' /\ Picture!Marked \subseteq choice[o].marked
    <3>1. /\ holder = o /\ Picture!Eligible(choice[o].source) /\ Picture!Marked \subseteq choice[o].marked
          /\ choice[o].source \in Source /\ o # None
      BY <2>1, MCRequestsAssumption DEF PictureInv, Choosing, Picture!TypeOK
    <3>2. choice[o].source # s
      BY <3>1 DEF Picture!Eligible
    <3>. QED
      BY <1>2, <3>1, <3>2 DEF Picture!Eligible
  <2>. QED
    BY <1>6, <2>1 DEF Choosing
<1>. QED
  BY <1>3, <1>4, <1>7, <1>8 DEF PictureInv, PictureStep

LEMMA SourceKeeps ==
  ASSUME PictureInv, NEW s \in Source,
         \/ Picture!Upload(s) \/ Picture!Delete(s)
         \/ \E good \in BOOLEAN : Picture!Validate(s, good)
  PROVE  PictureInv' /\ PictureStep
<1>t. /\ source[s] \in SourceRow /\ 0 \in 0 .. MaxStamp
      /\ portrait \in [enabled : BOOLEAN, source : Source \cup {None}, revision : 0 .. MaxStamp]
      /\ Activated
      /\ source[s].revision # 0 => source[s].state \in {"ready", "deleting"}
  BY MCRequestsAssumption DEF PictureInv, Picture!TypeOK, SourceRow, MarkedStays
<1>1. CASE Picture!Upload(s)
  <2>. DEFINE r == [source[s] EXCEPT !.state = "queued"]
  <2>1. /\ source[s].state \in {"absent", "failed"} /\ source' = [source EXCEPT ![s] = r]
        /\ UNCHANGED <<stamp, welcome, holder, choice, reading, latest, shown>> /\ UNCHANGED portrait
    BY <1>1 DEF Picture!Upload, Picture!Becomes
  <2>2. r \in SourceRow /\ r.revision = source[s].revision /\ r.selected = source[s].selected /\ r.revision = 0
    BY <1>t, <2>1 DEF SourceRow
  <2>. HIDE DEF r
  <2>3. Activated'
    BY <1>t, <2>1 DEF Activated
  <2>. QED
    BY <1>t, <2>1, <2>2, <2>3, SourceBecomes
<1>2. ASSUME NEW good \in BOOLEAN, Picture!Validate(s, good) PROVE PictureInv' /\ PictureStep
  <2>. DEFINE r == IF good THEN [state |-> "ready", revision |-> 0, selected |-> FALSE]
                   ELSE [source[s] EXCEPT !.state = "failed"]
  <2>1. /\ source[s].state = "queued" /\ source' = [source EXCEPT ![s] = r]
        /\ UNCHANGED <<stamp, welcome, holder, choice, reading, latest, shown>> /\ UNCHANGED portrait
    BY <1>2 DEF Picture!Validate, Picture!Becomes
  <2>2. source[s].revision = 0
    BY <1>t, <2>1
  <2>3. r \in SourceRow /\ r.revision = 0
    BY <1>t, <2>2 DEF SourceRow
  <2>. HIDE DEF r
  <2>4. Activated'
    BY <1>t, <2>1 DEF Activated
  <2>. QED
    BY <1>t, <2>1, <2>2, <2>3, <2>4, SourceBecomes
<1>3. CASE Picture!Delete(s)
  <2>. DEFINE r == [source[s] EXCEPT !.state = "deleting"]
  <2>1. /\ holder = None /\ source' = [source EXCEPT ![s] = r]
        /\ portrait' = IF portrait.source = s
                       THEN [portrait EXCEPT !.enabled = FALSE, !.source = None] ELSE portrait
        /\ UNCHANGED <<stamp, welcome, holder, choice, reading, latest, shown>>
    BY <1>3 DEF Picture!Delete, Picture!Becomes, Picture!LockedLegacy
  <2>2. /\ r \in SourceRow /\ r.revision = source[s].revision /\ r.selected = source[s].selected
        /\ r.state = "deleting"
    BY <1>t DEF SourceRow
  <2>. HIDE DEF r
  <2>3. portrait' \in [enabled : BOOLEAN, source : Source \cup {None}, revision : 0 .. MaxStamp] /\ Activated'
    BY <1>t, <2>1 DEF Activated
  <2>. QED
    BY <2>1, <2>2, <2>3, SourceBecomes
<1>. QED
  BY <1>1, <1>2, <1>3

\* An owner selects, and gives up.
LEMMA SelectKeeps ==
  ASSUME PictureInv, NEW o \in Request,
         Picture!RollBack(o) \/ \E s \in Source : Picture!Select(o, s)
  PROVE  PictureInv' /\ PictureStep
<1>1. UNCHANGED <<source, portrait, stamp, welcome, reading, latest, shown>>
  BY DEF Picture!RollBack, Picture!Select
<1>2. (MarkedStays /\ LatestAlone /\ Activated)'
  BY <1>1 DEF PictureInv, MarkedStays, LatestAlone, Activated, Picture!Marked, Picture!Chosen
<1>c. choice \in [Request -> {None} \cup [source : Source, marked : SUBSET Source]]
  BY DEF PictureInv, Picture!TypeOK
<1>3. CASE Picture!RollBack(o)
  <2>1. choice[o] # None /\ choice' = [choice EXCEPT ![o] = None] /\ holder' = None
    BY <1>3 DEF Picture!RollBack
  <2>2. choice' \in [Request -> {None} \cup [source : Source, marked : SUBSET Source]]
    BY <1>c, <2>1
  <2>3. \A d \in Request : choice'[d] = None
    BY <1>c, <2>1 DEF PictureInv, Choosing
  <2>4. Choosing' /\ Picture!TypeOK'
    BY <1>1, <2>1, <2>2, <2>3 DEF Choosing, PictureInv, Picture!TypeOK
  <2>. QED
    BY <1>1, <1>2, <2>4 DEF PictureInv, PictureStep
<1>4. ASSUME NEW s \in Source, Picture!Select(o, s) PROVE PictureInv' /\ PictureStep
  <2>. DEFINE c == [source |-> s, marked |-> Picture!Marked]
  <2>1. /\ holder = None /\ Picture!Eligible(s) /\ holder' = o /\ choice' = [choice EXCEPT ![o] = c]
    BY <1>4 DEF Picture!Select, Picture!LockedLegacy
  <2>2. c \in [source : Source, marked : SUBSET Source] /\ c.source = s /\ c.marked = Picture!Marked
    BY DEF Picture!Marked
  <2>. HIDE DEF c
  <2>3. choice' \in [Request -> {None} \cup [source : Source, marked : SUBSET Source]] /\ choice'[o] = c
    BY <1>c, <2>1, <2>2
  <2>4. \A d \in Request : d # o => choice'[d] = None
    BY <1>c, <2>1, MCRequestsAssumption DEF PictureInv, Choosing
  <2>5. UNCHANGED Picture!Marked /\ Picture!Eligible(s)'
    BY <1>1, <2>1 DEF Picture!Marked, Picture!Eligible
  <2>6. Choosing'
    BY <2>1, <2>2, <2>3, <2>4, <2>5 DEF Choosing, Picture!Eligible
  <2>7. Picture!TypeOK'
    BY <1>1, <2>1, <2>3 DEF PictureInv, Picture!TypeOK
  <2>. QED
    BY <1>1, <1>2, <2>6, <2>7 DEF PictureInv, PictureStep
<1>. QED
  BY <1>3, <1>4

\* The selection commits: every older mark is taken back, and its own is the newest.
LEMMA PublishKeeps ==
  ASSUME PictureInv, NEW o \in Request, Picture!Publish(o)
  PROVE  PictureInv' /\ PictureStep
<1>. DEFINE s == choice[o].source
            marked == choice[o].marked
            mark(d) == IF d = s THEN [source[d] EXCEPT !.selected = TRUE, !.revision = stamp']
                      ELSE IF d \in marked THEN [source[d] EXCEPT !.selected = FALSE] ELSE source[d]
<1>1. /\ choice[o] # None /\ stamp < MaxStamp /\ stamp' = stamp + 1
      /\ source' = [d \in Source |-> mark(d)]
      /\ portrait' = [portrait EXCEPT !.enabled = FALSE] /\ latest' = s
      /\ choice' = [choice EXCEPT ![o] = None] /\ holder' = None
      /\ UNCHANGED <<welcome, reading, shown>>
  BY DEF Picture!Publish
<1>2. /\ source \in [Source -> SourceRow] /\ stamp \in 0 .. MaxStamp
      /\ choice \in [Request -> {None} \cup [source : Source, marked : SUBSET Source]]
      /\ portrait \in [enabled : BOOLEAN, source : Source \cup {None}, revision : 0 .. MaxStamp]
  BY DEF PictureInv, Picture!TypeOK, SourceRow
<1>3. s \in Source /\ source[s].state = "ready" /\ Picture!Marked \subseteq marked
  BY <1>1, <1>2 DEF PictureInv, Choosing, Picture!Eligible
<1>4. stamp' \in 0 .. MaxStamp /\ stamp' # 0
  <2>1. stamp < MaxStamp /\ stamp' = stamp + 1 /\ stamp \in 0 .. MaxStamp /\ MaxStamp \in Nat
    BY <1>1, <1>2, MCRequestsAssumption
  <2>. QED
    BY <2>1
<1>5. \A d \in Source : /\ mark(d) \in SourceRow /\ mark(d).state = source[d].state
                        /\ d = s => mark(d).selected /\ mark(d).revision # 0
                        /\ d # s => mark(d).revision = source[d].revision
                        /\ d # s /\ d \in marked => ~ mark(d).selected
  <2>. SUFFICES ASSUME NEW d \in Source
                PROVE  /\ mark(d) \in SourceRow /\ mark(d).state = source[d].state
                       /\ d = s => mark(d).selected /\ mark(d).revision # 0
                       /\ d # s => mark(d).revision = source[d].revision
                       /\ d # s /\ d \in marked => ~ mark(d).selected
    OBVIOUS
  <2>1. source[d] \in SourceRow
    BY <1>2
  <2>. HIDE DEF s, marked
  <2>2. CASE d = s
    BY <1>4, <2>1, <2>2 DEF SourceRow
  <2>3. CASE d # s /\ d \in marked
    BY <2>1, <2>3 DEF SourceRow
  <2>4. CASE d # s /\ d \notin marked
    BY <2>1, <2>4
  <2>. QED
    BY <2>2, <2>3, <2>4
<1>. HIDE DEF mark
<1>6. /\ source' \in [Source -> SourceRow]
      /\ \A d \in Source : source'[d] = mark(d)
  BY <1>1, <1>5
<1>. HIDE DEF s, marked
<1>7. MarkedStays'
  BY <1>3, <1>5, <1>6 DEF PictureInv, MarkedStays
<1>8. Picture!Chosen' = {s}
  BY <1>3, <1>5, <1>6 DEF Picture!Chosen, Picture!Marked
<1>9. LatestAlone'
  BY <1>1, <1>8 DEF LatestAlone
<1>10. choice' \in [Request -> {None} \cup [source : Source, marked : SUBSET Source]]
       /\ \A d \in Request : choice'[d] = None
  BY <1>1, <1>2 DEF PictureInv, Choosing
<1>11. Choosing' /\ Activated'
  BY <1>1, <1>2, <1>10 DEF Choosing, Activated, PictureInv
<1>12. Picture!TypeOK'
  BY <1>1, <1>2, <1>3, <1>4, <1>6, <1>10 DEF PictureInv, Picture!TypeOK, SourceRow
<1>. QED
  BY <1>1, <1>7, <1>9, <1>11, <1>12 DEF PictureInv, PictureStep

LEMMA PictureNext == PictureInv /\ [Picture!Next]_picture => PictureInv' /\ [PictureStep]_picture
<1>. SUFFICES ASSUME PictureInv, [Picture!Next]_picture PROVE PictureInv' /\ [PictureStep]_picture
  OBVIOUS
<1>1. CASE UNCHANGED picture
  <2>1. UNCHANGED <<source, portrait, stamp, welcome, holder, choice, reading, latest, shown>>
    BY <1>1 DEF picture
  <2>2. (MarkedStays /\ Choosing /\ LatestAlone /\ Activated)'
    BY <2>1 DEF PictureInv, MarkedStays, Choosing, LatestAlone, Activated,
                Picture!Eligible, Picture!Marked, Picture!Chosen
  <2>3. Picture!TypeOK'
    BY <2>1 DEF PictureInv, Picture!TypeOK
  <2>. QED
    BY <1>1, <2>2, <2>3 DEF PictureInv
<1>2. CASE Picture!Next
  <2>1. ASSUME NEW o \in Request, Picture!Publish(o) \/ Picture!RollBack(o) \/ \E s \in Source : Picture!Select(o, s)
        PROVE  PictureInv' /\ PictureStep
    BY <2>1, PublishKeeps, SelectKeeps
  <2>2. ASSUME NEW s \in Source,
               Picture!Upload(s) \/ Picture!Delete(s) \/ Picture!Activate(s) \/ \E good \in BOOLEAN : Picture!Validate(s, good)
        PROVE  PictureInv' /\ PictureStep
    BY <2>2, SourceKeeps, PortraitKeeps
  <2>. QED
    BY <1>2, <2>1, <2>2, ReaderKeeps, PortraitKeeps DEF Picture!Next
<1>. QED
  BY <1>1, <1>2

-----------------------------------------------------------------------------
(* All of them.                                                            *)

RequestsInv == VoiceInv /\ StoryInv /\ ToolsInv /\ AccountInv /\ PictureInv

LEMMA EachBegins == AllInit => RequestsInv
BY VoiceInit, StoryInit, ToolsInit, AccountInit, PictureInit DEF AllInit, RequestsInv

LEMMA EachSteps ==
  [AllNext]_all =>
    /\ [Next]_vars /\ [Story!Next]_story /\ [Tools!Next]_tools
    /\ [Account!Next]_account /\ [Picture!Next]_picture
BY DEF AllNext, all, voice

LEMMA RequestsKept ==
  RequestsInv /\ [AllNext]_all =>
    RequestsInv' /\ [VoiceStep]_vars /\ [NewestStep]_story /\ [ToolsStep]_tools /\ [PictureStep]_picture
BY EachSteps, VoiceNext, StoryNext, ToolsNext, AccountNext, PictureNext DEF RequestsInv

\* Each part keeps its invariant (plan_usage.py, stories.py, conversation_tools.py, auth.py,
\* display_picture.py).
THEOREM EachPartKept == AllSpec => []RequestsInv
<1>1. RequestsInv /\ [AllNext]_all => RequestsInv'
  BY RequestsKept
<1>. QED
  BY <1>1, EachBegins, PTL DEF AllSpec

\* For any number of accounts, codes, hashes and requests that overlap: a cookie refreshes
\* only while the password is the one that the sign-in behind it read, and a registration's
\* authorization is spent on the one account that names it (challenges.py, auth.py).
THEOREM ProofsAreKept == AllSpec => []ProofsHold
<1>1. RequestsInv => ProofsHold
  BY AccountSafe DEF RequestsInv
<1>. QED
  BY <1>1, EachPartKept, PTL

\* For any number of requests, facts and versions a generated version becomes current only
\* in the place of the version that its request saw (stories.py, generate).
THEOREM NewestStays == AllSpec => NewestWins
<1>1. RequestsInv /\ [AllNext]_all => [NewestStep]_Story!vars
  BY RequestsKept DEF story, Story!vars
<1>2. [][NewestStep]_Story!vars => NewestWins
  BY PTL DEF NewestWins, Story!NewestWins, NewestStep
<1>. QED
  BY <1>1, <1>2, EachPartKept, PTL DEF AllSpec

\* For any plan of calls, any rows and any edits between them, a tool answers with what holds
\* when it answers, and what was gathered goes to the response once, whole and while the turn
\* is this connection's (conversation_tools.py, realtime_brain.py).
THEOREM ToolsAnswerTruly == AllSpec => ToolsHold
<1>1. RequestsInv /\ [AllNext]_all => [ToolsStep]_Tools!vars
  BY RequestsKept DEF tools, Tools!vars
<1>2. [][ToolsStep]_Tools!vars => Tools!AnswersAreCurrent /\ Tools!PublishedTogether
  BY PTL DEF Tools!AnswersAreCurrent, Tools!PublishedTogether, ToolsStep
<1>. QED
  BY <1>1, <1>2, EachPartKept, PTL DEF AllSpec, ToolsHold

\* For any number of selections that overlap, sources and readers, the Legacy shows the
\* latest choice or nothing, and a reader is sent only what is shown (display_picture.py,
\* visual_companion.py).
THEOREM LatestPictureHolds == AllSpec => PictureHolds
<1>1. RequestsInv => Picture!LatestIsShown
  BY PictureSafe DEF RequestsInv
<1>2. RequestsInv /\ [AllNext]_all => [PictureStep]_Picture!vars
  BY RequestsKept DEF picture, Picture!vars
<1>3. [][PictureStep]_Picture!vars => Picture!SentWasCurrent
  BY PTL DEF Picture!SentWasCurrent, PictureStep
<1>. QED
  BY <1>1, <1>2, <1>3, EachPartKept, PTL DEF AllSpec, PictureHolds

\* For any number of connections, days and repair passes, and any allowance: a day is charged
\* no more than its calls were connected, no transaction under enforcement takes its charge
\* past the allowance, and whoever comes late, a connection that closes after the repair pass
\* or a repair pass after the close, a settled receipt stays as it is (plan_usage.py,
\* plan_enforcement.py).
THEOREM VoiceIsChargedOnce == AllSpec => VoiceHolds
<1>1. RequestsInv => ChargedOnce
  BY VoiceSafe DEF RequestsInv
<1>2. RequestsInv /\ [AllNext]_all => [VoiceStep]_vars
  BY RequestsKept
<1>3. [][VoiceStep]_vars => NeverOvercharged /\ SettledStays
  <2>1. [VoiceStep]_vars =>
          /\ [\A d \in Day : enforcing /\ Charge(d)' > Charge(d) => Charge(d)' <= Limit]_vars
          /\ [\A g \in Generation, d \in Day :
                quota[g][d].state = "completed" => quota'[g][d] = quota[g][d]]_vars
    BY DEF VoiceStep
  <2>. QED
    BY <2>1, PTL DEF NeverOvercharged, SettledStays
<1>. QED
  BY <1>1, <1>2, <1>3, EachPartKept, PTL DEF AllSpec, VoiceHolds

\* The types of the five parts.
THEOREM RequestsTyped == AllSpec => []RequestsTypeOK
<1>1. RequestsInv => RequestsTypeOK
  BY VoiceSafe, StoryTyped, AccountTyped DEF RequestsInv, RequestsTypeOK, ToolsInv, PictureInv
<1>. QED
  BY <1>1, EachPartKept, PTL
=============================================================================
