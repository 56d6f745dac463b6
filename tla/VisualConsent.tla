--------------------------- MODULE VisualConsent ----------------------------
(***************************************************************************)
(* What the owner of a Legacy is promised of each version of its visual    *)
(* companion: it is asked for, offered as a preview, shown to others only  *)
(* while it is the one approved version, and once withdrawn it never comes *)
(* back: it is only ever erased.                                           *)
(*                                                                         *)
(* VisualPipeline is shown to implement it.                                *)
(***************************************************************************)
CONSTANT Version

VARIABLES
  stage,   \* stage[v]: how far the version v has come
  shown    \* whether viewers are shown the live version

consent == <<stage, shown>>

Stage == {"none", "asked", "offered", "live", "withdrawn", "erased"}

\* Type correctness of the two variables.
ConsentTypeOK == stage \in [Version -> Stage] /\ shown \in BOOLEAN

Init ==
  /\ stage = [v \in Version |-> "none"]
  /\ shown = FALSE

Live == {v \in Version : stage[v] = "live"}

\* stage with the versions of S withdrawn and v, if any, moved on to s.
Moved(S, V, s) ==
  [v \in Version |-> IF v \in V THEN s ELSE IF v \in S THEN "withdrawn" ELSE stage[v]]

\* A fresh request, which withdraws a candidate that was not approved.
Ask(v, S) ==
  /\ stage[v] = "none"
  /\ \A u \in S : stage[u] \in {"asked", "offered"}
  /\ stage' = Moved(S, {v}, "asked")
  /\ UNCHANGED shown

Offer(v) ==
  /\ stage[v] = "asked"
  /\ stage' = Moved({}, {v}, "offered")
  /\ UNCHANGED shown

\* activate: the approved version replaces the one before.
Approve(v) ==
  /\ stage[v] \in {"offered", "live"}
  /\ stage' = Moved(Live, {v}, "live")
  /\ shown' = TRUE

\* toggle
Show(on) ==
  /\ on => Live # {}
  /\ shown' = on
  /\ UNCHANGED stage

\* delete, the loss of a source, an expiry.
Withdraw(S) ==
  /\ \A v \in S : stage[v] \in {"asked", "offered", "live"}
  /\ stage' = Moved(S, {}, "withdrawn")
  /\ shown' = (shown /\ Live \cap S = {})

Erase(v) ==
  /\ stage[v] = "withdrawn"
  /\ stage' = Moved({}, {v}, "erased")
  /\ UNCHANGED shown

Next ==
  \/ \E v \in Version, S \in SUBSET Version : Ask(v, S)
  \/ \E v \in Version : Offer(v) \/ Approve(v) \/ Erase(v)
  \/ \E on \in BOOLEAN : Show(on)
  \/ \E S \in SUBSET Version : Withdraw(S)

Spec == Init /\ [][Next]_consent

\* At most one version is approved at a time, whatever is asked for, withdrawn
\* or replaced: activate leaves no second one behind.
OneLive == \A u, v \in Live : u = v

\* Viewers are shown a companion only while there is an approved version: no
\* withdrawal leaves the switch on for a version that is gone.
ShownIsLive == shown => Live # {}
=============================================================================
