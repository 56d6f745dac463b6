-------------------------- MODULE MCVisualPipeline --------------------------
(***************************************************************************)
(* Small instances of VisualPipeline for TLC.                              *)
(***************************************************************************)
EXTENDS VisualPipeline, TLC

\* Interchangeable identities; the runs with liveness do not use it.
Symmetry ==
  Permutations(Worker) \cup Permutations(Tab) \cup Permutations(Source)
    \cup Permutations(Role)

\* Bound of the run with two workers and two versions: the owner replaces or
\* deletes, but no source is deleted and no preview is left to expire.
OwnerOnly ==
  /\ source = Source
  /\ \A v \in Version : ~version[v].expired
=============================================================================
