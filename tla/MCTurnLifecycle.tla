-------------------------- MODULE MCTurnLifecycle --------------------------
(***************************************************************************)
(* Small instances of TurnLifecycle for TLC.                               *)
(***************************************************************************)
EXTENDS TurnLifecycle, TLC

\* Interchangeable identities; the runs with liveness do not use it.
Symmetry ==
  Permutations(Request) \cup Permutations(Recovery) \cup Permutations(LiveTurn)
    \cup Permutations(Key) \cup Permutations(Content)
    \cup Permutations(Builder) \cup Permutations(Conversation \ Builder)
=============================================================================
