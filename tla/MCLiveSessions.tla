--------------------------- MODULE MCLiveSessions ---------------------------
(***************************************************************************)
(* Small instances of LiveSessions for TLC.                                *)
(***************************************************************************)
EXTENDS LiveSessions, TLC

\* Interchangeable identities: no action and no safety property orders or names
\* one of them.  Runs with liveness do not use the symmetry.
Symmetry ==
  Permutations(Actor) \cup Permutations(Session) \cup Permutations(Owner)
    \cup Permutations(Item) \cup Permutations(Conversation) \cup Permutations(TextTurn)

Begun(s) == row[s].state # "absent"
Connected == {w \in Owner : conn[w].phase # "new"}

\* Bound of the run live_calls: one session and all the connections, or two
\* sessions and at most one conversation against two connections.
OneSessionOrTwoConnections ==
  (\A s \in Session : Begun(s)) =>
    /\ Cardinality(Connected) <= 2
    /\ Cardinality({c \in Conversation : creator[c] # None}) <= 1
    /\ \A s \in Session : row[s].generation <= 4
=============================================================================
