------------------------------ MODULE MCStreams ------------------------------
(***************************************************************************)
(* Small instances of three components that share no variables: a call     *)
(* with its provider, an object store and the access to a Legacy.  They    *)
(* are checked one after the other in one run of TLC: `part` says which of *)
(* them moves, the others stay as they began.                              *)
(***************************************************************************)
EXTENDS LiveBridge, TLC

CONSTANTS Request,
          PageSize, MaxPages, MaxId, MaxErase,  \* of the object store
          Person, Role, Invite                  \* of the access

ASSUME MCStreamsAssumption ==
  /\ IsFiniteSet(Request) /\ Request \cap {"none", "part", "marker"} = {}
  /\ PageSize \in Nat \ {0} /\ {MaxPages, MaxId, MaxErase} \subseteq Nat

VARIABLES part,
          mode, versions, nextId, wire, parent, child, eraser, finder, proven, erasures,
          member, code, invite, chosen, req

bridge == vars
object == <<mode, versions, nextId, wire, parent, child, eraser, finder, proven, erasures>>
access == <<member, code, invite, chosen, req>>
all == <<part, bridge, object, access>>

Store == INSTANCE ObjectStore WITH
           Writer <- Request, Mode <- {"local", "hidden", "null", "versioned"}

Access == INSTANCE LegacyAccess WITH Req <- Request

AllInit ==
  /\ part \in {"bridge", "object", "access"}
  /\ Init /\ Store!Init /\ Access!Init
  /\ part /= "object" => mode = "local"

AllNext ==
  /\ UNCHANGED part
  /\ \/ part = "bridge" /\ Next /\ UNCHANGED <<object, access>>
     \/ part = "object" /\ Store!Next /\ UNCHANGED <<bridge, access>>
     \/ part = "access" /\ Access!Next /\ UNCHANGED <<bridge, object>>

AllSpec == AllInit /\ [][AllNext]_all

Sym == Permutations(Request)

\* The connections, the writers and the rows of each component have their types.
StreamsTypeOK ==
  /\ part = "bridge" => TypeOK
  /\ part = "object" => Store!TypeOK
  /\ part = "access" => Access!TypeOK

\* What is said is answered in the order it was said, a turn is completed when it was
\* heard whole, no response is left to speak for nobody, and an ended call is silent
\* (realtime.py, realtime_transcripts.py, realtime_responses.py).
BridgeHolds ==
  [](SpokenInOrder /\ CompletedMeansPlayed /\ NoOrphanResponse) /\ EndedIsSilent

\* An erasure that was reported has erased, for good where a writer was proved to be
\* over, and a writer that is given up no longer runs (visual_storage.py).
StoreHolds ==
  []Store!ProofMakesErasureFinal /\ Store!ErasedIsGone /\ Store!NoAbandonedWriter

\* Whoever was put out comes back by the owner's restoration or an accepted invitation,
\* never by a code (access_management.py, collaboration.py).
BackByInvitationOnly == Access!BackByInvitationOnly
=============================================================================
