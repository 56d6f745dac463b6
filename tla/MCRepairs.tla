------------------------------ MODULE MCRepairs ------------------------------
(***************************************************************************)
(* Three tasks that repair in the background, under the fairness of their  *)
(* loops: the workers that rebuild a profile, the pass that settles the    *)
(* receipts of text turns, and the media workers that process and erase    *)
(* sources.  `part` says which of them moves.                              *)
(***************************************************************************)
EXTENDS PersonalityProfile

CONSTANTS Source, MediaWorker

VARIABLES part, day, marker, enforcing, turn, receipt, cursor, seen,
          source, artifact, job, cand, object, adapter, late, uploader, worker, tab,
          legacy, portrait, mishaps, retries

plan == <<day, marker, enforcing, turn, receipt, cursor, seen>>
media == <<source, artifact, job, cand, object, adapter, late, uploader, worker, tab,
           legacy, portrait, mishaps, retries>>
all == <<vars, plan, media, part>>

Plan == INSTANCE PlanText WITH Turn <- {1, 2}, Limit <- 1, BatchSize <- 1, MaxDay <- 0

Library == INSTANCE MediaPipeline WITH
             Worker <- MediaWorker, Tab <- {}, Adapter <- {"local", "s3"}, MaxVersion <- 1, MaxRetry <- 1, faults <- mishaps

AllInit ==
  /\ part \in {"profile", "plan", "media"}
  /\ Init /\ Plan!Init /\ Library!Init
  /\ part # "profile" => facts = Nothing
  /\ part # "media" => adapter = "local" /\ portrait = "none"

Profile(step) == part = "profile" /\ step /\ UNCHANGED <<plan, media, part>>
Receipts(step) == part = "plan" /\ step /\ UNCHANGED <<vars, media, part>>
Sources(step) == part = "media" /\ step /\ UNCHANGED <<vars, plan, part>>

AllNext == Profile(Next) \/ Receipts(Plan!Next) \/ Sources(Library!Next)

\* The fairness of each component's FairSpec, for the one that moves.
AllFairness ==
  /\ \A w \in Worker : WF_all(Profile(Build(w)))
  /\ \A w \in MediaWorker :
       /\ WF_all(Sources(Library!Extract(w))) /\ WF_all(Sources(Library!Purge(w)))
       /\ WF_all(Sources(Library!EraseRegistry(w) \/ Library!ForgetLegacy(w)))
  /\ WF_all(Profile(\E w \in Worker : Claim(w)))
  /\ WF_all(Profile(LeaseExpires)) /\ WF_all(Profile(BackoffEnds))
  /\ WF_all(Receipts(Plan!RepairRead)) /\ SF_all(Receipts(Plan!RepairWrite))
  /\ WF_all(Receipts(Plan!RepairWrap))
  /\ \A s \in Source :
       /\ WF_all(Sources(Library!ReceiveCommit(s)))
       /\ \A k \in Library!Kind :
            /\ SF_all(Sources(\E w \in MediaWorker : Library!Claim(w, s, k)))
            /\ WF_all(Sources(Library!LeaseExpires(s, k))) /\ WF_all(Sources(Library!Due(s, k)))
  /\ SF_all(Sources(\E w \in MediaWorker : Library!ReadRegistry(w)))
  /\ WF_all(Sources(Library!PortraitPurged))

AllSpec == AllInit /\ [][AllNext]_all /\ AllFairness

\* A profile that is not ready is rebuilt, the receipts of every settled turn are
\* settled in the end, what was taken up for processing is settled, and a deletion ends
\* in erasure (personality_worker.py, plan_usage.py reconcile, media_worker.py,
\* legacy_deletion.py).
RepairsHappen ==
  /\ RebuildHappens /\ Plan!ReceiptsSettle
  /\ Library!ProcessingSettles /\ Library!DeletionEnds
=============================================================================
