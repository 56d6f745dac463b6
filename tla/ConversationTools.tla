-------------------------- MODULE ConversationTools --------------------------
(***************************************************************************)
(* The read-only tools of a live turn: services/realtime_brain.execute_    *)
(* tools runs the planned calls one after the other, and services/         *)
(* conversation_tools.ConversationTools.execute answers each in two        *)
(* database sessions with a provider call between them.  Meanwhile the     *)
(* Legacy is edited, the visitor's relationship gains or loses its         *)
(* support, access is withdrawn and the turn may end.                      *)
(*                                                                         *)
(* A fact stands for a memory or a dated event, a version of 0 for one     *)
(* that is not active; Private facts are those that say how somebody is    *)
(* called.  Scope, arguments, the public query and the size of an answer   *)
(* are checks that turn an answer into an error; which facts a retrieval   *)
(* selects is the ranking's business and any choice here.                  *)
(***************************************************************************)
EXTENDS Naturals, Sequences, FiniteSets

CONSTANTS
  Fact, Private,  \* facts, and those that are shown only to a verified visitor
  MaxCalls,       \* MAX_CALLS: tool calls of one plan
  MaxChange       \* bound: edits and withdrawals of facts

VARIABLES
  fact,       \* version of each fact, 0 when it is not active
  verified,   \* what is on record supports the relationship the visitor claims
  allowed,    \* the turn streams under this claim and the caller may still use it
  plan,       \* tools still to run
  call,       \* the call that runs
  results,    \* what the finished calls returned
  published,  \* they are handed to the spoken response (brain.continuation)
  changes     \* edits and withdrawals so far

vars == <<fact, verified, allowed, plan, call, results, published, changes>>
people == <<fact, verified, allowed, changes>>

Tool == {"memories", "timeline", "style", "relationship", "web"}
Row == [fact : Fact, version : 1 .. (MaxChange + 1)]
Call == [at : {"idle", "check", "await", "answer", "accept", "aborted"},
         tool : Tool \union {"none"}, rows : SUBSET Row, ok : BOOLEAN]
Result == [tool : Tool, ok : BOOLEAN, rows : SUBSET Row]

NoCall == [at |-> "idle", tool |-> "none", rows |-> {}, ok |-> FALSE]

TypeOK ==
  /\ fact \in [Fact -> 0 .. (MaxChange + 1)]
  /\ verified \in BOOLEAN /\ allowed \in BOOLEAN
  /\ plan \in Seq(Tool) /\ Len(plan) <= MaxCalls
  /\ call \in Call
  /\ results \in Seq(Result) /\ Len(results) <= MaxCalls
  /\ published \in BOOLEAN
  /\ changes \in 0 .. MaxChange

Init ==
  /\ fact = [f \in Fact |-> 1]
  /\ verified \in BOOLEAN /\ allowed = TRUE
  /\ plan \in UNION {[1 .. n -> Tool] : n \in 1 .. MaxCalls}
  /\ call = NoCall
  /\ results = <<>> /\ published = FALSE
  /\ changes = 0

-----------------------------------------------------------------------------
(* What others do meanwhile.                                               *)

Edit ==
  /\ changes < MaxChange /\ changes' = changes + 1
  /\ \E f \in Fact : \E v \in {0, changes + 2} : fact' = [fact EXCEPT ![f] = v]
  /\ UNCHANGED <<verified, allowed, plan, call, results, published>>

Regard ==
  /\ changes < MaxChange /\ changes' = changes + 1
  /\ verified' = ~ verified
  /\ UNCHANGED <<fact, allowed, plan, call, results, published>>

\* The turn ends or is taken over, or access to the Legacy is withdrawn.
Withdraw ==
  /\ allowed' = FALSE /\ allowed
  /\ UNCHANGED <<fact, verified, changes, plan, call, results, published>>

-----------------------------------------------------------------------------
(* One call.                                                               *)

Active == {[fact |-> f, version |-> fact[f]] : f \in {g \in Fact : fact[g] > 0}}

\* _visible_memories: what may be told to this visitor.
Visible == {r \in Active : verified \/ r.fact \notin Private}

Abort == call' = [NoCall EXCEPT !.at = "aborted"]

\* check(), the guard before every call: a turn that is not this one's any
\* more stops the plan.
Begin ==
  /\ call.at = "idle" /\ plan # <<>>
  /\ IF allowed
       THEN /\ call' = [NoCall EXCEPT !.at = "check", !.tool = Head(plan)]
            /\ plan' = Tail(plan)
       ELSE Abort /\ UNCHANGED plan
  /\ UNCHANGED <<people, results, published>>

\* The first session: who asks, and what the answer would be made of.  A
\* refusal is an answer of its own.
Select ==
  /\ call.at = "check"
  /\ \/ call' = [call EXCEPT !.at = "accept"]
     \/ /\ allowed
        /\ \E rows \in SUBSET Active :
             /\ call.tool \in {"relationship", "web"} => rows = {}
             /\ call' = [call EXCEPT !.at = "await", !.rows = rows]
  /\ UNCHANGED <<people, plan, results, published>>

\* The provider answers, fails, or is given up after twenty seconds.
Await ==
  /\ call.at = "await"
  /\ \/ call' = [call EXCEPT !.at = "answer"]
     \/ call' = [call EXCEPT !.at = "accept", !.rows = {}]
     \/ Abort
  /\ UNCHANGED <<people, plan, results, published>>

\* Mutant of the next definition: the rows of the first session are returned.
AsSelected(tool, rows) == IF tool = "relationship" THEN {r \in Visible : r.fact \in Private} ELSE rows

\* The rows as they are now, of those that were selected: memories and the
\* style's expression pass the private-address filter, the relationship
\* reads the names itself.
Current(tool, rows) ==
  LET again(pool) == {r \in pool : \E s \in rows : s.fact = r.fact} IN
  CASE tool \in {"memories", "style"} -> again(Visible)
    [] tool = "timeline" -> again(Active)
    [] tool = "relationship" -> {r \in Visible : r.fact \in Private /\ verified}
    [] OTHER -> {}

\* The second session, on fresh rows: still authorized, or an error.
Answer ==
  /\ call.at = "answer"
  /\ call' = IF allowed THEN [call EXCEPT !.at = "accept", !.ok = TRUE, !.rows = Current(call.tool, call.rows)]
             ELSE [call EXCEPT !.at = "accept", !.rows = {}]
  /\ UNCHANGED <<people, plan, results, published>>

\* check() again; the answer joins the continuation.
Accept ==
  /\ call.at = "accept"
  /\ IF allowed
       THEN /\ results' = Append(results, [tool |-> call.tool, ok |-> call.ok,
                                           rows |-> IF call.ok THEN call.rows ELSE {}])
            /\ call' = NoCall
       ELSE Abort /\ UNCHANGED results
  /\ UNCHANGED <<people, plan, published>>

StillOurs == allowed

\* Everything at once, after every call and one more check().
Publish ==
  /\ call.at = "idle" /\ plan = <<>> /\ ~ published
  /\ IF StillOurs THEN published' = TRUE /\ UNCHANGED call ELSE Abort /\ UNCHANGED published
  /\ UNCHANGED <<people, plan, results>>

Runs == Begin \/ Select \/ Await \/ Answer \/ Accept \/ Publish
Others == Edit \/ Regard \/ Withdraw

Next == Runs \/ Others

Spec == Init /\ [][Next]_vars

-----------------------------------------------------------------------------
\* A call answers with what holds when it answers, not with what it had
\* selected before the provider was asked: a memory edited or withdrawn in
\* between is not told as it was, and a name kept for family is not told to
\* a visitor whose relationship lost its support (execute, second session).
AnswersAreCurrent ==
  [][call.at = "answer" /\ call'.ok =>
       /\ call'.rows \subseteq Active
       /\ call.tool # "timeline" => \A r \in call'.rows : r.fact \in Private => verified]_vars

\* Tool results reach the spoken response only all together and only while
\* the turn they were gathered for is still this connection's
\* (execute_tools: "Publish together, only after every call still belongs
\* to this active turn").
PublishedTogether ==
  [][published' # published => allowed /\ plan = <<>> /\ call.at = "idle"]_vars
=============================================================================
