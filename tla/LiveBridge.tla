------------------------------ MODULE LiveBridge ------------------------------
(***************************************************************************)
(* One connected call: the controller of api/routes/realtime.py `bridge',  *)
(* between the browser, the speech provider and the durable turns.         *)
(*                                                                         *)
(*  - Input: what the speaker said arrives as provider items, linked to    *)
(*    their predecessors (realtime_transcripts.TranscriptOrder).  A final  *)
(*    transcript becomes a turn only when every earlier item is resolved.  *)
(*  - Brain: an admitted turn is prepared by a task, a silent planning     *)
(*    response picks the read tools, a second task runs them, and only     *)
(*    then is the audible response asked for (realtime_brain).             *)
(*  - Output: audio passes the Output gate, the browser acknowledges what  *)
(*    it played, and a full playback proof completes the turn              *)
(*    (realtime_responses).                                                *)
(*  - An interruption fences the output first and cancels the provider     *)
(*    later: responses, task results and acknowledgements of a turn that   *)
(*    is over keep arriving and have to be dropped.                        *)
(*                                                                         *)
(* The controller takes its mailbox one event at a time and awaits inside  *)
(* a handler, so a handler is one action.  Events of an over response that *)
(* were already under way are the provider's further steps until it has    *)
(* finished the cancelled response.  The leases, the actor lock and the    *)
(* other connections are the module LiveSessions; here they are Revoke and *)
(* Release.                                                                *)
(***************************************************************************)
EXTENDS Naturals, Sequences, FiniteSets, FiniteSetsExt

CONSTANTS Items,        \* how many utterances the provider hears, as 1..Items
          MaxFrames,    \* bound: audio frames of one response
          MaxParts,     \* bound: spoken items of one response
          MaxBuffer     \* frames the browser may lag behind

ASSUME LiveBridgeAssumption ==
    Items \in Nat /\ MaxFrames \in Nat /\ MaxParts \in Nat /\ MaxBuffer \in Nat

VARIABLES
    open,       \* the controller serves this connection
    revoked,    \* the lease, the access or the plan was withdrawn elsewhere
    ending,     \* end_call came while an utterance was unfinished
    items,      \* TranscriptOrder.items
    tail,       \* TranscriptOrder.tail
    turns,      \* the durable turn of each utterance, or how it was refused
    order,      \* the turns in the order they were admitted
    active,     \* the utterance whose Output is active, 0 for None
    out,        \* that Output
    task,       \* `preparation': the task working for the active output
    mailbox,    \* results of tasks put in the inbox and not taken yet
    retired,    \* the claims of outputs that are over
    remote,     \* the provider's two responses for each turn
    sent,       \* frames of each turn sent to the browser
    sealed,     \* turns whose assistant_audio_end was sent
    played      \* frames of each turn the browser has really played

vars == <<open, revoked, ending, items, tail, turns, order, active, out, task,
          mailbox, retired, remote, sent, sealed, played>>
hearing == <<items, tail>>
browser == <<sent, sealed, played>>

Utterance == 1..Items
Final     == {"none", "text", "empty", "failed"}
Phase     == {"tools", "audio"}
Stage     == {"none", "asked", "live", "cancelled", "done"}
Over      == {"completed", "interrupted"}
Part      == [audible : BOOLEAN, done : BOOLEAN, text : BOOLEAN]

Item   == [said : BOOLEAN, committed : BOOLEAN, final : Final, resolved : BOOLEAN]
Output == [brain : BOOLEAN, planner : BOOLEAN, planned : BOOLEAN, response : BOOLEAN,
           parts : UNION {[1..n -> Part] : n \in 0..MaxParts},
           ended : BOOLEAN, acked : 0..MaxFrames]

NoItem   == [said |-> FALSE, committed |-> FALSE, final |-> "none", resolved |-> FALSE]
NoOutput == [brain |-> FALSE, planner |-> FALSE, planned |-> FALSE, response |-> FALSE,
             parts |-> <<>>, ended |-> FALSE, acked |-> 0]
NoPart   == [audible |-> FALSE, done |-> FALSE, text |-> FALSE]

TypeOK ==
    /\ open \in BOOLEAN /\ revoked \in BOOLEAN /\ ending \in BOOLEAN
    /\ items \in [Utterance -> Item]
    /\ tail \in 0..Items
    /\ turns \in [Utterance -> {"none", "refused", "streaming"} \cup Over]
    /\ order \in UNION {[1..n -> Utterance] : n \in 0..Items}
    /\ active \in 0..Items
    /\ out \in Output
    /\ task \in {"none", "prepare", "tools"}
    /\ mailbox \subseteq {"prepared", "tools_ready", "tool_error", "failed"} \X Utterance
    /\ retired \subseteq Utterance
    /\ remote \in [Utterance -> [Phase -> Stage]]
    /\ sent \in [Utterance -> 0..MaxFrames]
    /\ sealed \subseteq Utterance
    /\ played \in [Utterance -> 0..MaxFrames]
    /\ active # 0 => turns[active] = "streaming" \/ revoked

Init ==
    /\ open = TRUE /\ revoked = FALSE /\ ending = FALSE
    /\ items = [u \in Utterance |-> NoItem]
    /\ tail = 0
    /\ turns = [u \in Utterance |-> "none"]
    /\ order = <<>>
    /\ active = 0 /\ out = NoOutput /\ task = "none"
    /\ mailbox = {} /\ retired = {}
    /\ remote = [u \in Utterance |-> [p \in Phase |-> "none"]]
    /\ sent = [u \in Utterance |-> 0]
    /\ sealed = {}
    /\ played = [u \in Utterance |-> 0]

-----------------------------------------------------------------------------
(* Leaving the connection, and interrupting the active output.             *)

\* The bridge ends: its tasks are cancelled, the provider is drained and
\* closed.  Fencing the durable turns is Release.
Shut ==
    /\ open' = FALSE
    /\ active' = 0 /\ out' = NoOutput /\ task' = "none" /\ mailbox' = {}
    /\ remote' = [u \in Utterance |-> [p \in Phase |->
                    IF remote[u][p] = "none" THEN "none" ELSE "done"]]
    /\ UNCHANGED <<revoked, ending, hearing, turns, order, retired, browser>>

\* A response the provider is told to stop: only one it has announced.
Cancelled(u) == [p \in Phase |-> IF remote[u][p] = "live" THEN "cancelled" ELSE remote[u][p]]

\* interrupt(): fence, cancel the task, terminate the turn, cancel the provider.
Fence ==
    /\ active' = 0 /\ out' = NoOutput /\ task' = "none"
    /\ IF active = 0 THEN UNCHANGED <<retired, turns, remote>>
       ELSE /\ retired' = retired \cup {active}
            /\ turns' = [turns EXCEPT ![active] = "interrupted"]
            /\ remote' = [remote EXCEPT ![active] = Cancelled(active)]

\* Every handler that reaches the database meets a withdrawn session there
\* and ends the connection instead.
Refused == revoked /\ Shut

\* The browser closes, the provider fails, a limit or an error ends the call.
Close == open /\ Shut

\* Mutant of the next definition: the turns of a live call are taken for abandoned.
LetGoAnyhow == TRUE

\* The session is closed, or no longer holds its lease.
LetGo == ~ open \/ revoked

\* close_owned, or the sweeper after the lease expired: every unanswered turn
\* of the session ends.
Release ==
    /\ LetGo
    /\ turns' = [u \in Utterance |-> IF turns[u] = "streaming" THEN "interrupted" ELSE turns[u]]
    /\ UNCHANGED <<open, revoked, ending, hearing, order, active, out, task, mailbox,
                   retired, remote, browser>>

\* Sign-out, lost access, an expired lease or allowance, a newer connection.
Revoke ==
    /\ open /\ ~ revoked
    /\ revoked' = TRUE
    /\ UNCHANGED <<open, ending, hearing, turns, order, active, out, task, mailbox,
                   retired, remote, browser>>

-----------------------------------------------------------------------------
(* Input: items, transcripts and admission.                                *)

Unfinished == \E u \in Utterance : items[u].said /\ ~ items[u].resolved

\* speech_started: the speaker talks over whatever is being answered.
Speak(u) ==
    /\ open
    /\ ~ items[u].said /\ \A v \in 1..(u - 1) : items[v].committed
    /\ IF active # 0 /\ revoked THEN Shut
       ELSE /\ items' = [items EXCEPT ![u].said = TRUE]
            /\ Fence
            /\ UNCHANGED <<open, revoked, ending, tail, order, mailbox, browser>>

Resolvable(its, u) == its[u].committed /\ its[u].final # "none" /\ ~ its[u].resolved

\* Mutant of the next definition: items are taken as their transcripts complete.
ReadyInAnyOrder(its) == {u \in Utterance : Resolvable(its, u)}

\* The items `ready' yields: an unbroken chain of links from the tail.
Ready(its) == {u \in (tail + 1)..Items : \A v \in (tail + 1)..u : Resolvable(its, v)}

\* observe() has made the items `its'; then every ready item is admitted or
\* reported.  One turn at a time: while one streams, admission is busy.
Heard(its) ==
    LET ready == Ready(its)
        said  == {u \in ready : its[u].final = "text"}
        free  == \A u \in Utterance : turns[u] # "streaming"
        new   == IF free /\ said # {} THEN {Min(said)} ELSE {}
    IN
    /\ items' = [u \in Utterance |-> IF u \in ready THEN [its[u] EXCEPT !.resolved = TRUE] ELSE its[u]]
    /\ tail' = IF ready = {} THEN tail ELSE Max(ready)
    /\ turns' = [u \in Utterance |-> IF u \in new THEN "streaming"
                                     ELSE IF u \in ready THEN "refused" ELSE turns[u]]
    /\ order' = IF new = {} THEN order ELSE Append(order, Min(new))
    /\ IF new # {} /\ ~ ending
         THEN active' = Min(new) /\ out' = NoOutput /\ task' = "prepare"
         ELSE UNCHANGED <<active, out, task>>
    /\ UNCHANGED <<open, revoked, ending, mailbox, retired, remote, browser>>

\* A revoked session is met when something has to be admitted.
Observed(its) ==
    IF revoked /\ \E u \in Ready(its) : its[u].final = "text" THEN Shut ELSE Heard(its)

Commit(u) ==
    /\ open /\ items[u].said /\ ~ items[u].committed
    /\ Observed([items EXCEPT ![u].committed = TRUE])

\* The transcript of an item: text, silence, or a failed transcription.
Transcribe(u) ==
    /\ open /\ items[u].said /\ items[u].final = "none"
    /\ \E f \in Final \ {"none"} : Observed([items EXCEPT ![u].final = f])

-----------------------------------------------------------------------------
(* The brain: preparation, the planning response, the tools.               *)

\* A task ends by putting its result in the controller's mailbox.
Post(kind) == mailbox' = mailbox \cup {<<kind, active>>} /\ task' = "none"

\* prepare(): the context of the turn is bound, or the task gives up.  Its
\* own check of the lease and the durable turn fails on a withdrawn session.
Prepare ==
    /\ task = "prepare"
    /\ \/ ~ revoked /\ Post("prepared") /\ out' = [out EXCEPT !.brain = TRUE]
       \/ Post("failed") /\ UNCHANGED out
    /\ UNCHANGED <<open, revoked, ending, hearing, turns, order, active, retired, remote, browser>>

\* execute_tools(): every call and the publication recheck the turn.
RunTools ==
    /\ task = "tools"
    /\ \/ ~ revoked /\ Post("tools_ready")
       \/ Post("failed")
       \/ revoked /\ Post("tool_error")
    /\ UNCHANGED <<open, revoked, ending, hearing, turns, order, active, out, retired, remote, browser>>

\* A task's result still matters: its output is the active one.
Wanted(u) == active = u /\ ~ ending

Ask(u, phase) ==
    /\ remote' = [remote EXCEPT ![u][phase] = "asked"]
    /\ UNCHANGED <<open, revoked, ending, hearing, turns, order, active, out, task, retired, browser>>

Take(kind, u) == open /\ <<kind, u>> \in mailbox /\ mailbox' = mailbox \ {<<kind, u>>}

TakeReady(kind, phase, u) ==
    /\ <<kind, u>> \in mailbox
    /\ \/ Refused
       \/ /\ ~ revoked
          /\ Take(kind, u)
          /\ IF Wanted(u) THEN Ask(u, phase)
             ELSE UNCHANGED <<open, revoked, ending, hearing, turns, order, active, out, task,
                              retired, remote, browser>>

TakeFailed(u) ==
    /\ Take("failed", u)
    /\ IF active = u /\ ~ revoked THEN Fence ELSE
       UNCHANGED <<turns, active, out, task, retired, remote>>
    /\ UNCHANGED <<open, revoked, ending, hearing, order, browser>>

TakeError(u) ==
    /\ <<"tool_error", u>> \in mailbox
    /\ IF active = u THEN Shut
       ELSE /\ Take("tool_error", u)
            /\ UNCHANGED <<open, revoked, ending, hearing, turns, order, active, out, task,
                           retired, remote, browser>>

\* A response announced after its turn was retired is told to stop now.
Announced(u) == IF u \in retired THEN "cancelled" ELSE "live"

\* response.created of either phase.
Created(u, phase) ==
    /\ remote[u][phase] = "asked"
    /\ remote' = [remote EXCEPT ![u][phase] = Announced(u)]
    /\ out' = IF u \in retired THEN out
              ELSE IF phase = "tools" THEN [out EXCEPT !.planner = TRUE]
              ELSE [out EXCEPT !.response = TRUE]
    /\ UNCHANGED <<open, revoked, ending, hearing, turns, order, active, task, mailbox,
                   retired, browser>>

Ends(u, phase) == remote' = [remote EXCEPT ![u][phase] = "done"]

\* response.done of a response that is over: nothing but its end is recorded.
LateDone(u, phase) ==
    /\ remote[u][phase] = "cancelled"
    /\ Ends(u, phase)
    /\ UNCHANGED <<open, revoked, ending, hearing, turns, order, active, out, task, mailbox,
                   retired, browser>>

\* response.done of the planner: its calls are accepted, or the call fails.
Planned(u) ==
    /\ active = u /\ remote[u]["tools"] = "live"
    /\ \/ Shut
       \/ /\ Ends(u, "tools")
          /\ out' = [out EXCEPT !.planned = TRUE]
          /\ task' = "tools"
          /\ UNCHANGED <<open, revoked, ending, hearing, turns, order, active, mailbox,
                         retired, browser>>

-----------------------------------------------------------------------------
(* Output: the gate, the browser and the playback proof.                   *)

Speaking(u) == active = u /\ remote[u]["audio"] = "live"

\* The part that speaks next: audio keeps the order of the parts.
Extended(parts, p) == IF p \in DOMAIN parts THEN parts ELSE Append(parts, NoPart)

\* An audio frame of part p goes to the browser; too far ahead ends the call.
Audio(u, p) ==
    /\ Speaking(u)
    /\ p <= Len(out.parts) + 1
    /\ \A q \in 1..(p - 1) : out.parts[q].done
    /\ p \in DOMAIN out.parts => ~ out.parts[p].done
    /\ sent[u] < MaxFrames
    /\ IF sent[u] + 1 - out.acked > MaxBuffer THEN Shut
       ELSE /\ sent' = [sent EXCEPT ![u] = @ + 1]
            /\ out' = [out EXCEPT !.parts = [Extended(out.parts, p) EXCEPT ![p].audible = TRUE]]
            /\ UNCHANGED <<open, revoked, ending, hearing, turns, order, active, task, mailbox,
                           retired, remote, sealed, played>>

AudioDone(u, p) ==
    /\ Speaking(u) /\ p \in DOMAIN out.parts
    /\ out.parts[p].audible /\ ~ out.parts[p].done
    /\ out' = [out EXCEPT !.parts[p].done = TRUE]
    /\ UNCHANGED <<open, revoked, ending, hearing, turns, order, active, task, mailbox,
                   retired, remote, browser>>

\* The words of a part, which may come before the audio of an earlier one ends.
TextDone(u, p) ==
    /\ Speaking(u) /\ p <= Len(out.parts) + 1
    /\ p \in DOMAIN out.parts => ~ out.parts[p].text
    /\ out' = [out EXCEPT !.parts = [Extended(out.parts, p) EXCEPT ![p].text = TRUE]]
    /\ UNCHANGED <<open, revoked, ending, hearing, turns, order, active, task, mailbox,
                   retired, remote, browser>>

Whole == out.parts # <<>> /\ \A p \in DOMAIN out.parts :
            out.parts[p].audible /\ out.parts[p].done /\ out.parts[p].text

\* response.done: a whole answer is sealed; a failed or partial one is
\* interrupted, its words and what was heard of it dropped.
ResponseDone(u) ==
    /\ Speaking(u)
    /\ \/ /\ Whole
          /\ Ends(u, "audio")
          /\ out' = [out EXCEPT !.ended = TRUE]
          /\ sealed' = sealed \cup {u}
          /\ UNCHANGED <<open, revoked, ending, hearing, turns, order, active, task, mailbox,
                         retired, sent, played>>
       \/ Refused
       \/ /\ ~ revoked
          /\ Fence
          /\ UNCHANGED <<open, revoked, ending, hearing, order, mailbox, browser>>

\* The browser plays what it was sent.
Play(u) ==
    /\ played[u] < sent[u]
    /\ played' = [played EXCEPT ![u] = @ + 1]
    /\ UNCHANGED <<open, revoked, ending, hearing, turns, order, active, out, task, mailbox,
                   retired, remote, sent, sealed>>

\* playback_progress: n frames were played when the message left.
Progress(u, n) ==
    /\ active = u /\ out.response
    /\ out.acked < n /\ n <= played[u]
    /\ out' = [out EXCEPT !.acked = n]
    /\ UNCHANGED <<open, revoked, ending, hearing, turns, order, active, task, mailbox,
                   retired, remote, browser>>

\* What a playback_drained must show: the seal of the whole answer, and its last frame.
Proven(u, n, seal) == out.ended /\ seal /\ n = sent[u]

\* playback_drained with or without the seal: the turn completes, or the
\* message breaks the protocol and the call ends.  One overtaken by later
\* progress is ignored.
Drained(u, n) ==
    /\ active = u /\ out.response
    /\ out.acked <= n /\ n <= played[u]
    /\ \E seal \in {FALSE, (u \in sealed)} :
         \/ Refused
         \/ /\ ~ revoked /\ ~ Proven(u, n, seal)
            /\ Shut
         \/ /\ ~ revoked /\ Proven(u, n, seal)
            /\ turns' = [turns EXCEPT ![u] = "completed"]
            /\ retired' = retired \cup {u}
            /\ active' = 0 /\ out' = NoOutput
            /\ UNCHANGED <<open, revoked, ending, hearing, order, task, mailbox, remote, browser>>

\* A browser interruption of the active output, or the 150 second limit.
Interrupt ==
    /\ active # 0
    /\ \/ Refused
       \/ /\ ~ revoked
          /\ Fence
          /\ UNCHANGED <<open, revoked, ending, hearing, order, mailbox, browser>>

\* end_call: at once, or a second later when speech is still unfinished.
EndCall ==
    /\ open /\ ~ ending
    /\ \/ Refused
       \/ /\ ~ revoked /\ Unfinished
          /\ ending' = TRUE
          /\ Fence
          /\ UNCHANGED <<open, revoked, hearing, order, mailbox, browser>>

-----------------------------------------------------------------------------
Provider ==
    \E u \in Utterance :
        \/ Speak(u) \/ Commit(u) \/ Transcribe(u)
        \/ \E p \in Phase : Created(u, p) \/ LateDone(u, p)
        \/ Planned(u) \/ ResponseDone(u)
        \/ \E p \in 1..MaxParts : Audio(u, p) \/ AudioDone(u, p) \/ TextDone(u, p)

Tasks ==
    \/ Prepare \/ RunTools
    \/ \E u \in Utterance :
        \/ TakeReady("prepared", "tools", u) \/ TakeReady("tools_ready", "audio", u)
        \/ TakeFailed(u) \/ TakeError(u)

Browser ==
    \/ Interrupt \/ EndCall
    \/ \E u \in Utterance : Play(u) \/ \E n \in 0..MaxFrames : Progress(u, n) \/ Drained(u, n)

Next == Provider \/ Tasks \/ Browser \/ Close \/ Release \/ Revoke

Spec == Init /\ [][Next]_vars

-----------------------------------------------------------------------------
\* Turns are admitted in the order they were spoken, whatever order their
\* transcripts complete in, and no utterance is passed over: when one is
\* resolved, each earlier one was admitted or reported as not saved
\* (TranscriptOrder.ready, bridge's `utterance_failed').
SpokenInOrder ==
    /\ \A i, j \in DOMAIN order : i < j => order[i] < order[j]
    /\ \A u, v \in Utterance : u < v /\ turns[v] # "none" => turns[u] # "none"

\* A turn completes only if its whole answer reached the listener's ear: the
\* provider finished the response and the browser played its last frame
\* (Output.acknowledge, PlaybackProof).
CompletedMeansPlayed ==
    \A u \in Utterance : turns[u] = "completed" =>
        /\ remote[u]["audio"] = "done" /\ u \in sealed
        /\ sent[u] > 0 /\ played[u] = sent[u]

\* No response speaks on for a turn the controller has ended: once announced,
\* it is over or has been told to stop, also when the cancellation came before
\* the announcement (bridge's `retired').
NoOrphanResponse ==
    open => \A u \in Utterance : \A p \in Phase :
                remote[u][p] = "live" => active = u

\* Once a turn is over nothing more is asked of the provider for it, even when
\* it was ended elsewhere; and once this controller ended it, none of its
\* audio goes out (Output.provider, the `active is output' guards; a session
\* withdrawn elsewhere is noticed within a second).
EndedIsSilent ==
    [][\A u \in Utterance : turns[u] \in Over =>
          /\ \A p \in Phase : remote'[u][p] = "asked" => remote[u][p] = "asked"
          /\ sent'[u] # sent[u] => revoked]_vars
=============================================================================
