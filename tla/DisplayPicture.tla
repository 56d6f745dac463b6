--------------------------- MODULE DisplayPicture ----------------------------
(***************************************************************************)
(* What a visitor sees of a Legacy: the animated portrait that its owner   *)
(* approved, and the display picture, which is the image the owner         *)
(* selected or, before any selection, the source of that portrait.  A      *)
(* selection is a mark in the metadata of a source.  Owner commands lock   *)
(* the Legacy row; a reader holds nothing while the object store answers,  *)
(* and looks again afterwards.                                             *)
(*                                                                         *)
(* Whether the companion has a version to activate is VisualPipeline's     *)
(* matter and is a free choice here.                                       *)
(***************************************************************************)
EXTENDS Naturals, FiniteSets

CONSTANTS
  Source,    \* presentation sources: images uploaded as visual references
  Owner,     \* the owner's requests to select a picture
  Reader,    \* requests for the bytes of one or the other
  MaxStamp,  \* bound: selections and activations
  None

VARIABLES
  source,    \* source[s]: its state and its mark
  portrait,  \* the companion: enabled or not, and the source of what is approved
  stamp,     \* the last revision that was given out
  welcome,   \* whether the readers still have access
  holder,    \* the selection that holds the Legacy row
  choice,    \* choice[o]: what o is about to commit
  reading,   \* reading[x]: what x is fetching the bytes of
  latest,    \* for the properties: the source that was selected last
  sent       \* for the properties: what was sent last

vars == <<source, portrait, stamp, welcome, holder, choice, reading, latest, sent>>

Picture == [as : {"picture", "portrait"}, source : Source, revision : 1..MaxStamp]

TypeOK ==
  /\ source \in [Source -> [state : {"absent", "queued", "failed", "ready", "deleting"},
                            revision : 0..MaxStamp, selected : BOOLEAN]]
  /\ portrait \in [enabled : BOOLEAN, source : Source \cup {None}, revision : 0..MaxStamp]
  /\ stamp \in 0..MaxStamp
  /\ welcome \in BOOLEAN
  /\ holder \in Owner \cup {None}
  /\ choice \in [Owner -> {None} \cup [source : Source, marked : SUBSET Source]]
  /\ reading \in [Reader -> {None} \cup Picture]
  /\ latest \in Source \cup {None}
  /\ sent \in {None} \cup Picture

Init ==
  /\ source = [s \in Source |-> [state |-> "absent", revision |-> 0, selected |-> FALSE]]
  /\ portrait = [enabled |-> FALSE, source |-> None, revision |-> 0]
  /\ stamp = 0 /\ welcome = TRUE /\ holder = None
  /\ choice = [o \in Owner |-> None] /\ reading = [x \in Reader |-> None]
  /\ latest = None /\ sent = None

-----------------------------------------------------------------------------
Eligible(s) == source[s].state = "ready"
Marked      == {s \in Source : source[s].revision # 0}
Chosen      == {s \in Marked : source[s].selected}

\* The source of the approved version, while the companion is enabled.
Approved == {s \in Source : portrait.enabled /\ portrait.source = s /\ Eligible(s)}

\* selection: with any mark about, exactly one eligible chosen source or
\* nothing; without one, what the enabled companion was approved from.
Selection ==
  IF Marked # {}
  THEN {[as |-> "picture", source |-> s, revision |-> source[s].revision] :
          s \in {c \in Chosen : Cardinality(Chosen) = 1 /\ Eligible(c)}}
  ELSE {[as |-> "picture", source |-> s, revision |-> portrait.revision] : s \in Approved}

\* read_scope of a visitor: the current version with its three assets.
Portrait == {[as |-> "portrait", source |-> s, revision |-> portrait.revision] : s \in Approved}

Shown == Selection \cup Portrait

LockedLegacy == holder = None

-----------------------------------------------------------------------------
\* select_picture, up to the marks that it read under the lock.
Select(o, s) ==
  /\ choice[o] = None /\ LockedLegacy
  /\ Eligible(s)
  /\ ~ (source[s].selected /\ \E p \in Selection : p.source = s)
  /\ holder' = o
  /\ choice' = [choice EXCEPT ![o] = [source |-> s, marked |-> Marked]]
  /\ UNCHANGED <<source, portrait, stamp, welcome, reading, latest, sent>>

\* Its writes: the old marks lose, the new one wins, the animation goes off.
Publish(o) ==
  LET c == choice[o]
  IN  /\ c # None /\ stamp < MaxStamp
      /\ stamp' = stamp + 1
      /\ source' = [s \in Source |->
           IF s = c.source THEN [source[s] EXCEPT !.selected = TRUE, !.revision = stamp']
           ELSE IF s \in c.marked THEN [source[s] EXCEPT !.selected = FALSE] ELSE source[s]]
      /\ portrait' = [portrait EXCEPT !.enabled = FALSE]
      /\ latest' = c.source
      /\ choice' = [choice EXCEPT ![o] = None] /\ holder' = None
      /\ UNCHANGED <<welcome, reading, sent>>

\* The request fails before its commit.
RollBack(o) ==
  /\ choice[o] # None
  /\ choice' = [choice EXCEPT ![o] = None] /\ holder' = None
  /\ UNCHANGED <<source, portrait, stamp, welcome, reading, latest, sent>>

-----------------------------------------------------------------------------
\* A reader.

Open(x) ==
  /\ reading[x] = None /\ welcome
  /\ \E p \in Shown : reading' = [reading EXCEPT ![x] = p]
  /\ UNCHANGED <<source, portrait, stamp, welcome, holder, choice, latest, sent>>

\* Mutant of the next definition: the bytes sent without a second look.
SameUnseen(p) == TRUE

SameStill(p) == welcome /\ p \in Shown

\* The bytes are there; they go out only if they are still what is shown.
Send(x) ==
  LET p == reading[x]
  IN  /\ p # None
      /\ reading' = [reading EXCEPT ![x] = None]
      /\ sent' = IF SameStill(p) THEN p ELSE sent
      /\ UNCHANGED <<source, portrait, stamp, welcome, holder, choice, latest>>

-----------------------------------------------------------------------------
\* What else happens to the Legacy.

Becomes(s, r) == source' = [source EXCEPT ![s] = r]

\* Upload and retry put a source in the queue, the worker's verdict takes it out
\* and writes the metadata afresh; the worker takes no Legacy lock.
Upload(s) ==
  /\ source[s].state \in {"absent", "failed"}
  /\ Becomes(s, [source[s] EXCEPT !.state = "queued"])
  /\ UNCHANGED <<portrait, stamp, welcome, holder, choice, reading, latest, sent>>

Validate(s, good) ==
  /\ source[s].state = "queued"
  /\ Becomes(s, IF good THEN [state |-> "ready", revision |-> 0, selected |-> FALSE]
                ELSE [source[s] EXCEPT !.state = "failed"])
  /\ UNCHANGED <<portrait, stamp, welcome, holder, choice, reading, latest, sent>>

\* Deletion keeps the mark, so no older portrait takes the place.
Delete(s) ==
  /\ source[s].state \notin {"absent", "deleting"} /\ LockedLegacy
  /\ Becomes(s, [source[s] EXCEPT !.state = "deleting"])
  /\ portrait' = IF portrait.source = s
                 THEN [portrait EXCEPT !.enabled = FALSE, !.source = None] ELSE portrait
  /\ UNCHANGED <<stamp, welcome, holder, choice, reading, latest, sent>>

\* A version approved for the first time; one approved before comes back as in
\* Toggle.
Activate(s) ==
  /\ Eligible(s) /\ LockedLegacy /\ stamp < MaxStamp
  /\ stamp' = stamp + 1
  /\ portrait' = [enabled |-> TRUE, source |-> s, revision |-> stamp']
  /\ UNCHANGED <<source, welcome, holder, choice, reading, latest, sent>>

Toggle(on) ==
  /\ LockedLegacy
  /\ on => portrait.source # None /\ Eligible(portrait.source)
  /\ portrait' = [portrait EXCEPT !.enabled = on]
  /\ UNCHANGED <<source, stamp, welcome, holder, choice, reading, latest, sent>>

DeletePortrait ==
  /\ LockedLegacy
  /\ portrait' = [portrait EXCEPT !.enabled = FALSE, !.source = None]
  /\ UNCHANGED <<source, stamp, welcome, holder, choice, reading, latest, sent>>

Revoke ==
  /\ welcome' = FALSE
  /\ UNCHANGED <<source, portrait, stamp, holder, choice, reading, latest, sent>>

Next ==
  \/ \E o \in Owner : Publish(o) \/ RollBack(o) \/ \E s \in Source : Select(o, s)
  \/ \E x \in Reader : Open(x) \/ Send(x)
  \/ \E s \in Source : Upload(s) \/ Delete(s) \/ Activate(s)
  \/ \E s \in Source, good \in BOOLEAN : Validate(s, good)
  \/ \E on \in BOOLEAN : Toggle(on)
  \/ DeletePortrait \/ Revoke

Spec == Init /\ [][Next]_vars

-----------------------------------------------------------------------------
\* Once the owner has selected a picture, the Legacy shows his latest choice or
\* nothing: overlapping selections leave one winner, and neither a deletion nor
\* an animated portrait that is activated again puts another face in its place.
LatestIsShown ==
  latest # None =>
    {p.source : p \in Selection} = {s \in {latest} : Eligible(s)}

\* Bytes are sent only while they are what the Legacy shows and the reader is
\* welcome, whatever happened during the fetch.
SentWasCurrent == [][sent' # sent => welcome /\ sent' \in Shown]_vars
=============================================================================
