----------------------------- MODULE MCRequests -----------------------------
(***************************************************************************)
(* Small instances of five components that answer requests and share no    *)
(* variables, checked one after the other in one run of TLC: `part` says   *)
(* which of them moves, the others stay as they began.                     *)
(***************************************************************************)
EXTENDS PlanVoice, Sequences, TLC

CONSTANTS Request, Key, Source, Address, Subject, None,
          Told, MaxVersion, MaxTelling,        \* of the story
          Public, Private, MaxCalls, MaxEdit,  \* of the tools
          MaxTries, MaxCode, MaxHash,          \* of the accounts
          Reader, MaxStamp                     \* of the picture

ASSUME MCRequestsAssumption ==
  /\ {MaxVersion, MaxTelling, MaxCalls, MaxEdit, MaxCode, MaxHash, MaxStamp} \subseteq Nat
  /\ MaxTries \in Nat \ {0}
  /\ None \notin Request \union Told \union Source

VARIABLES part,
          fact, changing, row, version, caller, writing,
          known, verified, allowed, plan, running, results, published, changes,
          challenge, users, cookies, hashes, req,
          source, portrait, stamp, welcome, holder, choice, reading, latest, shown

voice == vars
story == <<fact, changing, row, version, caller, writing>>
tools == <<known, verified, allowed, plan, running, results, published, changes>>
account == <<challenge, users, cookies, hashes, req>>
picture == <<source, portrait, stamp, welcome, holder, choice, reading, latest, shown>>
all == <<part, voice, story, tools, account, picture>>

Story == INSTANCE StoryDrafts WITH
           Caller <- Request, Fact <- Told, MaxChange <- MaxTelling, holder <- writing

Tools == INSTANCE ConversationTools WITH
           Fact <- Public \union Private, MaxChange <- MaxEdit, fact <- known, call <- running

\* Two Google accounts that show one address.
Account == INSTANCE AccountAccess WITH
             Identity <- [sub : Subject, email : Address], Req <- Request

Picture == INSTANCE DisplayPicture WITH
             Owner <- Request, sent <- shown

AllInit ==
  /\ part \in {"voice", "story", "tools", "account", "picture"}
  /\ Init /\ Story!Init /\ Tools!Init /\ Account!Init /\ Picture!Init
  /\ part /= "tools" => ~ verified /\ plan = [n \in 1 .. 1 |-> CHOOSE t \in Tools!Tool : TRUE]

AllNext ==
  /\ UNCHANGED part
  /\ \/ part = "voice" /\ Next /\ UNCHANGED <<story, tools, account, picture>>
     \/ part = "story" /\ Story!Next /\ UNCHANGED <<voice, tools, account, picture>>
     \/ part = "tools" /\ Tools!Next /\ UNCHANGED <<voice, story, account, picture>>
     \/ part = "account" /\ Account!Next /\ UNCHANGED <<voice, story, tools, picture>>
     \/ part = "picture" /\ Picture!Next /\ UNCHANGED <<voice, story, tools, account>>

AllSpec == AllInit /\ [][AllNext]_all

Sym == Permutations(Request) \cup Permutations(Key)

\* The columns, the requests and the connections of each component have their types.
RequestsTypeOK ==
  /\ part = "voice" => TypeOK
  /\ part = "story" => Story!TypeOK
  /\ part = "tools" => Tools!TypeOK
  /\ part = "account" => Account!TypeOK
  /\ part = "picture" => Picture!TypeOK

\* A transaction of a call never takes the charge of a day past the allowance, a day is
\* charged no more than its calls were connected, and a settled receipt is never written
\* again (plan_enforcement.py, plan_usage.py).
VoiceHolds == []ChargedOnce /\ NeverOvercharged /\ SettledStays

\* A generated version of a story replaces only the version its request saw (stories.py).
NewestWins == Story!NewestWins

\* An answer of a tool is true when it is given, and what is handed to the response is
\* handed over once and whole (conversation_tools.py, realtime_brain.py).
ToolsHold == Tools!AnswersAreCurrent /\ Tools!PublishedTogether

\* A cookie that refreshes is of a sign-in that read the password of today, and a
\* registration's proof of an address is spent on one account (challenges.py, auth.py).
ProofsHold == Account!CookiesFollowPassword /\ Account!SpentOnAnAccount

\* The picture that is shown is the one that was selected last, and what a reader is sent
\* was current when it was sent (display_picture.py, visual_companion.py).
PictureHolds == []Picture!LatestIsShown /\ Picture!SentWasCurrent
=============================================================================
