---------------------------- MODULE LegacyAccess ----------------------------
(***************************************************************************)
(* Who may build and who may talk to one Legacy: codes that let people     *)
(* join, invitations sent to one address, and the owner's revocations and  *)
(* restorations (services/access_management, collaboration, legacy_access  *)
(* and their routes).                                                      *)
(*                                                                         *)
(* A request reads its rows, and commits later; no row is locked.  The     *)
(* object-relational mapper writes an assigned column only where its value *)
(* differs from the one that was read, and a second row for the same       *)
(* person is refused by a unique constraint.  The events that record each  *)
(* change are left out, as are the attempt limits, the wording and the     *)
(* tokens; deletion of the Legacy is MediaPipeline's.                      *)
(***************************************************************************)
EXTENDS Naturals, FiniteSets

CONSTANTS
  Person,      \* people other than the owner
  Role,        \* {"collaborator", "viewer"}, or one of them
  Invite,      \* rows of legacy_access_invites
  Req          \* requests that may run at a time

VARIABLES
  member,      \* status of each person's row, per role
  code,        \* whether a role's code exists, and whether it is enabled
  invite,      \* the invitations
  chosen,      \* people whose active_legacy_id is this Legacy
  req          \* requests between their reads and their commits

vars == <<member, code, invite, chosen, req>>

Row == {"none", "active", "revoked"}
Op == {"join", "invite", "accept", "withdraw", "revoke", "restore", "enable", "disable", "regenerate"}
Idle == [at |-> "idle", op |-> "join", role |-> "none", who |-> "nobody", inv |-> "none", was |-> "none",
         flag |-> FALSE]

Codes == {"absent", "on", "off"}

TypeOK ==
  /\ member \in [Role -> [Person -> Row]]
  /\ code \in [Role -> Codes]
  /\ \A i \in Invite : /\ invite[i].status \in {"free", "pending", "accepted", "revoked"}
                       /\ invite[i].expired \in BOOLEAN
                       /\ invite[i].status # "free" => invite[i].who \in Person /\ invite[i].role \in Role
  /\ chosen \subseteq Person
  /\ \A q \in Req : req[q].at \in {"idle", "read", "joined", "sending"} /\ req[q].op \in Op

NoInvite == [status |-> "free", expired |-> FALSE, who |-> "nobody", role |-> "none"]

Init ==
  /\ member = [r \in Role |-> [p \in Person |-> "none"]]
  /\ code = [r \in Role |-> "absent"]
  /\ invite = [i \in Invite |-> NoInvite]
  /\ chosen = {}
  /\ req = [q \in Req |-> Idle]

-----------------------------------------------------------------------------
(* Reads.                                                                  *)

Reads(q, op, r, p, i, was, flag) ==
  /\ req[q] = Idle
  /\ req' = [req EXCEPT ![q] = [at |-> "read", op |-> op, role |-> r, who |-> p, inv |-> i, was |-> was,
                                flag |-> flag]]
  /\ UNCHANGED <<member, code, invite, chosen>>

\* The code typed is the role's present one, and it is enabled.
AskJoin(q, r, p) == code[r] = "on" /\ Reads(q, "join", r, p, "none", member[r][p], FALSE)

\* The owner invites: not somebody who has access, nor twice at a time.
AskInvite(q, r, p) ==
  /\ member[r][p] # "active"
  /\ ~ \E i \in Invite : invite[i].status = "pending" /\ invite[i].who = p /\ invite[i].role = r
  /\ Reads(q, "invite", r, p, "none", "none", FALSE)

Pending(i) == invite[i].status = "pending"

\* The recipient follows the link in time, signed in with that address.
AskAccept(q, i) ==
  /\ Pending(i) /\ ~ invite[i].expired
  /\ Reads(q, "accept", invite[i].role, invite[i].who, i, member[invite[i].role][invite[i].who], FALSE)

AskWithdraw(q, i) == Pending(i) /\ Reads(q, "withdraw", invite[i].role, invite[i].who, i, "none", FALSE)

AskChange(q, op, r, p) ==
  /\ op \in {"revoke", "restore"} /\ member[r][p] # "none"
  /\ Reads(q, op, r, p, "none", member[r][p], p \in chosen)

AskCode(q, op, r) ==
  /\ op \in {"enable", "disable", "regenerate"}
  /\ Reads(q, op, r, "nobody", "none", code[r], FALSE)

-----------------------------------------------------------------------------
(* Commits.                                                                *)

Done(q) == req' = [req EXCEPT ![q] = Idle]

Choose(p, r) == chosen' = IF r = "collaborator" THEN chosen \union {p} ELSE chosen

\* A status is written where it differs from the one that was read; a new
\* row is refused where there is one by now.
Sets(q, status) ==
  LET r == req[q].role  p == req[q].who IN
  member' = IF req[q].was = status THEN member ELSE [member EXCEPT ![r][p] = status]
Refused(q) == req[q].was = "none" /\ member[req[q].role][req[q].who] # "none"

\* Mutant of the next definition: a code brings a revoked person back.
OutForGoodNever(q) == FALSE

\* A person whose row is revoked is sent away: "The owner must restore ...".
OutForGood(q) == req[q].was = "revoked"

\* The new collaborator's row is committed before the pointer to the Legacy.
Join(q) ==
  /\ req[q].at = "read" /\ req[q].op = "join"
  /\ IF OutForGood(q) \/ Refused(q) THEN Done(q) /\ UNCHANGED <<member, chosen>>
     ELSE /\ Sets(q, "active")
          /\ IF req[q].was = "none" /\ req[q].role = "collaborator"
               THEN req' = [req EXCEPT ![q].at = "joined"] /\ UNCHANGED chosen
               ELSE Choose(req[q].who, req[q].role) /\ Done(q)
  /\ UNCHANGED <<code, invite>>

JoinEnds(q) ==
  /\ req[q].at = "joined"
  /\ chosen' \in {chosen \union {req[q].who}, chosen}
  /\ Done(q)
  /\ UNCHANGED <<member, code, invite>>

\* The row is committed, then the e-mail is sent.
SendInvite(q) ==
  /\ req[q].at = "read" /\ req[q].op = "invite"
  /\ \E i \in Invite :
       /\ invite[i] = NoInvite
       /\ invite' = [invite EXCEPT ![i] = [NoInvite EXCEPT !.status = "pending", !.who = req[q].who, !.role = req[q].role]]
       /\ req' = [req EXCEPT ![q].at = "sending", ![q].inv = i]
  /\ UNCHANGED <<member, code, chosen>>

\* A failed delivery withdraws the invitation, whatever became of it.
Delivery(q) ==
  /\ req[q].at = "sending"
  /\ \/ UNCHANGED invite
     \/ invite' = [invite EXCEPT ![req[q].inv].status = "revoked"]
  /\ Done(q)
  /\ UNCHANGED <<member, code, chosen>>

Accept(q) ==
  /\ req[q].at = "read" /\ req[q].op = "accept"
  /\ IF Refused(q) THEN UNCHANGED <<member, invite, chosen>>
     ELSE /\ Sets(q, "active")
          /\ invite' = [invite EXCEPT ![req[q].inv].status = "accepted"]
          /\ Choose(req[q].who, req[q].role)
  /\ Done(q)
  /\ UNCHANGED code

Withdraw(q) ==
  /\ req[q].at = "read" /\ req[q].op = "withdraw"
  /\ invite' = [invite EXCEPT ![req[q].inv].status = "revoked"]
  /\ Done(q)
  /\ UNCHANGED <<member, code, chosen>>

\* Revoking also takes the Legacy from a collaborator who had it selected,
\* and ends the person's live sessions (LiveSessions).
Change(q) ==
  /\ req[q].at = "read" /\ req[q].op \in {"revoke", "restore"}
  /\ Sets(q, IF req[q].op = "revoke" THEN "revoked" ELSE "active")
  /\ chosen' = IF req[q].op = "revoke" /\ req[q].role = "collaborator" /\ req[q].flag
                 THEN chosen \ {req[q].who} ELSE chosen
  /\ Done(q)
  /\ UNCHANGED <<code, invite>>

\* A new code enables the role unless it was read as enabled; enabling
\* without a code makes one; disabling is written where it was read enabled.
Code(q) ==
  LET r == req[q].role  was == req[q].was IN
  /\ req[q].at = "read" /\ req[q].op \in {"enable", "disable", "regenerate"}
  /\ code' = [code EXCEPT ![r] = CASE req[q].op = "disable" -> IF was = "on" THEN "off" ELSE @
                                   [] was = "on" -> @
                                   [] OTHER -> "on"]
  /\ Done(q)
  /\ UNCHANGED <<member, invite, chosen>>

\* A request fails before its commit; an invitation's time runs out.
Fail(q) ==
  /\ req[q].at = "read" /\ Done(q)
  /\ UNCHANGED <<member, code, invite, chosen>>

Expire(i) ==
  /\ Pending(i) /\ ~ invite[i].expired
  /\ invite' = [invite EXCEPT ![i].expired = TRUE]
  /\ UNCHANGED <<member, code, chosen, req>>

Asks(q) ==
  \/ \E r \in Role, p \in Person : AskJoin(q, r, p) \/ AskInvite(q, r, p) \/ \E op \in Op : AskChange(q, op, r, p)
  \/ \E i \in Invite : AskAccept(q, i) \/ AskWithdraw(q, i)
  \/ \E r \in Role, op \in Op : AskCode(q, op, r)

Commits(q) ==
  Join(q) \/ JoinEnds(q) \/ SendInvite(q) \/ Delivery(q) \/ Accept(q) \/ Withdraw(q) \/ Change(q) \/ Code(q) \/ Fail(q)

Next == (\E q \in Req : Asks(q) \/ Commits(q)) \/ \E i \in Invite : Expire(i)

Spec == Init /\ [][Next]_vars

-----------------------------------------------------------------------------
\* Access that the owner revoked comes back by the owner's restoration or by
\* an invitation made out to that person for that role, under whatever
\* requests run beside it; the Legacy's code, which the person may still
\* know, never brings it back (join_collaboration, join_legacy_access).
BackByInvitationOnly ==
  [][\A r \in Role, p \in Person : member[r][p] = "revoked" /\ member'[r][p] = "active" =>
       \E q \in Req : /\ req[q] # req'[q] /\ req[q].role = r /\ req[q].who = p
                      /\ \/ req[q].op = "restore"
                         \/ req[q].op = "accept" /\ invite'[req[q].inv].status = "accepted"
                              /\ invite[req[q].inv].who = p /\ invite[req[q].inv].role = r]_vars
=============================================================================
