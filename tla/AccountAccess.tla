---------------------------- MODULE AccountAccess -----------------------------
(***************************************************************************)
(* Accounts: one-time codes and the authorizations they buy, registration, *)
(* password reset, Google Sign-In, and the refresh cookies that keep a     *)
(* browser signed in.                                                      *)
(*                                                                         *)
(* No request here takes a lock.  A request reads in one step and commits  *)
(* in another, and what it writes is decided by what it read; only the     *)
(* unique columns of users stand between two of them.  A sign-in that      *)
(* writes the user reads the row again after its commit, in a step of its  *)
(* own.  A code or an authorization may be found expired at any read,      *)
(* which refuses the request and changes nothing, so time has no variable. *)
(***************************************************************************)
EXTENDS Naturals, Sequences, FiniteSets

CONSTANTS
  Address,    \* normalized e-mail addresses
  Identity,   \* what Google may assert: records of a subject and an address
  Req,        \* requests; a request that is over may be made again
  MaxTries,   \* MAX_ATTEMPTS
  MaxCode,    \* bound: challenge rows
  MaxHash,    \* bound: password hashes ever made, each with a salt of its own
  None

VARIABLES
  challenge,  \* the auth_challenges rows in the order of their ids
  users,      \* the users rows in the order of their ids
  cookies,    \* the refresh cookies that some browser still holds
  hashes,     \* how many password hashes were made
  req         \* req[r]: what r is about to commit

vars == <<challenge, users, cookies, hashes, req>>

Purpose == {"registration", "password_reset"}
Idle    == [op |-> "idle"]

\* What a cookie says: its user and the fingerprint of a password hash.  For the
\* properties: the hash that the sign-in behind it read from the row, and the
\* hash of the password that its holder showed or chose there.
Cookie  == [user : 1..MaxHash, print : 1..MaxHash, since : 1..MaxHash, proved : 0..MaxHash]
ByGoogle == 0

Subjects == {i.sub : i \in Identity}

TypeOK ==
  /\ challenge \in Seq([email : Address, purpose : Purpose, consumed : BOOLEAN,
                        tries : 0..MaxTries, grant : Req \cup {None}, used : BOOLEAN])
  /\ Len(challenge) <= MaxCode
  /\ users \in Seq([email : Address, hash : 1..MaxHash, sub : Subjects \cup {None},
                    origin : 0..MaxCode])
  /\ cookies \subseteq Cookie
  /\ hashes \in 0..MaxHash
  /\ \A r \in Req : req[r].op \in {"idle", "code", "wrong", "right", "complete",
                                   "reset", "reread", "hand", "link", "enrol"}

Init ==
  /\ challenge = <<>> /\ users = <<>> /\ cookies = {} /\ hashes = 0
  /\ req = [r \in Req |-> Idle]

Account(a) == {u \in DOMAIN users : users[u].email = a}
Holder(g)  == {u \in DOMAIN users : users[u].sub = g}

Codes(a, p) == {c \in DOMAIN challenge : challenge[c].email = a /\ challenge[c].purpose = p}

Free(r)    == req[r].op = "idle"
Goes(r, q) == req' = [req EXCEPT ![r] = q]
Done(r)    == Goes(r, Idle)

-----------------------------------------------------------------------------
\* Codes.

\* create_challenge reads the open codes of the address before it commits.
AsksCode(r, a, p) ==
  /\ Free(r)
  /\ Goes(r, [op |-> "code", email |-> a, purpose |-> p,
              open |-> {c \in Codes(a, p) : ~challenge[c].consumed}])
  /\ UNCHANGED <<challenge, users, cookies, hashes>>

Register(r, a) == Account(a) = {} /\ AsksCode(r, a, "registration")

ForgotPassword(r, a) == Account(a) # {} /\ AsksCode(r, a, "password_reset")

\* A registration code is sent again only where a registration was started.
ResendOtp(r, a, p) ==
  /\ IF p = "registration" THEN Account(a) = {} /\ Codes(a, p) # {} ELSE Account(a) # {}
  /\ AsksCode(r, a, p)

\* The codes that were open are closed, the new one is stored; the mail goes
\* out afterwards, and a mail that fails takes nothing back.
CreateChallenge(r) ==
  LET q == req[r]
  IN  /\ q.op = "code" /\ Len(challenge) < MaxCode
      /\ challenge' =
           Append([c \in DOMAIN challenge |->
                     IF c \in q.open THEN [challenge[c] EXCEPT !.consumed = TRUE]
                     ELSE challenge[c]],
                  [email |-> q.email, purpose |-> q.purpose, consumed |-> FALSE,
                   tries |-> 0, grant |-> None, used |-> FALSE])
      /\ Done(r)
      /\ UNCHANGED <<users, cookies, hashes>>

\* Mutant of the next definition: a closed code may be tried again.
TriableAnyhow(a, p) == {c \in Codes(a, p) : \A d \in Codes(a, p) : d <= c}

\* The newest code of the address, if it may still be tried.
Triable(a, p) ==
  {c \in Codes(a, p) : /\ \A d \in Codes(a, p) : d <= c
                       /\ ~challenge[c].consumed /\ challenge[c].tries < MaxTries}

VerifyChallenge(r, a, p, right) ==
  /\ Free(r)
  /\ \E c \in Triable(a, p) :
       Goes(r, [op |-> IF right THEN "right" ELSE "wrong", code |-> c,
                tries |-> challenge[c].tries])
  /\ UNCHANGED <<challenge, users, cookies, hashes>>

\* A wrong code writes the count that was read and one more; the last allowed
\* attempt closes the code.
CountAttempt(r) ==
  LET q == req[r]
  IN  /\ q.op = "wrong"
      /\ challenge' = [challenge EXCEPT ![q.code].tries = q.tries + 1,
                         ![q.code].consumed = @ \/ q.tries + 1 >= MaxTries]
      /\ Done(r)
      /\ UNCHANGED <<users, cookies, hashes>>

\* The right code buys an authorization; of two, the row keeps the later one.
Authorize(r) ==
  LET q == req[r]
  IN  /\ q.op = "right"
      /\ challenge' = [challenge EXCEPT ![q.code].consumed = TRUE, ![q.code].grant = r]
      /\ Done(r)
      /\ UNCHANGED <<users, cookies, hashes>>

-----------------------------------------------------------------------------
\* What an authorization is good for.

\* The challenge that the authorization bought by `by` still leads to.
Authorized(by, p) ==
  {c \in DOMAIN challenge : /\ challenge[c].grant = by /\ challenge[c].purpose = p
                            /\ ~challenge[c].used}

\* consume_authorization marks the row in the open transaction; what the request
\* does with it follows in the same one.
ConsumeAuthorization(r, by, p) ==
  /\ Free(r)
  /\ \E c \in Authorized(by, p) :
       /\ p = "password_reset" => Account(challenge[c].email) # {}
       /\ Goes(r, [op |-> IF p = "registration" THEN "complete" ELSE "reset", code |-> c])
  /\ UNCHANGED <<challenge, users, cookies, hashes>>

Spent(c) == [challenge EXCEPT ![c].used = TRUE]

\* The rollback of an insert that meets the unique address gives it back.
GivenBack(c) == challenge

\* The row of user u is written, and has yet to be read again.
Committed(r, u, proved) == Goes(r, [op |-> "reread", user |-> u, proved |-> proved])

CompleteRegistration(r) ==
  LET q == req[r]
      a == challenge[q.code].email
  IN  /\ q.op = "complete"
      /\ IF Account(a) # {}
         THEN /\ challenge' = GivenBack(q.code) /\ Done(r)
              /\ UNCHANGED <<users, hashes>>
         ELSE /\ hashes < MaxHash
              /\ hashes' = hashes + 1
              /\ challenge' = Spent(q.code)
              /\ users' = Append(users, [email |-> a, hash |-> hashes', sub |-> None,
                                         origin |-> q.code])
              /\ Committed(r, Len(users) + 1, hashes')
      /\ UNCHANGED cookies

ResetPassword(r) ==
  LET q == req[r]
  IN  /\ q.op = "reset" /\ hashes < MaxHash
      /\ hashes' = hashes + 1
      /\ challenge' = Spent(q.code)
      /\ \E u \in Account(challenge[q.code].email) : users' = [users EXCEPT ![u].hash = hashes']
      /\ Done(r)
      /\ UNCHANGED cookies

-----------------------------------------------------------------------------
\* Sessions.

\* The cookie of a sign-in that has just read the row of user u.
SignedIn(u, proved) ==
  [user |-> u, print |-> users[u].hash, since |-> users[u].hash, proved |-> proved]

\* The password is verified against the hash that was read.
Login(r, u) ==
  /\ Free(r)
  /\ Goes(r, [op |-> "hand", cookie |-> SignedIn(u, users[u].hash)])
  /\ UNCHANGED <<challenge, users, cookies, hashes>>

\* The refresh of the row after the commit is a transaction of its own: it finds
\* the hash of now, which a reset may have written since.
ReRead(r) ==
  /\ req[r].op = "reread"
  /\ Goes(r, [op |-> "hand", cookie |-> SignedIn(req[r].user, req[r].proved)])
  /\ UNCHANGED <<challenge, users, cookies, hashes>>

RefreshTokenMatches(k) == users[k.user].hash = k.print

\* The new cookie proves no more than the one it replaces.
Refresh(r, k) ==
  /\ Free(r)
  /\ RefreshTokenMatches(k)
  /\ Goes(r, [op |-> "hand", cookie |-> [k EXCEPT !.print = users[k.user].hash]])
  /\ UNCHANGED <<challenge, users, cookies, hashes>>

\* Mutant of the next definition: the fingerprint of the hash found at the end.
FingerprintNow(k) == [k EXCEPT !.print = users[k.user].hash]

\* The fingerprint is that of the hash which the request read.
Fingerprint(k) == k

\* _set_session: no second look at the user.
SetSession(r) ==
  /\ req[r].op = "hand"
  /\ cookies' = cookies \cup {Fingerprint(req[r].cookie)}
  /\ Done(r)
  /\ UNCHANGED <<challenge, users, hashes>>

\* The browser forgets its cookie.  The live sessions that go with it are
\* revoked in LiveSessions.
Logout(k) ==
  /\ cookies' = cookies \ {k}
  /\ UNCHANGED <<challenge, users, hashes, req>>

-----------------------------------------------------------------------------
\* Google Sign-In.

\* The user by subject and the user by address must agree, and a user that is
\* linked stays with its subject.
GoogleLogin(r, i) ==
  LET found == Holder(i.sub) \cup Account(i.email)
  IN  /\ Free(r)
      /\ Cardinality(found) <= 1
      /\ \A u \in found : users[u].sub \in {None, i.sub}
      /\ Goes(r, [op |-> IF found = {} THEN "enrol" ELSE "link", who |-> i, found |-> found])
      /\ UNCHANGED <<challenge, users, cookies, hashes>>

\* Either unique column may refuse the commit.
Link(r) ==
  LET q == req[r]
  IN  /\ q.op = "link"
      /\ \E u \in q.found :
           IF Holder(q.who.sub) \subseteq {u}
           THEN users' = [users EXCEPT ![u].sub = q.who.sub] /\ Committed(r, u, ByGoogle)
           ELSE UNCHANGED users /\ Done(r)
      /\ UNCHANGED <<challenge, cookies, hashes>>

\* A new account gets a password that nobody knows.
Enrol(r) ==
  LET q == req[r]
  IN  /\ q.op = "enrol"
      /\ IF Holder(q.who.sub) \cup Account(q.who.email) # {}
         THEN UNCHANGED <<users, hashes>> /\ Done(r)
         ELSE /\ hashes < MaxHash
              /\ hashes' = hashes + 1
              /\ users' = Append(users, [email |-> q.who.email, hash |-> hashes',
                                         sub |-> q.who.sub, origin |-> 0])
              /\ Committed(r, Len(users) + 1, ByGoogle)
      /\ UNCHANGED <<challenge, cookies>>

-----------------------------------------------------------------------------
Arrives(r) ==
  \/ \E a \in Address : Register(r, a) \/ ForgotPassword(r, a)
  \/ \E a \in Address, p \in Purpose : ResendOtp(r, a, p)
  \/ \E a \in Address, p \in Purpose, right \in BOOLEAN : VerifyChallenge(r, a, p, right)
  \/ \E by \in Req, p \in Purpose : ConsumeAuthorization(r, by, p)
  \/ \E u \in DOMAIN users : Login(r, u)
  \/ \E k \in cookies : Refresh(r, k)
  \/ \E i \in Identity : GoogleLogin(r, i)

Commits(r) ==
  \/ CreateChallenge(r) \/ CountAttempt(r) \/ Authorize(r)
  \/ CompleteRegistration(r) \/ ResetPassword(r)
  \/ ReRead(r) \/ SetSession(r) \/ Link(r) \/ Enrol(r)

Next ==
  \/ \E r \in Req : Arrives(r) \/ Commits(r)
  \/ \E k \in cookies : Logout(k)

Spec == Init /\ [][Next]_vars

-----------------------------------------------------------------------------
\* A cookie that still refreshes comes from a sign-in that read the password of
\* today: logins, registrations, Google sign-ins and refreshes that overlap a
\* reset, along any chain of refreshes, leave nothing usable behind once the reset
\* commits after that read.
CookiesFollowPassword ==
  \A k \in cookies : RefreshTokenMatches(k) => k.since = users[k.user].hash

\* What its holder showed or chose at that sign-in is the password of today.  The
\* code keeps it for logins, which hand over the hash they verified against; a
\* registration re-reads the row after its commit, and may find the hash of a reset.
ProvedToday ==
  \A k \in cookies : RefreshTokenMatches(k) /\ k.proved # ByGoogle => k.proved = users[k.user].hash

\* A registration authorization is spent together with the account it makes:
\* whoever races for the address, none is lost without an account, and no
\* account is made twice from one or without one.
SpentOnAnAccount ==
  /\ \A c \in DOMAIN challenge :
       challenge[c].used /\ challenge[c].purpose = "registration" =>
         \E u \in DOMAIN users : users[u].origin = c
  /\ \A u \in DOMAIN users : users[u].origin # 0 =>
       /\ challenge[users[u].origin].used
       /\ challenge[users[u].origin].email = users[u].email
       /\ \A v \in DOMAIN users : users[v].origin = users[u].origin => v = u
=============================================================================
