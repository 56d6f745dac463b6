------------------------ MODULE LiveSessions_proofs ------------------------
(***************************************************************************)
(* Proofs about LiveSessions, for any number of users, sessions,           *)
(* connections, utterances and conversations and any deadlines.            *)
(***************************************************************************)
EXTENDS LiveSessions, TLAPS

-----------------------------------------------------------------------------
\* The operations on a row keep it a row.

LEMMA FinishType ==
  ASSUME NEW r \in Row, NEW terminal \in TERMINAL
  PROVE  Finish(r, terminal) \in Row
BY SMTT(30) DEF Finish, Row, NoTicket

LEMMA ReleaseType ==
  ASSUME NEW r \in Row, NEW grace \in Int
  PROVE  Release(r, grace) \in Row
BY SMTT(30) DEF Release, Row, ACTIVE, NoTicket

LEMMA RecoverType ==
  ASSUME NEW r \in Row
  PROVE  Recover(r) \in Row
<1>1. "ended" \in TERMINAL /\ r.leaseLeft + ReconnectTTL \in Int
  BY TimesAssumption DEF Row, TERMINAL
<1>2. Finish(r, "ended") \in Row
  BY <1>1, FinishType
<1>3. Release(r, r.leaseLeft + ReconnectTTL) \in Row
  BY <1>1, ReleaseType
<1>. QED
  BY <1>2, <1>3 DEF Recover

LEMMA TicketedType ==
  ASSUME NEW r \in Row
  PROVE  Ticketed(r) \in Row
<1>1. Least(TicketTTL, r.lifeLeft) \in Int /\ r.generation \in Int
  BY TimesAssumption DEF Least, Row
<1>. QED
  BY <1>1, SMTT(30) DEF Ticketed, Row

LEMMA CreatedType ==
  ASSUME NEW a \in Actor, NEW c \in Conversation \cup {None}
  PROVE  Created(a, c) \in Row
<1>. DEFINE new == [state |-> "authorized", actor |-> a, conversation |-> c,
                    generation |-> 0, owner |-> None,
                    ticket |-> NoTicket, ticketUsed |-> FALSE,
                    ticketLeft |-> 0, leaseLeft |-> 0, graceLeft |-> 0,
                    lifeLeft |-> SessionTTL]
<1>1. new \in Row
  BY TimesAssumption, SMTT(30) DEF Row, ACTIVE, NoTicket
<1>. QED
  BY <1>1, TicketedType DEF Created

LEMMA TakenType ==
  ASSUME NEW r \in Row, NEW w \in Owner
  PROVE  Taken(r, w) \in Row
<1>1. LeaseTTL \in Int
  BY TimesAssumption
<1>. QED
  BY <1>1, SMTT(30) DEF Taken, Row, ACTIVE, Leased

LEMMA AgedType ==
  ASSUME NEW r \in Row
  PROVE  Aged(r) \in Row
<1>1. /\ Count(r.ticketLeft, 0) \in Int /\ Count(r.graceLeft, 0) \in Int
      /\ Count(r.lifeLeft, 0) \in Int /\ Count(r.leaseLeft, -ReconnectTTL) \in Int
  BY TimesAssumption DEF Count, Row
<1>. QED
  BY <1>1, SMTT(30) DEF Aged, Row

\* One column of a row is written.
LEMMA ColumnType ==
  ASSUME NEW r \in Row
  PROVE  /\ [r EXCEPT !.state = "connected"] \in Row
         /\ [r EXCEPT !.leaseLeft = LeaseTTL] \in Row
         /\ [r EXCEPT !.generation = r.generation + 1] \in Row
         /\ \A c \in Conversation : [r EXCEPT !.conversation = c] \in Row
<1>1. [r EXCEPT !.state = "connected"] \in Row
  BY DEF Row, ACTIVE, Leased
<1>2. LeaseTTL \in Int /\ r.generation + 1 \in Nat
  BY TimesAssumption DEF Row
<1>3. [r EXCEPT !.leaseLeft = LeaseTTL] \in Row
  BY <1>2 DEF Row
<1>4. [r EXCEPT !.generation = r.generation + 1] \in Row
  BY <1>2 DEF Row
<1>5. ASSUME NEW c \in Conversation PROVE [r EXCEPT !.conversation = c] \in Row
  BY DEF Row
<1>. QED
  BY <1>1, <1>3, <1>4, <1>5

LEMMA UnansweredType ==
  ASSUME NEW turns \in [Item -> Turn]
  PROVE  Unanswered(turns) \in [Item -> Turn]
BY DEF Unanswered, Turn, TurnState

LEMMA LeftType ==
  ASSUME NEW k \in Conn, NEW reason \in Reason, NEW phase \in {"closing", "gone"}
  PROVE  Left(k, phase, reason) \in Conn
BY SMTT(30) DEF Left, Conn

-----------------------------------------------------------------------------
\* Type correctness.  A connection that serves a session serves a real one.

Serving == \A w \in Owner : InSession(w) => conn[w].session \in Session

TInv == TypeOK /\ Serving

LEMMA TInvInit == Init => TInv
<1>. SUFFICES ASSUME Init PROVE TInv
  OBVIOUS
<1>1. row \in [Session -> Row]
  BY SMTT(30) DEF Init, NoRow, Row, NoTicket
<1>2. conn \in [Owner -> Conn] /\ Serving
  BY SMTT(30) DEF Init, NoConn, Conn, NoTicket, Reason, Serving, InSession
<1>3. turn \in [Session -> [Item -> Turn]]
  BY DEF Init, Turn, TurnState
<1>4. text \in [TextTurn -> Text]
  BY DEF Init, Text
<1>. QED
  BY <1>1, <1>2, <1>3, <1>4 DEF Init, TInv, TypeOK

LEMMA TInvNext == TInv /\ [Next]_vars => TInv'
<1>. SUFFICES ASSUME TInv, [Next]_vars PROVE TInv'
  OBVIOUS
<1>t. /\ row \in [Session -> Row] /\ conn \in [Owner -> Conn]
      /\ turn \in [Session -> [Item -> Turn]] /\ text \in [TextTurn -> Text]
      /\ creator \in [Conversation -> Actor \cup {None}]
      /\ access \in [Actor -> BOOLEAN] /\ Serving
  BY DEF TInv, TypeOK
<1>r. \A s \in Session : /\ row[s] \in Row /\ Recover(row[s]) \in Row
                         /\ turn[s] \in [Item -> Turn]
                         /\ Unanswered(turn[s]) \in [Item -> Turn]
  BY <1>t, RecoverType, UnansweredType
<1>1. ASSUME NEW a \in Actor, NEW s \in Session, NEW c \in Conversation \cup {None},
             Authorize(a, s, c)
      PROVE  TInv'
  <2>1. Created(a, c) \in Row
    BY CreatedType
  <2>2. row' \in [Session -> Row] /\ turn' \in [Session -> [Item -> Turn]]
    BY <1>1, <1>r, <2>1 DEF Authorize
  <2>. QED
    BY <1>1, <1>t, <2>2 DEF Authorize, TInv, TypeOK, Serving, InSession
<1>2. ASSUME NEW s \in Session, Reconnect(s)
      PROVE  TInv'
  <2>. DEFINE r == Recover(row[s])
  <2>1. [r EXCEPT !.generation = r.generation + 1] \in Row
    BY <1>r, ColumnType
  <2>2. Ticketed([r EXCEPT !.generation = r.generation + 1]) \in Row
    BY <2>1, TicketedType
  <2>3. row' \in [Session -> Row] /\ turn' \in [Session -> [Item -> Turn]]
    BY <1>2, <1>t, <1>r, <2>2 DEF Reconnect
  <2>. QED
    BY <1>2, <1>t, <2>3 DEF Reconnect, TInv, TypeOK, Serving, InSession
<1>3. ASSUME NEW s \in Session, ReconnectRefused(s)
      PROVE  TInv'
  BY <1>3, <1>t, <1>r DEF ReconnectRefused, TInv, TypeOK, Serving, InSession
<1>4. ASSUME NEW a \in Actor, NEW keeps \in BOOLEAN, Revoke(a, keeps)
      PROVE  TInv'
  <2>1. \A s \in Session : Finish(row[s], "revoked") \in Row
    BY <1>t, FinishType DEF TERMINAL
  <2>2. row' \in [Session -> Row] /\ turn' \in [Session -> [Item -> Turn]]
    BY <1>4, <1>r, <2>1 DEF Revoke
  <2>. QED
    BY <1>4, <1>t, <2>2 DEF Revoke, TInv, TypeOK, Serving, InSession
<1>5. ASSUME NEW a \in Actor, ChangeScope(a)
      PROVE  TInv'
  BY <1>5, <1>t DEF ChangeScope, TInv, TypeOK, Serving, InSession
<1>6. ASSUME NEW w \in Owner, NEW s \in Session, NEW k \in 0..MaxGen, Consume(w, s, k)
      PROVE  TInv'
  <2>1. Taken(row[s], w) \in Row
    BY <1>r, TakenType
  <2>2. row' \in [Session -> Row]
    BY <1>6, <1>t, <2>1 DEF Consume
  <2>. DEFINE k1 == [phase |-> "connecting", session |-> s,
                     generation |-> row[s].generation + 1, ticket |-> k,
                     output |-> None, reason |-> "ended"]
  <2>3. k1 \in Conn /\ k1.session \in Session
    BY <1>r, TimesAssumption, SMTT(30) DEF Conn, Reason, Row
  <2>4. conn' = [conn EXCEPT ![w] = k1]
    BY <1>6 DEF Consume
  <2>. HIDE DEF k1
  <2>5. conn' \in [Owner -> Conn] /\ Serving'
    BY <1>t, <2>3, <2>4 DEF Serving, InSession
  <2>. QED
    BY <1>6, <1>t, <2>2, <2>5 DEF Consume, TInv, TypeOK
<1>7. ASSUME NEW w \in Owner, NEW reason \in Reason, InSession(w), Unwind(w, reason)
      PROVE  TInv'
  <2>1. Left(conn[w], "closing", reason) \in Conn
    BY <1>t, LeftType
  <2>2. Left(conn[w], "closing", reason).session = conn[w].session
    BY DEF Left
  <2>3. conn' \in [Owner -> Conn] /\ Serving'
    BY <1>7, <1>t, <2>1, <2>2 DEF Unwind, Serving, InSession
  <2>. QED
    BY <1>7, <1>t, <2>3 DEF Unwind, TInv, TypeOK
<1>8. ASSUME NEW w \in Owner, Ready(w)
      PROVE  TInv'
  <2>1. row' \in [Session -> Row]
    <3>. DEFINE s == conn[w].session
                r == [row[s] EXCEPT !.state = "connected"]
    <3>1. s \in Session
      BY <1>8, <1>t DEF Ready, Serving, InSession
    <3>2. r \in Row
      BY <3>1, <1>t, ColumnType
    <3>. HIDE DEF r
    <3>3. [r EXCEPT !.leaseLeft = LeaseTTL] \in Row
      BY <3>2, ColumnType
    <3>. USE DEF r
    <3>4. row' = [row EXCEPT ![s] = [r EXCEPT !.leaseLeft = LeaseTTL]]
      BY <3>1, <1>8, <1>t DEF Ready
    <3>. QED
      BY <3>3, <3>4, <1>t
  <2>2. conn' \in [Owner -> Conn] /\ Serving'
    BY <1>8, <1>t, ZenonT(40) DEF Ready, Serving, InSession, Conn
  <2>. QED
    BY <1>8, <1>t, <2>1, <2>2 DEF Ready, TInv, TypeOK
<1>9. ASSUME NEW w \in Owner, Heartbeat(w)
      PROVE  TInv'
  <2>1. row' \in [Session -> Row]
    BY <1>9, <1>t, ColumnType DEF Heartbeat, Serving, InSession
  <2>. QED
    BY <1>9, <1>t, <2>1 DEF Heartbeat, TInv, TypeOK, Serving, InSession
<1>10. ASSUME NEW w \in Owner, FenceLost(w)
       PROVE  TInv'
  BY <1>10, <1>7 DEF FenceLost, RefusalOf, Reason, InSession
<1>11. ASSUME NEW w \in Owner, NEW i \in Item, NEW c \in Conversation, Admit(w, i, c)
       PROVE  TInv'
  <2>. DEFINE s == conn[w].session
  <2>1. s \in Session
    BY <1>11, <1>t DEF Admit, Serving, InSession
  <2>2. row' \in [Session -> Row]
    BY <1>11, <2>1, <1>t, ColumnType DEF Admit
  <2>3. creator' \in [Conversation -> Actor \cup {None}]
    BY <1>11, <2>1, <1>t DEF Admit, Row
  <2>4. turn' \in [Session -> [Item -> Turn]]
    BY <1>11, <2>1, <1>t DEF Admit, Turn, TurnState
  <2>5. conn' \in [Owner -> Conn] /\ Serving'
    BY <1>11, <1>t DEF Admit, Conn, Serving, InSession
  <2>. QED
    BY <1>11, <1>t, <2>2, <2>3, <2>4, <2>5 DEF Admit, TInv, TypeOK
<1>12. ASSUME NEW w \in Owner, NEW outcome \in {"completed", "interrupted"},
              Terminate(w, outcome)
       PROVE  TInv'
  <2>1. turn' \in [Session -> [Item -> Turn]]
    <3>. DEFINE s == conn[w].session
                i == conn[w].output
                v == IF turn[s][i].state = "streaming" THEN outcome ELSE turn[s][i].state
    <3>1. s \in Session /\ i \in Item
      BY <1>12, <1>t DEF Terminate, Serving, InSession, Conn
    <3>2. turn[s][i] \in Turn /\ v \in TurnState
      BY <3>1, <1>t DEF Turn, TurnState
    <3>3. [turn[s][i] EXCEPT !.state = v] \in Turn
      BY <3>2 DEF Turn
    <3>4. turn' = [turn EXCEPT ![s][i] = [turn[s][i] EXCEPT !.state = v]]
      BY <1>12, <3>1, <1>t DEF Terminate
    <3>. QED
      BY <3>1, <3>3, <3>4, <1>t
  <2>2. conn' \in [Owner -> Conn] /\ Serving'
    BY <1>12, <1>t DEF Terminate, Conn, Serving, InSession
  <2>. QED
    BY <1>12, <1>t, <2>1, <2>2 DEF Terminate, TInv, TypeOK
<1>13. ASSUME NEW w \in Owner, EndCall(w)
       PROVE  TInv'
  <2>1. conn' \in [Owner -> Conn] /\ Serving'
    BY <1>13, <1>t DEF EndCall, Conn, Serving, InSession
  <2>. QED
    BY <1>13, <1>t, <2>1 DEF EndCall, TInv, TypeOK
<1>14. ASSUME NEW w \in Owner, NEW reason \in {"transport", "failed", "ended"},
              Drop(w, reason)
       PROVE  TInv'
  BY <1>14, <1>7 DEF Drop, Reason, InSession
<1>15. \A w \in Owner :
         /\ Gone(conn[w]) \in Conn
         /\ Gone(conn[w]).session = conn[w].session
  BY <1>t, LeftType DEF Gone, Left, Reason
<1>16. ASSUME NEW w \in Owner, InSession(w), conn' = [conn EXCEPT ![w] = Gone(conn[w])]
       PROVE  conn' \in [Owner -> Conn] /\ Serving'
  BY <1>t, <1>15, <1>16 DEF Serving, InSession
<1>17. ASSUME NEW w \in Owner, CloseOwned(w)
       PROVE  TInv'
  <2>. DEFINE s == conn[w].session
              r == row[s]
  <2>1. s \in Session /\ InSession(w)
    BY <1>17, <1>t DEF CloseOwned, Serving, InSession
  <2>2. conn' \in [Owner -> Conn] /\ Serving'
    BY <1>17, <2>1, <1>16 DEF CloseOwned
  <2>3. Least(ReconnectTTL, r.lifeLeft) \in Int
    BY <2>1, <1>t, TimesAssumption DEF Least, Row
  <2>4. Release(r, Least(ReconnectTTL, r.lifeLeft)) \in Row
    BY <2>1, <2>3, <1>t, ReleaseType
  <2>5. \A reason : Finish(r, TerminalOf(reason)) \in Row
    BY <2>1, <1>t, FinishType DEF TerminalOf, TERMINAL
  <2>6. row' \in [Session -> Row] /\ turn' \in [Session -> [Item -> Turn]]
    <3>1. PICK q \in Row : row' = [row EXCEPT ![s] = q] \/ row' = row
      BY <1>17, <2>4, <2>5, <1>t, <2>1 DEF CloseOwned
    <3>2. turn' = [turn EXCEPT ![s] = Unanswered(turn[s])] \/ turn' = turn
      BY <1>17 DEF CloseOwned
    <3>. QED
      BY <3>1, <3>2, <1>t, <1>r, <2>1
  <2>. QED
    BY <1>17, <1>t, <2>2, <2>6 DEF CloseOwned, TInv, TypeOK
<1>18. ASSUME NEW w \in Owner, Crash(w)
       PROVE  TInv'
  BY <1>18, <1>16, <1>t DEF Crash, TInv, TypeOK
<1>19. ASSUME NEW x \in TextTurn, NEW c \in Conversation, TextAdmit(x, c)
       PROVE  TInv'
  <2>1. text' \in [TextTurn -> Text]
    BY <1>19, <1>t DEF TextAdmit, Text
  <2>. QED
    BY <1>19, <1>t, <2>1 DEF TextAdmit, TInv, TypeOK, Serving, InSession
<1>20. ASSUME NEW x \in TextTurn, NEW outcome \in {"completed", "failed"},
              TextFinish(x, outcome)
       PROVE  TInv'
  <2>1. text' \in [TextTurn -> Text]
    BY <1>20, <1>t DEF TextFinish, Text
  <2>. QED
    BY <1>20, <1>t, <2>1 DEF TextFinish, TInv, TypeOK, Serving, InSession
<1>21. ASSUME NEW s \in Session, Sweep(s)
       PROVE  TInv'
  BY <1>21, <1>t, <1>r DEF Sweep, AfterRecovery, TInv, TypeOK, Serving, InSession
<1>22. CASE Tick
  <2>1. row' \in [Session -> Row]
    BY <1>22, <1>t, AgedType DEF Tick
  <2>. QED
    BY <1>22, <1>t, <2>1 DEF Tick, TInv, TypeOK, Serving, InSession
<1>23. CASE UNCHANGED vars
  BY <1>23, <1>t DEF vars, TInv, TypeOK, Serving, InSession
<1>. QED
  BY <1>1, <1>2, <1>3, <1>4, <1>5, <1>6, <1>8, <1>9, <1>10, <1>11, <1>12, <1>13,
     <1>14, <1>17, <1>18, <1>19, <1>20, <1>21, <1>22, <1>23
  DEF Next, Request, Connection

\* Every value the code stores has its type, in every reachable state.
THEOREM TypeCorrect == Spec => []TypeOK
<1>1. TInv => TypeOK
  BY DEF TInv
<1>. QED
  BY <1>1, TInvInit, TInvNext, PTL DEF Spec

-----------------------------------------------------------------------------
\* A row has a lease owner only while it is leased (ck_realtime_lease).

OwnerLeased(r) == r.owner \in Owner => r.state \in Leased

LInv == \A s \in Session : OwnerLeased(row[s])

LEMMA LeaseOfRow ==
  ASSUME NEW r \in Row
  PROVE  /\ \A terminal : OwnerLeased(Finish(r, terminal))
         /\ \A grace : OwnerLeased(Release(r, grace))
         /\ \A w : OwnerLeased(Taken(r, w))
         /\ OwnerLeased(r) => /\ OwnerLeased(Recover(r))
                             /\ OwnerLeased(Aged(r))
BY NoneAssumption DEF OwnerLeased, Finish, Release, Taken, Recover, Aged, Leased

LEMMA LInvNext == TInv /\ LInv /\ [Next]_vars => LInv'
<1>. SUFFICES ASSUME TInv, LInv, [Next]_vars PROVE LInv'
  OBVIOUS
<1>t. /\ row \in [Session -> Row] /\ conn \in [Owner -> Conn] /\ Serving
  BY DEF TInv, TypeOK
<1>r. \A s \in Session : /\ OwnerLeased(row[s]) /\ OwnerLeased(Recover(row[s]))
                         /\ OwnerLeased(Aged(row[s]))
                         /\ \A terminal : OwnerLeased(Finish(row[s], terminal))
                         /\ \A grace : OwnerLeased(Release(row[s], grace))
                         /\ \A w : OwnerLeased(Taken(row[s], w))
  BY <1>t, LeaseOfRow DEF LInv
<1>1. ASSUME NEW a \in Actor, NEW s \in Session, NEW c \in Conversation \cup {None},
             Authorize(a, s, c)
      PROVE  LInv'
  <2>1. OwnerLeased(Created(a, c))
    BY NoneAssumption DEF Created, Ticketed, OwnerLeased
  <2>. QED
    BY <1>1, <2>1, <1>r DEF Authorize, LInv
<1>2. ASSUME NEW s \in Session, Reconnect(s) PROVE LInv'
  <2>. DEFINE r == Recover(row[s])
              q == [r EXCEPT !.generation = r.generation + 1]
  <2>1. r \in Row /\ r.owner \notin Owner
    BY <1>t, <1>r, <1>2, RecoverType DEF Reconnect, OwnerLeased, Leased
  <2>2. q.owner = r.owner
    BY <2>1 DEF Row
  <2>. HIDE DEF q
  <2>3. OwnerLeased(Ticketed(q))
    BY <2>1, <2>2 DEF Ticketed, OwnerLeased
  <2>4. row' = [row EXCEPT ![s] = Ticketed(q)]
    BY <1>2 DEF Reconnect, q
  <2>. QED
    BY <2>3, <2>4, <1>t, <1>r DEF LInv
<1>3. ASSUME NEW s \in Session, ReconnectRefused(s) \/ Sweep(s) PROVE LInv'
  BY <1>3, <1>t, <1>r DEF ReconnectRefused, Sweep, LInv
<1>4. ASSUME NEW a \in Actor, NEW keeps \in BOOLEAN, Revoke(a, keeps) PROVE LInv'
  BY <1>4, <1>r DEF Revoke, LInv
<1>5. ASSUME NEW w \in Owner, NEW s \in Session, NEW k \in 0..MaxGen, Consume(w, s, k)
      PROVE  LInv'
  BY <1>5, <1>t, <1>r DEF Consume, LInv
<1>6. ASSUME NEW w \in Owner, Ready(w) PROVE LInv'
  <2>. DEFINE s == conn[w].session
              r == [row[s] EXCEPT !.state = "connected"]
              q == [r EXCEPT !.leaseLeft = LeaseTTL]
  <2>1. s \in Session
    BY <1>6, <1>t DEF Ready, Serving, InSession
  <2>2. row' = [row EXCEPT ![s] = q]
    BY <2>1, <1>6, <1>t DEF Ready
  <2>3. r \in Row /\ r.state = "connected"
    BY <2>1, <1>t, ColumnType DEF Row
  <2>. HIDE DEF r
  <2>4. OwnerLeased(q)
    BY <2>3 DEF OwnerLeased, Leased, Row
  <2>. HIDE DEF q
  <2>. QED
    BY <2>1, <2>2, <2>4, <1>t, <1>r DEF LInv
<1>7. ASSUME NEW w \in Owner, Heartbeat(w) PROVE LInv'
  <2>. DEFINE s == conn[w].session
              q == [row[s] EXCEPT !.leaseLeft = LeaseTTL]
  <2>1. s \in Session
    BY <1>7, <1>t DEF Heartbeat, Serving, InSession
  <2>2. row' = [row EXCEPT ![s] = q]
    BY <2>1, <1>7, <1>t DEF Heartbeat
  <2>3. q.owner = row[s].owner /\ q.state = row[s].state
    BY <2>1, <1>t DEF Row
  <2>. HIDE DEF q
  <2>. QED
    BY <2>1, <2>2, <2>3, <1>t, <1>r DEF LInv, OwnerLeased
<1>8. ASSUME NEW w \in Owner, NEW i \in Item, NEW c \in Conversation, Admit(w, i, c)
      PROVE  LInv'
  <2>. DEFINE s == conn[w].session
              q == [row[s] EXCEPT !.conversation = c]
  <2>1. s \in Session
    BY <1>8, <1>t DEF Admit, Serving, InSession
  <2>2. row' = [row EXCEPT ![s] = q]
    BY <2>1, <1>8, <1>t DEF Admit
  <2>3. q.owner = row[s].owner /\ q.state = row[s].state
    BY <2>1, <1>t DEF Row
  <2>. HIDE DEF q
  <2>. QED
    BY <2>1, <2>2, <2>3, <1>t, <1>r DEF LInv, OwnerLeased
<1>9. ASSUME NEW w \in Owner, CloseOwned(w) PROVE LInv'
  <2>. DEFINE s == conn[w].session
  <2>1. s \in Session
    BY <1>9, <1>t DEF CloseOwned, Serving, InSession
  <2>2. row' = row \/ \E q : OwnerLeased(q) /\ row' = [row EXCEPT ![s] = q]
    BY <1>9, <2>1, <1>r DEF CloseOwned
  <2>. QED
    BY <2>1, <2>2, <1>t, <1>r DEF LInv
<1>10. CASE Tick
  BY <1>10, <1>r DEF Tick, LInv
<1>11. CASE UNCHANGED row
  BY <1>11, <1>r DEF LInv
<1>. QED
  BY <1>1, <1>2, <1>3, <1>4, <1>5, <1>6, <1>7, <1>8, <1>9, <1>10, <1>11
  DEF Next, Request, Connection, ChangeScope, FenceLost, Unwind, Terminate, EndCall,
      Drop, Crash, TextAdmit, TextFinish, vars

-----------------------------------------------------------------------------
\* What the operations on a row leave alone.

Kept(q, r) ==
  /\ q.actor = r.actor /\ q.conversation = r.conversation
  /\ q.state \in ACTIVE => r.state \in ACTIVE
  /\ q.state = "absent" <=> r.state = "absent"

LEMMA RecoverKeeps ==
  ASSUME NEW r \in Row
  PROVE  Kept(Recover(r), r)
BY DEF Recover, Kept, Finish, Release, ACTIVE, Leased

LEMMA UnansweredKeeps ==
  ASSUME NEW turns \in [Item -> Turn], NEW i \in Item
  PROVE  /\ Unanswered(turns)[i].state # "streaming"
         /\ Unanswered(turns)[i].claim = turns[i].claim
BY DEF Unanswered, Turn, TurnState

\* Every step but Authorize, Admit and TextAdmit only lets go: a row keeps its
\* user and conversation and is not woken, and no turn is opened.
RowKept == \A s \in Session : Kept(row'[s], row[s])

TurnKept ==
  /\ \A s \in Session, i \in Item :
       turn'[s][i].state = "streaming" => turn'[s][i] = turn[s][i]
  /\ \A x \in TextTurn :
       text'[x].state = "active" => text'[x] = text[x]

Opens ==
  \/ \E a \in Actor, s \in Session, c \in Conversation \cup {None} : Authorize(a, s, c)
  \/ \E w \in Owner, i \in Item, c \in Conversation : Admit(w, i, c)
  \/ \E x \in TextTurn, c \in Conversation : TextAdmit(x, c)

LEMMA StepShape ==
  ASSUME TInv, LInv, [Next]_vars
  PROVE  Opens \/ (RowKept /\ TurnKept)
<1>t. /\ row \in [Session -> Row] /\ conn \in [Owner -> Conn]
      /\ turn \in [Session -> [Item -> Turn]] /\ text \in [TextTurn -> Text]
      /\ Serving
  BY DEF TInv, TypeOK
<1>r. \A s \in Session : Kept(Recover(row[s]), row[s]) /\ Kept(row[s], row[s])
  BY <1>t, RecoverKeeps DEF Kept
<1>u. \A s \in Session, i \in Item : Unanswered(turn[s])[i].state # "streaming"
  BY <1>t, UnansweredKeeps
<1>1. ASSUME NEW s \in Session, Reconnect(s)
      PROVE  RowKept /\ TurnKept
  <2>. DEFINE r == Recover(row[s])
              q == [r EXCEPT !.generation = r.generation + 1]
  <2>1. r \in Row
    BY <1>t, RecoverType
  <2>2. /\ Ticketed(q).actor = r.actor /\ Ticketed(q).conversation = r.conversation
        /\ Ticketed(q).state = r.state
    <3>1. q.actor = r.actor /\ q.conversation = r.conversation /\ q.state = r.state
      BY <2>1 DEF Row
    <3>. HIDE DEF q
    <3>. QED
      BY <3>1 DEF Ticketed
  <2>3. Kept(Ticketed(q), row[s])
    BY <2>2, <1>r, <1>1 DEF Kept, Reconnect, ACTIVE
  <2>4. row' = [row EXCEPT ![s] = Ticketed(q)] /\ turn' = [turn EXCEPT ![s] = Unanswered(turn[s])]
    BY <1>1 DEF Reconnect
  <2>. HIDE DEF q
  <2>5. RowKept
    BY <2>3, <2>4, <1>t, <1>r DEF RowKept
  <2>. QED
    BY <2>4, <2>5, <1>u, <1>t, <1>1 DEF TurnKept, Reconnect
<1>2. ASSUME NEW s \in Session, ReconnectRefused(s)
      PROVE  RowKept /\ TurnKept
  BY <1>2, <1>t, <1>r DEF ReconnectRefused, RowKept, TurnKept
<1>3. ASSUME NEW a \in Actor, NEW keeps \in BOOLEAN, Revoke(a, keeps)
      PROVE  RowKept /\ TurnKept
  <2>1. \A s \in ActiveOf(a) : Kept(Finish(row[s], "revoked"), row[s])
    BY DEF ActiveOf, Kept, Finish, ACTIVE, Leased
  <2>2. RowKept
    BY <1>3, <2>1, <1>t, <1>r DEF Revoke, RowKept, ActiveOf
  <2>3. TurnKept
    BY <1>3, <1>u, <1>t DEF Revoke, TurnKept
  <2>. QED
    BY <2>2, <2>3
<1>4. ASSUME UNCHANGED row, UNCHANGED turn, UNCHANGED text
      PROVE  RowKept /\ TurnKept
  BY <1>4, <1>r DEF RowKept, TurnKept
<1>5. ASSUME NEW w \in Owner, NEW s \in Session, NEW k \in 0..MaxGen, Consume(w, s, k)
      PROVE  RowKept /\ TurnKept
  <2>1. Kept(Taken(row[s], w), row[s])
    BY <1>5 DEF Consume, Consumable, Kept, Taken, ACTIVE, Leased
  <2>. QED
    BY <1>5, <2>1, <1>t, <1>r DEF Consume, RowKept, TurnKept
<1>6. ASSUME NEW w \in Owner, Ready(w)
      PROVE  RowKept /\ TurnKept
  <2>. DEFINE s == conn[w].session
              r == [row[s] EXCEPT !.state = "connected"]
              q == [r EXCEPT !.leaseLeft = LeaseTTL]
  <2>1. s \in Session
    BY <1>6, <1>t DEF Ready, Serving, InSession
  <2>2. row' = [row EXCEPT ![s] = q]
    BY <2>1, <1>6, <1>t DEF Ready
  <2>3. row[s].state \in Leased
    BY <1>6 DEF Ready, Holds, Fenced
  <2>4. r \in Row
    BY <2>1, <1>t, ColumnType
  <2>7. r.actor = row[s].actor /\ r.conversation = row[s].conversation
    BY <2>1, <1>t DEF Row
  <2>. HIDE DEF r
  <2>5. q.actor = row[s].actor /\ q.conversation = row[s].conversation
    BY <2>4, <2>7 DEF Row
  <2>8. q.state = r.state /\ r.state = "connected"
    BY <2>1, <2>4, <1>t DEF Row, r
  <2>. HIDE DEF q
  <2>6. Kept(q, row[s])
    BY <2>3, <2>5, <2>8 DEF Kept, ACTIVE, Leased
  <2>. QED
    BY <1>6, <2>1, <2>2, <2>6, <1>t, <1>r DEF Ready, RowKept, TurnKept
<1>7. ASSUME NEW w \in Owner, Heartbeat(w)
      PROVE  RowKept /\ TurnKept
  <2>. DEFINE s == conn[w].session
              q == [row[s] EXCEPT !.leaseLeft = LeaseTTL]
  <2>1. s \in Session /\ row[s].state \in Leased
    BY <1>7, <1>t DEF Heartbeat, Serving, InSession, Holds, Fenced
  <2>2. row' = [row EXCEPT ![s] = q]
    BY <2>1, <1>7, <1>t DEF Heartbeat
  <2>3. /\ q.actor = row[s].actor /\ q.conversation = row[s].conversation
        /\ q.state = row[s].state
    BY <2>1, <1>t DEF Row
  <2>. HIDE DEF q
  <2>4. Kept(q, row[s])
    BY <2>3 DEF Kept
  <2>. QED
    BY <1>7, <2>1, <2>2, <2>4, <1>t, <1>r DEF Heartbeat, RowKept, TurnKept
<1>8. ASSUME NEW w \in Owner, NEW outcome \in {"completed", "interrupted"},
             Terminate(w, outcome)
      PROVE  RowKept /\ TurnKept
  <2>. DEFINE s == conn[w].session
              i == conn[w].output
              v == IF turn[s][i].state = "streaming" THEN outcome ELSE turn[s][i].state
  <2>1. s \in Session /\ i \in Item
    BY <1>8, <1>t DEF Terminate, Serving, InSession, Conn
  <2>2. v # "streaming"
    BY <1>8
  <2>3. [turn[s][i] EXCEPT !.state = v].state = v
    BY <2>1, <1>t DEF Turn
  <2>4. turn' = [turn EXCEPT ![s][i] = [turn[s][i] EXCEPT !.state = v]]
    BY <1>8, <2>1, <1>t DEF Terminate
  <2>5. \A o \in Session, j \in Item :
          turn'[o][j] = turn[o][j] \/ turn'[o][j].state = v
    BY <2>1, <2>3, <2>4, <1>t
  <2>6. UNCHANGED text /\ UNCHANGED row
    BY <1>8 DEF Terminate
  <2>. HIDE DEF v
  <2>. QED
    BY <2>2, <2>5, <2>6, <1>r DEF TurnKept, RowKept
<1>9. ASSUME NEW w \in Owner, CloseOwned(w)
      PROVE  RowKept /\ TurnKept
  <2>. DEFINE s == conn[w].session
              r == row[s]
  <2>1. s \in Session
    BY <1>9, <1>t DEF CloseOwned, Serving, InSession
  <2>2. CASE ~Closes(w)
    BY <1>9, <2>2, <1>4 DEF CloseOwned
  <2>3. CASE Closes(w)
    <3>1. r.state \in Leased
      BY <1>9, <2>1, <2>3 DEF LInv, OwnerLeased, Closes
    <3>2. \A grace : Kept(Release(r, grace), r)
      BY <3>1 DEF Kept, Release, ACTIVE, Leased
    <3>3. \A reason : Kept(Finish(r, TerminalOf(reason)), r)
      BY <3>1 DEF Kept, Finish, TerminalOf, ACTIVE, Leased
    <3>4. \E q : Kept(q, r) /\ row' = [row EXCEPT ![s] = q]
      BY <1>9, <2>3, <3>2, <3>3 DEF CloseOwned
    <3>5. turn' = [turn EXCEPT ![s] = Unanswered(turn[s])] /\ UNCHANGED text
      BY <1>9, <2>3 DEF CloseOwned
    <3>. QED
      BY <3>4, <3>5, <2>1, <1>t, <1>r, <1>u DEF RowKept, TurnKept
  <2>. QED
    BY <2>2, <2>3
<1>10. ASSUME NEW x \in TextTurn, NEW outcome \in {"completed", "failed"},
              TextFinish(x, outcome)
       PROVE  RowKept /\ TurnKept
  BY <1>10, <1>t, <1>r DEF TextFinish, RowKept, TurnKept, Text
<1>11. ASSUME NEW s \in Session, Sweep(s)
       PROVE  RowKept /\ TurnKept
  BY <1>11, <1>t, <1>r, <1>u DEF Sweep, AfterRecovery, RowKept, TurnKept
<1>12. CASE Tick
  <2>1. \A s \in Session : Kept(Aged(row[s]), row[s])
    BY DEF Aged, Kept
  <2>. QED
    BY <1>12, <2>1, <1>t DEF Tick, RowKept, TurnKept
<1>13. ASSUME NEW a \in Actor, ChangeScope(a) PROVE RowKept /\ TurnKept
  BY <1>13, <1>4 DEF ChangeScope
<1>14. ASSUME NEW w \in Owner, NEW reason, Unwind(w, reason) PROVE RowKept /\ TurnKept
  BY <1>14, <1>4 DEF Unwind
<1>15. ASSUME NEW w \in Owner, FenceLost(w) PROVE RowKept /\ TurnKept
  BY <1>15, <1>14 DEF FenceLost
<1>16. ASSUME NEW w \in Owner, NEW reason, Drop(w, reason) PROVE RowKept /\ TurnKept
  BY <1>16, <1>14 DEF Drop
<1>17. ASSUME NEW w \in Owner, EndCall(w) \/ Crash(w) PROVE RowKept /\ TurnKept
  BY <1>17, <1>4 DEF EndCall, Crash
<1>18. CASE UNCHANGED vars
  BY <1>18, <1>4 DEF vars
<1>19. CASE Request
  BY <1>19, <1>1, <1>2, <1>3, <1>13 DEF Request, Opens
<1>20. CASE Connection
  BY <1>20, <1>5, <1>6, <1>7, <1>8, <1>9, <1>15, <1>16, <1>17 DEF Connection, Opens
<1>21. CASE \E x \in TextTurn, c \in Conversation : TextAdmit(x, c)
  BY <1>21 DEF Opens
<1>. QED
  BY <1>10, <1>11, <1>12, <1>18, <1>19, <1>20, <1>21 DEF Next

-----------------------------------------------------------------------------
\* The live turn is alone in its conversation.

Unborn == \A s \in Session : row[s].state = "absent" => row[s].conversation = None

SInv == TInv /\ LInv /\ Unborn /\ OneActivePerActor /\ LiveTurnAlone

LEMMA SInvInit == Init => SInv
<1>. SUFFICES ASSUME Init PROVE SInv
  OBVIOUS
<1>1. TInv
  BY TInvInit
<1>2. LInv /\ Unborn /\ OneActivePerActor
  BY NoneAssumption
  DEF Init, NoRow, LInv, OwnerLeased, Unborn, OneActivePerActor, ACTIVE, Leased
<1>3. LiveTurnAlone
  BY DEF Init, LiveTurnAlone
<1>. QED
  BY <1>1, <1>2, <1>3 DEF SInv

\* A user gets a second session only after the first was recovered and is over.
LEMMA AuthorizeStep ==
  ASSUME SInv, TInv', NEW a \in Actor, NEW s \in Session,
         NEW c \in Conversation \cup {None}, Authorize(a, s, c)
  PROVE  Unborn' /\ OneActivePerActor' /\ LiveTurnAlone'
<1>t. /\ row \in [Session -> Row] /\ turn \in [Session -> [Item -> Turn]]
      /\ Unborn /\ OneActivePerActor /\ LiveTurnAlone
  BY DEF SInv, TInv, TypeOK
<1>1. \A o \in Session : Kept(Recover(row[o]), row[o])
  BY <1>t, RecoverKeeps
<1>2. /\ Created(a, c).actor = a /\ Created(a, c).conversation = c
      /\ Created(a, c).state = "authorized"
  BY DEF Created, Ticketed
<1>3. /\ row[s].state = "absent" /\ SlotFree(a) /\ row'[s] = Created(a, c)
      /\ \A o \in Session \ {s} :
            row'[o] = IF o \in ActiveOf(a) THEN Recover(row[o]) ELSE row[o]
  BY DEF Authorize
<1>4. \A o \in Session \ {s} : Kept(row'[o], row[o])
  BY <1>1, <1>3 DEF Kept
<1>5. \A o \in Session \ {s} : row'[o].state \in ACTIVE => row'[o].actor # a
  BY <1>1, <1>3, <1>4 DEF SlotFree, ActiveOf, Kept
<1>6. OneActivePerActor'
  BY <1>2, <1>3, <1>4, <1>5, <1>t DEF OneActivePerActor, Kept
<1>7. Unborn'
  BY <1>2, <1>3, <1>4, <1>t DEF Unborn, Kept
<1>8. \A o \in Session, i \in Item : turn'[o][i].state = "streaming" =>
         o # s /\ turn'[o][i] = turn[o][i]
  <2>1. \A i \in Item : turn[s][i].state # "streaming"
    BY <1>3, <1>t DEF Unborn, LiveTurnAlone
  <2>2. \A o \in Session, i \in Item : Unanswered(turn[o])[i].state # "streaming"
    BY <1>t, UnansweredKeeps
  <2>3. \A o \in Session : turn'[o] = IF o \in ActiveOf(a) THEN Unanswered(turn[o])
                                     ELSE turn[o]
    BY DEF Authorize
  <2>. QED
    BY <2>1, <2>2, <2>3
<1>9. \A x \in TextTurn : text'[x] = text[x]
  BY DEF Authorize
<1>10. \A o \in Session, i \in Item : turn'[o][i].state = "streaming" =>
          turn[o][i].state = "streaming" /\ row'[o].conversation = row[o].conversation
  BY <1>4, <1>8 DEF Kept
<1>11. LiveTurnAlone'
  <2>. SUFFICES ASSUME NEW o \in Session, NEW i \in Item, turn'[o][i].state = "streaming"
       PROVE  /\ row'[o].conversation # None
              /\ \A q \in Session, j \in Item :
                   row'[q].conversation = row'[o].conversation
                     /\ turn'[q][j].state = "streaming" => q = o /\ j = i
              /\ \A x \in TextTurn : text'[x].conversation = row'[o].conversation
                     => text'[x].state # "active"
    BY DEF LiveTurnAlone
  <2>1. turn[o][i].state = "streaming" /\ row'[o].conversation = row[o].conversation
    BY <1>10
  <2>2. row'[o].conversation # None
    BY <2>1, <1>t DEF LiveTurnAlone
  <2>3. ASSUME NEW q \in Session, NEW j \in Item, turn'[q][j].state = "streaming",
               row'[q].conversation = row'[o].conversation
        PROVE  q = o /\ j = i
    BY <2>1, <2>3, <1>10, <1>t DEF LiveTurnAlone
  <2>4. ASSUME NEW x \in TextTurn, text'[x].conversation = row'[o].conversation
        PROVE  text'[x].state # "active"
    BY <2>1, <2>4, <1>9, <1>t DEF LiveTurnAlone
  <2>. QED
    BY <2>2, <2>3, <2>4
<1>. QED
  BY <1>6, <1>7, <1>11

\* An utterance is admitted only into a conversation with no active turn.
LEMMA AdmitStep ==
  ASSUME SInv, TInv', NEW w \in Owner, NEW i \in Item, NEW c \in Conversation,
         Admit(w, i, c)
  PROVE  Unborn' /\ OneActivePerActor' /\ LiveTurnAlone'
<1>. DEFINE s == conn[w].session
<1>t. /\ row \in [Session -> Row] /\ turn \in [Session -> [Item -> Turn]]
      /\ s \in Session /\ Unborn /\ OneActivePerActor /\ LiveTurnAlone
  BY DEF SInv, TInv, TypeOK, Serving, InSession, Admit
<1>1. row' = [row EXCEPT ![s] = [row[s] EXCEPT !.conversation = c]]
  BY <1>t DEF Admit
<1>2. /\ row'[s].state = row[s].state /\ row'[s].actor = row[s].actor
      /\ row'[s].conversation = c
      /\ \A o \in Session \ {s} : row'[o] = row[o]
  BY <1>1, <1>t DEF Row
<1>3. row[s].state = "connected" /\ (row[s].conversation = c \/ row[s].conversation = None)
  BY DEF Admit, Target
<1>4. OneActivePerActor' /\ Unborn'
  BY <1>2, <1>3, <1>t DEF OneActivePerActor, Unborn
<1>5. /\ \A o \in Session, j \in Item :
            row[o].conversation = c => turn[o][j].state # "streaming"
      /\ \A x \in TextTurn : text[x].conversation = c => text[x].state # "active"
  BY DEF Admit, Busy, LiveBusy
<1>6. \A j \in Item : turn[s][j].state # "streaming"
  BY <1>3, <1>5, <1>t DEF LiveTurnAlone
<1>7. /\ \A o \in Session, j \in Item : o # s \/ j # i => turn'[o][j] = turn[o][j]
      /\ \A x \in TextTurn : text'[x] = text[x]
  BY <1>t DEF Admit
<1>8. c # None
  BY NoneAssumption
<1>9. \A o \in Session, j \in Item : turn'[o][j].state = "streaming" =>
         \/ o = s /\ j = i
         \/ o # s /\ turn[o][j].state = "streaming" /\ row[o].conversation # c
  BY <1>5, <1>6, <1>7
<1>10. \A o \in Session : o # s => row'[o].conversation = row[o].conversation
  BY <1>2
<1>11. ASSUME NEW o \in Session, NEW j \in Item, turn'[o][j].state = "streaming"
       PROVE  /\ row'[o].conversation # None
              /\ \A q \in Session, l \in Item :
                   row'[q].conversation = row'[o].conversation
                     /\ turn'[q][l].state = "streaming" => q = o /\ l = j
              /\ \A x \in TextTurn : text'[x].conversation = row'[o].conversation
                     => text'[x].state # "active"
  <2>1. CASE o = s /\ j = i
    BY <2>1, <1>2, <1>5, <1>7, <1>8, <1>9, <1>10
  <2>2. CASE o # s /\ turn[o][j].state = "streaming" /\ row[o].conversation # c
    <3>1. row'[o].conversation = row[o].conversation /\ row[o].conversation # None
      BY <2>2, <1>10, <1>t DEF LiveTurnAlone
    <3>2. ASSUME NEW q \in Session, NEW l \in Item, turn'[q][l].state = "streaming",
                 row'[q].conversation = row'[o].conversation
          PROVE  q = o /\ l = j
      <4>1. q # s /\ turn[q][l].state = "streaming"
        BY <2>2, <3>1, <3>2, <1>2, <1>9
      <4>2. row[q].conversation = row[o].conversation
        BY <3>1, <3>2, <4>1, <1>10
      <4>. QED
        BY <2>2, <4>1, <4>2, <1>t DEF LiveTurnAlone
    <3>3. ASSUME NEW x \in TextTurn, text'[x].conversation = row'[o].conversation
          PROVE  text'[x].state # "active"
      BY <2>2, <3>1, <3>3, <1>7, <1>t DEF LiveTurnAlone
    <3>. QED
      BY <3>1, <3>2, <3>3
  <2>. QED
    BY <2>1, <2>2, <1>9, <1>11
<1>12. LiveTurnAlone'
  BY <1>11 DEF LiveTurnAlone
<1>. QED
  BY <1>4, <1>12

LEMMA SInvNext == SInv /\ [Next]_vars => SInv'
<1>. SUFFICES ASSUME SInv, [Next]_vars PROVE SInv'
  OBVIOUS
<1>1. TInv' /\ LInv'
  BY TInvNext, LInvNext DEF SInv
<1>t. /\ row \in [Session -> Row] /\ TInv /\ LInv
      /\ Unborn /\ OneActivePerActor /\ LiveTurnAlone
  BY DEF SInv, TInv, TypeOK
<1>2. CASE RowKept /\ TurnKept
  <2>1. Unborn' /\ OneActivePerActor'
    BY <1>2, <1>t DEF RowKept, Kept, Unborn, OneActivePerActor
  <2>2. LiveTurnAlone'
    BY <1>2, <1>t DEF RowKept, TurnKept, Kept, LiveTurnAlone
  <2>. QED
    BY <1>1, <2>1, <2>2 DEF SInv
<1>3. ASSUME NEW a \in Actor, NEW s \in Session, NEW c \in Conversation \cup {None},
             Authorize(a, s, c)
      PROVE  SInv'
  BY <1>1, <1>3, AuthorizeStep DEF SInv
<1>4. ASSUME NEW w \in Owner, NEW i \in Item, NEW c \in Conversation, Admit(w, i, c)
      PROVE  SInv'
  BY <1>1, <1>4, AdmitStep DEF SInv
<1>5. ASSUME NEW x \in TextTurn, NEW c \in Conversation, TextAdmit(x, c)
      PROVE  SInv'
  <2>1. UNCHANGED <<row, turn>>
    BY <1>5 DEF TextAdmit
  <2>2. /\ \A s \in Session, i \in Item :
              row[s].conversation = c => turn[s][i].state # "streaming"
        /\ \A y \in TextTurn : y # x => text'[y] = text[y]
        /\ text'[x].conversation = c
    BY <1>5, <1>t DEF TextAdmit, LiveBusy, TInv, TypeOK
  <2>3. Unborn' /\ OneActivePerActor'
    BY <2>1, <1>t DEF Unborn, OneActivePerActor
  <2>4. LiveTurnAlone'
    BY <2>1, <2>2, <1>t DEF LiveTurnAlone
  <2>. QED
    BY <1>1, <2>3, <2>4 DEF SInv
<1>. QED
  BY <1>2, <1>3, <1>4, <1>5, <1>t, StepShape DEF Opens

\* A user never has two sessions that are not over, for any number of sessions,
\* connections and users and any interleaving of requests and sweeps.
THEOREM OneSessionPerUser == Spec => []OneActivePerActor
<1>1. SInv => OneActivePerActor
  BY DEF SInv
<1>. QED
  BY <1>1, SInvInit, SInvNext, PTL DEF Spec

\* A live turn that waits for its answer never shares its conversation with
\* another active turn.
THEOREM LiveTurnIsAlone == Spec => []LiveTurnAlone
<1>1. SInv => LiveTurnAlone
  BY DEF SInv
<1>. QED
  BY <1>1, SInvInit, SInvNext, PTL DEF Spec

-----------------------------------------------------------------------------
\* The refinement of the turn ledger.  A turn has a place from its admission on.

Placed == \A s \in Session, i \in Item :
            turn[s][i].state # "none" => row[s].conversation # None

PInv == SInv /\ Placed

\* Every step but those that open something settles, in one way, some of the
\* turns that are active.
Settling(outcome) ==
  /\ \A s \in Session, i \in Item :
       \/ turn'[s][i].state = turn[s][i].state
       \/ turn[s][i].state = "streaming" /\ turn'[s][i].state = outcome
  /\ \A x \in TextTurn :
       /\ text'[x].conversation = text[x].conversation
       /\ \/ text'[x].state = text[x].state
          \/ text[x].state = "active" /\ text'[x].state = outcome

Outcomes == {"completed", "interrupted", "failed"}

LEMMA UnansweredSettles ==
  ASSUME NEW turns \in [Item -> Turn], NEW i \in Item
  PROVE  \/ Unanswered(turns)[i].state = turns[i].state
         \/ /\ turns[i].state = "streaming"
            /\ Unanswered(turns)[i].state = "interrupted"
BY DEF Unanswered, Turn, TurnState

LEMMA SettleShape ==
  ASSUME TInv, [Next]_vars
  PROVE  Opens \/ \E outcome \in Outcomes : Settling(outcome)
<1>t. /\ turn \in [Session -> [Item -> Turn]] /\ text \in [TextTurn -> Text]
      /\ conn \in [Owner -> Conn] /\ Serving
  BY DEF TInv, TypeOK
<1>1. ASSUME UNCHANGED text,
             \A s \in Session : turn'[s] = turn[s] \/ turn'[s] = Unanswered(turn[s])
      PROVE  Settling("interrupted")
  BY <1>1, <1>t, UnansweredSettles DEF Settling
<1>2. ASSUME NEW w \in Owner, NEW outcome \in {"completed", "interrupted"},
             Terminate(w, outcome)
      PROVE  Settling(outcome)
  <2>. DEFINE s == conn[w].session
              i == conn[w].output
              v == IF turn[s][i].state = "streaming" THEN outcome ELSE turn[s][i].state
  <2>1. s \in Session /\ i \in Item
    BY <1>2, <1>t DEF Terminate, Serving, InSession, Conn
  <2>2. turn' = [turn EXCEPT ![s][i] = [turn[s][i] EXCEPT !.state = v]]
    BY <1>2, <2>1, <1>t DEF Terminate
  <2>3. [turn[s][i] EXCEPT !.state = v].state = v
    BY <2>1, <1>t DEF Turn
  <2>4. \A o \in Session, j \in Item :
          turn'[o][j] = turn[o][j] \/ (o = s /\ j = i /\ turn'[o][j].state = v)
    BY <2>1, <2>2, <2>3, <1>t
  <2>5. UNCHANGED text
    BY <1>2 DEF Terminate
  <2>. QED
    BY <2>4, <2>5 DEF Settling
<1>3. ASSUME NEW x \in TextTurn, NEW outcome \in {"completed", "failed"},
             TextFinish(x, outcome)
      PROVE  Settling(outcome)
  BY <1>3, <1>t DEF TextFinish, Settling, Text
<1>4. CASE Request
  BY <1>1, <1>4, <1>t
  DEF Request, Opens, Reconnect, ReconnectRefused, Revoke, ChangeScope, Outcomes
<1>5. CASE Connection
  <2>1. ASSUME NEW w \in Owner, CloseOwned(w) PROVE Settling("interrupted")
    BY <1>1, <2>1, <1>t DEF CloseOwned, Serving, InSession
  <2>2. ASSUME NEW w \in Owner,
               \/ \E s \in Session, k \in 0..MaxGen : Consume(w, s, k)
               \/ Ready(w) \/ Heartbeat(w) \/ FenceLost(w) \/ EndCall(w) \/ Crash(w)
               \/ \E reason \in {"transport", "failed", "ended"} : Drop(w, reason)
        PROVE  Settling("interrupted")
    BY <1>1, <2>2
    DEF Consume, Ready, Heartbeat, FenceLost, EndCall, Crash, Drop, Unwind
  <2>. QED
    BY <1>2, <1>5, <2>1, <2>2 DEF Connection, Opens, Outcomes
<1>6. ASSUME NEW s \in Session, Sweep(s) PROVE Settling("interrupted")
  BY <1>1, <1>6, <1>t DEF Sweep, AfterRecovery
<1>7. CASE Tick \/ UNCHANGED vars
  BY <1>1, <1>7 DEF Tick, vars, Outcomes
<1>8. CASE \E x \in TextTurn, c \in Conversation : TextAdmit(x, c)
  BY <1>8 DEF Opens
<1>. QED
  BY <1>3, <1>4, <1>5, <1>6, <1>7, <1>8 DEF Next, Outcomes

\* Authorize only settles turns too, although it opens a session.
LEMMA AuthorizeSettles ==
  ASSUME TInv, NEW a \in Actor, NEW s \in Session, NEW c \in Conversation \cup {None},
         Authorize(a, s, c)
  PROVE  Settling("interrupted")
BY UnansweredSettles DEF TInv, TypeOK, Authorize, Settling

\* A session that is not absent keeps its conversation; one that was absent has
\* no turns.
LEMMA AuthorizePlaces ==
  ASSUME TInv, NEW a \in Actor, NEW s \in Session, NEW c \in Conversation \cup {None},
         Authorize(a, s, c)
  PROVE  /\ row[s].state = "absent"
         /\ \A o \in Session : o # s => row'[o].conversation = row[o].conversation
<1>1. \A o \in Session : Kept(Recover(row[o]), row[o])
  BY RecoverKeeps DEF TInv, TypeOK
<1>. QED
  BY <1>1 DEF Authorize, Kept

LEMMA PInvNext == PInv /\ [Next]_vars => PInv'
<1>. SUFFICES ASSUME PInv, [Next]_vars PROVE PInv'
  OBVIOUS
<1>1. SInv' /\ TInv /\ LInv /\ Unborn /\ Placed
  BY SInvNext DEF PInv, SInv
<1>2. ASSUME NEW outcome \in Outcomes, Settling(outcome), RowKept PROVE Placed'
  BY <1>1, <1>2 DEF Placed, Settling, RowKept, Kept
<1>3. ASSUME NEW a \in Actor, NEW s \in Session, NEW c \in Conversation \cup {None},
             Authorize(a, s, c)
      PROVE  Placed'
  <2>1. /\ row[s].conversation = None
        /\ \A o \in Session : o # s => row'[o].conversation = row[o].conversation
    BY <1>1, <1>3, AuthorizePlaces DEF Unborn
  <2>2. \A o \in Session, i \in Item : turn'[o][i].state # "none" => turn[o][i].state # "none"
    BY <1>1, <1>3, AuthorizeSettles DEF Settling
  <2>. QED
    BY <1>1, <2>1, <2>2 DEF Placed
<1>4. ASSUME NEW w \in Owner, NEW i \in Item, NEW c \in Conversation, Admit(w, i, c)
      PROVE  Placed'
  <2>. DEFINE s == conn[w].session
  <2>1. s \in Session /\ row \in [Session -> Row] /\ turn \in [Session -> [Item -> Turn]]
    BY <1>1, <1>4 DEF TInv, TypeOK, Serving, InSession, Admit
  <2>2. /\ row'[s].conversation = c /\ c # None
        /\ \A o \in Session : o # s => row'[o] = row[o] /\ turn'[o] = turn[o]
    BY <1>4, <2>1, NoneAssumption DEF Admit, Row
  <2>. QED
    BY <1>1, <2>2 DEF Placed
<1>5. ASSUME NEW x \in TextTurn, NEW c \in Conversation, TextAdmit(x, c) PROVE Placed'
  BY <1>1, <1>5 DEF TextAdmit, Placed
<1>6. Placed'
  BY <1>1, <1>2, <1>3, <1>4, <1>5, StepShape, SettleShape DEF Opens
<1>. QED
  BY <1>1, <1>6 DEF PInv

LEMMA PInvInit == Init => PInv
BY SInvInit DEF Init, PInv, Placed

LEMMA LiveBars ==
  ASSUME NEW s \in Session, NEW i \in Item
  PROVE  /\ <<s, i>> \in LiveTurn /\ <<s, i>> \notin TextTurn
         /\ statusBar[<<s, i>>] = IF turn[s][i].state = "streaming" THEN "active"
                                  ELSE turn[s][i].state
         /\ placeBar[<<s, i>>] = IF turn[s][i].state = "none" THEN None
                                 ELSE row[s].conversation
BY NoneAssumption DEF LiveTurn, statusBar, placeBar

LEMMA LiveBarsNext ==
  ASSUME NEW s \in Session, NEW i \in Item
  PROVE  /\ statusBar'[<<s, i>>] = IF turn'[s][i].state = "streaming" THEN "active"
                                   ELSE turn'[s][i].state
         /\ placeBar'[<<s, i>>] = IF turn'[s][i].state = "none" THEN None
                                  ELSE row'[s].conversation
BY NoneAssumption DEF LiveTurn, statusBar, placeBar

LEMMA TextBars ==
  ASSUME NEW x \in TextTurn
  PROVE  /\ statusBar[x] = text[x].state /\ placeBar[x] = text[x].conversation
         /\ statusBar'[x] = text'[x].state /\ placeBar'[x] = text'[x].conversation
         /\ x \notin LiveTurn
BY NoneAssumption DEF LiveTurn, statusBar, placeBar

LEMMA BarDomains ==
  /\ statusBar = [t \in LiveTurn \cup TextTurn |-> statusBar[t]]
  /\ placeBar = [t \in LiveTurn \cup TextTurn |-> placeBar[t]]
  /\ statusBar' = [t \in LiveTurn \cup TextTurn |-> statusBar'[t]]
  /\ placeBar' = [t \in LiveTurn \cup TextTurn |-> placeBar'[t]]
BY DEF statusBar, placeBar

LEMMA LedgerInit == Init => Ledger!Init
<1>. SUFFICES ASSUME Init PROVE Ledger!Init
  OBVIOUS
<1>1. \A t \in LiveTurn \cup TextTurn : statusBar[t] = "none" /\ placeBar[t] = None
  <2>1. \A s \in Session, i \in Item :
          statusBar[<<s, i>>] = "none" /\ placeBar[<<s, i>>] = None
    BY LiveBars DEF Init
  <2>2. \A x \in TextTurn : statusBar[x] = "none" /\ placeBar[x] = None
    BY TextBars DEF Init
  <2>. QED
    BY <2>1, <2>2 DEF LiveTurn
<1>. QED
  BY <1>1, BarDomains DEF Ledger!Init

\* Turns of one outcome are settled, and nothing changes its place.
LEMMA LedgerSettles ==
  ASSUME PInv, NEW outcome \in Outcomes, Settling(outcome),
         \A s \in Session, i \in Item :
           turn[s][i].state # "none" => row'[s].conversation = row[s].conversation
  PROVE  Ledger!Next
<1>1. \A t \in LiveTurn \cup TextTurn :
        /\ \/ statusBar'[t] = statusBar[t]
           \/ statusBar[t] = "active" /\ statusBar'[t] = outcome
        /\ placeBar'[t] = placeBar[t]
  <2>1. ASSUME NEW s \in Session, NEW i \in Item
        PROVE  /\ \/ statusBar'[<<s, i>>] = statusBar[<<s, i>>]
                  \/ statusBar[<<s, i>>] = "active" /\ statusBar'[<<s, i>>] = outcome
               /\ placeBar'[<<s, i>>] = placeBar[<<s, i>>]
    BY LiveBars, LiveBarsNext DEF Settling, Outcomes
  <2>2. ASSUME NEW x \in TextTurn
        PROVE  /\ \/ statusBar'[x] = statusBar[x]
                  \/ statusBar[x] = "active" /\ statusBar'[x] = outcome
               /\ placeBar'[x] = placeBar[x]
    BY TextBars DEF Settling
  <2>. QED
    BY <2>1, <2>2 DEF LiveTurn
<1>. DEFINE T == {t \in LiveTurn \cup TextTurn : statusBar[t] = "active"
                                              /\ statusBar'[t] = outcome}
<1>2. statusBar' = [t \in LiveTurn \cup TextTurn |-> IF t \in T THEN outcome ELSE statusBar[t]]
  BY <1>1, BarDomains
<1>3. placeBar' = placeBar
  BY <1>1, BarDomains
<1>4. Ledger!Settle(T, outcome)
  BY <1>2, <1>3 DEF Ledger!Settle
<1>5. T \in SUBSET (LiveTurn \cup TextTurn) /\ outcome \in Ledger!Outcome
  BY DEF Ledger!Outcome, Outcomes
<1>. QED
  BY <1>4, <1>5 DEF Ledger!Next

\* The turn t is accepted, and nothing else changes.
LEMMA LedgerAccepts ==
  ASSUME NEW t \in LiveTurn \cup TextTurn, NEW c \in Conversation, statusBar[t] = "none",
         \A u \in LiveTurn \cup TextTurn : placeBar[u] = c /\ statusBar[u] = "active" =>
           t \notin LiveTurn /\ u \notin LiveTurn,
         statusBar'[t] = "active", placeBar'[t] = c,
         \A u \in LiveTurn \cup TextTurn : u # t =>
           statusBar'[u] = statusBar[u] /\ placeBar'[u] = placeBar[u]
  PROVE  Ledger!Next
<1>1. /\ statusBar' = [statusBar EXCEPT ![t] = "active"]
      /\ placeBar' = [placeBar EXCEPT ![t] = c]
  BY BarDomains
<1>2. Ledger!Accept(t, c)
  BY <1>1 DEF Ledger!Accept, Ledger!Active
<1>. QED
  BY <1>2 DEF Ledger!Next

LEMMA AdmitLedger ==
  ASSUME PInv, NEW w \in Owner, NEW i \in Item, NEW c \in Conversation, Admit(w, i, c)
  PROVE  Ledger!Next
<1>. DEFINE s == conn[w].session
<1>1. /\ s \in Session /\ row \in [Session -> Row]
      /\ turn \in [Session -> [Item -> Turn]] /\ Placed
  BY DEF PInv, SInv, TInv, TypeOK, Serving, InSession, Admit
<1>2. /\ turn[s][i].state = "none" /\ turn'[s][i].state = "streaming"
      /\ row'[s].conversation = c /\ UNCHANGED text
      /\ \A o \in Session : o # s => row'[o] = row[o] /\ turn'[o] = turn[o]
      /\ \A j \in Item : j # i => turn'[s][j] = turn[s][j]
      /\ row[s].conversation = c \/ row[s].conversation = None
  BY <1>1 DEF Admit, Row, Target
<1>3. /\ \A o \in Session, j \in Item : row[o].conversation = c => turn[o][j].state # "streaming"
      /\ \A x \in TextTurn : text[x].conversation = c => text[x].state # "active"
  BY DEF Admit, Busy, LiveBusy
<1>. HIDE DEF s
<1>4. /\ <<s, i>> \in LiveTurn /\ statusBar[<<s, i>>] = "none"
      /\ statusBar'[<<s, i>>] = "active" /\ placeBar'[<<s, i>>] = c
  BY <1>1, <1>2, LiveBars, LiveBarsNext, NoneAssumption
<1>5. ASSUME NEW u \in LiveTurn \cup TextTurn
      PROVE  /\ u # <<s, i>> => statusBar'[u] = statusBar[u] /\ placeBar'[u] = placeBar[u]
             /\ ~(placeBar[u] = c /\ statusBar[u] = "active")
  <2>1. CASE u \in TextTurn
    BY <2>1, <1>2, <1>3, TextBars
  <2>2. ASSUME NEW o \in Session, NEW j \in Item, u = <<o, j>>
        PROVE  /\ u # <<s, i>> => statusBar'[u] = statusBar[u] /\ placeBar'[u] = placeBar[u]
               /\ ~(placeBar[u] = c /\ statusBar[u] = "active")
    <3>1. turn[o][j].state # "none" => row[o].conversation # None
      BY <1>1 DEF Placed
    <3>2. /\ u # <<s, i>> => turn'[o][j] = turn[o][j]
          /\ turn[o][j].state # "none" => row'[o].conversation = row[o].conversation
      BY <1>2, <2>2, <3>1
    <3>3. statusBar[u] = "active" /\ placeBar[u] = c =>
            turn[o][j].state = "streaming" /\ row[o].conversation = c
      <4>1. turn[o][j].state # "active"
        BY <1>1 DEF Turn, TurnState
      <4>. QED
        BY <2>2, <4>1, LiveBars
    <3>. QED
      BY <2>2, <3>2, <3>3, <1>3, LiveBars, LiveBarsNext
  <2>. QED
    BY <2>1, <2>2 DEF LiveTurn
<1>. QED
  BY <1>4, <1>5, LedgerAccepts

LEMMA TextAdmitLedger ==
  ASSUME PInv, NEW x \in TextTurn, NEW c \in Conversation, TextAdmit(x, c)
  PROVE  Ledger!Next
<1>1. /\ turn \in [Session -> [Item -> Turn]] /\ text \in [TextTurn -> Text]
      /\ row \in [Session -> Row]
  BY DEF PInv, SInv, TInv, TypeOK
<1>2. /\ statusBar[x] = "none" /\ statusBar'[x] = "active" /\ placeBar'[x] = c
      /\ x \notin LiveTurn
  BY <1>1, TextBars DEF TextAdmit, Text
<1>3. ASSUME NEW u \in LiveTurn \cup TextTurn
      PROVE  /\ u # x => statusBar'[u] = statusBar[u] /\ placeBar'[u] = placeBar[u]
             /\ placeBar[u] = c /\ statusBar[u] = "active" => u \notin LiveTurn
  <2>1. CASE u \in TextTurn
    BY <2>1, <1>1, TextBars DEF TextAdmit
  <2>2. ASSUME NEW o \in Session, NEW j \in Item, u = <<o, j>>
        PROVE  /\ u # x => statusBar'[u] = statusBar[u] /\ placeBar'[u] = placeBar[u]
               /\ ~(placeBar[u] = c /\ statusBar[u] = "active")
    <3>1. UNCHANGED <<turn, row>> /\ ~(row[o].conversation = c /\ turn[o][j].state = "streaming")
      BY DEF TextAdmit, LiveBusy
    <3>2. turn[o][j].state # "active"
      BY <1>1 DEF Turn, TurnState
    <3>3. placeBar[u] = c => row[o].conversation = c
      BY <2>2, LiveBars, NoneAssumption
    <3>. QED
      BY <2>2, <3>1, <3>2, <3>3, LiveBars, LiveBarsNext
  <2>. QED
    BY <2>1, <2>2 DEF LiveTurn
<1>. QED
  BY <1>2, <1>3, LedgerAccepts

LEMMA LedgerNext == PInv /\ [Next]_vars => [Ledger!Next]_(Ledger!ledger)
<1>. SUFFICES ASSUME PInv, [Next]_vars PROVE Ledger!Next
  OBVIOUS
<1>1. TInv /\ LInv /\ Unborn /\ Placed
  BY DEF PInv, SInv
<1>2. ASSUME NEW outcome \in Outcomes, Settling(outcome), RowKept PROVE Ledger!Next
  BY <1>2, LedgerSettles DEF RowKept, Kept
<1>3. ASSUME NEW a \in Actor, NEW s \in Session, NEW c \in Conversation \cup {None},
             Authorize(a, s, c)
      PROVE  Ledger!Next
  <2>1. \A o \in Session, i \in Item :
          turn[o][i].state # "none" => row'[o].conversation = row[o].conversation
    BY <1>1, <1>3, AuthorizePlaces DEF Unborn, Placed
  <2>2. Settling("interrupted") /\ "interrupted" \in Outcomes
    BY <1>1, <1>3, AuthorizeSettles DEF Outcomes
  <2>. QED
    BY <2>1, <2>2, LedgerSettles
<1>. QED
  BY <1>1, <1>2, <1>3, StepShape, SettleShape, AdmitLedger, TextAdmitLedger DEF Opens

\* Connections, revocations, sweeps and text requests keep the turn ledger: no
\* turn is settled twice, reopened or moved to another conversation.
THEOREM SessionsKeepLedger == Spec => ImplementsLedger
<1>. QED
  BY PInvInit, PInvNext, LedgerInit, LedgerNext, PTL DEF Spec, ImplementsLedger, Ledger!Spec

-----------------------------------------------------------------------------
\* What a step does to the lease of a row.

\* The lease stays with its connection, and is at most renewed while it is good.
Held(q, r) ==
  /\ q.owner = r.owner /\ q.generation = r.generation
  /\ q.ticket = r.ticket /\ q.ticketUsed = r.ticketUsed
  /\ q.state = r.state \/ (q.state = "connected" /\ r.state \in Leased)
  /\ q.leaseLeft > 0 => r.leaseLeft > 0

\* The row is taken from whoever leased it, and every ticket with it.
Dropped(q, r) ==
  /\ q.owner = None /\ q.generation = r.generation + 1
  /\ q.ticket = NoTicket /\ q.ticketUsed = r.ticketUsed
  /\ r.state \in ACTIVE /\ q.state \in TERMINAL \cup {"reconnecting"}

LEMMA DropShape ==
  ASSUME NEW r \in Row, r.state \in ACTIVE
  PROVE  /\ \A terminal \in TERMINAL : Dropped(Finish(r, terminal), r)
         /\ \A grace : Dropped(Release(r, grace), r)
BY DEF Dropped, Finish, Release, TERMINAL

LEMMA RecoverShape ==
  ASSUME NEW r \in Row
  PROVE  /\ Recover(r) = r \/ Dropped(Recover(r), r)
         /\ Recover(r) = r \/ Recover(r).state \in {"ended", "reconnecting"}
         /\ r.state \in Leased /\ r.leaseLeft > 0 /\ r.lifeLeft > 0 => Recover(r) = r
<1>1. r.state \in ACTIVE => /\ Dropped(Finish(r, "ended"), r)
                            /\ Dropped(Release(r, r.leaseLeft + ReconnectTTL), r)
  BY DropShape DEF TERMINAL
<1>2. /\ Finish(r, "ended").state = "ended"
      /\ Release(r, r.leaseLeft + ReconnectTTL).state = "reconnecting"
  BY DEF Finish, Release
<1>3. r.state \in Leased /\ r.leaseLeft > 0 /\ r.lifeLeft > 0 => ~Lapsed(r)
  BY TimesAssumption DEF Lapsed, Leased, Row
<1>4. r.leaseLeft > 0 => ~(r.leaseLeft <= 0)
  BY DEF Row
<1>. QED
  BY <1>1, <1>2, <1>3, <1>4 DEF Recover

LEMMA HeldStep ==
  ASSUME TInv,
         \/ \E w \in Owner : \/ Ready(w) \/ Heartbeat(w)
                             \/ \E i \in Item, c \in Conversation : Admit(w, i, c)
         \/ Tick
  PROVE  \A s \in Session : Held(row'[s], row[s])
<1>t. row \in [Session -> Row] /\ conn \in [Owner -> Conn] /\ Serving
  BY DEF TInv, TypeOK
<1>r. \A s \in Session : Held(row[s], row[s])
  BY DEF Held
<1>1. ASSUME NEW w \in Owner, Ready(w) PROVE \A s \in Session : Held(row'[s], row[s])
  <2>. DEFINE s == conn[w].session
              r == [row[s] EXCEPT !.state = "connected"]
              q == [r EXCEPT !.leaseLeft = LeaseTTL]
  <2>1. s \in Session /\ row[s].state \in Leased /\ row[s].leaseLeft > 0
    BY <1>1, <1>t DEF Ready, Holds, Fenced, Serving, InSession
  <2>2. row' = [row EXCEPT ![s] = q]
    BY <2>1, <1>1, <1>t DEF Ready
  <2>3. /\ r \in Row /\ r.state = "connected" /\ r.owner = row[s].owner
        /\ r.generation = row[s].generation
        /\ r.ticket = row[s].ticket /\ r.ticketUsed = row[s].ticketUsed
    BY <2>1, <1>t DEF Row, ACTIVE, Leased
  <2>. HIDE DEF r
  <2>4. /\ q.state = r.state /\ q.owner = r.owner /\ q.generation = r.generation
        /\ q.ticket = r.ticket /\ q.ticketUsed = r.ticketUsed
    BY <2>3 DEF Row
  <2>. HIDE DEF q
  <2>5. Held(q, row[s])
    BY <2>1, <2>3, <2>4 DEF Held
  <2>. QED
    BY <2>1, <2>2, <2>5, <1>t, <1>r
<1>2. ASSUME NEW w \in Owner, Heartbeat(w) PROVE \A s \in Session : Held(row'[s], row[s])
  <2>. DEFINE s == conn[w].session
              q == [row[s] EXCEPT !.leaseLeft = LeaseTTL]
  <2>1. s \in Session /\ row[s].leaseLeft > 0
    BY <1>2, <1>t DEF Heartbeat, Holds, Fenced, Serving, InSession
  <2>2. row' = [row EXCEPT ![s] = q]
    BY <2>1, <1>2, <1>t DEF Heartbeat
  <2>3. Held(q, row[s])
    BY <2>1, <1>t DEF Row, Held
  <2>. HIDE DEF q
  <2>. QED
    BY <2>1, <2>2, <2>3, <1>t, <1>r
<1>3. ASSUME NEW w \in Owner, NEW i \in Item, NEW c \in Conversation, Admit(w, i, c)
      PROVE  \A s \in Session : Held(row'[s], row[s])
  <2>. DEFINE s == conn[w].session
              q == [row[s] EXCEPT !.conversation = c]
  <2>1. s \in Session /\ row[s].leaseLeft > 0
    BY <1>3, <1>t DEF Admit, Holds, Fenced, Serving, InSession
  <2>2. row' = [row EXCEPT ![s] = q]
    BY <2>1, <1>3, <1>t DEF Admit
  <2>3. Held(q, row[s])
    BY <2>1, <1>t DEF Row, Held
  <2>. HIDE DEF q
  <2>. QED
    BY <2>1, <2>2, <2>3, <1>t, <1>r
<1>4. CASE Tick
  <2>1. ASSUME NEW s \in Session PROVE Held(Aged(row[s]), row[s])
    <3>1. row[s].leaseLeft \in Int /\ -ReconnectTTL \in Int
      BY <1>t, TimesAssumption DEF Row
    <3>2. Count(row[s].leaseLeft, -ReconnectTTL) > 0 => row[s].leaseLeft > 0
      BY <3>1 DEF Count
    <3>3. Aged(row[s]).leaseLeft > 0 => row[s].leaseLeft > 0
      BY <3>1, <3>2 DEF Aged
    <3>. QED
      BY <3>3 DEF Held, Aged
  <2>. QED
    BY <1>4, <2>1 DEF Tick
<1>. QED
  BY <1>1, <1>2, <1>3, <1>4

\* A refused reconnect, a revocation, a close and a sweep drop a row or leave it.
LEMMA DropStep ==
  ASSUME TInv, LInv,
         \/ \E s \in Session : ReconnectRefused(s) \/ Sweep(s)
         \/ \E a \in Actor, keeps \in BOOLEAN : Revoke(a, keeps)
         \/ \E w \in Owner : CloseOwned(w)
  PROVE  \A s \in Session : row'[s] = row[s] \/ Dropped(row'[s], row[s])
<1>t. row \in [Session -> Row] /\ conn \in [Owner -> Conn] /\ Serving
  BY DEF TInv, TypeOK
<1>1. \A s \in Session : Recover(row[s]) = row[s] \/ Dropped(Recover(row[s]), row[s])
  BY <1>t, RecoverShape
<1>2. ASSUME NEW s \in Session, ReconnectRefused(s) \/ Sweep(s)
      PROVE  \A o \in Session : row'[o] = row[o] \/ Dropped(row'[o], row[o])
  BY <1>1, <1>2, <1>t DEF ReconnectRefused, Sweep
<1>3. ASSUME NEW a \in Actor, NEW keeps \in BOOLEAN, Revoke(a, keeps)
      PROVE  \A o \in Session : row'[o] = row[o] \/ Dropped(row'[o], row[o])
  <2>1. \A o \in ActiveOf(a) : Dropped(Finish(row[o], "revoked"), row[o])
    BY <1>t, DropShape DEF ActiveOf, TERMINAL
  <2>. QED
    BY <1>3, <2>1 DEF Revoke
<1>4. ASSUME NEW w \in Owner, CloseOwned(w)
      PROVE  \A o \in Session : row'[o] = row[o] \/ Dropped(row'[o], row[o])
  <2>. DEFINE s == conn[w].session
              r == row[s]
  <2>1. s \in Session
    BY <1>4, <1>t DEF CloseOwned, Serving, InSession
  <2>2. CASE ~Closes(w)
    BY <1>4, <2>2 DEF CloseOwned
  <2>3. CASE Closes(w)
    <3>1. r \in Row /\ r.state \in ACTIVE
      BY <2>1, <2>3, <1>t DEF LInv, OwnerLeased, Closes, ACTIVE
    <3>2. \A reason : TerminalOf(reason) \in TERMINAL
      BY DEF TerminalOf, TERMINAL
    <3>3. \E q : Dropped(q, r) /\ row' = [row EXCEPT ![s] = q]
      BY <1>4, <2>3, <3>1, <3>2, DropShape DEF CloseOwned
    <3>. QED
      BY <3>3, <2>1, <1>t
  <2>. QED
    BY <2>2, <2>3
<1>. QED
  BY <1>2, <1>3, <1>4

\* What identifies a connection is set once, when it consumes its ticket.
ConnKept ==
  \A w \in Owner : /\ conn'[w].session = conn[w].session
                    /\ conn'[w].generation = conn[w].generation
                    /\ conn'[w].ticket = conn[w].ticket

LEMMA ConnStep ==
  ASSUME TInv, [Next]_vars
  PROVE  ConnKept \/ \E w \in Owner, s \in Session, k \in 0..MaxGen : Consume(w, s, k)
<1>t. conn \in [Owner -> Conn]
  BY DEF TInv, TypeOK
<1>1. ASSUME UNCHANGED conn PROVE ConnKept
  BY <1>1 DEF ConnKept
<1>2. ASSUME NEW w \in Owner, NEW phase, NEW reason, conn' = [conn EXCEPT ![w] = Left(conn[w], phase, reason)]
      PROVE  ConnKept
  BY <1>2, <1>t DEF ConnKept, Left
<1>3. ASSUME NEW w \in Owner,
             \/ FenceLost(w) \/ CloseOwned(w) \/ Crash(w)
             \/ \E reason \in {"transport", "failed", "ended"} : Drop(w, reason)
      PROVE  ConnKept
  BY <1>2, <1>3 DEF FenceLost, Drop, Unwind, CloseOwned, Crash, Gone
<1>4. ASSUME NEW w \in Owner,
             \/ Ready(w) \/ EndCall(w)
             \/ \E i \in Item, c \in Conversation : Admit(w, i, c)
             \/ \E outcome \in {"completed", "interrupted"} : Terminate(w, outcome)
      PROVE  ConnKept
  <2>1. \/ \E phase : conn' = [conn EXCEPT ![w].phase = phase]
        \/ \E output : conn' = [conn EXCEPT ![w].output = output]
    BY <1>4 DEF Ready, EndCall, Admit, Terminate
  <2>. QED
    BY <2>1, <1>t DEF ConnKept, Conn
<1>5. CASE Request \/ Tick
  BY <1>1, <1>5
  DEF Request, Authorize, Reconnect, ReconnectRefused, Revoke, ChangeScope, Tick
<1>6. CASE Connection
  BY <1>1, <1>3, <1>4, <1>6 DEF Connection, Heartbeat
<1>7. ASSUME \/ \E x \in TextTurn, c \in Conversation : TextAdmit(x, c)
             \/ \E x \in TextTurn, outcome \in {"completed", "failed"} : TextFinish(x, outcome)
             \/ \E s \in Session : Sweep(s)
             \/ UNCHANGED vars
      PROVE  ConnKept
  BY <1>1, <1>7 DEF TextAdmit, TextFinish, Sweep, vars
<1>. QED
  BY <1>5, <1>6, <1>7 DEF Next

-----------------------------------------------------------------------------
\* Fencing.  A ticket is named by the generation it was issued in, a connection
\* by the one that its ticket opened; both only grow, so nothing that is still
\* to be consumed can repeat what a connection has.

Tickets == \A s \in Session : row[s].ticket <= row[s].generation

Earlier ==
  \A w \in Owner : conn[w].session # None =>
    LET r == row[conn[w].session]
    IN  /\ r.state # "absent"
        /\ conn[w].generation <= r.generation
        /\ conn[w].ticket < conn[w].generation
        /\ ~r.ticketUsed /\ r.ticket # NoTicket => conn[w].ticket < r.ticket

FInv == Tickets /\ Earlier /\ FencingTokensDistinct

LEMMA FInvInit == Init => FInv
<1>. SUFFICES ASSUME Init PROVE FInv
  OBVIOUS
<1>1. \A w \in Owner : conn[w].session = None
  BY DEF Init, NoConn
<1>2. \A s \in Session : row[s].ticket = -1 /\ row[s].generation = 0
  BY DEF Init, NoRow, NoTicket
<1>. QED
  BY <1>1, <1>2 DEF FInv, Tickets, Earlier, FencingTokensDistinct

\* A row that is left, held or dropped does not come nearer to an old ticket.
Fresh(q, r) ==
  /\ q.generation \in {r.generation, r.generation + 1}
  /\ q.ticket \in {r.ticket, NoTicket} /\ q.ticketUsed = r.ticketUsed
  /\ r.state # "absent" => q.state # "absent"

LEMMA FreshRows ==
  ASSUME NEW q, NEW r, q = r \/ Held(q, r) \/ Dropped(q, r)
  PROVE  Fresh(q, r)
BY DEF Fresh, Held, Dropped, TERMINAL, ACTIVE, Leased

LEMMA FencedKeeps ==
  ASSUME TInv, FInv, ConnKept, \A s \in Session : Fresh(row'[s], row[s])
  PROVE  FInv'
<1>t. row \in [Session -> Row] /\ conn \in [Owner -> Conn]
  BY DEF TInv, TypeOK
<1>1. FencingTokensDistinct'
  BY DEF FInv, FencingTokensDistinct, ConnKept
<1>2. \A s \in Session : row[s].generation \in Nat /\ row[s].ticket \in Int
  BY <1>t DEF Row
<1>3. Tickets'
  BY <1>2 DEF FInv, Tickets, Fresh, NoTicket
<1>4. Earlier'
  <2>. SUFFICES ASSUME NEW w \in Owner, conn'[w].session # None
       PROVE  LET r == row'[conn'[w].session]
              IN  /\ r.state # "absent"
                  /\ conn'[w].generation <= r.generation
                  /\ conn'[w].ticket < conn'[w].generation
                  /\ ~r.ticketUsed /\ r.ticket # NoTicket => conn'[w].ticket < r.ticket
    BY DEF Earlier
  <2>1. /\ conn[w].session \in Session /\ conn[w].generation \in Nat
        /\ conn'[w].session = conn[w].session /\ conn'[w].generation = conn[w].generation
        /\ conn'[w].ticket = conn[w].ticket
    BY <1>t DEF ConnKept, Conn
  <2>. QED
    BY <2>1, <1>2 DEF FInv, Earlier, Fresh
<1>. QED
  BY <1>1, <1>3, <1>4 DEF FInv

\* A ticket is issued: it carries the newest generation of the row.
LEMMA IssueKeeps ==
  ASSUME TInv, FInv, ConnKept, NEW s \in Session, NEW q \in Row,
         row'[s] = q, q.ticket = q.generation, q.state # "absent",
         row[s].state # "absent" => q.generation > row[s].generation,
         \A o \in Session : o # s => Fresh(row'[o], row[o])
  PROVE  FInv'
<1>t. row \in [Session -> Row] /\ conn \in [Owner -> Conn]
  BY DEF TInv, TypeOK
<1>1. FencingTokensDistinct'
  BY DEF FInv, FencingTokensDistinct, ConnKept
<1>2. \A o \in Session : row[o].generation \in Nat /\ row[o].ticket \in Int
  BY <1>t DEF Row
<1>q. q.generation \in Nat
  BY DEF Row
<1>3. Tickets'
  <2>1. row'[s].ticket <= row'[s].generation
    BY <1>q
  <2>2. \A o \in Session : o # s => row'[o].ticket <= row'[o].generation
    BY <1>2 DEF FInv, Tickets, Fresh, NoTicket
  <2>. QED
    BY <2>1, <2>2 DEF Tickets
<1>4. Earlier'
  <2>. SUFFICES ASSUME NEW w \in Owner, conn'[w].session # None
       PROVE  LET r == row'[conn'[w].session]
              IN  /\ r.state # "absent"
                  /\ conn'[w].generation <= r.generation
                  /\ conn'[w].ticket < conn'[w].generation
                  /\ ~r.ticketUsed /\ r.ticket # NoTicket => conn'[w].ticket < r.ticket
    BY DEF Earlier
  <2>1. /\ conn[w].session \in Session /\ conn[w].generation \in Nat /\ conn[w].ticket \in Int
        /\ conn'[w].session = conn[w].session /\ conn'[w].generation = conn[w].generation
        /\ conn'[w].ticket = conn[w].ticket
    BY <1>t DEF ConnKept, Conn
  <2>2. /\ row[conn[w].session].state # "absent"
        /\ conn[w].generation <= row[conn[w].session].generation
        /\ conn[w].ticket < conn[w].generation
    BY <2>1 DEF FInv, Earlier
  <2>3. CASE conn[w].session = s
    BY <2>1, <2>2, <2>3, <1>2, <1>q
  <2>4. CASE conn[w].session # s
    BY <2>1, <2>4, <1>2 DEF FInv, Earlier, Fresh
  <2>. QED
    BY <2>3, <2>4
<1>. QED
  BY <1>1, <1>3, <1>4 DEF FInv

LEMMA AuthorizeFresh ==
  ASSUME TInv, FInv, NEW a \in Actor, NEW s \in Session, NEW c \in Conversation \cup {None},
         Authorize(a, s, c)
  PROVE  FInv'
<1>t. row \in [Session -> Row]
  BY DEF TInv, TypeOK
<1>1. \A o \in Session : o # s => Fresh(row'[o], row[o])
  <2>1. \A o \in Session : Fresh(Recover(row[o]), row[o]) /\ Fresh(row[o], row[o])
    BY <1>t, RecoverShape, FreshRows
  <2>. QED
    BY <2>1 DEF Authorize
<1>2. /\ Created(a, c) \in Row /\ Created(a, c).ticket = Created(a, c).generation
      /\ Created(a, c).state # "absent"
  BY CreatedType DEF Created, Ticketed
<1>3. row'[s] = Created(a, c) /\ row[s].state = "absent" /\ ConnKept
  BY DEF Authorize, ConnKept
<1>. HIDE DEF Created
<1>. QED
  BY <1>1, <1>2, <1>3, IssueKeeps

LEMMA ReconnectFresh ==
  ASSUME TInv, FInv, NEW s \in Session, Reconnect(s)
  PROVE  FInv'
<1>t. row \in [Session -> Row]
  BY DEF TInv, TypeOK
<1>. DEFINE r == Recover(row[s])
            q == [r EXCEPT !.generation = r.generation + 1]
            n == Ticketed(q)
<1>1. r \in Row /\ q \in Row
  BY <1>t, RecoverType, ColumnType
<1>2. q.generation = r.generation + 1 /\ q.state = "reconnecting"
  BY <1>1 DEF Reconnect, Row
<1>3. n \in Row
  BY <1>1, TicketedType
<1>. HIDE DEF q
<1>4. n.generation = r.generation + 1 /\ n.ticket = n.generation /\ n.state = "reconnecting"
  BY <1>2 DEF Ticketed
<1>5. r.generation >= row[s].generation
  <2>1. r = row[s] \/ r.generation = row[s].generation + 1
    BY <1>t, RecoverShape DEF Dropped
  <2>. QED
    BY <2>1, <1>t DEF Row
<1>6. n.generation > row[s].generation
  BY <1>1, <1>4, <1>5, <1>t DEF Row
<1>7. row' = [row EXCEPT ![s] = n] /\ ConnKept
  BY DEF Reconnect, ConnKept, q
<1>. HIDE DEF n
<1>8. row'[s] = n /\ \A o \in Session : o # s => Fresh(row'[o], row[o])
  BY <1>7, <1>t, FreshRows
<1>. QED
  BY <1>3, <1>4, <1>6, <1>7, <1>8, IssueKeeps

LEMMA ConsumeFresh ==
  ASSUME TInv, FInv, NEW w \in Owner, NEW s \in Session, NEW k \in 0..MaxGen,
         Consume(w, s, k)
  PROVE  FInv'
<1>t. row \in [Session -> Row] /\ conn \in [Owner -> Conn]
  BY DEF TInv, TypeOK
<1>1. /\ row[s].ticket = k /\ ~row[s].ticketUsed /\ row[s].state # "absent"
      /\ k \in Nat /\ k # NoTicket /\ row[s].generation \in Nat /\ k <= row[s].generation
  BY <1>t, TimesAssumption DEF Consume, Consumable, NoTicket, FInv, Tickets, Row
<1>2. /\ row'[s] = Taken(row[s], w) /\ \A o \in Session : o # s => row'[o] = row[o]
      /\ conn'[w].session = s /\ conn'[w].generation = row[s].generation + 1
      /\ conn'[w].ticket = k
      /\ \A v \in Owner : v # w => conn'[v] = conn[v]
  BY <1>t DEF Consume
<1>3. /\ Taken(row[s], w).generation = row[s].generation + 1
      /\ Taken(row[s], w).ticket = k /\ Taken(row[s], w).ticketUsed
      /\ Taken(row[s], w).state # "absent"
  BY <1>1 DEF Taken
<1>4. \A v \in Owner : conn[v].session = s =>
        /\ conn[v].ticket < k /\ conn[v].generation <= row[s].generation
        /\ conn[v].ticket < conn[v].generation
  BY <1>1, NoneAssumption DEF FInv, Earlier
<1>n. \A v \in Owner : /\ conn[v].generation \in Nat /\ conn[v].ticket \in Int
                       /\ conn[v].session \in Session \cup {None}
  BY <1>t DEF Conn
<1>5. Tickets'
  <2>1. row'[s].ticket <= row'[s].generation
    BY <1>1, <1>2, <1>3
  <2>. QED
    BY <1>2, <2>1 DEF FInv, Tickets
<1>6. Earlier'
  <2>. SUFFICES ASSUME NEW v \in Owner, conn'[v].session # None
       PROVE  LET r == row'[conn'[v].session]
              IN  /\ r.state # "absent"
                  /\ conn'[v].generation <= r.generation
                  /\ conn'[v].ticket < conn'[v].generation
                  /\ ~r.ticketUsed /\ r.ticket # NoTicket => conn'[v].ticket < r.ticket
    BY DEF Earlier
  <2>1. CASE v = w
    BY <2>1, <1>1, <1>2, <1>3
  <2>2. CASE v # w /\ conn[v].session = s
    BY <2>2, <1>1, <1>2, <1>3, <1>4, <1>n
  <2>3. CASE v # w /\ conn[v].session # s
    BY <2>3, <1>2, <1>n DEF FInv, Earlier
  <2>. QED
    BY <2>1, <2>2, <2>3
<1>7. FencingTokensDistinct'
  <2>1. \A v \in Owner : v # w /\ conn[v].session = s =>
          conn[v].ticket # k /\ conn[v].generation # row[s].generation + 1
    BY <1>1, <1>4, <1>n
  <2>. QED
    BY <1>2, <2>1 DEF FInv, FencingTokensDistinct
<1>. QED
  BY <1>5, <1>6, <1>7 DEF FInv

LEMMA FInvNext == TInv /\ LInv /\ FInv /\ [Next]_vars => FInv'
<1>. SUFFICES ASSUME TInv, LInv, FInv, [Next]_vars PROVE FInv'
  OBVIOUS
<1>1. ASSUME ConnKept, \A s \in Session : row'[s] = row[s] \/ Held(row'[s], row[s])
                                         \/ Dropped(row'[s], row[s])
      PROVE  FInv'
  BY <1>1, FreshRows, FencedKeeps
<1>2. ASSUME ConnKept, UNCHANGED row PROVE FInv'
  BY <1>1, <1>2
<1>3. CASE \E w \in Owner, s \in Session, k \in 0..MaxGen : Consume(w, s, k)
  BY <1>3, ConsumeFresh
<1>4. CASE ConnKept
  <2>1. CASE Request
    BY <1>1, <1>2, <1>4, <2>1, DropStep, AuthorizeFresh, ReconnectFresh DEF Request, ChangeScope
  <2>2. CASE Connection
    BY <1>1, <1>2, <1>3, <1>4, <2>2, HeldStep, DropStep
    DEF Connection, FenceLost, Drop, Unwind, Terminate, EndCall, Crash
  <2>3. CASE Tick \/ \E s \in Session : Sweep(s)
    BY <1>1, <1>4, <2>3, HeldStep, DropStep
  <2>4. ASSUME \/ \E x \in TextTurn, c \in Conversation : TextAdmit(x, c)
               \/ \E x \in TextTurn, outcome \in {"completed", "failed"} : TextFinish(x, outcome)
               \/ UNCHANGED vars
        PROVE  FInv'
    BY <1>2, <1>4, <2>4 DEF TextAdmit, TextFinish, vars
  <2>. QED
    BY <2>1, <2>2, <2>3, <2>4 DEF Next
<1>. QED
  BY <1>3, <1>4, ConnStep

-----------------------------------------------------------------------------
\* Whose conversation a session speaks in.

Born == \A s \in Session : row[s].state # "absent" => row[s].actor \in Actor

CInv == Born /\ ConversationOfActor

LEMMA CInvInit == Init => CInv
BY DEF Init, NoRow, CInv, Born, ConversationOfActor

\* No step but Admit gives a conversation to a user.
LEMMA CreatorStep ==
  ASSUME [Next]_vars
  PROVE  UNCHANGED creator \/ \E w \in Owner, i \in Item, c \in Conversation : Admit(w, i, c)
<1>1. CASE Request \/ Tick \/ UNCHANGED vars
  BY <1>1
  DEF Request, Authorize, Reconnect, ReconnectRefused, Revoke, ChangeScope, Tick, vars
<1>2. CASE Connection
  BY <1>2
  DEF Connection, Consume, Ready, Heartbeat, FenceLost, Drop, Unwind, Terminate, EndCall,
      CloseOwned, Crash
<1>3. ASSUME \/ \E x \in TextTurn, c \in Conversation : TextAdmit(x, c)
             \/ \E x \in TextTurn, outcome \in {"completed", "failed"} : TextFinish(x, outcome)
             \/ \E s \in Session : Sweep(s)
      PROVE  UNCHANGED creator
  BY <1>3 DEF TextAdmit, TextFinish, Sweep
<1>. QED
  BY <1>1, <1>2, <1>3 DEF Next

LEMMA CInvNext == SInv /\ CInv /\ [Next]_vars => CInv'
<1>. SUFFICES ASSUME SInv, CInv, [Next]_vars PROVE CInv'
  OBVIOUS
<1>t. /\ row \in [Session -> Row] /\ conn \in [Owner -> Conn] /\ Serving
      /\ creator \in [Conversation -> Actor \cup {None}] /\ TInv /\ LInv /\ Unborn
  BY DEF SInv, TInv, TypeOK
<1>1. ASSUME NEW w \in Owner, NEW i \in Item, NEW c \in Conversation, Admit(w, i, c)
      PROVE  CInv'
  <2>. DEFINE s == conn[w].session
  <2>1. s \in Session /\ row[s].state = "connected"
    BY <1>1, <1>t DEF Admit, Serving, InSession
  <2>2. /\ row'[s].actor = row[s].actor /\ row'[s].conversation = c
        /\ row'[s].state = row[s].state
        /\ \A o \in Session : o # s => row'[o] = row[o]
    BY <1>1, <2>1, <1>t DEF Admit, Row
  <2>3. creator'[c] = row[s].actor /\ \A d \in Conversation : d # c => creator'[d] = creator[d]
    BY <1>1, <1>t DEF Admit
  <2>4. row[s].conversation = c \/ creator[c] = None
    BY <1>1 DEF Admit, Target
  <2>5. \A o \in Session : row[o].conversation \in Conversation \cup {None}
    BY <1>t DEF Row
  <2>6. \A o \in Session : row[o].conversation = c => row[o].actor = row[s].actor
    <3>1. ASSUME NEW o \in Session, row[o].conversation = c PROVE row[o].actor = row[s].actor
      <4>1. creator[c] = row[o].actor /\ row[o].actor \in Actor
        BY <3>1, <1>t, NoneAssumption DEF CInv, Born, ConversationOfActor, Unborn
      <4>2. creator[c] # None
        BY <4>1, NoneAssumption
      <4>. QED
        BY <2>1, <2>4, <4>1, <4>2, NoneAssumption DEF CInv, ConversationOfActor
    <3>. QED
      BY <3>1
  <2>7. ConversationOfActor'
    BY <2>1, <2>2, <2>3, <2>5, <2>6 DEF CInv, ConversationOfActor
  <2>8. Born'
    BY <2>1, <2>2 DEF CInv, Born
  <2>. QED
    BY <2>7, <2>8 DEF CInv
<1>2. ASSUME UNCHANGED creator, RowKept PROVE CInv'
  BY <1>2 DEF CInv, Born, ConversationOfActor, RowKept, Kept
<1>3. ASSUME NEW a \in Actor, NEW s \in Session, NEW c \in Conversation \cup {None},
             Authorize(a, s, c)
      PROVE  CInv'
  <2>1. /\ Created(a, c).actor = a /\ Created(a, c).conversation = c
        /\ c # None => creator[c] = a
    BY <1>3 DEF Authorize, InScope, Created, Ticketed
  <2>2. \A o \in Session : Kept(Recover(row[o]), row[o])
    BY <1>t, RecoverKeeps
  <2>3. /\ row'[s] = Created(a, c) /\ UNCHANGED creator
        /\ \A o \in Session : o # s => Kept(row'[o], row[o])
    BY <1>3, <2>2 DEF Authorize, Kept
  <2>. HIDE DEF Created
  <2>. QED
    BY <2>1, <2>3 DEF CInv, Born, ConversationOfActor, Kept
<1>4. ASSUME NEW x \in TextTurn, NEW c \in Conversation, TextAdmit(x, c) PROVE CInv'
  BY <1>4 DEF TextAdmit, CInv, Born, ConversationOfActor
<1>. QED
  BY <1>1, <1>2, <1>3, <1>4, <1>t, StepShape, CreatorStep DEF Opens

\* A session that is bound to a conversation stays bound to it.
BindingKept ==
  \A s \in Session : row[s].conversation # None => row'[s].conversation = row[s].conversation

LEMMA BindingStep == SInv /\ [Next]_vars => BindingKept
<1>. SUFFICES ASSUME SInv, [Next]_vars PROVE BindingKept
  OBVIOUS
<1>t. TInv /\ LInv /\ Unborn /\ row \in [Session -> Row] /\ Serving
  BY DEF SInv, TInv, TypeOK
<1>1. CASE RowKept
  BY <1>1 DEF RowKept, Kept, BindingKept
<1>2. ASSUME NEW a \in Actor, NEW s \in Session, NEW c \in Conversation \cup {None},
             Authorize(a, s, c)
      PROVE  BindingKept
  BY <1>2, <1>t, AuthorizePlaces DEF BindingKept, Unborn
<1>3. ASSUME NEW w \in Owner, NEW i \in Item, NEW c \in Conversation, Admit(w, i, c)
      PROVE  BindingKept
  BY <1>3, <1>t DEF Admit, Target, Serving, InSession, Row, BindingKept
<1>4. ASSUME NEW x \in TextTurn, NEW c \in Conversation, TextAdmit(x, c) PROVE BindingKept
  BY <1>4 DEF TextAdmit, BindingKept
<1>. QED
  BY <1>1, <1>2, <1>3, <1>4, <1>t, StepShape DEF Opens

-----------------------------------------------------------------------------
\* Who may take a good lease away, and what becomes of its turn.

Good(s) == /\ row[s].state = "connected" /\ row[s].leaseLeft > 0
           /\ row[s].lifeLeft > 0 /\ access[row[s].actor]

Undisturbed ==
  \A s \in Session : Good(s) /\ row'[s].owner # row[s].owner
    => \/ conn[row[s].owner].phase = "closing" /\ conn'[row[s].owner].phase = "gone"
       \/ row'[s].state = "revoked"

TurnsReleased ==
  \A s \in Session : row[s].state \in Leased /\ row'[s].state \notin Leased
    => (\A i \in Item : turn'[s][i].state # "streaming") \/ ReconnectRefused(s)

LEMMA FenceStep == TInv /\ LInv /\ [Next]_vars => Undisturbed /\ TurnsReleased
<1>. SUFFICES ASSUME TInv, LInv, [Next]_vars PROVE Undisturbed /\ TurnsReleased
  OBVIOUS
<1>t. /\ row \in [Session -> Row] /\ conn \in [Owner -> Conn] /\ Serving
      /\ turn \in [Session -> [Item -> Turn]]
  BY DEF TInv, TypeOK
<1>g. \A s \in Session : Good(s) => Recover(row[s]) = row[s]
  BY <1>t, RecoverShape DEF Good, Leased
<1>u. \A s \in Session, i \in Item : Unanswered(turn[s])[i].state # "streaming"
  BY <1>t, UnansweredKeeps
<1>1. ASSUME \A s \in Session : row'[s] = row[s] \/ Held(row'[s], row[s])
      PROVE  Undisturbed /\ TurnsReleased
  BY <1>1 DEF Undisturbed, TurnsReleased, Held, Leased
<1>2. ASSUME NEW a \in Actor, NEW s \in Session, NEW c \in Conversation \cup {None},
             Authorize(a, s, c)
      PROVE  Undisturbed /\ TurnsReleased
  <2>1. row[s].state = "absent"
    BY <1>2 DEF Authorize
  <2>2. \A o \in Session : o # s =>
          /\ row'[o] = row[o] \/ row'[o] = Recover(row[o])
          /\ row'[o] = row[o] \/ turn'[o] = Unanswered(turn[o])
    BY <1>2 DEF Authorize
  <2>. QED
    BY <2>1, <2>2, <1>g, <1>u DEF Undisturbed, TurnsReleased, Good, Leased
<1>3. ASSUME NEW s \in Session, Reconnect(s) PROVE Undisturbed /\ TurnsReleased
  <2>1. ~Good(s)
    BY <1>3, <1>g DEF Reconnect, Good
  <2>2. /\ turn'[s] = Unanswered(turn[s])
        /\ \A o \in Session : o # s => row'[o] = row[o]
    BY <1>3, <1>t DEF Reconnect
  <2>. QED
    BY <2>1, <2>2, <1>u DEF Undisturbed, TurnsReleased
<1>4. ASSUME NEW s \in Session, ReconnectRefused(s) PROVE Undisturbed /\ TurnsReleased
  <2>1. row'[s] = Recover(row[s]) /\ \A o \in Session : o # s => row'[o] = row[o]
    BY <1>4, <1>t DEF ReconnectRefused
  <2>. QED
    BY <2>1, <1>4, <1>g DEF Undisturbed, TurnsReleased
<1>5. ASSUME NEW a \in Actor, NEW keeps \in BOOLEAN, Revoke(a, keeps)
      PROVE  Undisturbed /\ TurnsReleased
  <2>1. \A o \in Session :
          \/ row'[o] = row[o]
          \/ row'[o] = Finish(row[o], "revoked") /\ turn'[o] = Unanswered(turn[o])
    BY <1>5 DEF Revoke
  <2>2. \A o \in Session : Finish(row[o], "revoked").state = "revoked"
    BY DEF Finish
  <2>. QED
    BY <2>1, <2>2, <1>u DEF Undisturbed, TurnsReleased
<1>6. ASSUME NEW w \in Owner, NEW s \in Session, NEW k \in 0..MaxGen, Consume(w, s, k)
      PROVE  Undisturbed /\ TurnsReleased
  <2>1. row[s].state \in {"authorized", "reconnecting"} /\ \A o \in Session : o # s => row'[o] = row[o]
    BY <1>6, <1>t DEF Consume, Consumable
  <2>. QED
    BY <2>1 DEF Undisturbed, TurnsReleased, Good, Leased
<1>7. ASSUME NEW w \in Owner, CloseOwned(w) PROVE Undisturbed /\ TurnsReleased
  <2>. DEFINE s == conn[w].session
  <2>1. s \in Session /\ conn[w].phase = "closing" /\ conn'[w].phase = "gone"
    BY <1>7, <1>t DEF CloseOwned, Serving, InSession, Gone, Left
  <2>2. CASE Closes(w)
    <3>1. /\ row[s].owner = w /\ turn'[s] = Unanswered(turn[s])
          /\ \A o \in Session : o # s => row'[o] = row[o]
      BY <1>7, <2>1, <2>2, <1>t DEF CloseOwned, Closes
    <3>. QED
      BY <2>1, <3>1, <1>u DEF Undisturbed, TurnsReleased
  <2>3. CASE ~Closes(w)
    BY <1>1, <1>7, <2>3 DEF CloseOwned
  <2>. QED
    BY <2>2, <2>3
<1>8. ASSUME NEW s \in Session, Sweep(s) PROVE Undisturbed /\ TurnsReleased
  <2>1. /\ row'[s] = Recover(row[s]) /\ \A o \in Session : o # s => row'[o] = row[o]
        /\ row'[s].state \notin Leased => turn'[s] = Unanswered(turn[s])
    BY <1>8, <1>t DEF Sweep, AfterRecovery
  <2>. QED
    BY <2>1, <1>g, <1>u DEF Undisturbed, TurnsReleased
<1>9. ASSUME UNCHANGED row PROVE Undisturbed /\ TurnsReleased
  BY <1>1, <1>9
<1>10. CASE Request
  BY <1>2, <1>3, <1>4, <1>5, <1>9, <1>10 DEF Request, ChangeScope
<1>11. CASE Connection
  BY <1>1, <1>6, <1>7, <1>9, <1>11, HeldStep
  DEF Connection, FenceLost, Drop, Unwind, Terminate, EndCall, Crash
<1>12. ASSUME \/ \E x \in TextTurn, c \in Conversation : TextAdmit(x, c)
              \/ \E x \in TextTurn, outcome \in {"completed", "failed"} : TextFinish(x, outcome)
              \/ Tick \/ UNCHANGED vars
       PROVE  Undisturbed /\ TurnsReleased
  BY <1>1, <1>9, <1>12, HeldStep DEF TextAdmit, TextFinish, vars
<1>. QED
  BY <1>8, <1>10, <1>11, <1>12 DEF Next

\* The fence holds for any number of connections, crashes and reconnects: no two
\* connections share a ticket or a generation, a good lease is not disturbed, a
\* session keeps its conversation, and whoever fences a connection settles its turn.
THEOREM FenceIsSafe == Spec => FencingHolds
<1>1. FInv /\ CInv => FencingTokensDistinct /\ ConversationOfActor
  BY DEF FInv, CInv
<1>2. SInv => TInv /\ LInv
  BY DEF SInv
<1>3. SInv /\ [Next]_vars =>
        [\A s \in Session :
           /\ row[s].state = "connected" /\ row[s].leaseLeft > 0
           /\ row[s].lifeLeft > 0 /\ access[row[s].actor]
           /\ row'[s].owner # row[s].owner
           => \/ conn[row[s].owner].phase = "closing" /\ conn'[row[s].owner].phase = "gone"
              \/ row'[s].state = "revoked"]_vars
  BY <1>2, FenceStep DEF Undisturbed, Good
<1>4. SInv /\ [Next]_vars =>
        [\A s \in Session : row[s].conversation # None =>
           row'[s].conversation = row[s].conversation]_vars
  BY BindingStep DEF BindingKept
<1>5. SInv /\ [Next]_vars =>
        [\A s \in Session :
           row[s].state \in Leased /\ row'[s].state \notin Leased
             => \/ \A i \in Item : turn'[s][i].state # "streaming"
                \/ ReconnectRefused(s)]_vars
  BY <1>2, FenceStep DEF TurnsReleased
<1>6. Init => SInv /\ FInv /\ CInv
  BY SInvInit, FInvInit, CInvInit
<1>7. SInv /\ FInv /\ CInv /\ [Next]_vars => SInv' /\ FInv' /\ CInv'
  BY <1>2, SInvNext, FInvNext, CInvNext
<1>. QED
  BY <1>1, <1>3, <1>4, <1>5, <1>6, <1>7, PTL
  DEF Spec, FencingHolds, LeaseHolderUndisturbed, BindingStable, FencingReleasesTurns

-----------------------------------------------------------------------------
\* Who answers a live turn.  Only a bridging connection plays an output.

Idle == \A w \in Owner : conn[w].output # None => conn[w].phase = "bridging"

OInv == Idle /\ BusyTurnHasOwner /\ OutputIsMine

LEMMA OInvInit == Init => OInv
BY DEF Init, NoConn, OInv, Idle, BusyTurnHasOwner, OutputIsMine

\* The rows are left, held or dropped; a row that is dropped is left with no turn
\* open, or with a session that ended; connections go on or give their output up.
Quiet ==
  /\ \A s \in Session :
       \/ row'[s] = row[s] \/ Held(row'[s], row[s])
       \/ /\ Dropped(row'[s], row[s])
          /\ row'[s].state = "ended" \/ \A i \in Item : turn'[s][i].state # "streaming"
  /\ \A s \in Session : turn'[s] = turn[s] \/ (turn'[s] = Unanswered(turn[s])
                                               /\ row'[s].state \notin Leased)
  /\ \A w \in Owner :
       \/ conn'[w] = conn[w]
       \/ /\ conn'[w].output = None /\ conn[w].output = None
       \/ conn'[w].output = None /\ conn'[w].phase \in {"closing", "gone"}
  /\ ConnKept

LEMMA QuietKeeps ==
  ASSUME TInv, OInv, Quiet
  PROVE  OInv'
<1>t. /\ row \in [Session -> Row] /\ conn \in [Owner -> Conn]
      /\ turn \in [Session -> [Item -> Turn]] /\ Serving
  BY DEF TInv, TypeOK
<1>1. Idle'
  BY DEF OInv, Idle, Quiet
<1>2. \A s \in Session, i \in Item : turn'[s][i].state = "streaming" => turn'[s][i] = turn[s][i]
  BY <1>t, UnansweredKeeps DEF Quiet
<1>3. BusyTurnHasOwner'
  BY <1>2 DEF OInv, BusyTurnHasOwner, Quiet, Held, Dropped, Leased
<1>4. OutputIsMine'
  <2>. SUFFICES ASSUME NEW w \in Owner, conn'[w].phase \in {"bridging", "ending"},
                       conn'[w].output # None, Fenced(w)'
       PROVE  turn'[conn'[w].session][conn'[w].output] = [state |-> "streaming", claim |-> w]
    BY DEF OutputIsMine
  <2>. DEFINE s == conn[w].session
  <2>1. conn'[w] = conn[w]
    BY DEF Quiet
  <2>2. s \in Session /\ conn[w].output \in Item
    BY <2>1, <1>t DEF Serving, InSession, Conn
  <2>3. row'[s].owner = w /\ row'[s].generation = conn[w].generation
        /\ row'[s].state \in Leased /\ row'[s].leaseLeft > 0
    BY <2>1 DEF Fenced
  <2>4. ~Dropped(row'[s], row[s])
    BY <2>3 DEF Dropped, TERMINAL, Leased
  <2>5. Fenced(w)
    BY <2>2, <2>3, <2>4 DEF Quiet, Held, Fenced, Leased
  <2>6. turn'[s] = turn[s]
    BY <2>2, <2>3 DEF Quiet
  <2>. QED
    BY <2>1, <2>5, <2>6 DEF OInv, OutputIsMine
<1>. QED
  BY <1>1, <1>3, <1>4 DEF OInv

\* What happens over HTTP and in the sweeper is quiet, Authorize and Reconnect apart.
LEMMA RequestQuiet ==
  ASSUME TInv, LInv, OInv,
         \/ \E s \in Session : ReconnectRefused(s) \/ Sweep(s)
         \/ \E a \in Actor : ChangeScope(a) \/ \E keeps \in BOOLEAN : Revoke(a, keeps)
         \/ \E w \in Owner : CloseOwned(w)
  PROVE  Quiet
<1>t. /\ row \in [Session -> Row] /\ conn \in [Owner -> Conn]
      /\ turn \in [Session -> [Item -> Turn]] /\ Serving
  BY DEF TInv, TypeOK
<1>u. \A s \in Session, i \in Item : Unanswered(turn[s])[i].state # "streaming"
  BY <1>t, UnansweredKeeps
<1>1. ASSUME NEW s \in Session, ReconnectRefused(s) PROVE Quiet
  <2>1. /\ row' = [row EXCEPT ![s] = Recover(row[s])] /\ UNCHANGED <<turn, conn>>
        /\ Recover(row[s]).state # "reconnecting"
    BY <1>1 DEF ReconnectRefused
  <2>2. Recover(row[s]) = row[s] \/ (Dropped(Recover(row[s]), row[s])
                                      /\ Recover(row[s]).state = "ended")
    BY <2>1, <1>t, RecoverShape
  <2>. QED
    BY <2>1, <2>2, <1>t DEF Quiet, ConnKept
<1>2. ASSUME NEW s \in Session, Sweep(s) PROVE Quiet
  <2>1. /\ row' = [row EXCEPT ![s] = Recover(row[s])] /\ UNCHANGED conn
        /\ turn' = [turn EXCEPT ![s] = AfterRecovery(s)]
    BY <1>2 DEF Sweep
  <2>2. Recover(row[s]) = row[s] \/ Dropped(Recover(row[s]), row[s])
    BY <1>t, RecoverShape
  <2>3. IF Recover(row[s]).state \in Leased THEN AfterRecovery(s) = turn[s]
        ELSE AfterRecovery(s) = Unanswered(turn[s])
    BY DEF AfterRecovery
  <2>4. Dropped(Recover(row[s]), row[s]) => Recover(row[s]).state \notin Leased
    BY DEF Dropped, TERMINAL, Leased
  <2>. QED
    BY <2>1, <2>2, <2>3, <2>4, <1>t, <1>u DEF Quiet, ConnKept
<1>3. ASSUME NEW a \in Actor, NEW keeps \in BOOLEAN, Revoke(a, keeps) PROVE Quiet
  <2>1. \A o \in ActiveOf(a) : /\ Dropped(Finish(row[o], "revoked"), row[o])
                              /\ Finish(row[o], "revoked").state \notin Leased
    BY <1>t, DropShape DEF ActiveOf, TERMINAL, Finish, Leased
  <2>2. \A o \in Session :
          \/ row'[o] = row[o] /\ turn'[o] = turn[o]
          \/ /\ Dropped(row'[o], row[o]) /\ row'[o].state \notin Leased
             /\ turn'[o] = Unanswered(turn[o])
    BY <1>3, <2>1 DEF Revoke
  <2>3. UNCHANGED conn
    BY <1>3 DEF Revoke
  <2>. QED
    BY <2>2, <2>3, <1>u DEF Quiet, ConnKept
<1>4. ASSUME NEW w \in Owner, CloseOwned(w) PROVE Quiet
  <2>. DEFINE s == conn[w].session
              r == row[s]
  <2>1. s \in Session
    BY <1>4, <1>t DEF CloseOwned, Serving, InSession
  <2>2. /\ conn' = [conn EXCEPT ![w] = Gone(conn[w])] /\ ConnKept
        /\ Gone(conn[w]).output = None /\ Gone(conn[w]).phase = "gone"
    BY <1>4, <1>t DEF CloseOwned, Gone, Left, ConnKept
  <2>3. CASE ~Closes(w)
    BY <1>4, <2>2, <2>3, <1>t DEF CloseOwned, Quiet
  <2>4. CASE Closes(w)
    <3>1. r \in Row /\ r.state \in ACTIVE
      BY <2>1, <2>4, <1>t DEF LInv, OwnerLeased, Closes, ACTIVE
    <3>2. \A reason : TerminalOf(reason) \in TERMINAL
      BY DEF TerminalOf, TERMINAL
    <3>3. \E q : Dropped(q, r) /\ row' = [row EXCEPT ![s] = q]
      BY <1>4, <2>4, <3>1, <3>2, DropShape DEF CloseOwned
    <3>4. turn' = [turn EXCEPT ![s] = Unanswered(turn[s])]
      BY <1>4, <2>4 DEF CloseOwned
    <3>5. Dropped(row'[s], r) => row'[s].state \notin Leased
      BY DEF Dropped, TERMINAL, Leased
    <3>. QED
      BY <2>1, <2>2, <3>3, <3>4, <3>5, <1>t, <1>u DEF Quiet
  <2>. QED
    BY <2>3, <2>4
<1>5. ASSUME NEW a \in Actor, ChangeScope(a) PROVE Quiet
  BY <1>5 DEF ChangeScope, Quiet, ConnKept
<1>. QED
  BY <1>1, <1>2, <1>3, <1>4, <1>5

\* So is what a connection does, but for consuming, admitting and terminating.
LEMMA ConnectionQuiet ==
  ASSUME TInv, LInv, OInv, NEW w \in Owner,
         \/ Ready(w) \/ Heartbeat(w) \/ FenceLost(w) \/ EndCall(w) \/ Crash(w)
         \/ \E reason \in {"transport", "failed", "ended"} : Drop(w, reason)
  PROVE  Quiet
<1>t. /\ row \in [Session -> Row] /\ conn \in [Owner -> Conn] /\ Serving
  BY DEF TInv, TypeOK
<1>1. ASSUME NEW phase \in {"closing", "gone"}, NEW reason, UNCHANGED <<row, turn>>,
             conn' = [conn EXCEPT ![w] = Left(conn[w], phase, reason)]
      PROVE  Quiet
  <2>1. /\ Left(conn[w], phase, reason).output = None
        /\ Left(conn[w], phase, reason).phase \in {"closing", "gone"}
        /\ Left(conn[w], phase, reason).session = conn[w].session
        /\ Left(conn[w], phase, reason).generation = conn[w].generation
        /\ Left(conn[w], phase, reason).ticket = conn[w].ticket
    BY DEF Left
  <2>2. ConnKept
    BY <1>1, <2>1, <1>t DEF ConnKept
  <2>. QED
    BY <1>1, <2>1, <2>2, <1>t DEF Quiet
<1>2. CASE FenceLost(w) \/ Crash(w) \/ \E reason \in {"transport", "failed", "ended"} : Drop(w, reason)
  BY <1>1, <1>2 DEF FenceLost, Drop, Unwind, Crash, Gone
<1>3. CASE Ready(w) \/ EndCall(w)
  <2>1. /\ \A s \in Session : row'[s] = row[s] \/ Held(row'[s], row[s])
        /\ UNCHANGED turn
    BY <1>3, HeldStep DEF Ready, EndCall
  <2>2. conn[w].output = None
    BY <1>3 DEF Ready, EndCall, OInv, Idle
  <2>3. \E phase : conn' = [conn EXCEPT ![w].phase = phase]
    BY <1>3 DEF Ready, EndCall
  <2>4. /\ conn'[w].output = None /\ ConnKept
        /\ \A v \in Owner : v # w => conn'[v] = conn[v]
    BY <2>2, <2>3, <1>t DEF ConnKept, Conn
  <2>. QED
    BY <2>1, <2>2, <2>4 DEF Quiet
<1>4. CASE Heartbeat(w)
  <2>1. (\A s \in Session : Held(row'[s], row[s])) /\ UNCHANGED <<turn, conn>>
    BY <1>4, HeldStep DEF Heartbeat
  <2>. QED
    BY <2>1 DEF Quiet, ConnKept
<1>. QED
  BY <1>2, <1>3, <1>4

\* A row that no connection leases any more.
LEMMA WakeKeeps ==
  ASSUME TInv, OInv, UNCHANGED conn,
         \A s \in Session :
           \/ row'[s] = row[s] /\ turn'[s] = turn[s]
           \/ /\ row'[s].state \notin Leased
              /\ \A i \in Item : turn'[s][i].state # "streaming"
  PROVE  OInv'
<1>t. conn \in [Owner -> Conn] /\ Serving
  BY DEF TInv, TypeOK
<1>1. Idle'
  BY DEF OInv, Idle
<1>2. BusyTurnHasOwner'
  BY DEF OInv, BusyTurnHasOwner
<1>3. OutputIsMine'
  BY <1>t DEF OInv, OutputIsMine, Fenced, Serving, InSession
<1>. QED
  BY <1>1, <1>2, <1>3 DEF OInv

LEMMA AuthorizeOutput ==
  ASSUME TInv, OInv, NEW a \in Actor, NEW s \in Session, NEW c \in Conversation \cup {None},
         Authorize(a, s, c)
  PROVE  OInv'
<1>t. row \in [Session -> Row] /\ turn \in [Session -> [Item -> Turn]]
  BY DEF TInv, TypeOK
<1>1. /\ row'[s].state = "authorized" /\ row[s].state = "absent" /\ UNCHANGED conn
      /\ s \notin ActiveOf(a)
  BY DEF Authorize, Created, Ticketed, ActiveOf, ACTIVE, Leased
<1>2. \A i \in Item : turn'[s][i].state # "streaming"
  <2>1. turn'[s] = turn[s]
    BY <1>1 DEF Authorize
  <2>. QED
    BY <1>1, <2>1 DEF OInv, BusyTurnHasOwner
<1>3. \A o \in ActiveOf(a) : /\ row'[o].state \notin Leased
                            /\ \A i \in Item : turn'[o][i].state # "streaming"
  BY <1>1, <1>t, UnansweredKeeps DEF Authorize, SlotFree, ActiveOf, ACTIVE
<1>4. \A o \in Session : o # s /\ o \notin ActiveOf(a) => row'[o] = row[o] /\ turn'[o] = turn[o]
  BY DEF Authorize
<1>. QED
  BY <1>1, <1>2, <1>3, <1>4, WakeKeeps DEF Leased

LEMMA ReconnectOutput ==
  ASSUME TInv, OInv, NEW s \in Session, Reconnect(s)
  PROVE  OInv'
<1>t. row \in [Session -> Row] /\ turn \in [Session -> [Item -> Turn]]
  BY DEF TInv, TypeOK
<1>. DEFINE r == Recover(row[s])
            q == [r EXCEPT !.generation = r.generation + 1]
<1>1. q.state = "reconnecting"
  BY <1>t, RecoverType DEF Reconnect, Row
<1>2. row' = [row EXCEPT ![s] = Ticketed(q)] /\ UNCHANGED conn
      /\ turn' = [turn EXCEPT ![s] = Unanswered(turn[s])]
  BY DEF Reconnect
<1>. HIDE DEF q
<1>3. Ticketed(q).state = "reconnecting"
  BY <1>1 DEF Ticketed
<1>. QED
  BY <1>2, <1>3, <1>t, UnansweredKeeps, WakeKeeps DEF Leased

LEMMA ConsumeOutput ==
  ASSUME TInv, OInv, NEW w \in Owner, NEW s \in Session, NEW k \in 0..MaxGen, Consume(w, s, k)
  PROVE  OInv'
<1>t. row \in [Session -> Row] /\ conn \in [Owner -> Conn] /\ Serving
  BY DEF TInv, TypeOK
<1>1. /\ row[s].state \in {"authorized", "reconnecting"} /\ UNCHANGED turn
      /\ row'[s].owner = w /\ \A o \in Session : o # s => row'[o] = row[o]
      /\ conn'[w].output = None /\ \A v \in Owner : v # w => conn'[v] = conn[v]
  BY <1>t DEF Consume, Consumable, Taken
<1>2. \A i \in Item : turn[s][i].state # "streaming"
  BY <1>1 DEF OInv, BusyTurnHasOwner
<1>3. Idle' /\ BusyTurnHasOwner'
  BY <1>1, <1>2 DEF OInv, Idle, BusyTurnHasOwner
<1>4. OutputIsMine'
  BY <1>1, <1>t DEF OInv, OutputIsMine, Fenced, Serving, InSession
<1>. QED
  BY <1>3, <1>4 DEF OInv

\* A connection that plays an output admits nothing: its turn keeps the
\* conversation busy.
LEMMA AdmitIdle ==
  ASSUME SInv, OInv, NEW w \in Owner, NEW i \in Item, NEW c \in Conversation, Admit(w, i, c)
  PROVE  conn[w].output = None
<1>. SUFFICES ASSUME conn[w].output # None PROVE FALSE
  OBVIOUS
<1>. DEFINE s == conn[w].session
            j == conn[w].output
<1>t. conn \in [Owner -> Conn] /\ Serving /\ LiveTurnAlone
  BY DEF SInv, TInv, TypeOK
<1>f. Fenced(w) /\ conn[w].phase \in {"bridging", "ending"}
  BY DEF Admit, Holds
<1>c. conn[w] \in Conn
  BY <1>t
<1>1. s \in Session /\ j \in Item
  BY <1>f, <1>c, <1>t DEF Serving, InSession, Conn
<1>2. turn[s][j].state = "streaming"
  <2>1. OutputIsMine
    BY DEF OInv
  <2>2. turn[s][j] = [state |-> "streaming", claim |-> w]
    BY <1>f, <2>1 DEF OutputIsMine
  <2>. QED
    BY <2>2
<1>3. row[s].conversation # None
  BY <1>1, <1>2, <1>t DEF LiveTurnAlone
<1>. QED
  BY <1>1, <1>2, <1>3 DEF Admit, Target, Busy, LiveBusy

LEMMA AdmitOutput ==
  ASSUME SInv, OInv, NEW w \in Owner, NEW i \in Item, NEW c \in Conversation, Admit(w, i, c)
  PROVE  OInv'
<1>. DEFINE s == conn[w].session
<1>t. /\ row \in [Session -> Row] /\ conn \in [Owner -> Conn] /\ Serving
      /\ turn \in [Session -> [Item -> Turn]] /\ TInv /\ s \in Session
  BY DEF SInv, TInv, TypeOK, Serving, InSession, Admit
<1>1. conn[w].output = None
  BY AdmitIdle
<1>h. \A o \in Session : Held(row'[o], row[o])
  BY <1>t, HeldStep
<1>2. /\ row[s].owner = w /\ row[s].state = "connected" /\ turn[s][i].state = "none"
      /\ turn'[s][i] = [state |-> "streaming", claim |-> w]
      /\ \A o \in Session, j \in Item : o # s \/ j # i => turn'[o][j] = turn[o][j]
  BY <1>t DEF Admit, Holds, Fenced
<1>3. /\ ConnKept /\ \A v \in Owner : v # w => conn'[v] = conn[v]
      /\ conn'[w].phase = conn[w].phase
      /\ conn'[w].output = (IF conn[w].phase = "bridging" THEN i ELSE None)
  BY <1>1, <1>t DEF Admit, ConnKept, Conn
<1>4. Idle'
  BY <1>3 DEF OInv, Idle
<1>5. BusyTurnHasOwner'
  <2>. SUFFICES ASSUME NEW o \in Session, NEW j \in Item, turn'[o][j].state = "streaming"
       PROVE  \/ row'[o].state = "connected" /\ row'[o].owner = turn'[o][j].claim
              \/ row'[o].state = "ended"
    BY DEF BusyTurnHasOwner
  <2>1. CASE o = s /\ j = i
    BY <2>1, <1>2, <1>h DEF Held
  <2>2. CASE o # s \/ j # i
    BY <2>2, <1>2, <1>h DEF Held, OInv, BusyTurnHasOwner, Leased
  <2>. QED
    BY <2>1, <2>2
<1>6. OutputIsMine'
  <2>. SUFFICES ASSUME NEW v \in Owner, conn'[v].phase \in {"bridging", "ending"},
                       conn'[v].output # None, Fenced(v)'
       PROVE  turn'[conn'[v].session][conn'[v].output] = [state |-> "streaming", claim |-> v]
    BY DEF OutputIsMine
  <2>1. CASE v = w
    BY <2>1, <1>2, <1>3 DEF ConnKept
  <2>2. CASE v # w
    <3>1. conn'[v] = conn[v] /\ conn[v].session \in Session /\ conn[v].output \in Item
      BY <2>2, <1>3, <1>t DEF Serving, InSession, Conn
    <3>2. Fenced(v)
      BY <3>1, <1>h DEF Fenced, Held
    <3>3. turn[conn[v].session][conn[v].output] = [state |-> "streaming", claim |-> v]
      BY <3>1, <3>2 DEF OInv, OutputIsMine
    <3>4. turn'[conn[v].session][conn[v].output] = turn[conn[v].session][conn[v].output]
      BY <3>1, <3>3, <1>2
    <3>. QED
      BY <3>1, <3>3, <3>4
  <2>. QED
    BY <2>1, <2>2
<1>. QED
  BY <1>4, <1>5, <1>6 DEF OInv

LEMMA TerminateOutput ==
  ASSUME TInv, OInv, NEW w \in Owner, NEW outcome \in {"completed", "interrupted"},
         Terminate(w, outcome)
  PROVE  OInv' /\ conn'[w].output = None /\ \A v \in Owner : v # w => conn'[v] = conn[v]
<1>. DEFINE s == conn[w].session
            i == conn[w].output
            v == IF turn[s][i].state = "streaming" THEN outcome ELSE turn[s][i].state
<1>t. /\ conn \in [Owner -> Conn] /\ Serving /\ turn \in [Session -> [Item -> Turn]]
  BY DEF TInv, TypeOK
<1>1. s \in Session /\ i \in Item /\ turn[s][i].claim = w /\ UNCHANGED row
  BY <1>t DEF Terminate, Serving, InSession, Conn
<1>2. turn' = [turn EXCEPT ![s][i] = [turn[s][i] EXCEPT !.state = v]]
  BY <1>1, <1>t DEF Terminate
<1>3. [turn[s][i] EXCEPT !.state = v].state # "streaming"
  BY <1>1, <1>t DEF Turn
<1>4. /\ turn'[s][i].state # "streaming"
      /\ \A o \in Session, j \in Item : o # s \/ j # i => turn'[o][j] = turn[o][j]
  BY <1>1, <1>2, <1>3, <1>t
<1>5. conn'[w].output = None /\ ConnKept /\ \A u \in Owner : u # w => conn'[u] = conn[u]
  BY <1>t DEF Terminate, ConnKept, Conn
<1>. HIDE DEF v
<1>6. Idle' /\ BusyTurnHasOwner'
  BY <1>1, <1>4, <1>5 DEF OInv, Idle, BusyTurnHasOwner
<1>7. OutputIsMine'
  <2>. SUFFICES ASSUME NEW u \in Owner, conn'[u].phase \in {"bridging", "ending"},
                       conn'[u].output # None, Fenced(u)'
       PROVE  turn'[conn'[u].session][conn'[u].output] = [state |-> "streaming", claim |-> u]
    BY DEF OutputIsMine
  <2>1. u # w /\ conn'[u] = conn[u] /\ conn[u].session \in Session /\ conn[u].output \in Item
    BY <1>5, <1>t DEF Serving, InSession, Conn
  <2>2. Fenced(u)
    BY <2>1, <1>1 DEF Fenced
  <2>3. turn[conn[u].session][conn[u].output] = [state |-> "streaming", claim |-> u]
    BY <2>1, <2>2 DEF OInv, OutputIsMine
  <2>4. ~(conn[u].session = s /\ conn[u].output = i)
    BY <2>1, <2>3, <1>1
  <2>. QED
    BY <2>1, <2>3, <2>4, <1>4
<1>. QED
  BY <1>5, <1>6, <1>7 DEF OInv

\* An output is only ever replaced by none.
OutputKept == \A w \in Owner : conn[w].output # None => conn'[w].output \in {conn[w].output, None}

LEMMA OutputStep == SInv /\ OInv /\ [Next]_vars => OInv' /\ OutputKept
<1>. SUFFICES ASSUME SInv, OInv, [Next]_vars PROVE OInv' /\ OutputKept
  OBVIOUS
<1>t. /\ TInv /\ LInv /\ conn \in [Owner -> Conn]
  BY DEF SInv, TInv, TypeOK
<1>1. ASSUME Quiet PROVE OInv' /\ OutputKept
  BY <1>1, <1>t, QuietKeeps DEF Quiet, OutputKept
<1>2. ASSUME UNCHANGED conn PROVE OutputKept
  BY <1>2 DEF OutputKept
<1>3. CASE Request
  BY <1>1, <1>2, <1>3, <1>t, RequestQuiet, AuthorizeOutput, ReconnectOutput
  DEF Request, Authorize, Reconnect
<1>4. CASE Connection
  <2>1. ASSUME NEW w \in Owner, NEW s \in Session, NEW k \in 0..MaxGen, Consume(w, s, k)
        PROVE  OutputKept
    BY <2>1, <1>t DEF Consume, OInv, Idle, OutputKept
  <2>2. ASSUME NEW w \in Owner, NEW i \in Item, NEW c \in Conversation, Admit(w, i, c)
        PROVE  OutputKept
    <3>1. conn[w].output = None
      BY <2>2, AdmitIdle
    <3>. QED
      BY <2>2, <3>1, <1>t DEF Admit, OutputKept
  <2>3. ASSUME NEW w \in Owner, NEW outcome \in {"completed", "interrupted"}, Terminate(w, outcome)
        PROVE  OutputKept
    BY <2>3, <1>t, TerminateOutput DEF OutputKept
  <2>. QED
    <3>1. ASSUME NEW w \in Owner,
                 \/ \E s \in Session, k \in 0..MaxGen : Consume(w, s, k)
                 \/ \E i \in Item, c \in Conversation : Admit(w, i, c)
                 \/ \E outcome \in {"completed", "interrupted"} : Terminate(w, outcome)
          PROVE  OInv' /\ OutputKept
      BY <3>1, <1>t, <2>1, <2>2, <2>3, ConsumeOutput, AdmitOutput, TerminateOutput
    <3>2. ASSUME NEW w \in Owner, CloseOwned(w) PROVE OInv' /\ OutputKept
      BY <3>2, <1>1, <1>t, RequestQuiet
    <3>3. ASSUME NEW w \in Owner,
                 \/ Ready(w) \/ Heartbeat(w) \/ FenceLost(w) \/ EndCall(w) \/ Crash(w)
                 \/ \E reason \in {"transport", "failed", "ended"} : Drop(w, reason)
          PROVE  OInv' /\ OutputKept
      BY <3>3, <1>1, <1>t, ConnectionQuiet
    <3>. QED
      BY <1>4, <3>1, <3>2, <3>3 DEF Connection
<1>5. ASSUME \/ \E x \in TextTurn, c \in Conversation : TextAdmit(x, c)
             \/ \E x \in TextTurn, outcome \in {"completed", "failed"} : TextFinish(x, outcome)
             \/ UNCHANGED vars
      PROVE  Quiet
  BY <1>5 DEF TextAdmit, TextFinish, vars, Quiet, ConnKept
<1>6. CASE Tick
  <2>1. (\A s \in Session : Held(row'[s], row[s])) /\ UNCHANGED <<turn, conn>>
    BY <1>6, <1>t, HeldStep DEF Tick
  <2>2. Quiet
    BY <2>1 DEF Quiet, ConnKept
  <2>. QED
    BY <1>1, <2>2
<1>7. ASSUME NEW s \in Session, Sweep(s) PROVE Quiet
  BY <1>7, <1>t, RequestQuiet
<1>. QED
  BY <1>1, <1>3, <1>4, <1>5, <1>6, <1>7 DEF Next

\* A live turn that waits for its answer has a connection that leases its session
\* and plays it, unless reconnect refused and closed the session; no other
\* connection settles it, and no later utterance replaces it.
THEOREM OutputIsSafe == Spec => OutputHolds
<1>1. OInv => BusyTurnHasOwner /\ OutputIsMine
  BY DEF OInv
<1>2. SInv /\ OInv /\ [Next]_vars =>
        [\A w \in Owner : conn[w].output # None => conn'[w].output \in {conn[w].output, None}]_vars
  BY OutputStep DEF OutputKept
<1>3. SInv /\ OInv /\ [Next]_vars => SInv' /\ OInv'
  BY SInvNext, OutputStep
<1>. QED
  BY <1>1, <1>2, <1>3, SInvInit, OInvInit, PTL DEF Spec, OutputHolds, OutputNotOverwritten
=============================================================================
