-------------------------- MODULE Terminal_proofs --------------------------
(***************************************************************************)
(* Safety of the web terminal, for any number of browsers and connections. *)
(***************************************************************************)
EXTENDS Terminal, TLAPS

\* The types of the session variables alone, which most of the steps share.
SessionTypes ==
  /\ sessions \subseteq Browser
  /\ endStep \in [Browser -> {"none", "tell", "record", "over"}]
  /\ outcome \in [Browser -> Ended \cup {"none"}]
  /\ endedBy \in [Browser -> Conn \cup {NoConn}]
  /\ rows \in [Browser -> Ended \cup {"none", "active"}]

\* endSession keeps the types if it is called with a status of the table.
LEMMA BeginsTypes ==
  ASSUME NEW S, NEW status \in Ended, NEW tells \in BOOLEAN,
         NEW thread \in Conn \cup {NoConn},
         SessionTypes, Begins(S, status, tells, thread), rows' = rows
  PROVE  SessionTypes'
<1>1. sessions' \subseteq Browser
  BY DEF SessionTypes, Begins
<1>2. endStep' \in [Browser -> {"none", "tell", "record", "over"}]
  BY DEF SessionTypes, Begins
<1>3. outcome' \in [Browser -> Ended \cup {"none"}]
  BY DEF SessionTypes, Begins
<1>4. endedBy' \in [Browser -> Conn \cup {NoConn}]
  BY DEF SessionTypes, Begins
<1>. QED BY <1>1, <1>2, <1>3, <1>4 DEF SessionTypes

\* What endSession does: the sessions it begins with leave the map, others
\* are left alone.
LEMMA BeginsEffect ==
  ASSUME NEW S \in SUBSET Browser, NEW status, NEW tells \in BOOLEAN, NEW thread,
         SessionTypes, Begins(S, status, tells, thread)
  PROVE  /\ sessions' \subseteq sessions
         /\ \A b \in Browser :
              \/ endStep'[b] = endStep[b] /\ (b \in sessions' <=> b \in sessions)
                   /\ (b \in S => endStep[b] # "none")
              \/ b \in S /\ endStep[b] = "none" /\ b \notin sessions'
                   /\ endStep'[b] \in {"tell", "record"}
BY DEF SessionTypes, Begins

\* Sending appends one message or none; receiving takes the first.
LEMMA SendsEffect ==
  ASSUME NEW c \in Conn, NEW m \in Message,
         down \in [Conn -> Seq(Message)], Sends(c, m)
  PROVE  /\ down' \in [Conn -> Seq(Message)]
         /\ \A x \in Conn : x # c => down'[x] = down[x]
         /\ down'[c] = down[c] \/ down'[c] = Append(down[c], m)
BY DEF Sends

LEMMA SendsType ==
  ASSUME NEW c \in Conn \cup {NoConn}, NEW m \in Message,
         down \in [Conn -> Seq(Message)], Sends(c, m)
  PROVE  down' \in [Conn -> Seq(Message)]
<1>1. CASE c \in Conn
  BY <1>1, SendsEffect
<1>2. CASE c = NoConn
  <2>1. [down EXCEPT ![c] = Append(@, m)] = down
    BY <1>2, TerminalAssumption
  <2>. QED BY <2>1 DEF Sends
<1>. QED BY <1>1, <1>2

LEMMA AnswersEffect ==
  ASSUME NEW c \in Conn, NEW m \in Message,
         up \in [Conn -> Seq(Message)], Answers(c, m)
  PROVE  up' \in [Conn -> Seq(Message)]
BY DEF Answers

LEMMA ReceivesEffect ==
  ASSUME NEW c \in Conn, NEW type, down \in [Conn -> Seq(Message)], Receives(c, type)
  PROVE  /\ down' \in [Conn -> Seq(Message)]
         /\ \A x \in Conn : x # c => down'[x] = down[x]
         /\ down[c] # <<>> /\ down'[c] = Tail(down[c])
         /\ Head(down[c]) \in Message /\ Head(down[c]).session \in Browser
<1>1. down[c] \in Seq(Message) /\ down[c] # <<>>
  BY DEF Receives
<1>2. Head(down[c]) \in Message /\ Tail(down[c]) \in Seq(Message)
  BY <1>1
<1>. QED BY <1>1, <1>2 DEF Receives, Message

LEMMA MessageTypes ==
  ASSUME NEW b \in Browser
  PROVE  /\ Start(b) \in Message /\ Close(b) \in Message
         /\ Error(b) \in Message /\ Exit(b) \in Message
BY DEF Message, Start, Close, Error, Exit
-----------------------------------------------------------------------------
(* Types.                                                                  *)

LEMMA TypesOfSession == TypeOK => SessionTypes
BY DEF TypeOK, SessionTypes

\* A browser's steps.
LEMMA TypeOfBrowserStep ==
  ASSUME TypeOK, NEW b \in Browser, BrowserStep(b)
  PROVE  TypeOK'
<1>s. SessionTypes
  BY TypesOfSession
<1>m. Start(b) \in Message /\ Close(b) \in Message
  BY MessageTypes
<1>n. NoConn \in Conn \cup {NoConn}
  OBVIOUS
<1>1. CASE GetsTicket(b)
  BY <1>1 DEF TypeOK, GetsTicket, sessionVars, connVars, shellVars
<1>2. CASE Redeems(b)
  <2>1. tickets' \subseteq Browser
    BY <1>2 DEF TypeOK, Redeems
  <2>2. stage' \in [Browser -> {"idle", "ticketed", "checked", "created", "mapped",
                               "relaying", "unheard", "done"}]
    <3>1. stage' = [stage EXCEPT ![b] = "checked"] \/ stage' = [stage EXCEPT ![b] = "done"]
      BY <1>2 DEF Redeems
    <3>. QED BY <3>1 DEF TypeOK
  <2>3. peerOf' \in [Browser -> Conn \cup {NoConn}]
    <3>1. peerOf' = peerOf \/ peerOf' = [peerOf EXCEPT ![b] = hubAgent]
      BY <1>2 DEF Redeems
    <3>. QED BY <3>1 DEF TypeOK
  <2>. QED BY <1>2, <2>1, <2>2, <2>3 DEF TypeOK, Redeems, sessionVars, connVars, shellVars
<1>3. CASE CreatesRow(b)
  <2>1. rows' \in [Browser -> Ended \cup {"none", "active"}]
    <3>1. rows' = rows \/ rows' = [rows EXCEPT ![b] = "active"]
      BY <1>3 DEF CreatesRow
    <3>. QED BY <3>1 DEF TypeOK
  <2>2. stage' \in [Browser -> {"idle", "ticketed", "checked", "created", "mapped",
                               "relaying", "unheard", "done"}]
    <3>1. \E s \in {"created", "unheard", "done"} : stage' = [stage EXCEPT ![b] = s]
      BY <1>3 DEF CreatesRow
    <3>. QED BY <3>1 DEF TypeOK
  <2>. QED BY <1>3, <2>1, <2>2 DEF TypeOK, CreatesRow, connVars, shellVars
<1>4. CASE EntersMap(b)
  BY <1>4 DEF TypeOK, EntersMap, connVars, shellVars
<1>5. CASE WritesStart(b)
  <2>1. SessionTypes'
    <3>1. CASE UNCHANGED sessionVars
      BY <1>s, <3>1 DEF SessionTypes, sessionVars
    <3>2. CASE Begins({b}, "agent_disconnected", FALSE, NoConn) /\ rows' = rows
      <4>1. "agent_disconnected" \in Ended
        BY DEF Ended
      <4>. QED BY <1>s, <1>n, <3>2, <4>1, BeginsTypes
    <3>. QED BY <1>5, <3>1, <3>2 DEF WritesStart
  <2>3. down' \in [Conn -> Seq(Message)]
    <3>1. Sends(peerOf[b], Start(b)) /\ peerOf[b] \in Conn \cup {NoConn}
      BY <1>5 DEF TypeOK, WritesStart
    <3>. QED BY <1>m, <3>1, SendsType DEF TypeOK
  <2>4. stage' \in [Browser -> {"idle", "ticketed", "checked", "created", "mapped",
                               "relaying", "unheard", "done"}]
    <3>1. stage' = [stage EXCEPT ![b] = "relaying"] \/ stage' = [stage EXCEPT ![b] = "done"]
      BY <1>5 DEF WritesStart
    <3>. QED BY <3>1 DEF TypeOK
  <2>. QED
    BY <1>5, <2>1, <2>3, <2>4 DEF TypeOK, SessionTypes, WritesStart, connVars, shellVars
<1>6. CASE Leaves(b)
  <2>1. SessionTypes'
    <3>1. "closed" \in Ended
      BY DEF Ended
    <3>2. Begins({b}, "closed", TRUE, NoConn) /\ rows' = rows
      BY <1>6 DEF Leaves
    <3>. QED BY <1>s, <1>n, <3>1, <3>2, BeginsTypes
  <2>. QED BY <1>6, <2>1 DEF TypeOK, SessionTypes, Leaves, connVars, shellVars
<1>7. CASE TimesOut(b)
  <2>1. SessionTypes'
    <3>1. "timed_out" \in Ended
      BY DEF Ended
    <3>2. Begins({b}, "timed_out", TRUE, NoConn) /\ rows' = rows
      BY <1>7 DEF TimesOut
    <3>. QED BY <1>s, <1>n, <3>1, <3>2, BeginsTypes
  <2>. QED
    BY <1>7, <2>1 DEF TypeOK, SessionTypes, TimesOut, browserVars, connVars, shellVars
<1>8. CASE Tells(b)
  <2>2. down' \in [Conn -> Seq(Message)]
    <3>1. Sends(peerOf[b], Close(b)) /\ peerOf[b] \in Conn \cup {NoConn}
      BY <1>8 DEF TypeOK, Tells
    <3>. QED BY <1>m, <3>1, SendsType DEF TypeOK
  <2>. QED BY <1>8, <2>2 DEF TypeOK, Tells, browserVars, connVars, shellVars
<1>9. CASE Records(b)
  <2>1. rows' \in [Browser -> Ended \cup {"none", "active"}]
    <3>1. \/ rows' = rows
          \/ rows' = [rows EXCEPT ![b] = outcome[b]]
          \/ rows' = [rows EXCEPT ![b] = rows[b]]
      BY <1>9 DEF Records
    <3>2. /\ rows \in [Browser -> Ended \cup {"none", "active"}]
          /\ outcome[b] \in Ended \cup {"none", "active"}
          /\ rows[b] \in Ended \cup {"none", "active"}
      BY DEF TypeOK
    <3>. QED BY <3>1, <3>2
  <2>. QED BY <1>9, <2>1 DEF TypeOK, Records, browserVars, connVars, shellVars
<1>10. CASE Dies(b)
  BY <1>10 DEF TypeOK, Dies, browserVars, sessionVars, connVars
<1>. QED
  BY <1>1, <1>2, <1>3, <1>4, <1>5, <1>6, <1>7, <1>8, <1>9, <1>10
  DEF BrowserStep, Exits, Expires

\* The steps of a connection: the hub's end of it, then the Agent's.
LEMMA TypeOfConnStep ==
  ASSUME TypeOK, NEW c \in Conn, ConnStep(c)
  PROVE  TypeOK'
<1>s. SessionTypes
  BY TypesOfSession
<1>m. \A b \in Browser : Error(b) \in Message /\ Exit(b) \in Message
  BY MessageTypes
<1>1. CASE Connects(c)
  BY <1>1 DEF TypeOK, Connects, browserVars, sessionVars, shellVars
<1>r. CASE Registers(c)
  BY <1>r DEF TypeOK, Registers, browserVars, sessionVars, shellVars
<1>2. CASE Dispatches(c)
  <2>1. up' \in [Conn -> Seq(Message)]
    BY <1>2 DEF TypeOK, Dispatches
  <2>2. SessionTypes'
    <3>1. CASE UNCHANGED sessionVars
      BY <1>s, <3>1 DEF SessionTypes, sessionVars
    <3>2. ASSUME NEW S, NEW status \in Ended, Begins(S, status, FALSE, c), rows' = rows
          PROVE  SessionTypes'
      BY <1>s, <3>2, BeginsTypes
    <3>3. "failed" \in Ended /\ "closed" \in Ended
      BY DEF Ended
    <3>. QED BY <1>2, <3>1, <3>2, <3>3 DEF Dispatches
  <2>. QED
    BY <1>2, <2>1, <2>2 DEF TypeOK, SessionTypes, Dispatches, browserVars, connVars, shellVars
<1>3. CASE LosesConn(c)
  BY <1>3 DEF TypeOK, LosesConn, browserVars, sessionVars, shellVars
<1>4. CASE Sweeps(c)
  <2>1. SessionTypes'
    <3>1. "agent_disconnected" \in Ended
      BY DEF Ended
    <3>2. /\ Begins({b \in sessions : peerOf[b] = c}, "agent_disconnected", FALSE, c)
          /\ rows' = rows
      BY <1>4 DEF Sweeps
    <3>. QED BY <1>s, <3>1, <3>2, BeginsTypes
  <2>. QED BY <1>4, <2>1 DEF TypeOK, SessionTypes, Sweeps, browserVars, shellVars
<1>5. CASE Starts(c)
  <2>1. /\ down' \in [Conn -> Seq(Message)]
        /\ Head(down[c]).session \in Browser
    BY <1>5, ReceivesEffect DEF TypeOK, Starts
  <2>2. up' \in [Conn -> Seq(Message)]
    BY <1>5, <1>m, <2>1, AnswersEffect DEF TypeOK, Starts
  <2>. QED
    BY <1>5, <2>1, <2>2 DEF TypeOK, Starts, browserVars, sessionVars, connVars
<1>6. CASE Closes(c)
  <2>1. down' \in [Conn -> Seq(Message)]
    BY <1>6, ReceivesEffect DEF TypeOK, Closes
  <2>. QED
    BY <1>6, <2>1 DEF TypeOK, Closes, Killed, browserVars, sessionVars, connVars
<1>7. CASE Drops(c)
  BY <1>7 DEF TypeOK, Drops, Killed, browserVars, sessionVars
<1>8. CASE InputBlocks(c)
  BY <1>8 DEF TypeOK, InputBlocks, browserVars, sessionVars, connVars
<1>9. CASE InputReturns(c)
  <2>1. writing[c] \in Browser
    BY <1>9 DEF TypeOK, InputReturns
  <2>2. up' \in [Conn -> Seq(Message)]
    BY <1>9, <1>m, <2>1, AnswersEffect DEF TypeOK, InputReturns
  <2>. QED
    BY <1>9, <2>2 DEF TypeOK, InputReturns, browserVars, sessionVars, connVars
<1>10. CASE PtyFails(c)
  <2>1. current[c] \in Browser
    BY <1>10 DEF TypeOK, PtyFails
  <2>2. up' \in [Conn -> Seq(Message)]
    BY <1>10, <1>m, <2>1, AnswersEffect DEF TypeOK, PtyFails
  <2>. QED
    BY <1>10, <2>1, <2>2 DEF TypeOK, PtyFails, browserVars, sessionVars, connVars
<1>11. CASE Reports(c)
  <2>1. current[c] \in Browser
    BY <1>11 DEF TypeOK, Reports
  <2>2. up' \in [Conn -> Seq(Message)]
    BY <1>11, <1>m, <2>1, AnswersEffect DEF TypeOK, Reports
  <2>. QED
    BY <1>11, <2>1, <2>2 DEF TypeOK, Reports, browserVars, sessionVars, connVars
<1>12. CASE Finishes(c)
  BY <1>12 DEF TypeOK, Finishes, browserVars, sessionVars, connVars
<1>. QED
  BY <1>1, <1>r, <1>2, <1>3, <1>4, <1>5, <1>6, <1>7, <1>8, <1>9, <1>10, <1>11, <1>12
  DEF ConnStep

LEMMA TypeStep ==
  ASSUME TypeOK, [Next]_vars
  PROVE  TypeOK'
<1>1. ASSUME NEW b \in Browser, BrowserStep(b) PROVE TypeOK'
  BY <1>1, TypeOfBrowserStep
<1>2. ASSUME NEW c \in Conn, ConnStep(c) PROVE TypeOK'
  BY <1>2, TypeOfConnStep
<1>3. CASE Restarts
  BY <1>3 DEF TypeOK, Restarts, shellVars
<1>4. CASE UNCHANGED vars
  BY <1>4 DEF TypeOK, vars, browserVars, sessionVars, connVars, shellVars
<1>. QED BY <1>1, <1>2, <1>3, <1>4 DEF Next

LEMMA TypeInit == Init => TypeOK
<1>. SUFFICES ASSUME Init PROVE TypeOK
  OBVIOUS
<1>1. <<>> \in Seq(Message)
  OBVIOUS
<1>2. down \in [Conn -> Seq(Message)] /\ up \in [Conn -> Seq(Message)]
  BY <1>1 DEF Init
<1>. QED BY <1>2 DEF Init, TypeOK

\* Types, and the CHECK of terminal_sessions: no handler writes a status that
\* the table would refuse.
THEOREM TypeCorrect == Spec => []TypeOK
BY TypeInit, TypeStep, PTL DEF Spec
-----------------------------------------------------------------------------
(* One session: handlers, map, endSession and rows agree.                  *)

Early == {"idle", "ticketed", "checked", "created"}

\* A session is in the map from EntersMap until endSession has begun; from the
\* insert of its row until endSession has recorded its end the row is active,
\* and the index leaves no room for a second one.
HubInv ==
  /\ \A b \in Browser : stage[b] \in Early => endStep[b] = "none" /\ b \notin sessions
  /\ \A b \in Browser : stage[b] \in {"mapped", "relaying"} /\ endStep[b] = "none"
                         => b \in sessions
  /\ \A b \in Browser : endStep[b] # "none" => b \notin sessions
  /\ \A b \in Browser : stage[b] = "created" \/ b \in sessions
                           \/ endStep[b] \in {"tell", "record"}
                         => rows[b] = "active"
  /\ \A a, b \in Browser : rows[a] = "active" /\ rows[b] = "active" => a = b

LEMMA BeginsKeepsHubInv ==
  ASSUME TypeOK, HubInv, NEW S \in SUBSET Browser, NEW status, NEW tells \in BOOLEAN,
         NEW thread, Begins(S, status, tells, thread), rows' = rows,
         \A b \in S : b \in sessions \/ endStep[b] # "none",
         \A b \in Browser : stage'[b] = stage[b] \/ stage'[b] = "done"
  PROVE  HubInv'
<1>1. /\ sessions' \subseteq sessions
      /\ \A b \in Browser :
           \/ endStep'[b] = endStep[b] /\ (b \in sessions' <=> b \in sessions)
                /\ (b \in S => endStep[b] # "none")
           \/ b \in S /\ endStep[b] = "none" /\ b \notin sessions'
                /\ endStep'[b] \in {"tell", "record"}
  BY BeginsEffect, TypesOfSession
<1>. QED BY <1>1 DEF HubInv, Early

LEMMA HubInvStep ==
  ASSUME TypeOK, HubInv, [Next]_vars
  PROVE  HubInv'
<1>u. ASSUME UNCHANGED <<stage, sessions, endStep, rows>> PROVE HubInv'
  BY <1>u DEF HubInv
<1>1. ASSUME NEW b \in Browser, BrowserStep(b) PROVE HubInv'
  <2>1. CASE GetsTicket(b)
    BY <2>1 DEF GetsTicket, HubInv, TypeOK, Early, sessionVars
  <2>2. CASE Redeems(b)
    BY <2>2 DEF Redeems, HubInv, TypeOK, Early, sessionVars
  <2>3. CASE CreatesRow(b)
    <3>1. CASE Insertable /\ rows' = [rows EXCEPT ![b] = "active"]
                 /\ \E s \in {"created", "unheard"} : stage' = [stage EXCEPT ![b] = s]
      BY <2>3, <3>1 DEF CreatesRow, Insertable, HubInv, TypeOK, Early
    <3>2. CASE rows' = rows /\ stage' = [stage EXCEPT ![b] = "done"]
      BY <2>3, <3>2 DEF CreatesRow, HubInv, TypeOK, Early
    <3>. QED BY <2>3, <3>1, <3>2 DEF CreatesRow
  <2>4. CASE EntersMap(b)
    BY <2>4 DEF EntersMap, HubInv, TypeOK, Early
  <2>5. CASE WritesStart(b)
    <3>0. \A x \in {b} : x \in sessions \/ endStep[x] # "none"
      BY <2>5 DEF WritesStart, HubInv
    <3>1. CASE stage' = [stage EXCEPT ![b] = "relaying"] /\ UNCHANGED sessionVars
      BY <2>5, <3>1 DEF WritesStart, HubInv, TypeOK, Early, sessionVars
    <3>2. CASE /\ stage' = [stage EXCEPT ![b] = "done"]
               /\ Begins({b}, "agent_disconnected", FALSE, NoConn) /\ rows' = rows
      <4>1. \A x \in Browser : stage'[x] = stage[x] \/ stage'[x] = "done"
        BY <3>2 DEF TypeOK
      <4>. QED BY <3>0, <3>2, <4>1, BeginsKeepsHubInv
    <3>. QED BY <2>5, <3>1, <3>2 DEF WritesStart
  <2>6. CASE Leaves(b)
    <3>0. \A x \in {b} : x \in sessions \/ endStep[x] # "none"
      BY <2>6 DEF Leaves, HubInv
    <3>1. \A x \in Browser : stage'[x] = stage[x] \/ stage'[x] = "done"
      BY <2>6 DEF TypeOK, Leaves
    <3>2. Begins({b}, "closed", TRUE, NoConn) /\ rows' = rows
      BY <2>6 DEF Leaves
    <3>. QED BY <3>0, <3>1, <3>2, BeginsKeepsHubInv
  <2>7. CASE TimesOut(b)
    <3>1. Begins({b}, "timed_out", TRUE, NoConn) /\ rows' = rows
      BY <2>7 DEF TimesOut
    <3>2. (\A x \in {b} : x \in sessions \/ endStep[x] # "none") /\ stage' = stage
      BY <2>7 DEF TimesOut, browserVars
    <3>. QED BY <3>1, <3>2, BeginsKeepsHubInv
  <2>8. CASE Tells(b)
    BY <2>8 DEF Tells, HubInv, TypeOK, Early, browserVars
  <2>9. CASE Records(b)
    <3>1. CASE rows' = rows
      BY <2>9, <3>1 DEF Records, HubInv, TypeOK, Early, browserVars
    <3>2. CASE rows' = [rows EXCEPT ![b] = IF @ = "active" THEN outcome[b] ELSE @]
      <4>1. outcome[b] # "active"
        BY DEF TypeOK, Ended
      <4>2. /\ \A x \in Browser : x # b => rows'[x] = rows[x] /\ endStep'[x] = endStep[x]
            /\ rows'[b] # "active" /\ endStep[b] = "record" /\ endStep'[b] = "over"
        BY <2>9, <3>2, <4>1 DEF Records, TypeOK
      <4>3. sessions' = sessions /\ stage' = stage
        BY <2>9 DEF Records, browserVars
      <4>. QED BY <4>2, <4>3 DEF HubInv, Early
    <3>. QED BY <2>9, <3>1, <3>2 DEF Records
  <2>10. CASE Dies(b)
    BY <1>u, <2>10 DEF Dies, browserVars, sessionVars
  <2>. QED
    BY <1>1, <2>1, <2>2, <2>3, <2>4, <2>5, <2>6, <2>7, <2>8, <2>9, <2>10
    DEF BrowserStep, Exits, Expires
<1>2. ASSUME NEW c \in Conn, ConnStep(c) PROVE HubInv'
  <2>1. CASE Dispatches(c)
    <3>1. CASE UNCHANGED sessionVars
      BY <1>u, <2>1, <3>1 DEF Dispatches, browserVars, sessionVars
    <3>2. CASE ~UNCHANGED sessionVars
      <4>0. PICK b \in sessions : \E status : Begins({b}, status, FALSE, c) /\ rows' = rows
        BY <2>1, <3>2 DEF Dispatches
      <4>1. PICK status : Begins({b}, status, FALSE, c) /\ rows' = rows
        BY <4>0
      <4>2. {b} \in SUBSET Browser /\ \A x \in {b} : x \in sessions
        BY <4>1 DEF TypeOK
      <4>3. stage' = stage
        BY <2>1 DEF Dispatches, browserVars
      <4>. QED BY <4>1, <4>2, <4>3, BeginsKeepsHubInv
    <3>. QED BY <3>1, <3>2
  <2>2. CASE Sweeps(c)
    <3>1. Begins({b \in sessions : peerOf[b] = c}, "agent_disconnected", FALSE, c)
      BY <2>2 DEF Sweeps
    <3>2. {b \in sessions : peerOf[b] = c} \in SUBSET Browser
      BY DEF TypeOK
    <3>3. stage' = stage /\ rows' = rows
      BY <2>2 DEF Sweeps, browserVars
    <3>. QED BY <3>1, <3>2, <3>3, BeginsKeepsHubInv
  <2>. QED
    BY <1>u, <1>2, <2>1, <2>2
    DEF ConnStep, Connects, Registers, LosesConn, Starts, Closes, Drops, InputBlocks, InputReturns,
        PtyFails, Reports, Finishes, browserVars, sessionVars
<1>3. CASE Restarts
  BY <1>3 DEF Restarts, HubInv, TypeOK, Early
<1>4. CASE UNCHANGED vars
  BY <1>u, <1>4 DEF vars, browserVars, sessionVars
<1>. QED BY <1>1, <1>2, <1>3, <1>4 DEF Next

LEMMA HubInvInit == Init => HubInv
BY DEF Init, HubInv, Early

\* At most one session for the server, and its row is the active one, however
\* the handlers of several browsers interleave and whatever fails.
THEOREM OneSessionAlways == Spec => []OneSession
<1>1. HubInv /\ TypeOK => OneSession
  BY DEF HubInv, OneSession, TypeOK
<1>. QED BY <1>1, TypeCorrect, HubInvInit, HubInvStep, PTL DEF Spec
-----------------------------------------------------------------------------
(* No session outlives the sweep of its connection.                        *)

PeerInv ==
  /\ \A b \in Browser : stage[b] \in {"checked", "created", "mapped", "relaying"}
                         => peerOf[b] \in Conn
  /\ NoUnsweptSession

LEMMA PeerInvStep ==
  ASSUME TypeOK, HubInv, PeerInv, [Next]_vars
  PROVE  PeerInv'
\* A step that ends sessions, and moves no handler into relaying, keeps it.
<1>u. ASSUME peerOf' = peerOf, hub' = hub, sessions' \subseteq sessions,
             \A b \in Browser : stage'[b] = stage[b] \/ stage'[b] \in {"idle", "done"}
      PROVE  PeerInv'
  BY <1>u DEF PeerInv, NoUnsweptSession, TypeOK
<1>1. ASSUME NEW b \in Browser, BrowserStep(b) PROVE PeerInv'
  <2>1. CASE GetsTicket(b)
    BY <2>1 DEF GetsTicket, PeerInv, NoUnsweptSession, TypeOK, sessionVars, connVars
  <2>2. CASE Redeems(b)
    <3>1. CASE /\ hubAgent # NoConn /\ stage' = [stage EXCEPT ![b] = "checked"]
               /\ peerOf' = [peerOf EXCEPT ![b] = hubAgent]
      <4>1. stage[b] = "ticketed" /\ stage'[b] = "checked" /\ peerOf'[b] \in Conn
        BY <2>2, <3>1 DEF Redeems, TypeOK
      <4>2. \A x \in Browser : x # b => stage'[x] = stage[x] /\ peerOf'[x] = peerOf[x]
        BY <3>1 DEF TypeOK
      <4>3. sessions' = sessions /\ hub' = hub
        BY <2>2 DEF Redeems, sessionVars, connVars
      <4>. QED BY <4>1, <4>2, <4>3 DEF PeerInv, NoUnsweptSession, TypeOK
    <3>2. CASE stage' = [stage EXCEPT ![b] = "done"] /\ UNCHANGED peerOf
      BY <1>u, <2>2, <3>2 DEF Redeems, TypeOK, sessionVars, connVars
    <3>. QED BY <2>2, <3>1, <3>2 DEF Redeems
  <2>3. CASE CreatesRow(b)
    BY <2>3 DEF CreatesRow, PeerInv, NoUnsweptSession, TypeOK, connVars
  <2>4. CASE EntersMap(b)
    BY <2>4 DEF EntersMap, PeerInv, NoUnsweptSession, TypeOK, connVars
  <2>5. CASE WritesStart(b)
    <3>1. CASE hub[peerOf[b]] = "open" /\ stage' = [stage EXCEPT ![b] = "relaying"]
               /\ UNCHANGED sessionVars
      BY <2>5, <3>1 DEF WritesStart, PeerInv, NoUnsweptSession, TypeOK, sessionVars, connVars
    <3>2. CASE stage' = [stage EXCEPT ![b] = "done"]
               /\ Begins({b}, "agent_disconnected", FALSE, NoConn)
      <4>1. sessions' \subseteq sessions
        BY <3>2 DEF Begins
      <4>. QED BY <1>u, <2>5, <3>2, <4>1 DEF WritesStart, connVars, TypeOK
    <3>. QED BY <2>5, <3>1, <3>2 DEF WritesStart
  <2>6. CASE Leaves(b)
    <3>1. sessions' \subseteq sessions
      BY <2>6 DEF Leaves, Begins
    <3>. QED BY <1>u, <2>6, <3>1 DEF Leaves, connVars, TypeOK
  <2>7. CASE TimesOut(b)
    <3>1. sessions' \subseteq sessions
      BY <2>7 DEF TimesOut, Begins
    <3>. QED BY <1>u, <2>7, <3>1 DEF TimesOut, connVars, browserVars
  <2>8. CASE Tells(b) \/ Records(b) \/ Dies(b)
    BY <1>u, <2>8 DEF Tells, Records, Dies, sessionVars, connVars, browserVars
  <2>. QED
    BY <1>1, <2>1, <2>2, <2>3, <2>4, <2>5, <2>6, <2>7, <2>8
    DEF BrowserStep, Exits, Expires
<1>2. ASSUME NEW c \in Conn, ConnStep(c) PROVE PeerInv'
  <2>1. CASE Connects(c)
    BY <2>1 DEF Connects, PeerInv, NoUnsweptSession, TypeOK, browserVars, sessionVars
  <2>r. CASE Registers(c)
    BY <2>r DEF Registers, PeerInv, NoUnsweptSession, TypeOK, browserVars, sessionVars
  <2>2. CASE Dispatches(c)
    <3>1. sessions' \subseteq sessions
      BY <2>2 DEF Dispatches, Begins, sessionVars
    <3>. QED BY <1>u, <2>2, <3>1 DEF Dispatches, connVars, browserVars
  <2>3. CASE LosesConn(c)
    BY <2>3 DEF LosesConn, PeerInv, NoUnsweptSession, TypeOK, browserVars, sessionVars
  <2>4. CASE Sweeps(c)
    \* Those of this connection are in the map, so nobody has begun with them.
    <3>1. \A b \in sessions' : b \in sessions /\ peerOf[b] # c
      BY <2>4 DEF Sweeps, Begins, HubInv, TypeOK
    <3>. QED BY <2>4, <3>1 DEF Sweeps, PeerInv, NoUnsweptSession, TypeOK, browserVars
  <2>. QED
    BY <1>2, <1>u, <2>1, <2>r, <2>2, <2>3, <2>4
    DEF ConnStep, Starts, Closes, Drops, InputBlocks, InputReturns, PtyFails, Reports,
        Finishes, browserVars, sessionVars, connVars
<1>3. CASE Restarts
  BY <1>3 DEF Restarts, PeerInv, NoUnsweptSession, TypeOK
<1>4. CASE UNCHANGED vars
  BY <1>u, <1>4 DEF vars, browserVars, sessionVars, connVars
<1>. QED BY <1>1, <1>2, <1>3, <1>4 DEF Next

LEMMA PeerInvInit == Init => PeerInv
BY DEF Init, PeerInv, NoUnsweptSession

\* Whatever the moment at which a connection is replaced or lost, the sweep
\* reaches every session that relays to it.
THEOREM NoUnsweptSessionAlways == Spec => []NoUnsweptSession
<1>1. PeerInv => NoUnsweptSession
  BY DEF PeerInv
<1>. QED
  BY <1>1, TypeCorrect, HubInvInit, HubInvStep, PeerInvInit, PeerInvStep, TypeInit,
     TypeStep, PTL DEF Spec
-----------------------------------------------------------------------------
(* One shell on the host.                                                  *)

\* A running shell is the current session of the connection the Agent is in.
ShellInv ==
  \A b \in Browser : shell[b] = "running" => agentConn \in Conn /\ current[agentConn] = b

LEMMA ShellInvStep ==
  ASSUME TypeOK, ShellInv, [Next]_vars
  PROVE  ShellInv'
<1>u. ASSUME agentConn' = agentConn, current' = current,
             \A b \in Browser : shell'[b] = "running" => shell[b] = "running"
      PROVE  ShellInv'
  BY <1>u DEF ShellInv
<1>1. ASSUME NEW b \in Browser, BrowserStep(b) PROVE ShellInv'
  <2>1. CASE Dies(b)
    BY <1>u, <2>1 DEF Dies, connVars, TypeOK
  <2>. QED
    BY <1>1, <1>u, <2>1
    DEF BrowserStep, Exits, Expires, GetsTicket, Redeems, CreatesRow, EntersMap,
        WritesStart, Leaves, TimesOut, Tells, Records, connVars, shellVars
<1>2. ASSUME NEW c \in Conn, ConnStep(c) PROVE ShellInv'
  <2>1. CASE Connects(c)
    BY <2>1, TerminalAssumption DEF Connects, ShellInv, TypeOK, shellVars
  <2>2. CASE Starts(c)
    <3>1. agentConn = c /\ agentConn' = c
      BY <2>2 DEF Starts, Receives, Reading, connVars
    <3>2. CASE UNCHANGED <<current, shell>>
      BY <3>1, <3>2 DEF ShellInv
    <3>3. CASE ~UNCHANGED <<current, shell>>
      <4>1. PICK b : /\ current[c] = NoBrowser
                     /\ current' = [current EXCEPT ![c] = b]
                     /\ shell' = [shell EXCEPT ![b] = "running"]
        BY <2>2, <3>3 DEF Starts
      <4>2. \A x \in Browser : shell[x] # "running"
        BY <3>1, <4>1, TerminalAssumption DEF ShellInv
      <4>. QED BY <3>1, <4>1, <4>2 DEF ShellInv, TypeOK
    <3>. QED BY <3>2, <3>3
  <2>3. CASE Closes(c)
    BY <1>u, <2>3 DEF Closes, Killed, connVars
  <2>4. CASE Drops(c)
    <3>1. \A b \in Browser : shell'[b] # "running"
      BY <2>4 DEF Drops, Reading, Killed, ShellInv
    <3>. QED BY <3>1 DEF ShellInv
  <2>5. CASE Reports(c)
    BY <1>u, <2>5 DEF Reports, connVars, TypeOK
  <2>6. CASE Finishes(c)
    BY <2>6 DEF Finishes, connVars, TypeOK, ShellInv
  <2>. QED
    BY <1>2, <1>u, <2>1, <2>2, <2>3, <2>4, <2>5, <2>6
    DEF ConnStep, Registers, Dispatches, LosesConn, Sweeps, InputBlocks, InputReturns,
        PtyFails, connVars, shellVars
<1>3. CASE Restarts
  BY <1>u, <1>3 DEF Restarts, shellVars
<1>4. CASE UNCHANGED vars
  BY <1>u, <1>4 DEF vars, connVars, shellVars
<1>. QED BY <1>1, <1>2, <1>3, <1>4 DEF Next

LEMMA ShellInvInit == Init => ShellInv
BY DEF Init, ShellInv

\* The host never runs two shells, over all connections and managers.
THEOREM OneShellAlways == Spec => []OneShell
<1>1. ShellInv => OneShell
  BY DEF ShellInv, OneShell
<1>. QED BY <1>1, TypeCorrect, ShellInvInit, ShellInvStep, PTL DEF Spec
-----------------------------------------------------------------------------
(* Messages: a close never meets another session that is wanted.           *)

\* Where the messages of the next state come from: those of this one, and at
\* the end of one connection the message just sent,
LEMMA MessagesSent ==
  ASSUME NEW c \in Conn \cup {NoConn}, NEW m \in Message,
         down \in [Conn -> Seq(Message)], Sends(c, m)
  PROVE  \A x \in Conn : \A i \in 1..Len(down'[x]) :
           \/ i \in 1..Len(down[x]) /\ down'[x][i] = down[x][i]
           \/ i = Len(down[x]) + 1 /\ down'[x][i] = m
<1>1. CASE c \in Conn
  <2>1. \A x \in Conn : down'[x] = down[x] \/ down'[x] = Append(down[x], m)
    BY <1>1, SendsEffect
  <2>2. \A x \in Conn : down[x] \in Seq(Message)
    OBVIOUS
  <2>. QED BY <2>1, <2>2
<1>2. CASE c = NoConn
  <2>1. [down EXCEPT ![c] = Append(@, m)] = down
    BY <1>2, TerminalAssumption
  <2>2. down' = down
    BY <2>1 DEF Sends
  <2>. QED BY <2>2
<1>. QED BY <1>1, <1>2

\* or those of this one moved up by one on the connection that was read.
LEMMA MessagesReceived ==
  ASSUME NEW c \in Conn, NEW type, down \in [Conn -> Seq(Message)], Receives(c, type)
  PROVE  /\ 1 \in 1..Len(down[c]) /\ Head(down[c]) = down[c][1]
         /\ \A x \in Conn : x # c => down'[x] = down[x]
         /\ \A i \in 1..Len(down'[c]) :
              i + 1 \in 1..Len(down[c]) /\ down'[c][i] = down[c][i + 1]
<1>1. /\ down[c] \in Seq(Message) /\ down[c] # <<>> /\ down'[c] = Tail(down[c])
      /\ \A x \in Conn : x # c => down'[x] = down[x]
  BY ReceivesEffect
<1>2. Len(down[c]) \in Nat /\ Len(down[c]) >= 1 /\ Head(down[c]) = down[c][1]
  BY <1>1
<1>3. \A i \in 1..Len(down'[c]) :
        i + 1 \in 1..Len(down[c]) /\ down'[c][i] = down[c][i + 1]
  BY <1>1, <1>2
<1>. QED BY <1>1, <1>2, <1>3

\* The Agent has not heard of a session before it is in the map.
MessageInv ==
  /\ \A b \in Browser : stage[b] \in Early =>
       \A c \in Conn : current[c] # b /\ \A i \in 1..Len(down[c]) : down[c][i] # Start(b)
  /\ CloseNeverStray

LEMMA MessageInvStep ==
  ASSUME TypeOK, HubInv, MessageInv, [Next]_vars
  PROVE  MessageInv'
<1>u. ASSUME down' = down, current' = current, sessions' \subseteq sessions,
             \A b \in Browser : stage'[b] \in Early => stage[b] \in Early
      PROVE  MessageInv'
  BY <1>u DEF MessageInv, CloseNeverStray, Start
<1>1. ASSUME NEW b \in Browser, BrowserStep(b) PROVE MessageInv'
  <2>m. Start(b) \in Message /\ Close(b) \in Message
    BY MessageTypes
  <2>p. peerOf[b] \in Conn \cup {NoConn}
    BY DEF TypeOK
  <2>1. CASE GetsTicket(b) \/ Redeems(b) \/ CreatesRow(b)
    BY <1>u, <2>1
    DEF GetsTicket, Redeems, CreatesRow, Early, TypeOK, sessionVars, shellVars
  <2>2. CASE EntersMap(b)
    <3>1. /\ down' = down /\ current' = current /\ sessions' = sessions \cup {b}
          /\ stage[b] \in Early
          /\ \A x \in Browser : stage'[x] \in Early => stage[x] \in Early
      BY <2>2 DEF EntersMap, shellVars, Early, TypeOK
    <3>2. \A c \in Conn : current[c] # b /\ \A i \in 1..Len(down[c]) : down[c][i] # Start(b)
      BY <3>1 DEF MessageInv
    <3>3. \A c \in Conn : \A i \in 1..Len(down[c]) : 1..(i - 1) \subseteq 1..Len(down[c])
      BY DEF TypeOK
    <3>4. CloseNeverStray'
      BY <3>1, <3>2, <3>3 DEF MessageInv, CloseNeverStray, Start
    <3>. QED BY <3>1, <3>4 DEF MessageInv, Start
  <2>3. CASE WritesStart(b)
    <3>1. /\ current' = current /\ sessions' \subseteq sessions /\ stage'[b] \notin Early
          /\ \A x \in Browser : x # b => stage'[x] = stage[x]
      BY <2>3 DEF WritesStart, Begins, sessionVars, shellVars, Early, TypeOK
    <3>2. \A x \in Conn : \A i \in 1..Len(down'[x]) :
            \/ i \in 1..Len(down[x]) /\ down'[x][i] = down[x][i]
            \/ i = Len(down[x]) + 1 /\ down'[x][i] = Start(b)
      BY <2>3, <2>m, <2>p, MessagesSent DEF TypeOK, WritesStart
    <3>3. \A x \in Browser : x # b => Start(x) # Start(b)
      BY DEF Start
    <3>4. ASSUME NEW x \in Browser, stage'[x] \in Early, NEW c \in Conn
          PROVE  current'[c] # x /\ \A i \in 1..Len(down'[c]) : down'[c][i] # Start(x)
      BY <3>1, <3>2, <3>3, <3>4 DEF MessageInv
    <3>5. ASSUME NEW c \in Conn, NEW i \in 1..Len(down'[c]), down'[c][i].type = "close",
                 NEW x \in sessions' \ {down'[c][i].session}
          PROVE  current'[c] # x /\ \A j \in 1..(i - 1) : down'[c][j] # Start(x)
      <4>1. i \in 1..Len(down[c]) /\ down'[c][i] = down[c][i]
        BY <3>2, <3>5 DEF Start
      <4>2. \A j \in 1..(i - 1) : down'[c][j] = down[c][j]
        <5>1. ASSUME NEW j \in 1..(i - 1) PROVE down'[c][j] = down[c][j]
          <6>1. j \in 1..Len(down'[c]) /\ j # Len(down[c]) + 1
            BY <4>1, <2>3, <2>m, <2>p, SendsType DEF TypeOK, WritesStart
          <6>. QED BY <3>2, <6>1
        <5>. QED BY <5>1
      <4>. QED BY <3>1, <4>1, <4>2, <3>5 DEF MessageInv, CloseNeverStray
    <3>. QED BY <3>4, <3>5 DEF MessageInv, CloseNeverStray, Start
  <2>4. CASE Leaves(b) \/ TimesOut(b)
    <3>1. sessions' \subseteq sessions
      BY <2>4 DEF Leaves, TimesOut, Begins
    <3>. QED
      BY <1>u, <2>4, <3>1 DEF Leaves, TimesOut, browserVars, shellVars, TypeOK, Early
  <2>5. CASE Tells(b)
    \* The row is still active, so nobody else has a session.
    <3>1. sessions = {} /\ sessions' = {} /\ current' = current /\ stage' = stage
      BY <2>5 DEF Tells, HubInv, TypeOK, shellVars, browserVars
    <3>2. \A x \in Conn : \A i \in 1..Len(down'[x]) :
            \/ i \in 1..Len(down[x]) /\ down'[x][i] = down[x][i]
            \/ i = Len(down[x]) + 1 /\ down'[x][i] = Close(b)
      BY <2>5, <2>m, <2>p, MessagesSent DEF TypeOK, Tells
    <3>3. \A x \in Browser : Start(x) # Close(b)
      BY DEF Start, Close
    <3>4. ASSUME NEW x \in Browser, stage'[x] \in Early, NEW c \in Conn
          PROVE  current'[c] # x /\ \A i \in 1..Len(down'[c]) : down'[c][i] # Start(x)
      BY <3>1, <3>2, <3>3, <3>4 DEF MessageInv
    <3>5. CloseNeverStray'
      BY <3>1 DEF CloseNeverStray
    <3>. QED BY <3>4, <3>5 DEF MessageInv, Start
  <2>6. CASE Records(b) \/ Dies(b)
    BY <1>u, <2>6 DEF Records, Dies, browserVars, sessionVars, shellVars
  <2>. QED
    BY <1>1, <2>1, <2>2, <2>3, <2>4, <2>5, <2>6 DEF BrowserStep, Exits, Expires
<1>2. ASSUME NEW c \in Conn, ConnStep(c) PROVE MessageInv'
  <2>1. CASE Dispatches(c) \/ Sweeps(c)
    <3>1. sessions' \subseteq sessions
      BY <2>1 DEF Dispatches, Sweeps, Begins, sessionVars
    <3>. QED BY <1>u, <2>1, <3>1 DEF Dispatches, Sweeps, browserVars, shellVars
  <2>2. CASE Starts(c)
    <3>1. /\ 1 \in 1..Len(down[c]) /\ Head(down[c]) = down[c][1]
          /\ \A x \in Conn : x # c => down'[x] = down[x]
          /\ \A i \in 1..Len(down'[c]) :
               i + 1 \in 1..Len(down[c]) /\ down'[c][i] = down[c][i + 1]
      BY <2>2, MessagesReceived DEF Starts, TypeOK
    <3>2. /\ stage' = stage /\ sessions' = sessions
          /\ \A x \in Conn : x # c => current'[x] = current[x]
          /\ current'[c] = current[c] \/ Start(current'[c]) = down[c][1]
      <4>1. down[c][1].type = "start" /\ down[c][1] \in Message
        BY <2>2, <3>1, ReceivesEffect DEF Starts, Receives, TypeOK
      <4>2. Start(down[c][1].session) = down[c][1]
        BY <4>1 DEF Start, Message
      <4>. QED BY <2>2, <3>1, <4>2 DEF Starts, browserVars, sessionVars, TypeOK
    <3>3. ASSUME NEW b \in Browser, stage'[b] \in Early, NEW x \in Conn
          PROVE  current'[x] # b /\ \A i \in 1..Len(down'[x]) : down'[x][i] # Start(b)
      BY <3>1, <3>2, <3>3 DEF MessageInv
    <3>4. ASSUME NEW x \in Conn, NEW i \in 1..Len(down'[x]), down'[x][i].type = "close",
                 NEW b \in sessions' \ {down'[x][i].session}
          PROVE  current'[x] # b /\ \A j \in 1..(i - 1) : down'[x][j] # Start(b)
      <4>1. CASE x # c
        BY <3>1, <3>2, <3>4, <4>1 DEF MessageInv, CloseNeverStray
      <4>2. CASE x = c
        <5>1. /\ i + 1 \in 1..Len(down[c]) /\ down[c][i + 1].type = "close"
              /\ b \in sessions \ {down[c][i + 1].session}
          BY <3>1, <3>2, <3>4, <4>2
        <5>2. current[c] # b /\ \A j \in 1..i : down[c][j] # Start(b)
          BY <5>1 DEF MessageInv, CloseNeverStray
        <5>3. \A j \in 1..(i - 1) :
                j + 1 \in 1..i /\ j \in 1..Len(down'[c]) /\ down'[c][j] = down[c][j + 1]
          BY <3>1, <3>4, <4>2
        <5>4. 1 \in 1..i
          BY <3>4
        <5>. QED BY <3>2, <4>2, <5>2, <5>3, <5>4
      <4>. QED BY <4>1, <4>2
    <3>. QED BY <3>3, <3>4 DEF MessageInv, CloseNeverStray, Start
  <2>3. CASE Closes(c)
    <3>1. /\ \A x \in Conn : x # c => down'[x] = down[x]
          /\ \A i \in 1..Len(down'[c]) :
               i + 1 \in 1..Len(down[c]) /\ down'[c][i] = down[c][i + 1]
      BY <2>3, MessagesReceived DEF Closes, TypeOK
    <3>2. stage' = stage /\ sessions' = sessions /\ current' = current
      BY <2>3 DEF Closes, browserVars, sessionVars
    <3>3. ASSUME NEW b \in Browser, stage'[b] \in Early, NEW x \in Conn
          PROVE  current'[x] # b /\ \A i \in 1..Len(down'[x]) : down'[x][i] # Start(b)
      BY <3>1, <3>2, <3>3 DEF MessageInv
    <3>4. ASSUME NEW x \in Conn, NEW i \in 1..Len(down'[x]), down'[x][i].type = "close",
                 NEW b \in sessions' \ {down'[x][i].session}
          PROVE  current'[x] # b /\ \A j \in 1..(i - 1) : down'[x][j] # Start(b)
      <4>1. CASE x # c
        BY <3>1, <3>2, <3>4, <4>1 DEF MessageInv, CloseNeverStray
      <4>2. CASE x = c
        <5>1. /\ i + 1 \in 1..Len(down[c]) /\ down[c][i + 1].type = "close"
              /\ b \in sessions \ {down[c][i + 1].session}
          BY <3>1, <3>2, <3>4, <4>2
        <5>2. current[c] # b /\ \A j \in 1..i : down[c][j] # Start(b)
          BY <5>1 DEF MessageInv, CloseNeverStray
        <5>3. \A j \in 1..(i - 1) :
                j + 1 \in 1..i /\ j \in 1..Len(down'[c]) /\ down'[c][j] = down[c][j + 1]
          BY <3>1, <3>4, <4>2
        <5>. QED BY <3>2, <4>2, <5>2, <5>3
      <4>. QED BY <4>1, <4>2
    <3>. QED BY <3>3, <3>4 DEF MessageInv, CloseNeverStray, Start
  <2>4. CASE Drops(c)
    <3>1. /\ \A x \in Conn : down'[x] = down[x] \/ down'[x] = <<>>
          /\ current' = current /\ stage' = stage /\ sessions' = sessions
      BY <2>4 DEF Drops, TypeOK, browserVars, sessionVars
    <3>2. \A x \in Conn : 1..Len(down'[x]) = {} \/ down'[x] = down[x]
      BY <3>1
    <3>. QED BY <3>1, <3>2 DEF MessageInv, CloseNeverStray, Start
  <2>5. CASE Finishes(c)
    <3>1. /\ \A x \in Conn : current'[x] = current[x] \/ current'[x] \notin Browser
          /\ down' = down /\ stage' = stage /\ sessions' = sessions
      BY <2>5, TerminalAssumption DEF Finishes, TypeOK, browserVars, sessionVars
    <3>2. \A b \in sessions : b \in Browser
      BY DEF TypeOK
    <3>. QED BY <3>1, <3>2 DEF MessageInv, CloseNeverStray, Start
  <2>. QED
    BY <1>2, <1>u, <2>1, <2>2, <2>3, <2>4, <2>5
    DEF ConnStep, Connects, Registers, LosesConn, InputBlocks, InputReturns, PtyFails, Reports,
        browserVars, sessionVars, shellVars
<1>3. CASE Restarts
  BY <1>u, <1>3 DEF Restarts, shellVars, Early, TypeOK
<1>4. CASE UNCHANGED vars
  BY <1>u, <1>4 DEF vars, browserVars, sessionVars, shellVars
<1>. QED BY <1>1, <1>2, <1>3, <1>4 DEF Next

LEMMA MessageInvInit == Init => MessageInv
<1>. SUFFICES ASSUME Init PROVE MessageInv
  OBVIOUS
<1>1. \A c \in Conn : 1..Len(down[c]) = {}
  BY DEF Init
<1>2. \A c \in Conn : \A b \in Browser : current[c] # b
  BY TerminalAssumption DEF Init
<1>. QED BY <1>1, <1>2 DEF MessageInv, CloseNeverStray

\* The Agent may ignore the id in session_close: the row is closed only after
\* the message has been sent, so the next session can only follow it.
THEOREM CloseNeverStrayAlways == Spec => []CloseNeverStray
<1>1. MessageInv => CloseNeverStray
  BY DEF MessageInv
<1>. QED
  BY <1>1, TypeInit, TypeStep, HubInvInit, HubInvStep, MessageInvInit, MessageInvStep,
     PTL DEF Spec
-----------------------------------------------------------------------------
(* The terminal is exclusive.                                              *)

\* A session the Agent may have heard of: its row was inserted, and its handler
\* has written the start.
Heard(b) == stage[b] \in {"relaying", "done"} /\ rows[b] # "none"

\* A session has no row before its handler inserts one, and keeps it.
RowsBegin ==
  /\ \A b \in Browser : stage[b] \in {"idle", "ticketed", "checked"} => rows[b] = "none"
  /\ \A b \in Browser : stage[b] = "mapped" => rows[b] # "none"

\* A start is written once and received once.
StartInv ==
  /\ \A b \in Browser : shell[b] # "none" => Heard(b)
  /\ \A b \in Browser, c \in Conn : \A i \in 1..Len(down[c]) :
       down[c][i] = Start(b) => Heard(b) /\ shell[b] = "none"
  /\ \A b \in Browser, c, d \in Conn : \A i \in 1..Len(down[c]), j \in 1..Len(down[d]) :
       down[c][i] = Start(b) /\ down[d][j] = Start(b) => c = d /\ i = j

\* endSession knows how the session ended.
EndKnown == \A b \in Browser : endStep[b] # "none" => outcome[b] \in Ended

LEMMA BeginsKnows ==
  ASSUME TypeOK, EndKnown, NEW S, NEW status \in Ended, NEW tells, NEW thread,
         Begins(S, status, tells, thread)
  PROVE  EndKnown'
  BY DEF TypeOK, EndKnown, Begins

LEMMA EndKnownStep ==
  ASSUME TypeOK, EndKnown, [Next]_vars
  PROVE  EndKnown'
<1>u. ASSUME UNCHANGED <<endStep, outcome>> PROVE EndKnown'
  BY <1>u DEF EndKnown
<1>e. "closed" \in Ended /\ "agent_disconnected" \in Ended /\ "timed_out" \in Ended
        /\ "failed" \in Ended
  BY DEF Ended
<1>1. ASSUME NEW b \in Browser, WritesStart(b) \/ Leaves(b) \/ TimesOut(b) PROVE EndKnown'
  BY <1>u, <1>e, <1>1, BeginsKnows DEF WritesStart, Leaves, TimesOut, sessionVars
<1>2. ASSUME NEW b \in Browser, Tells(b) \/ Records(b) PROVE EndKnown'
  BY <1>2 DEF Tells, Records, EndKnown, TypeOK
<1>3. ASSUME NEW c \in Conn, Dispatches(c) \/ Sweeps(c) PROVE EndKnown'
  BY <1>u, <1>e, <1>3, BeginsKnows DEF Dispatches, Sweeps, sessionVars
<1>4. CASE Restarts
  BY <1>4 DEF Restarts, EndKnown, TypeOK
<1> QED
  BY <1>u, <1>1, <1>2, <1>3, <1>4
  DEF Next, BrowserStep, ConnStep, GetsTicket, Redeems, CreatesRow, EntersMap, Exits, Expires,
      Dies, Connects, Registers, LosesConn, Starts, Closes, Drops, InputBlocks, InputReturns, PtyFails,
      Reports, Finishes, vars, sessionVars

\* What any step does to rows and handlers.
LEMMA RowsMove ==
  ASSUME TypeOK, HubInv, EndKnown, RowsBegin, [Next]_vars, NEW b \in Browser
  PROVE  /\ rows[b] # "none" => rows'[b] # "none"
         /\ stage[b] \in {"relaying", "done"} => stage'[b] \in {"relaying", "done"}
         /\ stage'[b] = "mapped" => rows'[b] # "none"
         /\ stage'[b] \in {"idle", "ticketed", "checked"} =>
              rows'[b] = "none"
<1>u. ASSUME UNCHANGED <<stage, rows>>
      PROVE  /\ rows[b] # "none" => rows'[b] # "none"
             /\ stage[b] \in {"relaying", "done"} => stage'[b] \in {"relaying", "done"}
             /\ stage'[b] = "mapped" => rows'[b] # "none"
             /\ stage'[b] \in {"idle", "ticketed", "checked"} => rows'[b] = "none"
  BY <1>u DEF RowsBegin
<1>1. ASSUME NEW x \in Browser, BrowserStep(x)
      PROVE  /\ rows[b] # "none" => rows'[b] # "none"
             /\ stage[b] \in {"relaying", "done"} => stage'[b] \in {"relaying", "done"}
             /\ stage'[b] = "mapped" => rows'[b] # "none"
             /\ stage'[b] \in {"idle", "ticketed", "checked"} => rows'[b] = "none"
  <2>1. CASE GetsTicket(x) \/ Redeems(x)
    BY <2>1 DEF GetsTicket, Redeems, sessionVars, RowsBegin, TypeOK
  <2>2. CASE CreatesRow(x)
    BY <2>2 DEF CreatesRow, RowsBegin, TypeOK
  <2>3. CASE EntersMap(x)
    BY <2>3 DEF EntersMap, RowsBegin, HubInv, TypeOK
  <2>4. CASE WritesStart(x) \/ Leaves(x)
    <3>1. /\ UNCHANGED rows /\ stage[x] \in {"mapped", "relaying"}
          /\ \E to \in {"relaying", "done"} : stage' = [stage EXCEPT ![x] = to]
      BY <2>4 DEF WritesStart, Leaves, sessionVars
    <3> QED BY <3>1 DEF RowsBegin, TypeOK
  <2>5. CASE Records(x)
    <3>1. outcome[x] # "active" /\ outcome[x] # "none" /\ stage[x] \notin Early
      BY <2>5 DEF EndKnown, HubInv, Records, Ended
    <3> QED BY <2>5, <3>1 DEF Records, browserVars, RowsBegin, Early, TypeOK
  <2> QED
    BY <1>1, <1>u, <2>1, <2>2, <2>3, <2>4, <2>5
    DEF BrowserStep, TimesOut, Tells, Exits, Expires, Dies, browserVars, sessionVars
<1>2. ASSUME NEW c \in Conn, ConnStep(c) PROVE UNCHANGED <<stage, rows>>
  BY <1>2 DEF ConnStep, Connects, Registers, Dispatches, LosesConn, Sweeps, Starts, Closes, Drops,
     InputBlocks, InputReturns, PtyFails, Reports, Finishes, browserVars, sessionVars
<1>3. CASE Restarts
  BY <1>3 DEF Restarts, RowsBegin, TypeOK
<1>4. CASE UNCHANGED vars
  BY <1>u, <1>4 DEF vars, browserVars, sessionVars
<1> QED BY <1>u, <1>1, <1>2, <1>3, <1>4 DEF Next

LEMMA RowsBeginStep ==
  ASSUME TypeOK, HubInv, EndKnown, RowsBegin, [Next]_vars
  PROVE  RowsBegin' /\ \A b \in Browser : Heard(b) => Heard(b)'
<1>1. ASSUME NEW b \in Browser
      PROVE  /\ rows[b] # "none" => rows'[b] # "none"
             /\ stage[b] \in {"relaying", "done"} => stage'[b] \in {"relaying", "done"}
             /\ stage'[b] = "mapped" => rows'[b] # "none"
             /\ stage'[b] \in {"idle", "ticketed", "checked"} => rows'[b] = "none"
  BY RowsMove
<1> QED BY <1>1 DEF RowsBegin, Heard

\* A shell comes into being by a start and by nothing else.
LEMMA ShellKept ==
  ASSUME TypeOK, [Next]_vars, ~\E c \in Conn : Starts(c), NEW b \in Browser
  PROVE  /\ shell'[b] = "none" <=> shell[b] = "none"
         /\ shell'[b] = "running" => shell[b] = "running"
<1>1. ASSUME NEW x \in Browser, BrowserStep(x)
      PROVE  /\ shell'[b] = "none" <=> shell[b] = "none"
             /\ shell'[b] = "running" => shell[b] = "running"
  <2>1. CASE Dies(x)
    BY <2>1 DEF Dies, TypeOK
  <2>2. CASE ~Dies(x)
    BY <1>1, <2>2 DEF BrowserStep, GetsTicket, Redeems, CreatesRow, EntersMap, WritesStart,
       Leaves, TimesOut, Tells, Records, Exits, Expires, shellVars
  <2> QED BY <2>1, <2>2
<1>2. ASSUME NEW c \in Conn, ConnStep(c)
      PROVE  /\ shell'[b] = "none" <=> shell[b] = "none"
             /\ shell'[b] = "running" => shell[b] = "running"
  <2>1. CASE Closes(c) \/ Drops(c)
    BY <2>1 DEF Closes, Drops, Killed
  <2>2. CASE Reports(c) \/ Finishes(c)
    BY <2>2 DEF Reports, Finishes, TypeOK
  <2>3. CASE shell' = shell
    BY <2>3
  <2> QED
    BY <1>2, <2>1, <2>2, <2>3
    DEF ConnStep, Connects, Registers, Dispatches, LosesConn, Sweeps, InputBlocks, InputReturns, PtyFails,
        shellVars
<1> QED BY <1>1, <1>2 DEF Next, Restarts, vars, shellVars

\* A step that starts no shell and leaves of the starts on their way none, or
\* some where they are,
LEMMA StartsStay ==
  ASSUME StartInv, \A b \in Browser : Heard(b) => Heard(b)',
         \A b \in Browser : shell'[b] = "none" <=> shell[b] = "none",
         \A c \in Conn : \A i \in 1..Len(down'[c]) : \A b \in Browser :
           down'[c][i] = Start(b) => i \in 1..Len(down[c]) /\ down[c][i] = Start(b)
  PROVE  StartInv'
<1>0. \A b \in Browser : Start(b)' = Start(b)
  BY DEF Start
<1>1. \A b \in Browser : shell'[b] # "none" => Heard(b)'
  BY DEF StartInv
<1>2. ASSUME NEW b \in Browser, NEW c \in Conn, NEW i \in 1..Len(down'[c]), down'[c][i] = Start(b)
      PROVE  Heard(b)' /\ shell'[b] = "none"
  BY <1>2 DEF StartInv
<1>3. ASSUME NEW b \in Browser, NEW c \in Conn, NEW d \in Conn, NEW i \in 1..Len(down'[c]),
             NEW j \in 1..Len(down'[d]), down'[c][i] = Start(b), down'[d][j] = Start(b)
      PROVE  c = d /\ i = j
  <2>1. i \in 1..Len(down[c]) /\ down[c][i] = Start(b)
    BY <1>3
  <2>2. j \in 1..Len(down[d]) /\ down[d][j] = Start(b)
    BY <1>3
  <2> QED BY <2>1, <2>2 DEF StartInv
<1> QED BY <1>0, <1>1, <1>2, <1>3 DEF StartInv

\* or one that takes the first message of a connection.
LEMMA StartsRead ==
  ASSUME TypeOK, StartInv, NEW c \in Conn, NEW type, Receives(c, type)
  PROVE  /\ down[c][1] \in Message /\ down[c][1] = Head(down[c]) /\ 1 \in 1..Len(down[c])
         /\ \A b \in Browser, d \in Conn : \A i \in 1..Len(down'[d]) :
              down'[d][i] = Start(b) =>
                /\ down[c][1] # Start(b)
                /\ \E k \in 1..Len(down[d]) : down[d][k] = Start(b)
         /\ \A b \in Browser, d, e \in Conn : \A i \in 1..Len(down'[d]), j \in 1..Len(down'[e]) :
              down'[d][i] = Start(b) /\ down'[e][j] = Start(b) => d = e /\ i = j
<1>1. /\ 1 \in 1..Len(down[c]) /\ Head(down[c]) = down[c][1]
      /\ \A x \in Conn : x # c => down'[x] = down[x]
      /\ \A i \in 1..Len(down'[c]) :
           i + 1 \in 1..Len(down[c]) /\ down'[c][i] = down[c][i + 1]
  BY MessagesReceived DEF TypeOK
<1>2. down[c][1] \in Message
  BY <1>1, ReceivesEffect DEF TypeOK
<1>3. ASSUME NEW b \in Browser, NEW d \in Conn, NEW i \in 1..Len(down'[d]), down'[d][i] = Start(b)
      PROVE  /\ down[c][1] # Start(b)
             /\ \E k \in 1..Len(down[d]) : down[d][k] = Start(b)
  <2>1. CASE d # c
    BY <1>1, <1>3, <2>1 DEF StartInv
  <2>2. CASE d = c
    <3>1. i + 1 # 1 /\ i + 1 \in 1..Len(down[c]) /\ down[c][i + 1] = Start(b)
      BY <1>1, <1>3, <2>2
    <3> QED BY <1>1, <2>2, <3>1 DEF StartInv
  <2> QED BY <2>1, <2>2
<1>4. ASSUME NEW b \in Browser, NEW d \in Conn, NEW e \in Conn, NEW i \in 1..Len(down'[d]),
             NEW j \in 1..Len(down'[e]), down'[d][i] = Start(b), down'[e][j] = Start(b)
      PROVE  d = e /\ i = j
  <2>1. PICK k \in 1..Len(down[d]) :
          down[d][k] = Start(b) /\ k = (IF d = c THEN i + 1 ELSE i)
    BY <1>1, <1>4
  <2>2. PICK l \in 1..Len(down[e]) :
          down[e][l] = Start(b) /\ l = (IF e = c THEN j + 1 ELSE j)
    BY <1>1, <1>4
  <2>3. d = e /\ k = l
    BY <2>1, <2>2 DEF StartInv
  <2> QED BY <2>1, <2>2, <2>3
<1> QED BY <1>1, <1>2, <1>3, <1>4

LEMMA StartInvStep ==
  ASSUME TypeOK, HubInv, PeerInv, EndKnown, RowsBegin, StartInv, [Next]_vars
  PROVE  StartInv'
<1>h. \A b \in Browser : Heard(b) => Heard(b)'
  BY RowsBeginStep
<1>k. ~(\E c \in Conn : Starts(c)) => \A b \in Browser : shell'[b] = "none" <=> shell[b] = "none"
  BY ShellKept
<1>1. CASE \E c \in Conn : Starts(c)
  <2>1. PICK c \in Conn : Starts(c)
    BY <1>1
  <2>2. Receives(c, "start")
    BY <2>1 DEF Starts
  <2>3. /\ down[c][1] \in Message /\ down[c][1] = Head(down[c]) /\ 1 \in 1..Len(down[c])
        /\ \A b \in Browser, d \in Conn : \A i \in 1..Len(down'[d]) :
             down'[d][i] = Start(b) =>
               /\ down[c][1] # Start(b)
               /\ \E k \in 1..Len(down[d]) : down[d][k] = Start(b)
        /\ \A b \in Browser, d, e \in Conn : \A i \in 1..Len(down'[d]), j \in 1..Len(down'[e]) :
             down'[d][i] = Start(b) /\ down'[e][j] = Start(b) => d = e /\ i = j
    BY <2>2, StartsRead
  <2>4. PICK b \in Browser : down[c][1] = Start(b) /\ b = Head(down[c]).session
    <3>1. down[c][1].type = "start"
      BY <2>2, <2>3 DEF Receives
    <3>2. down[c][1].session \in Browser /\ down[c][1] = Start(down[c][1].session)
      BY <2>3, <3>1 DEF Message, Start
    <3> QED BY <2>3, <3>2
  <2>5. Heard(b) /\ shell[b] = "none"
    BY <2>3, <2>4 DEF StartInv
  <2>6. \A x \in Browser : x # b => shell'[x] = shell[x]
    BY <2>1, <2>4 DEF Starts, TypeOK
  <2>7. \A x \in Browser : shell'[x] # "none" => Heard(x)'
    BY <1>h, <2>5, <2>6 DEF StartInv
  <2>8. ASSUME NEW x \in Browser, NEW d \in Conn, NEW i \in 1..Len(down'[d]),
               down'[d][i] = Start(x)
        PROVE  Heard(x)' /\ shell'[x] = "none"
    BY <1>h, <2>3, <2>4, <2>6, <2>8 DEF StartInv
  <2>9. \A x \in Browser : Start(x)' = Start(x)
    BY DEF Start
  <2> QED BY <2>3, <2>7, <2>8, <2>9 DEF StartInv
<1>2. CASE \E c \in Conn : Closes(c)
  <2>1. PICK c \in Conn : Closes(c) /\ Receives(c, "close")
    BY <1>2 DEF Closes
  <2>2. /\ \A b \in Browser, d \in Conn : \A i \in 1..Len(down'[d]) :
             down'[d][i] = Start(b) => \E k \in 1..Len(down[d]) : down[d][k] = Start(b)
        /\ \A b \in Browser, d, e \in Conn : \A i \in 1..Len(down'[d]), j \in 1..Len(down'[e]) :
             down'[d][i] = Start(b) /\ down'[e][j] = Start(b) => d = e /\ i = j
    BY <2>1, StartsRead
  <2>3. \A b \in Browser : shell'[b] = "none" <=> shell[b] = "none"
    BY <2>1 DEF Closes, Killed, TypeOK
  <2>4. \A x \in Browser : shell'[x] # "none" => Heard(x)'
    BY <1>h, <2>3 DEF StartInv
  <2>5. ASSUME NEW x \in Browser, NEW d \in Conn, NEW i \in 1..Len(down'[d]),
               down'[d][i] = Start(x)
        PROVE  Heard(x)' /\ shell'[x] = "none"
    BY <1>h, <2>2, <2>3, <2>5 DEF StartInv
  <2>6. \A x \in Browser : Start(x)' = Start(x)
    BY DEF Start
  <2> QED BY <2>2, <2>4, <2>5, <2>6 DEF StartInv
<1>3. CASE \E b \in Browser : WritesStart(b)
  <2>1. PICK b \in Browser : WritesStart(b)
    BY <1>3
  <2>2. stage[b] = "mapped" /\ peerOf[b] \in Conn /\ Sends(peerOf[b], Start(b)) /\ shell' = shell
    BY <2>1 DEF WritesStart, PeerInv, shellVars
  <2>3. ~Heard(b)
    BY <2>2 DEF Heard
  <2>4. \A c \in Conn : \A i \in 1..Len(down[c]) : down[c][i] # Start(b)
    BY <2>3 DEF StartInv
  <2>5. CASE down' = down
    BY <1>h, <2>2, <2>5, StartsStay
  <2>6. CASE down' # down
    <3>1. hub[peerOf[b]] = "open" /\ down' = [down EXCEPT ![peerOf[b]] = Append(@, Start(b))]
      BY <2>2, <2>6 DEF Sends
    <3>2. Heard(b)' /\ shell[b] = "none"
      <4>1. stage' = [stage EXCEPT ![b] = "relaying"] /\ rows' = rows
        BY <2>1, <3>1 DEF WritesStart, sessionVars
      <4>2. stage'[b] = "relaying"
        BY <4>1 DEF TypeOK
      <4> QED BY <2>2, <2>3, <4>1, <4>2 DEF RowsBegin, Heard, StartInv
    <3>3. \A c \in Conn : \A i \in 1..Len(down'[c]) :
            \/ i \in 1..Len(down[c]) /\ down'[c][i] = down[c][i]
            \/ c = peerOf[b] /\ i = Len(down[c]) + 1 /\ down'[c][i] = Start(b)
      <4>1. Start(b) \in Message
        BY MessageTypes
      <4>2. \A c \in Conn : down[c] \in Seq(Message)
        BY DEF TypeOK
      <4> QED BY <2>2, <3>1, <4>1, <4>2 DEF TypeOK
    <3>4. \A x \in Browser : Start(x)' = Start(x) /\ (Start(x) = Start(b) => x = b)
      BY DEF Start
    <3>5. \A x \in Browser : shell'[x] # "none" => Heard(x)'
      BY <1>h, <2>2 DEF StartInv
    <3>6. ASSUME NEW x \in Browser, NEW c \in Conn, NEW i \in 1..Len(down'[c]),
                 down'[c][i] = Start(x)
          PROVE  Heard(x)' /\ shell'[x] = "none"
      BY <1>h, <2>2, <3>2, <3>3, <3>4, <3>6 DEF StartInv
    <3>7. ASSUME NEW x \in Browser, NEW c \in Conn, NEW d \in Conn, NEW i \in 1..Len(down'[c]),
                 NEW j \in 1..Len(down'[d]), down'[c][i] = Start(x), down'[d][j] = Start(x)
          PROVE  c = d /\ i = j
      <4>1. CASE x = b
        <5>1. /\ c = peerOf[b] /\ i = Len(down[c]) + 1
              /\ d = peerOf[b] /\ j = Len(down[d]) + 1
          BY <2>4, <3>3, <3>7, <4>1
        <5> QED BY <5>1
      <4>2. CASE x # b
        <5>1. /\ i \in 1..Len(down[c]) /\ down[c][i] = Start(x)
              /\ j \in 1..Len(down[d]) /\ down[d][j] = Start(x)
          BY <3>3, <3>4, <3>7, <4>2
        <5> QED BY <5>1 DEF StartInv
      <4> QED BY <4>1, <4>2
    <3> QED BY <3>4, <3>5, <3>6, <3>7 DEF StartInv
  <2> QED BY <2>5, <2>6
<1>4. CASE \E b \in Browser : Tells(b)
  <2>1. PICK b \in Browser : Tells(b)
    BY <1>4
  <2>2. \A x \in Conn : \A i \in 1..Len(down'[x]) :
          \/ i \in 1..Len(down[x]) /\ down'[x][i] = down[x][i]
          \/ i = Len(down[x]) + 1 /\ down'[x][i] = Close(b)
    BY <2>1, MessageTypes, MessagesSent DEF TypeOK, Tells
  <2>3. \A x \in Browser : Start(x) # Close(b)
    BY DEF Start, Close
  <2>4. shell' = shell
    BY <2>1 DEF Tells, shellVars
  <2> QED BY <1>h, <2>2, <2>3, <2>4, StartsStay
<1>5. CASE \E c \in Conn : Drops(c)
  <2>1. PICK c \in Conn : Drops(c)
    BY <1>5
  <2>2. \A x \in Conn : 1..Len(down'[x]) = {} \/ down'[x] = down[x]
    BY <2>1 DEF Drops, TypeOK
  <2>3. \A b \in Browser : shell'[b] = "none" <=> shell[b] = "none"
    BY <2>1 DEF Drops, Killed, TypeOK
  <2> QED BY <1>h, <2>2, <2>3, StartsStay
<1>6. CASE down' = down /\ ~\E c \in Conn : Starts(c)
  BY <1>h, <1>k, <1>6, StartsStay
<1> QED
  BY <1>1, <1>2, <1>3, <1>4, <1>5, <1>6
  DEF Next, BrowserStep, ConnStep, GetsTicket, Redeems, CreatesRow, EntersMap, Leaves, TimesOut,
      Records, Exits, Expires, Dies, Connects, Registers, Dispatches, LosesConn, Sweeps, InputBlocks,
      InputReturns, PtyFails, Reports, Finishes, Restarts, vars

\* What makes a session's phase, in this state and in the next.
LEMMA PhaseOf ==
  ASSUME NEW b \in Browser
  PROVE  /\ SlotPhase[b] = IF rows[b] = "none" THEN "none"
                           ELSE IF rows[b] # "active" THEN "released"
                           ELSE IF stage[b] = "created" THEN "granted"
                           ELSE IF b \in sessions THEN "serving" ELSE "ending"
         /\ SlotPhase'[b] = IF rows'[b] = "none" THEN "none"
                            ELSE IF rows'[b] # "active" THEN "released"
                            ELSE IF stage'[b] = "created" THEN "granted"
                            ELSE IF b \in sessions' THEN "serving" ELSE "ending"
  BY DEF SlotPhase

\* Only a session's own row, handler and place in the map tell its phase.
LEMMA OtherPhase ==
  ASSUME NEW x \in Browser, rows'[x] = rows[x], stage'[x] = stage[x],
         x \in sessions' <=> x \in sessions
  PROVE  SlotPhase'[x] = SlotPhase[x]
BY PhaseOf

\* A step that changes one phase, or none.
LEMMA OnePhase ==
  ASSUME NEW b \in Browser, NEW to, SlotPhase'[b] = to,
         \A x \in Browser : x # b => SlotPhase'[x] = SlotPhase[x]
  PROVE  SlotPhase' = [SlotPhase EXCEPT ![b] = to]
<1>1. SlotPhase = [x \in Browser |-> SlotPhase[x]] /\ SlotPhase' = [x \in Browser |-> SlotPhase'[x]]
  BY DEF SlotPhase
<1> QED BY <1>1

LEMMA SamePhase ==
  ASSUME UNCHANGED <<rows, sessions>>,
         \A b \in Browser : stage'[b] = "created" <=> stage[b] = "created"
  PROVE  SlotPhase' = SlotPhase
<1>1. ASSUME NEW b \in Browser PROVE SlotPhase'[b] = SlotPhase[b]
  BY PhaseOf
<1>2. SlotPhase = [x \in Browser |-> SlotPhase[x]] /\ SlotPhase' = [x \in Browser |-> SlotPhase'[x]]
  BY DEF SlotPhase
<1> QED BY <1>1, <1>2

LEMMA SameShell ==
  ASSUME UNCHANGED shell PROVE SlotShell' = SlotShell
  BY DEF SlotShell

\* The map empties: by endSession, whoever calls it, or by a restart, one
\* session at most loses the terminal, and its row is still active.
LEMMA EndsSlot ==
  ASSUME HubInv, UNCHANGED <<rows, shell>>, sessions' \subseteq sessions,
         \A b \in Browser : stage'[b] = "created" => stage[b] = "created",
         \A b \in Browser : stage[b] = "created" /\ stage'[b] # "created" => b \notin sessions'
  PROVE  [Slot!ENext]_(Slot!evars)
<1>1. SlotShell' = SlotShell
  BY SameShell
<1>2. CASE SlotPhase' = SlotPhase
  BY <1>1, <1>2 DEF Slot!evars
<1>3. CASE SlotPhase' # SlotPhase
  <2>1. SlotPhase = [x \in Browser |-> SlotPhase[x]] /\ SlotPhase' = [x \in Browser |-> SlotPhase'[x]]
    BY DEF SlotPhase
  <2>2. PICK b \in Browser : SlotPhase'[b] # SlotPhase[b]
    BY <1>3, <2>1
  <2>3. rows[b] = "active" /\ SlotPhase[b] \in {"granted", "serving"} /\ SlotPhase'[b] = "ending"
    BY <2>2, PhaseOf DEF HubInv, Early
  <2>4. \A x \in Browser : x # b => rows[x] # "active"
    BY <2>3 DEF HubInv
  <2>5. ASSUME NEW x \in Browser, x # b PROVE SlotPhase'[x] = SlotPhase[x]
    BY <2>4, <2>5, PhaseOf
  <2>6. SlotPhase' = [SlotPhase EXCEPT ![b] = "ending"]
    BY <2>3, <2>5, OnePhase
  <2>7. Slot!End(b)
    BY <1>1, <2>3, <2>6 DEF Slot!End, Slot!Moves
  <2> QED BY <2>7 DEF Slot!ENext
<1> QED BY <1>2, <1>3

LEMMA Stops ==
  ASSUME TypeOK, NEW b \in Browser, shell[b] = "running",
         shell' = [shell EXCEPT ![b] = "dead"], UNCHANGED <<rows, sessions, stage>>
  PROVE  Slot!ENext
<1>1. SlotShell[b] = "running" /\ SlotShell' = [SlotShell EXCEPT ![b] = "stopped"]
  BY DEF SlotShell, TypeOK
<1>2. SlotPhase' = SlotPhase
  BY SamePhase
<1> QED BY <1>1, <1>2 DEF Slot!ENext, Slot!Stop

\* close and the end of connect kill the current shell, if there is one.
LEMMA KillsSlot ==
  ASSUME TypeOK, NEW c \in Conn, shell' = Killed(c), UNCHANGED <<rows, sessions, stage>>
  PROVE  [Slot!ENext]_(Slot!evars)
<1>1. CASE \E b \in Browser : b = current[c] /\ shell[b] = "running"
  <2>1. PICK b \in Browser : b = current[c] /\ shell[b] = "running"
    BY <1>1
  <2>2. shell' = [shell EXCEPT ![b] = "dead"]
    BY <2>1 DEF Killed, TypeOK
  <2> QED BY <2>1, <2>2, Stops
<1>2. CASE ~\E b \in Browser : b = current[c] /\ shell[b] = "running"
  <2>1. shell' = shell
    BY <1>2 DEF Killed, TypeOK
  <2> QED BY <2>1, SamePhase, SameShell DEF Slot!evars
<1> QED BY <1>1, <1>2

\* A start that is received has not been received before, its session is known,
\* and the manager that takes it has none, so no other shell runs.
LEMMA StartsRuns ==
  ASSUME TypeOK, ShellInv, StartInv, NEW c \in Conn, Starts(c)
  PROVE  [Slot!ENext]_(Slot!evars)
<1>1. UNCHANGED <<rows, sessions, stage>>
  BY DEF Starts, browserVars, sessionVars
<1>2. SlotPhase' = SlotPhase
  BY <1>1, SamePhase
<1>3. CASE shell' = shell
  BY <1>2, <1>3, SameShell DEF Slot!evars
<1>4. CASE shell' # shell
  <2>1. PICK b \in Browser :
          /\ b = Head(down[c]).session /\ current[c] = NoBrowser /\ agentConn = c
          /\ shell' = [shell EXCEPT ![b] = "running"]
    BY <1>4, ReceivesEffect DEF Starts, Receives, Reading, TypeOK
  <2>2. down[c][1] = Start(b) /\ 1 \in 1..Len(down[c])
    BY <2>1, StartsRead DEF Starts, Receives, Message, Start
  <2>3. shell[b] = "none" /\ Heard(b)
    BY <2>2 DEF StartInv
  <2>4. SlotPhase[b] \in {"serving", "ending", "released"}
    BY <2>3, PhaseOf DEF Heard
  <2>5. \A x \in Browser : shell[x] # "running"
    BY <2>1, TerminalAssumption DEF ShellInv
  <2>6. /\ SlotShell[b] = "none" /\ \A x \in Browser : SlotShell[x] # "running"
        /\ SlotShell' = [SlotShell EXCEPT ![b] = "running"]
    BY <2>1, <2>3, <2>5 DEF SlotShell, TypeOK
  <2>7. Slot!Run(b)
    BY <1>2, <2>4, <2>6 DEF Slot!Run
  <2> QED BY <2>7 DEF Slot!ENext
<1> QED BY <1>3, <1>4

LEMMA BrowserSlot ==
  ASSUME TypeOK, HubInv, EndKnown, RowsBegin, NEW b \in Browser, BrowserStep(b)
  PROVE  [Slot!ENext]_(Slot!evars)
<1>s. ASSUME UNCHANGED <<rows, sessions, shell>>,
             \A x \in Browser : stage'[x] = "created" <=> stage[x] = "created"
      PROVE  UNCHANGED Slot!evars
  BY <1>s, SamePhase, SameShell DEF Slot!evars
<1>1. CASE GetsTicket(b) \/ Redeems(b) \/ Tells(b)
  BY <1>1, <1>s DEF GetsTicket, Redeems, Tells, TypeOK, sessionVars, shellVars, browserVars
<1>2. CASE CreatesRow(b)
  <2>1. CASE UNCHANGED rows
    <3>1. stage[b] = "checked" /\ stage' = [stage EXCEPT ![b] = "done"]
      BY <1>2, <2>1 DEF CreatesRow, Insertable, TypeOK
    <3>2. \A x \in Browser : stage'[x] = "created" <=> stage[x] = "created"
      BY <3>1 DEF TypeOK
    <3>3. UNCHANGED <<rows, sessions, shell>>
      BY <1>2, <2>1 DEF CreatesRow, shellVars
    <3> QED BY <3>2, <3>3, <1>s
  <2>2. CASE ~UNCHANGED rows
    <3>1. /\ Insertable /\ stage[b] = "checked"
          /\ rows' = [rows EXCEPT ![b] = "active"]
          /\ \E s \in {"created", "unheard"} : stage' = [stage EXCEPT ![b] = s]
          /\ UNCHANGED <<sessions, shell>>
      BY <1>2, <2>2 DEF CreatesRow, shellVars
    <3>2. SlotPhase[b] = "none" /\ \A x \in Browser : SlotPhase[x] \notin Slot!Holding
      BY <3>1, PhaseOf DEF RowsBegin, Insertable, Slot!Holding
    <3>3. SlotPhase'[b] \in {"granted", "ending"}
      <4>1. rows'[b] = "active" /\ stage'[b] \in {"created", "unheard"}
        BY <3>1 DEF TypeOK
      <4>2. b \notin sessions'
        BY <3>1 DEF HubInv, Early
      <4> QED BY <4>1, <4>2, PhaseOf
    <3>o. ASSUME NEW x \in Browser, x # b PROVE SlotPhase'[x] = SlotPhase[x]
      <4>1. rows'[x] = rows[x] /\ stage'[x] = stage[x]
        BY <3>1, <3>o DEF TypeOK
      <4> QED BY <3>1, <4>1, OtherPhase
    <3>4. Slot!Grant(b)
      BY <3>1, <3>2, <3>3, <3>o, OnePhase, SameShell DEF Slot!Grant, Slot!Moves
    <3> QED BY <3>4 DEF Slot!ENext
  <2> QED BY <2>1, <2>2
<1>3. CASE EntersMap(b)
  <2>1. /\ stage[b] = "created" /\ stage' = [stage EXCEPT ![b] = "mapped"]
        /\ sessions' = sessions \cup {b} /\ UNCHANGED <<rows, shell>>
    BY <1>3 DEF EntersMap, shellVars
  <2>2. rows[b] = "active"
    BY <2>1 DEF HubInv
  <2>3. SlotPhase[b] = "granted" /\ SlotPhase'[b] = "serving"
    <3>1. rows'[b] = "active" /\ stage'[b] = "mapped" /\ b \in sessions'
      BY <2>1, <2>2 DEF TypeOK
    <3> QED BY <2>1, <2>2, <3>1, PhaseOf
  <2>4. ASSUME NEW x \in Browser, x # b PROVE SlotPhase'[x] = SlotPhase[x]
    <3>1. stage'[x] = stage[x] /\ rows'[x] = rows[x] /\ (x \in sessions' <=> x \in sessions)
      BY <2>1, <2>4 DEF TypeOK
    <3> QED BY <3>1, OtherPhase
  <2>5. Slot!Serve(b)
    BY <2>1, <2>3, <2>4, OnePhase, SameShell DEF Slot!Serve, Slot!Moves
  <2> QED BY <2>5 DEF Slot!ENext
<1>4. CASE WritesStart(b) \/ Leaves(b) \/ TimesOut(b)
  <2>1. sessions' \subseteq sessions /\ UNCHANGED <<rows, shell>>
    BY <1>4 DEF WritesStart, Leaves, TimesOut, Begins, sessionVars, shellVars
  <2>2. \A x \in Browser : stage'[x] = "created" <=> stage[x] = "created"
    <3>1. CASE UNCHANGED stage
      BY <3>1
    <3>2. CASE /\ stage[b] \in {"mapped", "relaying"}
               /\ \E to \in {"relaying", "done"} : stage' = [stage EXCEPT ![b] = to]
      BY <3>2 DEF TypeOK
    <3> QED BY <1>4, <3>1, <3>2 DEF WritesStart, Leaves, TimesOut, browserVars
  <2> QED BY <2>1, <2>2, EndsSlot
<1>5. CASE Records(b)
  <2>1. UNCHANGED <<sessions, stage, shell>>
    BY <1>5 DEF Records, browserVars, shellVars
  <2>2. CASE UNCHANGED rows
    BY <2>1, <2>2, <1>s
  <2>3. CASE ~UNCHANGED rows
    <3>1. endStep[b] = "record" /\ rows' = [rows EXCEPT ![b] = outcome[b]]
      BY <1>5, <2>3 DEF Records, TypeOK
    <3>2. /\ outcome[b] # "active" /\ outcome[b] # "none" /\ rows[b] = "active"
          /\ b \notin sessions /\ stage[b] # "created"
      BY <3>1 DEF EndKnown, Ended, HubInv, Early
    <3>3. SlotPhase[b] = "ending" /\ SlotPhase'[b] = "released"
      <4>1. rows'[b] = outcome[b]
        BY <3>1 DEF TypeOK
      <4> QED BY <3>2, <4>1, PhaseOf
    <3>4. ASSUME NEW x \in Browser, x # b PROVE SlotPhase'[x] = SlotPhase[x]
      <4>1. rows'[x] = rows[x]
        BY <3>1, <3>4 DEF TypeOK
      <4> QED BY <2>1, <4>1, OtherPhase
    <3>5. Slot!Release(b)
      BY <2>1, <3>3, <3>4, OnePhase, SameShell DEF Slot!Release, Slot!Moves
    <3> QED BY <3>5 DEF Slot!ENext
  <2> QED BY <2>2, <2>3
<1>6. CASE Dies(b)
  BY <1>6, Stops DEF Dies, browserVars, sessionVars
<1> QED BY <1>1, <1>2, <1>3, <1>4, <1>5, <1>6 DEF BrowserStep, Exits, Expires

LEMMA ConnSlot ==
  ASSUME TypeOK, HubInv, ShellInv, StartInv, NEW c \in Conn, ConnStep(c)
  PROVE  [Slot!ENext]_(Slot!evars)
<1>1. CASE Dispatches(c) \/ Sweeps(c)
  <2>1. sessions' \subseteq sessions /\ UNCHANGED <<rows, shell, stage>>
    BY <1>1 DEF Dispatches, Sweeps, Begins, sessionVars, shellVars, browserVars
  <2> QED BY <2>1, EndsSlot
<1>2. CASE Starts(c)
  BY <1>2, StartsRuns
<1>3. CASE Closes(c) \/ Drops(c)
  BY <1>3, KillsSlot DEF Closes, Drops, browserVars, sessionVars
<1>4. CASE Reports(c) \/ Finishes(c)
  <2>1. UNCHANGED <<rows, sessions, stage>>
    BY <1>4 DEF Reports, Finishes, browserVars, sessionVars
  <2>2. SlotShell' = SlotShell
    BY <1>4 DEF Reports, Finishes, SlotShell, TypeOK
  <2> QED BY <2>1, <2>2, SamePhase DEF Slot!evars
<1>5. CASE UNCHANGED <<rows, sessions, stage, shell>>
  BY <1>5, SamePhase, SameShell DEF Slot!evars
<1> QED
  BY <1>1, <1>2, <1>3, <1>4, <1>5
  DEF ConnStep, Connects, Registers, LosesConn, InputBlocks, InputReturns, PtyFails, browserVars,
      sessionVars, shellVars

LEMMA SlotStep ==
  ASSUME TypeOK, HubInv, ShellInv, EndKnown, RowsBegin, StartInv, [Next]_vars
  PROVE  [Slot!ENext]_(Slot!evars)
<1>1. CASE Restarts
  <2>1. /\ sessions' = {} /\ UNCHANGED <<rows, shell>>
        /\ \A b \in Browser : stage'[b] # "created"
    BY <1>1 DEF Restarts, shellVars
  <2> QED BY <2>1, EndsSlot
<1>2. CASE UNCHANGED vars
  BY <1>2, SamePhase, SameShell DEF Slot!evars, vars, browserVars, sessionVars, shellVars
<1> QED BY <1>1, <1>2, BrowserSlot, ConnSlot DEF Next

\* The terminal of a server is one session's at a time, and so is its host.
THEOREM TerminalIsExclusiveAlways == Spec => TerminalIsExclusive
<1>1. Init => EndKnown /\ RowsBegin
  BY DEF Init, EndKnown, RowsBegin
<1>2. Init => StartInv
  <2> SUFFICES ASSUME Init PROVE StartInv
    OBVIOUS
  <2>1. \A c \in Conn : 1..Len(down[c]) = {}
    BY DEF Init
  <2> QED BY <2>1 DEF Init, StartInv
<1>3. Init => Slot!EInit
  BY DEF Init, Slot!EInit, SlotPhase, SlotShell
<1>4. TypeOK /\ HubInv /\ EndKnown /\ RowsBegin /\ [Next]_vars => EndKnown' /\ RowsBegin'
  BY EndKnownStep, RowsBeginStep
<1> QED
  BY <1>1, <1>2, <1>3, <1>4, TypeInit, TypeStep, HubInvInit, HubInvStep, PeerInvInit, PeerInvStep,
     ShellInvInit, ShellInvStep, StartInvStep, SlotStep, PTL
  DEF Spec, TerminalIsExclusive, Slot!ESpec
=============================================================================
