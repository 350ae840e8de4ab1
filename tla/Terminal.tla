------------------------------ MODULE Terminal ------------------------------
(***************************************************************************)
(* The web terminal of one server: the hub of the control plane, the rows  *)
(* of terminal_sessions and the Agent's end of the reverse connection.     *)
(*                                                                         *)
(* A browser asks for a ticket, redeems it on a WebSocket, and its handler *)
(* then works in steps that hold no common lock: check, insert the row,    *)
(* enter the map, write session_start to the Agent, relay.  A session ends *)
(* in endSession, which four threads may call: the handler itself, the     *)
(* thirty minute timer, the reader of the Agent's connection and the sweep *)
(* that follows the loss of that connection.                               *)
(*                                                                         *)
(* Each browser opens at most one session and each connection is made      *)
(* once: Browser and Conn are the bounds of the model.  Input, output and  *)
(* resize messages carry only data and are left out, except that using the *)
(* pseudo terminal may fail, and that writing input to a program that does *)
(* not read it blocks the Agent's reading loop.  An expired ticket is      *)
(* refused like an unknown one, so time is a choice of the redemption.     *)
(* The owner of the server is the only user who can open its terminal.     *)
(***************************************************************************)
EXTENDS Naturals, Sequences, FiniteSets

CONSTANTS Browser,      \* browsers, each with its ticket and its session
          Conn,         \* connections the Agent makes, one after the other
          MayRestart,   \* whether the control plane may be restarted (once)
          NoBrowser, NoConn

ASSUME TerminalAssumption ==
  NoBrowser \notin Browser /\ NoConn \notin Conn /\ MayRestart \in BOOLEAN

VARIABLES tickets,      \* Hub.tickets
          stage,        \* how far BrowserSocket has come
          peerOf,       \* the Agent connection the handler read from the hub
          sessions,     \* Hub.sessions
          endStep,      \* how far endSession has come
          outcome,      \* the status endSession was called with
          endedBy,      \* the connection whose reader runs endSession
          rows,         \* terminal_sessions.status
          hubAgent,     \* Hub.agents of this server
          hub,          \* the control plane's end of each connection
          agentConn,    \* the connection the Agent's loop is in
          current,      \* sessionManager.current, one manager per connection
          shell,        \* the shell process of each session
          broken,       \* sessions whose pseudo terminal has failed
          writing,      \* the session whose input blocks the reading loop
          down, up,     \* messages on their way to and from the Agent
          restarted     \* the control plane has been restarted

browserVars == <<tickets, stage, peerOf>>
sessionVars == <<sessions, endStep, outcome, endedBy, rows>>
connVars    == <<hubAgent, hub, agentConn>>
shellVars   == <<current, shell, broken, writing>>
vars == <<browserVars, sessionVars, connVars, shellVars, down, up, restarted>>

Ended   == {"closed", "agent_disconnected", "timed_out", "failed"}
Message == [type : {"start", "close", "error", "exit"}, session : Browser]

Start(b) == [type |-> "start", session |-> b]
Close(b) == [type |-> "close", session |-> b]
Error(b) == [type |-> "error", session |-> b]
Exit(b)  == [type |-> "exit", session |-> b]

Init ==
  /\ tickets = {} /\ sessions = {} /\ broken = {}
  /\ stage = [b \in Browser |-> "idle"]
  /\ peerOf = [b \in Browser |-> NoConn]
  /\ endStep = [b \in Browser |-> "none"]
  /\ outcome = [b \in Browser |-> "none"]
  /\ endedBy = [b \in Browser |-> NoConn]
  /\ rows = [b \in Browser |-> "none"]
  /\ hub = [c \in Conn |-> "unused"]
  /\ hubAgent = NoConn /\ agentConn = NoConn
  /\ current = [c \in Conn |-> NoBrowser] /\ writing = [c \in Conn |-> NoBrowser]
  /\ shell = [b \in Browser |-> "none"]
  /\ down = [c \in Conn |-> <<>>] /\ up = [c \in Conn |-> <<>>]
  /\ restarted = FALSE
-----------------------------------------------------------------------------
(* Ending a session.                                                       *)

\* endSession is entered once for each session: it leaves the map first.
\* Every caller finds the session in the map, or is the handler that put it
\* there; whoever comes second only waits.
Begins(S, status, tells, thread) ==
  LET new == {b \in S : endStep[b] = "none"} IN
  /\ sessions' = sessions \ new
  /\ endStep' = [b \in Browser |-> IF b \notin new THEN endStep[b]
                                   ELSE IF tells THEN "tell" ELSE "record"]
  /\ outcome' = [b \in Browser |-> IF b \in new THEN status ELSE outcome[b]]
  /\ endedBy' = [b \in Browser |-> IF b \in new THEN thread ELSE endedBy[b]]

\* peer.write: on an open connection the message is on its way, though it is
\* lost if the Agent has already left; on a closed one it fails.
Sends(c, m) ==
  down' = IF hub[c] = "open" /\ agentConn = c
          THEN [down EXCEPT ![c] = Append(@, m)] ELSE down

\* notifyAgent: session_close is written, and an error of the write ignored.
Tells(b) ==
  /\ endStep[b] = "tell"
  /\ Sends(peerOf[b], Close(b))
  /\ endStep' = [endStep EXCEPT ![b] = "record"]
  /\ UNCHANGED <<browserVars, sessions, outcome, endedBy, rows, connVars,
                 shellVars, up, restarted>>

\* Mutant: endSession closes the row before it tells the Agent.
RecordsFirst(b) ==
  /\ endStep[b] \in {"tell", "record"}
  /\ rows' = [rows EXCEPT ![b] = IF @ = "active" THEN outcome[b] ELSE @]
  /\ endStep' = [endStep EXCEPT ![b] = IF @ = "tell" THEN "tell" ELSE "over"]
  /\ UNCHANGED <<browserVars, sessions, outcome, endedBy, connVars, shellVars,
                 down, up, restarted>>

\* The browser is hung up on and closeSession updates the row; an error of
\* the database is ignored.
Records(b) ==
  /\ endStep[b] = "record"
  /\ \/ rows' = [rows EXCEPT ![b] = IF @ = "active" THEN outcome[b] ELSE @]
     \/ UNCHANGED rows
  /\ endStep' = [endStep EXCEPT ![b] = "over"]
  /\ UNCHANGED <<browserVars, sessions, outcome, endedBy, connVars, shellVars,
                 down, up, restarted>>

TimesOut(b) ==
  /\ stage[b] = "relaying" /\ b \in sessions
  /\ Begins({b}, "timed_out", TRUE, NoConn)
  /\ UNCHANGED <<browserVars, rows, connVars, shellVars, down, up, restarted>>
-----------------------------------------------------------------------------
(* A browser's requests: CreateTicket, then BrowserSocket.                 *)

\* A new ticket replaces the owner's earlier ticket for this server.
GetsTicket(b) ==
  /\ stage[b] = "idle"
  /\ hubAgent # NoConn /\ sessions = {}
  /\ tickets' = {b}
  /\ stage' = [stage EXCEPT ![b] = "ticketed"]
  /\ UNCHANGED <<peerOf, sessionVars, connVars, shellVars, down, up, restarted>>

\* The ticket is used up even when the request is refused, the ticket has
\* expired or the upgrade fails.
Redeems(b) ==
  /\ stage[b] = "ticketed"
  /\ tickets' = tickets \ {b}
  /\ \/ /\ b \in tickets /\ hubAgent # NoConn /\ sessions = {}
        /\ stage' = [stage EXCEPT ![b] = "checked"]
        /\ peerOf' = [peerOf EXCEPT ![b] = hubAgent]
     \/ stage' = [stage EXCEPT ![b] = "done"] /\ UNCHANGED peerOf
  /\ UNCHANGED <<sessionVars, connVars, shellVars, down, up, restarted>>

\* Mutant: no unique index: the check in the hub has to do.
InsertableOnCheck == sessions = {}

\* The unique index allows one active row for a server.
Insertable == \A x \in Browser : rows[x] # "active"

\* The answer to a commit may be lost: the row is there, and the handler gives
\* up as if it were not.
CreatesRow(b) ==
  /\ stage[b] = "checked"
  /\ \/ /\ Insertable
        /\ rows' = [rows EXCEPT ![b] = "active"]
        /\ \E s \in {"created", "unheard"} : stage' = [stage EXCEPT ![b] = s]
     \/ stage' = [stage EXCEPT ![b] = "done"] /\ UNCHANGED rows
  /\ UNCHANGED <<tickets, peerOf, sessions, endStep, outcome, endedBy,
                 connVars, shellVars, down, up, restarted>>

EntersMap(b) ==
  /\ stage[b] = "created"
  /\ sessions' = sessions \cup {b}
  /\ stage' = [stage EXCEPT ![b] = "mapped"]
  /\ UNCHANGED <<tickets, peerOf, endStep, outcome, endedBy, rows, connVars,
                 shellVars, down, up, restarted>>

WritesStart(b) ==
  /\ stage[b] = "mapped"
  /\ Sends(peerOf[b], Start(b))
  /\ \/ /\ hub[peerOf[b]] = "open"
        /\ stage' = [stage EXCEPT ![b] = "relaying"]
        /\ UNCHANGED sessionVars
     \/ /\ hub[peerOf[b]] # "open"
        /\ stage' = [stage EXCEPT ![b] = "done"]
        /\ Begins({b}, "agent_disconnected", FALSE, NoConn)
        /\ UNCHANGED rows
  /\ UNCHANGED <<tickets, peerOf, connVars, shellVars, up, restarted>>

\* Mutant: the handler's deferred endSession does not notify the Agent.
LeavesSilently(b) ==
  /\ stage[b] = "relaying"
  /\ stage' = [stage EXCEPT ![b] = "done"]
  /\ Begins({b}, "closed", FALSE, NoConn)
  /\ UNCHANGED <<tickets, peerOf, rows, connVars, shellVars, down, up, restarted>>

\* The reading loop returns: the browser closed, asked to close or vanished,
\* a write to the Agent failed, or endSession has hung up.
Leaves(b) ==
  /\ stage[b] = "relaying"
  /\ stage' = [stage EXCEPT ![b] = "done"]
  /\ Begins({b}, "closed", TRUE, NoConn)
  /\ UNCHANGED <<tickets, peerOf, rows, connVars, shellVars, down, up, restarted>>
-----------------------------------------------------------------------------
(* The control plane's end of the Agent's connections: AgentSocket.        *)

\* The Agent's loop dials, and its request is upgraded.
Connects(c) ==
  /\ agentConn = NoConn /\ hub[c] = "unused"
  /\ agentConn' = c
  /\ hub' = [hub EXCEPT ![c] = "upgraded"]
  /\ UNCHANGED <<browserVars, sessionVars, hubAgent, shellVars, down, up, restarted>>

\* registerAgent: the hub has this connection now, which the Agent may have
\* left meanwhile.  The one it replaces is closed after that (LosesConn).
Registers(c) ==
  /\ hub[c] = "upgraded"
  /\ hubAgent' = c
  /\ hub' = [hub EXCEPT ![c] = "open"]
  /\ UNCHANGED <<browserVars, sessionVars, agentConn, shellVars, down, up, restarted>>

\* The reader of a connection that is inside endSession reads nothing else.
ReaderFree(c) == \A b \in Browser : endedBy[b] = c => endStep[b] = "over"

\* dispatchAgentMessage: error and exit end the session, if it is in the map
\* and belongs to this connection.
Dispatches(c) ==
  /\ hub[c] = "open" /\ ReaderFree(c) /\ up[c] # <<>>
  /\ up' = [up EXCEPT ![c] = Tail(@)]
  /\ LET m == Head(up[c]) IN
     IF m.session \in sessions /\ peerOf[m.session] = c
     THEN /\ Begins({m.session}, IF m.type = "error" THEN "failed" ELSE "closed",
                    FALSE, c)
          /\ UNCHANGED rows
     ELSE UNCHANGED sessionVars
  /\ UNCHANGED <<browserVars, connVars, shellVars, down, restarted>>

\* The read or a ping fails, or registerAgent has replaced the connection; the
\* deferred conn.Close comes first.
LosesConn(c) ==
  /\ hub[c] = "open"
  /\ hub' = [hub EXCEPT ![c] = "closed"]
  /\ up' = [up EXCEPT ![c] = <<>>]
  /\ UNCHANGED <<browserVars, sessionVars, hubAgent, agentConn, shellVars, down,
                 restarted>>

\* Mutant: unregisterAgent has nothing to do if the connection has been replaced.
SweepsRegistered(c) ==
  /\ hub[c] = "closed" /\ ReaderFree(c)
  /\ hub' = [hub EXCEPT ![c] = "swept"]
  /\ hubAgent' = IF hubAgent = c THEN NoConn ELSE hubAgent
  /\ Begins({b \in sessions : peerOf[b] = c /\ hubAgent = c},
            "agent_disconnected", FALSE, c)
  /\ UNCHANGED <<browserVars, rows, agentConn, shellVars, down, up, restarted>>

\* unregisterAgent: it leaves the map of Agents, and the sessions that used
\* this connection are ended.
Sweeps(c) ==
  /\ hub[c] = "closed" /\ ReaderFree(c)
  /\ hub' = [hub EXCEPT ![c] = "swept"]
  /\ hubAgent' = IF hubAgent = c THEN NoConn ELSE hubAgent
  /\ Begins({b \in sessions : peerOf[b] = c}, "agent_disconnected", FALSE, c)
  /\ UNCHANGED <<browserVars, rows, agentConn, shellVars, down, up, restarted>>

\* The control plane is restarted: its memory is gone and its connections
\* are closed, the rows stay as they are.
Restarts ==
  /\ MayRestart /\ ~restarted /\ restarted' = TRUE
  /\ tickets' = {} /\ sessions' = {} /\ hubAgent' = NoConn
  /\ stage' = [b \in Browser |-> IF stage[b] \in {"idle", "unheard"} THEN stage[b]
                               ELSE "done"]
  /\ endStep' = [b \in Browser |-> IF endStep[b] = "none" THEN "none" ELSE "over"]
  /\ hub' = [c \in Conn |-> IF hub[c] = "unused" THEN "unused" ELSE "swept"]
  /\ up' = [c \in Conn |-> <<>>]
  /\ UNCHANGED <<peerOf, outcome, endedBy, rows, agentConn, shellVars, down>>
-----------------------------------------------------------------------------
(* The Agent: the loop of connect, its sessionManager and the shells.      *)

\* Writing to the control plane: nothing arrives on a closed connection.
Answers(c, m) ==
  up' = IF hub[c] = "open" /\ agentConn = c
        THEN [up EXCEPT ![c] = Append(@, m)] ELSE up

\* The loop is waiting for a message, or for the error that ends it.
Reading(c) == agentConn = c /\ writing[c] = NoBrowser

\* The loop receives a message of this type.
Receives(c, type) ==
  /\ Reading(c) /\ down[c] # <<>> /\ Head(down[c]).type = type
  /\ down' = [down EXCEPT ![c] = Tail(@)]

\* Mutant: a session replaces the one the manager has, whose shell runs on.
StartsOver(c) ==
  /\ Receives(c, "start")
  /\ LET b == Head(down[c]).session IN
     \/ /\ current' = [current EXCEPT ![c] = b]
        /\ shell' = [shell EXCEPT ![b] = "running"]
        /\ UNCHANGED up
     \/ Answers(c, Error(b)) /\ UNCHANGED <<current, shell>>
  /\ UNCHANGED <<browserVars, sessionVars, connVars, broken, writing, restarted>>

\* start: refused while the manager has a session; a shell or a pseudo
\* terminal that cannot be had is an error too.
Starts(c) ==
  /\ Receives(c, "start")
  /\ LET b == Head(down[c]).session IN
     \/ /\ current[c] = NoBrowser
        /\ current' = [current EXCEPT ![c] = b]
        /\ shell' = [shell EXCEPT ![b] = "running"]
        /\ UNCHANGED up
     \/ Answers(c, Error(b)) /\ UNCHANGED <<current, shell>>
  /\ UNCHANGED <<browserVars, sessionVars, connVars, broken, writing, restarted>>

\* sessionManager.close kills the process group of its session.
Killed(c) ==
  [b \in Browser |-> IF b = current[c] /\ shell[b] = "running" THEN "dead"
                     ELSE shell[b]]

\* session_close names a session, but close takes whatever is current.
Closes(c) ==
  /\ Receives(c, "close")
  /\ shell' = Killed(c)
  /\ UNCHANGED <<browserVars, sessionVars, connVars, current, broken, writing,
                 up, restarted>>

\* Mutant: connect returns without closing its manager.
DropsConnOnly(c) ==
  /\ Reading(c)
  /\ agentConn' = NoConn
  /\ down' = [down EXCEPT ![c] = <<>>]
  /\ UNCHANGED <<browserVars, sessionVars, hubAgent, hub, shellVars, up, restarted>>

\* The connection ends at the Agent's side: close is deferred, and the loop
\* dials again.
Drops(c) ==
  /\ Reading(c)
  /\ agentConn' = NoConn
  /\ shell' = Killed(c)
  /\ down' = [down EXCEPT ![c] = <<>>]
  /\ UNCHANGED <<browserVars, sessionVars, hubAgent, hub, current, broken,
                 writing, up, restarted>>

\* Input for a program that does not read it fills the pseudo terminal: the
\* reading loop waits in pty.Write and hears nothing else meanwhile.
InputBlocks(c) ==
  /\ Reading(c) /\ current[c] # NoBrowser /\ shell[current[c]] = "running"
  /\ writing' = [writing EXCEPT ![c] = current[c]]
  /\ UNCHANGED <<browserVars, sessionVars, connVars, current, shell, broken,
                 down, up, restarted>>

\* The write returns: with success if the program has read, with an error
\* if it is gone.
InputReturns(c) ==
  /\ writing[c] # NoBrowser
  /\ writing' = [writing EXCEPT ![c] = NoBrowser]
  /\ IF shell[writing[c]] = "running" THEN UNCHANGED up
     ELSE Answers(c, Error(writing[c]))
  /\ UNCHANGED <<browserVars, sessionVars, connVars, current, shell, broken,
                 down, restarted>>

\* Reading from the pseudo terminal, or writing to it, fails: an error is
\* sent, the session stays current and the shell keeps running.
PtyFails(c) ==
  /\ current[c] # NoBrowser /\ current[c] \notin broken
  /\ shell[current[c]] = "running"
  /\ broken' = broken \cup {current[c]}
  /\ Answers(c, Error(current[c]))
  /\ UNCHANGED <<browserVars, sessionVars, connVars, current, shell, writing,
                 down, restarted>>

\* The process of a shell comes to its end.
Dies(b) ==
  /\ shell[b] = "running"
  /\ shell' = [shell EXCEPT ![b] = "dead"]
  /\ UNCHANGED <<browserVars, sessionVars, connVars, current, broken, writing,
                 down, up, restarted>>

\* The shell exits by itself.
Exits(b) == Dies(b)

\* Mutant: the deadline is kept by the loop that streams the output, which an
\* error of the pseudo terminal ends.
ExpiresWhileStreaming(b) == b \notin broken /\ Dies(b)

\* The context of the session expires after thirty minutes.
Expires(b) == Dies(b)

\* waitProcess has returned: exit is written first,
Reports(c) ==
  /\ current[c] # NoBrowser /\ shell[current[c]] = "dead"
  /\ Answers(c, Exit(current[c]))
  /\ shell' = [shell EXCEPT ![current[c]] = "reported"]
  /\ UNCHANGED <<browserVars, sessionVars, connVars, current, broken, writing,
                 down, restarted>>

\* and finish makes room for another session afterwards.
Finishes(c) ==
  /\ current[c] # NoBrowser /\ shell[current[c]] = "reported"
  /\ shell' = [shell EXCEPT ![current[c]] = "gone"]
  /\ current' = [current EXCEPT ![c] = NoBrowser]
  /\ UNCHANGED <<browserVars, sessionVars, connVars, broken, writing, down, up,
                 restarted>>
-----------------------------------------------------------------------------
BrowserStep(b) ==
  \/ GetsTicket(b) \/ Redeems(b) \/ CreatesRow(b) \/ EntersMap(b)
  \/ WritesStart(b) \/ Leaves(b) \/ TimesOut(b) \/ Tells(b) \/ Records(b)
  \/ Exits(b) \/ Expires(b)

ConnStep(c) ==
  \/ Connects(c) \/ Registers(c) \/ Dispatches(c) \/ LosesConn(c) \/ Sweeps(c)
  \/ Starts(c) \/ Closes(c) \/ Drops(c)
  \/ InputBlocks(c) \/ InputReturns(c) \/ PtyFails(c)
  \/ Reports(c) \/ Finishes(c)

Next ==
  \/ \E b \in Browser : BrowserStep(b)
  \/ \E c \in Conn : ConnStep(c)
  \/ Restarts

Spec == Init /\ [][Next]_vars

\* What the scheduling of the code guarantees: handlers, timers of the
\* connections and the Agent's threads go on; a handler that has been hung up
\* on leaves; a replaced connection is closed; each side notices in time that
\* the other end is gone; a write to the terminal of a dead shell returns.
\* Browsers, shells and networks promise nothing.  Messages are read in their
\* order, so only finitely much input comes before a start, a close or the end
\* of the connection: the loop gets to them however often it blocks, which is
\* strong fairness.
Fairness ==
  /\ \A b \in Browser :
       /\ WF_vars(CreatesRow(b)) /\ WF_vars(EntersMap(b)) /\ WF_vars(WritesStart(b))
       /\ WF_vars(Tells(b)) /\ WF_vars(Records(b))
       /\ WF_vars(endStep[b] = "over" /\ Leaves(b))
  /\ \A c \in Conn :
       /\ WF_vars(Registers(c)) /\ WF_vars(Dispatches(c)) /\ WF_vars(Sweeps(c))
       /\ WF_vars((agentConn # c \/ hubAgent # c) /\ LosesConn(c))
       /\ SF_vars(hub[c] \in {"closed", "swept"} /\ Drops(c))
       /\ SF_vars(Starts(c)) /\ SF_vars(Closes(c))
       /\ WF_vars(Reports(c)) /\ WF_vars(Finishes(c))
       /\ WF_vars(writing[c] # NoBrowser /\ shell[writing[c]] # "running"
                    /\ InputReturns(c))

LiveSpec == Spec /\ Fairness

\* Two more assumptions, each made only by the property that needs it: programs
\* read their input; the Agent ends every shell after thirty minutes.
ProgramsRead == \A c \in Conn : WF_vars(InputReturns(c))
DeadlinePasses == \A b \in Browser : WF_vars(Expires(b))
-----------------------------------------------------------------------------
\* Types; a row's status is one the table's CHECK accepts.
TypeOK ==
  /\ tickets \subseteq Browser /\ sessions \subseteq Browser /\ broken \subseteq Browser
  /\ stage \in [Browser -> {"idle", "ticketed", "checked", "created", "mapped",
                            "relaying", "unheard", "done"}]
  /\ peerOf \in [Browser -> Conn \cup {NoConn}]
  /\ endStep \in [Browser -> {"none", "tell", "record", "over"}]
  /\ outcome \in [Browser -> Ended \cup {"none"}]
  /\ endedBy \in [Browser -> Conn \cup {NoConn}]
  /\ rows \in [Browser -> Ended \cup {"none", "active"}]
  /\ hub \in [Conn -> {"unused", "upgraded", "open", "closed", "swept"}]
  /\ hubAgent \in Conn \cup {NoConn} /\ agentConn \in Conn \cup {NoConn}
  /\ current \in [Conn -> Browser \cup {NoBrowser}]
  /\ writing \in [Conn -> Browser \cup {NoBrowser}]
  /\ shell \in [Browser -> {"none", "running", "dead", "reported", "gone"}]
  /\ down \in [Conn -> Seq(Message)] /\ up \in [Conn -> Seq(Message)]
  /\ restarted \in BOOLEAN

\* However many browsers passed the check at once, the hub has one session for
\* the server, and the active row is that session's.
OneSession ==
  \A b \in sessions : /\ rows[b] = "active"
                      /\ \A x \in Browser : rows[x] = "active" => x = b

\* No session outlives its connection unnoticed: one whose handler relays to a
\* connection is in reach of the sweep that follows the loss of it, even if the
\* connection was replaced between the handler's look at the hub and the
\* session's entry into the map.
NoUnsweptSession ==
  \A b \in sessions : stage[b] = "relaying" => hub[peerOf[b]] \in {"open", "closed"}

\* The Agent closes whatever session it has, without comparing ids.  A close
\* message nevertheless never meets another session that is still wanted:
\* neither the current one nor one whose start it follows.
CloseNeverStray ==
  \A c \in Conn : \A i \in 1..Len(down[c]) :
    down[c][i].type = "close" =>
      \A b \in sessions \ {down[c][i].session} :
        current[c] # b /\ \A j \in 1..(i - 1) : down[c][j] # Start(b)

\* Although every connection has a manager of its own and processes end
\* asynchronously, the host never runs two shells at once.
OneShell ==
  \A a, b \in Browser : shell[a] = "running" /\ shell[b] = "running" => a = b

\* What a row, a handler and the map say together of a session.  One whose end
\* was never recorded, because of a restart, a failed update or an insert whose
\* answer was lost, is ending.
SlotPhase ==
  [b \in Browser |->
     IF rows[b] = "none" THEN "none"
     ELSE IF rows[b] # "active" THEN "released"
     ELSE IF stage[b] = "created" THEN "granted"
     ELSE IF b \in sessions THEN "serving" ELSE "ending"]

SlotShell ==
  [b \in Browser |-> IF shell[b] \in {"none", "running"} THEN shell[b] ELSE "stopped"]

Slot == INSTANCE ExclusiveTerminal WITH
  Session <- Browser, phase <- SlotPhase, shell <- SlotShell

\* Handlers that overlap, connections that are replaced, messages that come
\* late and a restart of the control plane keep the terminal one session's at a
\* time (handler.go:101-213, service.go:86-160), and the host at one shell, for a
\* session that was served (session.go:58-108).
TerminalIsExclusive == Slot!ESpec

\* A session that was closed, timed out or cut off leaves no shell behind, also
\* if its start was still on its way, and without waiting for the Agent's
\* deadline as long as programs read their input.  A session that failed is
\* excluded: the Agent is not told then.
NoOrphanShell ==
  ProgramsRead =>
    \A b \in Browser :
      (endStep[b] # "none" /\ outcome[b] # "failed") ~> [](shell[b] # "running")

\* A manager whose session the hub no longer has becomes free for the next one,
\* in the worst case at the deadline: also if its terminal failed, or a blocked
\* write kept the Agent from hearing that it was closed.
ManagerIsFreed ==
  DeadlinePasses =>
    \A c \in Conn :
      (current[c] # NoBrowser /\ current[c] \notin sessions) ~> (current[c] = NoBrowser)

\* An active row belongs to a session the hub is opening, serving or ending, or
\* its handler has never heard of it.
\* (Violated: by a restart, and by an update that fails.)
ActiveRowsAreServed ==
  \A b \in Browser :
    rows[b] = "active" => stage[b] \in {"created", "unheard"} \/ b \in sessions
                            \/ endStep[b] \in {"tell", "record"}
=============================================================================
