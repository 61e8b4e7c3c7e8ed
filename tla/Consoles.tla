------------------------------ MODULE Consoles ------------------------------
(***************************************************************************)
(* Remote consoles: the WebSocket that each agent keeps to the API, the     *)
(* registry of those connections, the sessions that tie a browser's         *)
(* WebSocket to an agent's, their rows in `remote_sessions`, and the shells *)
(* that run on the agents (inventory/lib/agent-ws.js, the /ws route of      *)
(* inventory/routes/agent.js, remote/lib/console-sessions.js,               *)
(* remote/routes/console.js, agent-go/ws.go and console.go).                *)
(*                                                                         *)
(* The API is one process: what a handler does between two `await`s is one  *)
(* step, and its maps are read and written together. The agent's and the    *)
(* browser's ends of a socket fail on their own.                            *)
(***************************************************************************)
EXTENDS Naturals, Sequences, FiniteSets

CONSTANTS
    Device,      \* rows of `devices`
    Token,       \* agent tokens
    Conn,        \* agent connections, each used once
    Session,     \* console requests of admins, each used once
    None,
    MaxFaults    \* bound: number of failures of the environment

ASSUME ConsolesAssumption ==
    /\ MaxFaults \in Nat
    /\ None \notin Device \cup Conn \cup Session

VARIABLES
    tokens,     \* agent_tokens: the device of a valid token, else None
    evictions,  \* tokens and devices whose eviction follows their UPDATE
    conn,       \* the API's end of each agent connection
    reg,        \* AgentWSRegistry.conns
    up,         \* connections whose agent end is alive
    pty,        \* agent: shells of each connection
    toAgent,    \* console frames on their way to the agent
    toServer,   \* frames on their way to the API
    sess,       \* console requests: grant, handler, session
    sessions,   \* ConsoleSessionsRegistry.sessions
    byDevice,   \* ConsoleSessionsRegistry.byDevice
    tab,        \* browser sockets still open
    ending,     \* sessions whose row is about to get its ended_at
    row,        \* remote_sessions
    faults,     \* failures so far
    unended     \* history: sessions whose INSERT or last UPDATE failed

agentVars   == <<up, pty>>
sessionVars == <<sess, sessions, byDevice, tab, ending, row, unended>>
vars == <<tokens, evictions, conn, reg, up, pty, toAgent, toServer, sess,
          sessions, byDevice, tab, ending, row, faults, unended>>

Frame(type, s) == [type |-> type, id |-> s]

ConnState ==
    [pc : {"free", "auth", "known", "open", "closing", "closed"},
     token : Token \cup {None}, device : Device \cup {None},
     console : BOOLEAN,      \* `capabilities` holds "console"
     revoked : BOOLEAN]      \* revokedReason is set

SessionState ==
    [pc : {"free", "granted", "takeover", "insert", "live", "over"},
     device : Device \cup {None}, conn : Conn \cup {None},
     over : Session \cup {None}]

TypeOK ==
    /\ tokens \in [Token -> Device \cup {None}]
    /\ evictions \subseteq Token \cup Device
    /\ conn \in [Conn -> ConnState]
    /\ reg \in [Device -> Conn \cup {None}]
    /\ up \subseteq Conn
    /\ pty \in [Conn -> SUBSET Session]
    /\ toAgent \in [Conn -> Seq([type : {"open", "close"}, id : Session])]
    /\ toServer \in [Conn -> Seq([type : {"hello", "opened", "error", "exit"},
                                  id : Session \cup {None}])]
    /\ sess \in [Session -> SessionState]
    /\ sessions \subseteq Session
    /\ byDevice \in [Device -> Session \cup {None}]
    /\ tab \subseteq Session
    /\ ending \subseteq Session
    /\ row \in [Session -> {"none", "open", "ended"}]
    /\ faults \in 0..MaxFaults
    /\ unended \subseteq Session

Init ==
    /\ tokens \in [Token -> Device]
    /\ evictions = {}
    /\ conn = [c \in Conn |-> [pc |-> "free", token |-> None, device |-> None,
                               console |-> FALSE, revoked |-> FALSE]]
    /\ reg = [d \in Device |-> None]
    /\ up = {}
    /\ pty = [c \in Conn |-> {}]
    /\ toAgent = [c \in Conn |-> <<>>]
    /\ toServer = [c \in Conn |-> <<>>]
    /\ sess = [s \in Session |-> [pc |-> "free", device |-> None,
                                  conn |-> None, over |-> None]]
    /\ sessions = {}
    /\ byDevice = [d \in Device |-> None]
    /\ tab = {}
    /\ ending = {}
    /\ row = [s \in Session |-> "none"]
    /\ faults = 0
    /\ unended = {}

Fault == faults < MaxFaults /\ faults' = faults + 1

-----------------------------------------------------------------------------
\* ConsoleSessionsRegistry.close, up to its first await, for the sessions S:
\* the maps, console.close if the agent's socket is open, the browser's
\* socket; the UPDATE of the row follows.

\* Mutant: the agent is not told.
CloseFramesUnsent(S) == toAgent

\* Mutant: the frame does not name the session.
CloseFramesUnnamed(S) ==
    [c \in Conn |->
        IF conn[c].pc = "open" /\ \E s \in S : sess[s].conn = c
        THEN Append(toAgent[c], Frame("close", None)) ELSE toAgent[c]]

CloseFrames(S) ==
    [c \in Conn |->
        IF conn[c].pc = "open" /\ \E s \in S : sess[s].conn = c
        THEN Append(toAgent[c],
                    Frame("close", CHOOSE s \in S : sess[s].conn = c))
        ELSE toAgent[c]]

\* Mutant: the row is left as it is.
CloseKeepsRow(S) ==
    /\ sessions' = sessions \ S
    /\ byDevice' = [d \in Device |-> IF byDevice[d] \in S THEN None ELSE byDevice[d]]
    /\ toAgent' = CloseFrames(S)
    /\ tab' = tab \ S
    /\ UNCHANGED ending

Close(S) ==
    /\ sessions' = sessions \ S
    /\ byDevice' = [d \in Device |-> IF byDevice[d] \in S THEN None ELSE byDevice[d]]
    /\ toAgent' = CloseFrames(S)
    /\ tab' = tab \ S
    /\ ending' = ending \cup S

\* The session _closeByDevice closes.
HeldBy(d) == {byDevice[d]} \ {None}

-----------------------------------------------------------------------------
\* Agent connections: the /ws handler and AgentWSRegistry.

\* The agent connects and sends hello at once, before any welcome.
Dial(c, t) ==
    /\ conn[c].pc = "free"
    /\ conn' = [conn EXCEPT ![c].pc = "auth", ![c].token = t]
    /\ up' = up \cup {c}
    /\ toServer' = [toServer EXCEPT ![c] = <<Frame("hello", None)>>]
    /\ UNCHANGED <<tokens, evictions, reg, pty, toAgent, sessionVars, faults>>

\* authToken; a refused agent sees its socket closed.
AuthToken(c) ==
    LET d == tokens[conn[c].token] IN
    /\ conn[c].pc = "auth"
    /\ conn' = [conn EXCEPT ![c].pc = IF d = None THEN "closed" ELSE "known",
                            ![c].device = d]
    /\ UNCHANGED <<tokens, evictions, reg, agentVars, toAgent, toServer,
                   sessionVars, faults>>

\* The socket has no 'message' listener until the connection is registered.
HelloDropped(c) ==
    /\ conn[c].pc \in {"auth", "known"} /\ toServer[c] # <<>>
    /\ toServer' = [toServer EXCEPT ![c] = Tail(@)]
    /\ UNCHANGED <<tokens, evictions, conn, reg, agentVars, toAgent, sessionVars,
                   faults>>

\* After the SELECT of the hostname, register: a previous connection of the
\* device loses its session, then is closed.
Register(c) ==
    LET d == conn[c].device IN
    /\ conn[c].pc = "known"
    /\ Close(IF reg[d] = None THEN {} ELSE HeldBy(d))
    /\ conn' = [e \in Conn |->
                  CASE e = c      -> [conn[e] EXCEPT !.pc = "open"]
                    [] e = reg[d] -> [conn[e] EXCEPT !.pc = "closing"]
                    [] OTHER      -> conn[e]]
    /\ reg' = [reg EXCEPT ![d] = c]
    /\ UNCHANGED <<tokens, evictions, agentVars, toServer, sess, row, faults,
                   unended>>

\* The connections C leave the registry, whose 'disconnect' closes the
\* sessions of their devices.
Removed(C) ==
    /\ reg' = [d \in Device |-> IF reg[d] \in C THEN None ELSE reg[d]]
    /\ Close(UNION {HeldBy(d) : d \in {e \in Device : reg[e] \in C}})

\* AgentWSRegistry.evict
Evict(C) ==
    /\ Removed(C)
    /\ conn' = [c \in Conn |->
                  IF c \in C
                  THEN [conn[c] EXCEPT !.revoked = TRUE,
                                       !.pc = IF @ = "open" THEN "closing" ELSE @]
                  ELSE conn[c]]
    /\ UNCHANGED <<tokens, agentVars, toServer, sess, row, faults, unended>>

\* Mutant: the token is only checked at the upgrade.
NeverInvalid(c) == FALSE

RecheckFails(c) == tokens[conn[c].token] # conn[c].device

\* recheckToken: at once after register, then with every ping.
RecheckToken(c) ==
    /\ conn[c].pc = "open" /\ ~conn[c].revoked /\ RecheckFails(c)
    /\ Evict({c})
    /\ UNCHANGED evictions

\* A token is revoked, expires, or goes with its device; some requests then
\* evict the connections of the token or of the device.
Invalidate(t) ==
    /\ tokens[t] # None
    /\ tokens' = [tokens EXCEPT ![t] = None]
    /\ \E E \in {{}, {t}, {tokens[t]}} : evictions' = evictions \cup E
    /\ UNCHANGED <<conn, reg, agentVars, toAgent, toServer, sessionVars, faults>>

\* A checkin binds the token to another device.
Rebind(t, d) ==
    /\ tokens[t] \notin {None, d}
    /\ tokens' = [tokens EXCEPT ![t] = d]
    /\ UNCHANGED <<evictions, conn, reg, agentVars, toAgent, toServer, sessionVars,
                   faults>>

Registered == {reg[d] : d \in Device} \ {None}

EvictTokens(t) ==
    /\ t \in evictions
    /\ evictions' = evictions \ {t}
    /\ Evict({c \in Registered : conn[c].token = t})

EvictDevice(d) ==
    /\ d \in evictions
    /\ evictions' = evictions \ {d}
    /\ Evict({reg[d]} \ {None})

\* The peer's close or reset arrives, or its pong is late. A socket that ends
\* during the handler's awaits is never registered.
SocketEnds(c) ==
    /\ conn[c].pc \in {"auth", "known", "open"}
    /\ IF c \in up THEN Fault ELSE UNCHANGED faults
    /\ conn' = [conn EXCEPT ![c].pc = IF @ = "open" THEN "closing" ELSE "closed"]
    /\ UNCHANGED <<tokens, evictions, reg, agentVars, toAgent, toServer,
                   sessionVars>>

\* onClose of the socket: unregister.
CloseEvent(c) ==
    /\ conn[c].pc = "closing"
    /\ conn' = [conn EXCEPT ![c].pc = "closed"]
    /\ toServer' = [toServer EXCEPT ![c] = <<>>]
    /\ Removed({c})
    /\ UNCHANGED <<tokens, evictions, agentVars, sess, row, faults, unended>>

\* The dispatcher of the frames of the agent; ownConsoleSession.
Own(c, s) == s \in sessions /\ sess[s].conn = c

Dispatch(c) ==
    LET m == Head(toServer[c]) IN
    /\ conn[c].pc \in {"open", "closing"} /\ toServer[c] # <<>>
    /\ toServer' = [toServer EXCEPT ![c] = Tail(@)]
    /\ \/ /\ m.type = "hello" /\ ~conn[c].revoked
          /\ conn' = [conn EXCEPT ![c].console = TRUE]
          /\ UNCHANGED <<toAgent, sessions, byDevice, tab, ending>>
       \/ /\ m.type \in {"error", "exit"} /\ ~conn[c].revoked /\ Own(c, m.id)
          /\ Close({m.id})
          /\ UNCHANGED conn
       \/ /\ m.type = "opened" /\ ~conn[c].revoked /\ ~Own(c, m.id)
          /\ toAgent' = IF conn[c].pc = "open"
                        THEN [toAgent EXCEPT ![c] = Append(@, Frame("close", m.id))]
                        ELSE toAgent
          /\ UNCHANGED <<conn, sessions, byDevice, tab, ending>>
       \/ /\ \/ conn[c].revoked
             \/ m.type = "opened" /\ Own(c, m.id)
             \/ m.type \in {"error", "exit"} /\ ~Own(c, m.id)
          /\ UNCHANGED <<conn, toAgent, sessions, byDevice, tab, ending>>
    /\ UNCHANGED <<tokens, evictions, reg, agentVars, sess, row, faults, unended>>

-----------------------------------------------------------------------------
\* The agent (ws.go, console.go).

\* runWSSession returns: closeAll kills the shells.
AgentGone(c) ==
    /\ c \in up
    /\ up' = up \ {c}
    /\ pty' = [pty EXCEPT ![c] = {}]
    /\ toAgent' = [toAgent EXCEPT ![c] = <<>>]
    /\ UNCHANGED <<tokens, evictions, conn, reg, toServer, sessionVars>>

AgentDrops(c) == conn[c].pc \in {"auth", "known", "open"} /\ Fault /\ AgentGone(c)

AgentEnds(c) == conn[c].pc \in {"closing", "closed"} /\ AgentGone(c) /\ UNCHANGED faults

\* console.open: the shell starts, or an error goes back.
AgentOpens(c) ==
    LET s == Head(toAgent[c]).id IN
    /\ c \in up /\ toAgent[c] # <<>> /\ Head(toAgent[c]).type = "open"
    /\ toAgent' = [toAgent EXCEPT ![c] = Tail(@)]
    /\ \/ /\ pty' = [pty EXCEPT ![c] = @ \cup {s}]
          /\ toServer' = [toServer EXCEPT ![c] = Append(@, Frame("opened", s))]
       \/ /\ toServer' = [toServer EXCEPT ![c] = Append(@, Frame("error", s))]
          /\ UNCHANGED pty
    /\ UNCHANGED <<tokens, evictions, conn, reg, up, sessionVars, faults>>

\* console.close
AgentCloses(c) ==
    /\ c \in up /\ toAgent[c] # <<>> /\ Head(toAgent[c]).type = "close"
    /\ toAgent' = [toAgent EXCEPT ![c] = Tail(@)]
    /\ pty' = [pty EXCEPT ![c] = @ \ {Head(toAgent[c]).id}]
    /\ UNCHANGED <<tokens, evictions, conn, reg, up, toServer, sessionVars, faults>>

\* The shell ends by itself: pumpPTY.
PtyExits(c, s) ==
    /\ c \in up /\ s \in pty[c]
    /\ pty' = [pty EXCEPT ![c] = @ \ {s}]
    /\ toServer' = [toServer EXCEPT ![c] = Append(@, Frame("exit", s))]
    /\ UNCHANGED <<tokens, evictions, conn, reg, up, toAgent, sessionVars, faults>>

-----------------------------------------------------------------------------
\* The routes of the consoles (remote/routes/console.js).

Reachable(d) == reg[d] # None /\ conn[reg[d]].console

\* POST /grant
Grant(s, d, takeover) ==
    /\ sess[s].pc = "free" /\ Reachable(d)
    /\ byDevice[d] # None => takeover
    /\ sess' = [sess EXCEPT ![s] =
                  [pc |-> "granted", device |-> d, conn |-> None,
                   over |-> IF takeover THEN byDevice[d] ELSE None]]
    /\ UNCHANGED <<tokens, evictions, conn, reg, agentVars, toAgent, toServer,
                   sessions, byDevice, tab, ending, row, faults, unended>>

\* The conflict check of create, before its INSERT.
AfterCheck(d) == IF byDevice[d] = None THEN "insert" ELSE "over"

\* The handler of the browser's socket, up to its first await: the agent is
\* checked again; a takeover closes the other session and waits for its row.
Connect(s) ==
    LET d == sess[s].device
        o == sess[s].over
    IN
    /\ sess[s].pc = "granted"
    /\ \/ /\ ~Reachable(d)
          /\ sess' = [sess EXCEPT ![s].pc = "over"]
          /\ UNCHANGED <<toAgent, sessions, byDevice, tab, ending>>
       \/ /\ Reachable(d) /\ o \in sessions
          /\ sess' = [sess EXCEPT ![s].pc = "takeover", ![s].conn = reg[d]]
          /\ sessions' = sessions \ {o}
          /\ byDevice' = [e \in Device |-> IF byDevice[e] = o THEN None ELSE byDevice[e]]
          /\ toAgent' = CloseFrames({o})
          /\ tab' = (tab \ {o}) \cup {s}
          /\ ending' = ending \cup {o}
       \/ /\ Reachable(d) /\ o \notin sessions
          /\ sess' = [sess EXCEPT ![s].pc = AfterCheck(d), ![s].conn = reg[d]]
          /\ tab' = IF byDevice[d] = None THEN tab \cup {s} ELSE tab
          /\ UNCHANGED <<toAgent, sessions, byDevice, ending>>
    /\ UNCHANGED <<tokens, evictions, conn, reg, agentVars, toServer, row, faults,
                   unended>>

\* The grant's 30 seconds are over.
GrantExpires(s) ==
    /\ sess[s].pc = "granted"
    /\ sess' = [sess EXCEPT ![s].pc = "over"]
    /\ UNCHANGED <<tokens, evictions, conn, reg, agentVars, toAgent, toServer,
                   sessions, byDevice, tab, ending, row, faults, unended>>

AfterTakeover(s) ==
    LET d == sess[s].device IN
    /\ sess[s].pc = "takeover" /\ sess[s].over \notin ending
    /\ sess' = [sess EXCEPT ![s].pc = AfterCheck(d)]
    /\ tab' = IF byDevice[d] = None THEN tab ELSE tab \ {s}
    /\ UNCHANGED <<tokens, evictions, conn, reg, agentVars, toAgent, toServer,
                   sessions, byDevice, ending, row, faults, unended>>

\* Mutant: the agent connection is not looked up again.
AlwaysSameAgent(s) == TRUE

SameAgent(s) == reg[sess[s].device] = sess[s].conn

\* The INSERT returns: the maps, then console.open, unless the connection
\* read before the awaits is no longer the device's: then close.
Inserted(s) ==
    LET d == sess[s].device
        c == sess[s].conn
    IN
    /\ sess[s].pc = "insert"
    /\ row' = [row EXCEPT ![s] = "open"]
    /\ \/ /\ SameAgent(s)
          /\ sess' = [sess EXCEPT ![s].pc = "live"]
          /\ sessions' = sessions \cup {s}
          /\ byDevice' = [byDevice EXCEPT ![d] = s]
          /\ toAgent' = IF conn[c].pc = "open"
                        THEN [toAgent EXCEPT ![c] = Append(@, Frame("open", s))]
                        ELSE toAgent
          /\ UNCHANGED <<tab, ending>>
       \/ /\ ~SameAgent(s)
          /\ sess' = [sess EXCEPT ![s].pc = "over"]
          /\ byDevice' = [byDevice EXCEPT ![d] = None]
          /\ tab' = tab \ {s}
          /\ ending' = ending \cup {s}
          /\ toAgent' = CloseFrames({s})
          /\ UNCHANGED sessions
    /\ UNCHANGED <<tokens, evictions, conn, reg, agentVars, toServer, faults, unended>>

\* The INSERT fails; if it was executed, nothing will end its row.
InsertFails(s) ==
    /\ sess[s].pc = "insert" /\ Fault
    /\ sess' = [sess EXCEPT ![s].pc = "over"]
    /\ tab' = tab \ {s}
    /\ \/ UNCHANGED <<row, unended>>
       \/ row' = [row EXCEPT ![s] = "open"] /\ unended' = unended \cup {s}
    /\ UNCHANGED <<tokens, evictions, conn, reg, agentVars, toAgent, toServer,
                   sessions, byDevice, ending>>

\* The admin closes the console, or sends too large a frame. During the
\* handler's awaits the socket has no 'close' listener: the event is lost.
BrowserCloses(s) ==
    /\ s \in tab
    /\ IF sess[s].pc = "live" /\ s \in sessions
       THEN Close({s})
       ELSE /\ tab' = tab \ {s}
            /\ UNCHANGED <<toAgent, sessions, byDevice, ending>>
    /\ UNCHANGED <<tokens, evictions, conn, reg, agentVars, toServer, sess, row,
                   faults, unended>>

\* The rest of close: the UPDATE of the row, whose failure is only logged.
EndRow(s) ==
    /\ s \in ending
    /\ ending' = ending \ {s}
    /\ \/ row' = [row EXCEPT ![s] = "ended"] /\ UNCHANGED <<faults, unended>>
       \/ Fault /\ unended' = unended \cup {s} /\ UNCHANGED row
    /\ UNCHANGED <<tokens, evictions, conn, reg, agentVars, toAgent, toServer, sess,
                   sessions, byDevice, tab>>

-----------------------------------------------------------------------------
ConnectionStep ==
    \/ \E t \in Token :
         \/ \E c \in Conn : Dial(c, t)
         \/ Invalidate(t)
         \/ \E d \in Device : Rebind(t, d)
         \/ EvictTokens(t)
    \/ \E d \in Device : EvictDevice(d)
    \/ \E c \in Conn :
         \/ AuthToken(c) \/ HelloDropped(c) \/ Register(c) \/ RecheckToken(c)
         \/ SocketEnds(c) \/ CloseEvent(c) \/ Dispatch(c)

AgentStep ==
    \E c \in Conn :
      \/ AgentDrops(c) \/ AgentEnds(c) \/ AgentOpens(c) \/ AgentCloses(c)
      \/ \E s \in Session : PtyExits(c, s)

ConsoleStep ==
    \E s \in Session :
      \/ \E d \in Device, takeover \in BOOLEAN : Grant(s, d, takeover)
      \/ Connect(s) \/ GrantExpires(s) \/ AfterTakeover(s)
      \/ Inserted(s) \/ InsertFails(s) \/ BrowserCloses(s) \/ EndRow(s)

Next == ConnectionStep \/ AgentStep \/ ConsoleStep

Spec == Init /\ [][Next]_vars

(***************************************************************************)
(* The handlers go on after each await; what is sent over a live socket is  *)
(* read; a socket whose other end is gone ends (reset, or the heartbeat on  *)
(* the API's side, TCP keepalive on the agent's); the timer of a connection *)
(* checks its token every 30 s. Nothing forces anybody to open or close a   *)
(* console, nor a shell to exit.                                            *)
(***************************************************************************)
Fairness ==
    /\ \A c \in Conn :
         /\ WF_vars(AuthToken(c) \/ Register(c))
         /\ WF_vars(Dispatch(c))
         /\ WF_vars(SocketEnds(c) /\ c \notin up)
         /\ WF_vars(CloseEvent(c))
         /\ WF_vars(RecheckToken(c))
         /\ WF_vars(AgentEnds(c))
         /\ WF_vars(AgentOpens(c) \/ AgentCloses(c))
    /\ \A s \in Session :
         /\ WF_vars(AfterTakeover(s))
         /\ WF_vars(Inserted(s))
         /\ WF_vars(EndRow(s))

FairSpec == Spec /\ Fairness

-----------------------------------------------------------------------------
\* Properties.

\* The session that occupies a device is tied to the connection the device
\* has now, never to one that was replaced, evicted or lost while the console
\* was being opened (console.js, currentConn; agent-ws.js, disconnect).
HolderIsReachable ==
    \A d \in Device :
      byDevice[d] # None => /\ byDevice[d] \in sessions
                            /\ sess[byDevice[d]].conn = reg[d]

\* A shell runs on an open connection only for a session of that connection,
\* unless the order to close it is on its way (console-sessions.js, close;
\* agent.js, no-such-session).
ShellHasSession ==
    \A c \in Conn : \A s \in pty[c] :
      conn[c].pc = "open" =>
        \/ Own(c, s)
        \/ \E i \in DOMAIN toAgent[c] : toAgent[c][i] = Frame("close", s)

\* A row without an end belongs to a session, or to one whose UPDATE is to
\* come, or of which an INSERT that was executed or the UPDATE seemed to fail
\* (console-sessions.js, create and close; console.js).
OpenRowHasSession ==
    \A s \in Session : row[s] = "open" => s \in sessions \cup ending \cup unended

\* A connection whose token is revoked, expired, deleted or bound to another
\* device leaves the registry, even when the token became invalid between
\* the authentication and the registration (agent.js, recheckToken).
InvalidIsEvicted ==
    \A d \in Device, c \in Conn :
      reg[d] = c /\ tokens[conn[c].token] # d
        ~> reg[d] # c \/ tokens[conn[c].token] = d

\* A device that a session occupies gets its shell, or is freed: no lost
\* connection leaves it busy (console.js, currentConn; agent.js, heartbeat).
HeldIsServed ==
    \A s \in Session :
      s \in {byDevice[d] : d \in Device}
        ~> \/ s \notin {byDevice[d] : d \in Device}
           \/ s \in pty[sess[s].conn]

\* A shell never outlives its session or its connection for good (console.go,
\* closeAll; console-sessions.js, close).
ShellEndsWithSession ==
    \A c \in Conn, s \in Session :
      s \in pty[c] /\ ~Own(c, s) ~> s \notin pty[c]
=============================================================================
