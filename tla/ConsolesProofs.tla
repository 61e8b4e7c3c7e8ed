--------------------------- MODULE ConsolesProofs ---------------------------
(***************************************************************************)
(* Theorems about Consoles, for any number of devices, tokens, connections, *)
(* console requests and failures: a device is never left to a session that  *)
(* its agent does not serve, no shell is forgotten, no row stays open.      *)
(***************************************************************************)
EXTENDS Consoles, SequenceTheorems, TLAPS

ServerFrame ==
    {f \in [type : {"hello", "opened", "error", "exit"}, id : Session \cup {None}] :
       f.type # "hello" => f.id \in Session}

\* What the places of the handlers say about the rows they have read; only
\* hello names no session.
Refs ==
    /\ \A c \in Conn :
         /\ toServer[c] \in Seq(ServerFrame)
         /\ conn[c].pc = "auth" => conn[c].token \in Token
         /\ conn[c].pc \in {"known", "open", "closing"} => conn[c].device \in Device
    /\ \A s \in Session :
         /\ sess[s].pc \in {"granted", "takeover", "insert", "live"} =>
              sess[s].device \in Device
         /\ sess[s].pc \in {"takeover", "insert", "live"} => sess[s].conn \in Conn
         /\ s \in sessions => sess[s].pc = "live"

\* A registered connection belongs to its device and has not had its close
\* event.
Links ==
    \A d \in Device :
      reg[d] # None => /\ conn[reg[d]].pc \in {"open", "closing"}
                       /\ conn[reg[d]].device = d

\* Nothing was sent to an agent whose connection is not registered yet.
Fresh ==
    \A c \in Conn :
      conn[c].pc \in {"free", "auth", "known"} => pty[c] = {} /\ toAgent[c] = <<>>

\* The session of a device is live, and tied to the device's connection.
Holder ==
    \A d \in Device :
      byDevice[d] # None => /\ byDevice[d] \in sessions
                            /\ sess[byDevice[d]].conn = reg[d]
                            /\ sess[byDevice[d]].device = d

\* An order to close s comes after the n-th frame on its way to c.
Closing(c, s, n) ==
    \E i \in DOMAIN toAgent[c] : i > n /\ toAgent[c][i] = Frame("close", s)

\* Every shell, and every order to open one, has its session or is followed
\* by an order to close it.
ShellsOf(c) ==
    conn[c].pc = "open" =>
      /\ \A s \in pty[c] : Own(c, s) \/ Closing(c, s, 0)
      /\ \A i \in DOMAIN toAgent[c] :
           toAgent[c][i].type = "open" =>
             Own(c, toAgent[c][i].id) \/ Closing(c, toAgent[c][i].id, i)

Shells == \A c \in Conn : ShellsOf(c)

IInv ==
    TypeOK /\ Refs /\ Links /\ Fresh /\ Holder /\ Shells /\ OpenRowHasSession

-----------------------------------------------------------------------------
\* Where the frames of close go.
LEMMA CloseFramesTo ==
  ASSUME TypeOK, NEW S \in SUBSET Session, NEW c \in Conn
  PROVE  \/ CloseFrames(S)[c] = toAgent[c]
         \/ \E s \in S : /\ conn[c].pc = "open" /\ sess[s].conn = c
                         /\ CloseFrames(S)[c] = Append(toAgent[c], Frame("close", s))
  BY DEF CloseFrames

\* A session that close removes is told to an open agent connection, if it is
\* the only one that it removes there.
LEMMA CloseFramesTell ==
  ASSUME NEW S \in SUBSET Session, NEW c \in Conn, NEW s \in S,
         conn[c].pc = "open", sess[s].conn = c,
         \A r \in S : sess[r].conn = c => r = s
  PROVE  CloseFrames(S)[c] = Append(toAgent[c], Frame("close", s))
  <1>1. (CHOOSE r \in S : sess[r].conn = c) = s
    OBVIOUS
  <1> QED
    BY <1>1 DEF CloseFrames

LEMMA CloseFramesType ==
  ASSUME TypeOK, NEW S \in SUBSET Session
  PROVE  /\ DOMAIN CloseFrames(S) = Conn
         /\ CloseFrames(S) \in [Conn -> Seq([type : {"open", "close"}, id : Session])]
  <1>1. ASSUME NEW c \in Conn
        PROVE  CloseFrames(S)[c] \in Seq([type : {"open", "close"}, id : Session])
    <2>1. toAgent[c] \in Seq([type : {"open", "close"}, id : Session])
      BY DEF TypeOK
    <2>2. \A s \in S : Frame("close", s) \in [type : {"open", "close"}, id : Session]
      BY DEF Frame
    <2>3. CASE CloseFrames(S)[c] = toAgent[c]
      BY <2>1, <2>3
    <2>4. ASSUME NEW s \in S, CloseFrames(S)[c] = Append(toAgent[c], Frame("close", s))
          PROVE  CloseFrames(S)[c] \in Seq([type : {"open", "close"}, id : Session])
      BY <2>1, <2>2, <2>4
    <2> QED
      BY <2>3, <2>4, CloseFramesTo
  <1> QED
    BY <1>1 DEF CloseFrames

\* A step keeps the shells of a connection if it opens none, sends it nothing
\* but an order to close, and takes no session from it without that order.
LEMMA ShellsKept ==
  ASSUME TypeOK, Shells, NEW c \in Conn,
         conn'[c].pc = "open" => conn[c].pc = "open",
         pty'[c] \subseteq pty[c],
         \/ toAgent'[c] = toAgent[c]
         \/ \E s \in Session : toAgent'[c] = Append(toAgent[c], Frame("close", s)),
         \A s \in Session :
           Own(c, s) => Own(c, s)' \/ toAgent'[c] = Append(toAgent[c], Frame("close", s))
  PROVE  ShellsOf(c)'
  <1> SUFFICES ASSUME conn'[c].pc = "open"
               PROVE  /\ \A s \in pty'[c] : Own(c, s)' \/ Closing(c, s, 0)'
                      /\ \A i \in DOMAIN toAgent'[c] :
                           toAgent'[c][i].type = "open" =>
                             Own(c, toAgent[c][i].id)' \/ Closing(c, toAgent[c][i].id, i)'
    BY DEF ShellsOf
  <1> DEFINE F == [type : {"open", "close"}, id : Session]
  <1>1. toAgent[c] \in Seq(F) /\ pty[c] \subseteq Session
    BY DEF TypeOK
  <1>2. ShellsOf(c) /\ conn[c].pc = "open"
    BY DEF Shells
  <1>3. \A s \in Session : Frame("close", s) \in F /\ Frame("close", s).type = "close"
    BY DEF Frame
  <1>4. /\ \A i \in DOMAIN toAgent[c] : i \in DOMAIN toAgent'[c] /\ toAgent'[c][i] = toAgent[c][i]
        /\ \A i \in DOMAIN toAgent'[c] :
             toAgent'[c][i].type = "open" => i \in DOMAIN toAgent[c]
    BY <1>1, <1>3
  <1>5. ASSUME NEW s, NEW n, Closing(c, s, n)
        PROVE  Closing(c, s, n)'
    BY <1>4, <1>5 DEF Closing
  <1>6. ASSUME NEW s \in Session, NEW n \in 0..Len(toAgent[c]), Own(c, s)
        PROVE  Own(c, s)' \/ Closing(c, s, n)'
    <2> SUFFICES ASSUME toAgent'[c] = Append(toAgent[c], Frame("close", s))
                 PROVE  Closing(c, s, n)'
      BY <1>6
    <2>1. /\ Len(toAgent[c]) + 1 \in DOMAIN toAgent'[c]
          /\ toAgent'[c][Len(toAgent[c]) + 1] = Frame("close", s)
          /\ Len(toAgent[c]) + 1 > n
      BY <1>1, <1>3
    <2> QED
      BY <2>1 DEF Closing
  <1>7. 0 \in 0..Len(toAgent[c]) /\ DOMAIN toAgent[c] \subseteq 0..Len(toAgent[c])
    BY <1>1
  <1>8. ASSUME NEW s \in pty'[c] PROVE Own(c, s)' \/ Closing(c, s, 0)'
    <2>1. Own(c, s) \/ Closing(c, s, 0)
      BY <1>2 DEF ShellsOf
    <2> QED
      BY <1>1, <1>5, <1>6, <1>7, <2>1
  <1>9. ASSUME NEW i \in DOMAIN toAgent'[c], toAgent'[c][i].type = "open"
        PROVE  Own(c, toAgent[c][i].id)' \/ Closing(c, toAgent[c][i].id, i)'
    <2>1. i \in DOMAIN toAgent[c] /\ toAgent'[c][i] = toAgent[c][i] /\ toAgent[c][i].id \in Session
      <3>1. i \in DOMAIN toAgent[c] /\ toAgent'[c][i] = toAgent[c][i]
        BY <1>4, <1>9
      <3>2. toAgent[c][i] \in F
        <4> HIDE DEF F
        <4> QED
          BY <1>1, <3>1
      <3> QED
        BY <3>1, <3>2
    <2>2. Own(c, toAgent[c][i].id) \/ Closing(c, toAgent[c][i].id, i)
      BY <1>2, <1>9, <2>1 DEF ShellsOf
    <2>3. ASSUME NEW s \in Session, s = toAgent[c][i].id
          PROVE  Own(c, s)' \/ Closing(c, s, i)'
      BY <1>5, <1>6, <1>7, <2>1, <2>2, <2>3
    <2> QED
      BY <2>1, <2>3
  <1> QED
    BY <1>8, <1>9

-----------------------------------------------------------------------------
\* What close does, whatever calls it.

\* The sessions S are tied to connections of their own.
Apart(S) == \A r, s \in S : sess[r].conn = sess[s].conn => r = s

LEMMA CloseType ==
  ASSUME TypeOK, NEW S \in SUBSET Session, Close(S)
  PROVE  /\ sessions' \subseteq Session /\ tab' \subseteq Session /\ ending' \subseteq Session
         /\ byDevice' \in [Device -> Session \cup {None}]
         /\ toAgent' \in [Conn -> Seq([type : {"open", "close"}, id : Session])]
  <1>1. toAgent' = CloseFrames(S)
    BY DEF Close
  <1>2. toAgent' \in [Conn -> Seq([type : {"open", "close"}, id : Session])]
    BY <1>1, CloseFramesType
  <1>3. /\ sessions' \subseteq Session /\ tab' \subseteq Session /\ ending' \subseteq Session
        /\ byDevice' \in [Device -> Session \cup {None}]
    BY DEF Close, TypeOK
  <1> QED
    BY <1>2, <1>3

LEMMA CloseShellsOf ==
  ASSUME TypeOK, Shells, NEW S \in SUBSET Session, Apart(S), toAgent' = CloseFrames(S),
         \A s \in sessions \ S : s \in sessions' /\ sess'[s].conn = sess[s].conn,
         NEW c \in Conn, conn'[c].pc = "open" => conn[c].pc = "open",
         pty'[c] \subseteq pty[c]
  PROVE  ShellsOf(c)'
  <1> SUFFICES ASSUME conn[c].pc = "open" PROVE ShellsOf(c)'
    BY DEF ShellsOf
  <1>1. \/ toAgent'[c] = toAgent[c]
        \/ \E s \in Session : toAgent'[c] = Append(toAgent[c], Frame("close", s))
    BY CloseFramesTo
  <1>2. ASSUME NEW s \in Session, Own(c, s)
        PROVE  Own(c, s)' \/ toAgent'[c] = Append(toAgent[c], Frame("close", s))
    <2>1. s \in sessions /\ sess[s].conn = c
      BY <1>2 DEF Own
    <2>2. CASE s \in S
      BY <2>1, <2>2, CloseFramesTell DEF Apart
    <2>3. CASE s \notin S
      BY <2>1, <2>3 DEF Own
    <2> QED
      BY <2>2, <2>3
  <1> QED
    BY <1>1, <1>2, ShellsKept

LEMMA CloseShells ==
  ASSUME TypeOK, Shells, NEW S \in SUBSET Session, Apart(S), toAgent' = CloseFrames(S),
         \A s \in sessions \ S : s \in sessions' /\ sess'[s].conn = sess[s].conn,
         \A c \in Conn : conn'[c].pc = "open" => conn[c].pc = "open",
         \A c \in Conn : pty'[c] \subseteq pty[c]
  PROVE  Shells'
  <1> SUFFICES ASSUME NEW c \in Conn PROVE ShellsOf(c)'
    BY DEF Shells
  <1> QED
    BY CloseShellsOf

LEMMA CloseFresh ==
  ASSUME TypeOK, Fresh, NEW S \in SUBSET Session, toAgent' = CloseFrames(S),
         \A c \in Conn : conn'[c].pc \in {"free", "auth", "known"} =>
                           conn[c].pc \in {"free", "auth", "known"},
         \A c \in Conn : pty'[c] \subseteq pty[c]
  PROVE  Fresh'
  <1> SUFFICES ASSUME NEW c \in Conn, conn'[c].pc \in {"free", "auth", "known"}
               PROVE  pty'[c] = {} /\ toAgent'[c] = <<>>
    BY DEF Fresh
  <1>1. conn[c].pc # "open" /\ pty[c] = {} /\ toAgent[c] = <<>>
    BY DEF Fresh
  <1> QED
    BY <1>1, CloseFramesTo

LEMMA CloseHolder ==
  ASSUME TypeOK, Refs, Holder, NEW S \in SUBSET Session, Close(S), sess' = sess,
         \A d \in Device : \/ reg'[d] = reg[d]
                           \/ HeldBy(d) \subseteq S
  PROVE  Holder'
  <1> SUFFICES ASSUME NEW d \in Device, byDevice'[d] # None
               PROVE  /\ byDevice'[d] \in sessions'
                      /\ sess[byDevice'[d]].conn = reg'[d]
                      /\ sess[byDevice'[d]].device = d
    BY DEF Holder
  <1>1. byDevice'[d] = byDevice[d] /\ byDevice[d] \notin S /\ sessions' = sessions \ S
    BY DEF Close
  <1>2. reg'[d] = reg[d]
    BY <1>1 DEF HeldBy
  <1> QED
    BY <1>1, <1>2 DEF Holder

LEMMA CloseRows ==
  ASSUME TypeOK, OpenRowHasSession, NEW S \in SUBSET Session, Close(S), UNCHANGED <<row, unended>>
  PROVE  OpenRowHasSession'
  BY DEF Close, OpenRowHasSession

\* The sessions of several devices are tied to connections of their own.
LEMMA HeldApart ==
  ASSUME Refs, Links, Holder, TypeOK, NEW D \in SUBSET Device
  PROVE  /\ UNION {HeldBy(d) : d \in D} \in SUBSET Session
         /\ Apart(UNION {HeldBy(d) : d \in D})
  <1> DEFINE S == UNION {HeldBy(d) : d \in D}
  <1>1. ASSUME NEW s \in S
        PROVE  \E d \in D : s = byDevice[d] /\ byDevice[d] # None
    BY DEF HeldBy
  <1>2. \A d \in D : byDevice[d] # None => byDevice[d] \in Session
    BY DEF TypeOK
  <1>3. \A s \in S : s \in Session
    BY <1>1, <1>2
  <1>4. ASSUME NEW r \in S, NEW s \in S, sess[r].conn = sess[s].conn
        PROVE  r = s
    <2>1. PICK d \in D : r = byDevice[d] /\ byDevice[d] # None
      BY <1>1
    <2>2. PICK e \in D : s = byDevice[e] /\ byDevice[e] # None
      BY <1>1
    <2>3. /\ sess[r].conn = reg[d] /\ sess[s].conn = reg[e]
          /\ r \in sessions
      BY <2>1, <2>2 DEF Holder
    <2>4. sess[r].conn \in Conn
      BY <1>3, <2>3 DEF Refs
    <2>5. conn[reg[d]].device = d /\ conn[reg[e]].device = e
      BY <1>4, <2>3, <2>4, ConsolesAssumption, ZenonT(30) DEF Links
    <2>6. d = e
      BY <1>4, <2>3, <2>5
    <2> QED
      BY <2>1, <2>2, <2>6
  <1> HIDE DEF S
  <1>5. S \in SUBSET Session /\ Apart(S)
    BY <1>3, <1>4 DEF Apart
  <1> QED
    BY <1>5 DEF S

\* Connections leave the registry: evicted, or after their close event.
LEMMA RemovedInv ==
  ASSUME IInv, NEW C \in SUBSET Conn, Removed(C),
         UNCHANGED <<pty, sess, row, unended>>,
         tokens' \in [Token -> Device \cup {None}], evictions' \subseteq Token \cup Device,
         up' \subseteq Conn, faults' \in 0..MaxFaults,
         conn' \in [Conn -> ConnState],
         \A c \in Conn :
           /\ conn'[c].token = conn[c].token /\ conn'[c].device = conn[c].device
           /\ \/ conn'[c].pc = conn[c].pc
              \/ c \in C /\ conn[c].pc \in {"open", "closing"}
                         /\ conn'[c].pc \in {"closing", "closed"},
         toServer' \in [Conn -> Seq([type : {"hello", "opened", "error", "exit"},
                                     id : Session \cup {None}])],
         \A c \in Conn : toServer'[c] \in Seq(ServerFrame)
  PROVE  IInv'
  <1> DEFINE D == {e \in Device : reg[e] \in C}
             S == UNION {HeldBy(d) : d \in D}
  <1>1. S \in SUBSET Session /\ Apart(S)
    BY HeldApart DEF IInv
  <1>2. Close(S) /\ reg' = [d \in Device |-> IF reg[d] \in C THEN None ELSE reg[d]]
    BY DEF Removed
  <1>3. \A d \in Device : reg'[d] = reg[d] \/ HeldBy(d) \subseteq S
    BY <1>2
  <1> HIDE DEF S, D
  <1>4. TypeOK'
    <2>1. reg' \in [Device -> Conn \cup {None}]
      BY <1>2 DEF IInv, TypeOK
    <2> QED
      BY <1>1, <1>2, <2>1, CloseType DEF IInv, TypeOK
  <1>5. Refs'
    BY <1>2 DEF IInv, Refs, Close
  <1>6. Links'
    <2> SUFFICES ASSUME NEW d \in Device, reg'[d] # None
                 PROVE  conn'[reg'[d]].pc \in {"open", "closing"} /\ conn'[reg'[d]].device = d
      BY DEF Links
    <2>1. reg'[d] = reg[d] /\ reg[d] # None /\ reg[d] \notin C
      BY <1>2
    <2>2. reg[d] \in Conn
      BY <2>1 DEF IInv, TypeOK
    <2>3. conn[reg[d]].pc \in {"open", "closing"} /\ conn[reg[d]].device = d
      BY <2>1 DEF IInv, Links
    <2> QED
      BY <2>1, <2>2, <2>3
  <1>7. Fresh'
    BY <1>1, <1>2, CloseFresh DEF IInv, Close
  <1>8. Holder'
    BY <1>1, <1>2, <1>3, CloseHolder DEF IInv
  <1>9. Shells'
    <2>1. toAgent' = CloseFrames(S) /\ sessions' = sessions \ S
      BY <1>2 DEF Close
    <2> QED
      BY <1>1, <2>1, CloseShells DEF IInv
  <1>10. OpenRowHasSession'
    BY <1>1, <1>2, CloseRows DEF IInv
  <1> QED
    BY <1>4, <1>5, <1>6, <1>7, <1>8, <1>9, <1>10 DEF IInv

\* One session ends, at the request of its agent or of its browser.
LEMMA CloseOneInv ==
  ASSUME IInv, NEW s \in Session, Close({s}),
         UNCHANGED <<tokens, evictions, conn, reg, up, pty, sess, row, faults, unended>>,
         toServer' \in [Conn -> Seq([type : {"hello", "opened", "error", "exit"},
                                     id : Session \cup {None}])],
         \A c \in Conn : toServer'[c] \in Seq(ServerFrame)
  PROVE  IInv'
  <1>1. {s} \in SUBSET Session /\ Apart({s})
    BY DEF Apart
  <1>2. TypeOK'
    BY <1>1, CloseType DEF IInv, TypeOK
  <1>3. Refs' /\ Links'
    BY DEF IInv, Refs, Links, Close
  <1>4. Fresh'
    BY <1>1, CloseFresh DEF IInv, Close
  <1>5. Holder'
    BY <1>1, CloseHolder DEF IInv
  <1>6. Shells'
    <2>1. toAgent' = CloseFrames({s}) /\ sessions' = sessions \ {s}
      BY DEF Close
    <2> QED
      BY <1>1, <2>1, CloseShells DEF IInv
  <1>7. OpenRowHasSession'
    BY <1>1, CloseRows DEF IInv
  <1> QED
    BY <1>2, <1>3, <1>4, <1>5, <1>6, <1>7 DEF IInv

-----------------------------------------------------------------------------
LEMMA InitInv == Init => IInv
  <1> SUFFICES ASSUME Init PROVE IInv
    OBVIOUS
  <1>1. TypeOK
    BY ConsolesAssumption DEF Init, TypeOK, ConnState, SessionState
  <1>2. Refs /\ Links /\ Fresh /\ Holder
    BY DEF Init, Refs, Links, Fresh, Holder
  <1>3. Shells /\ OpenRowHasSession
    BY DEF Init, Shells, ShellsOf, OpenRowHasSession
  <1> QED
    BY <1>1, <1>2, <1>3 DEF IInv

\* A step that changes neither sessions, nor registered connections, nor what
\* is sent to the agents.
LEMMA NoSessionStep ==
  ASSUME IInv, TypeOK', Refs', 
         UNCHANGED <<reg, toAgent, sessions, byDevice>>,
         ending \subseteq ending', unended \subseteq unended',
         \A s \in Session : row'[s] = "open" => row[s] = "open" \/ s \in unended',
         \A c \in Conn : \/ conn'[c] = conn[c]
                         \/ conn[c].pc \in {"free", "auth", "known"}
                              /\ conn'[c].pc \in {"auth", "known", "closed"}
                         \/ conn[c].pc \in {"open", "closing"}
                              /\ conn'[c].pc \in {conn[c].pc, "closing"}
                              /\ conn'[c].device = conn[c].device,
         \A c \in Conn : pty'[c] \subseteq pty[c],
         \A s \in Session : \/ sess'[s] = sess[s]
                            \/ s \notin sessions
  PROVE  IInv'
  <1>1. Links'
    <2> SUFFICES ASSUME NEW d \in Device, reg[d] # None
                 PROVE  conn'[reg[d]].pc \in {"open", "closing"} /\ conn'[reg[d]].device = d
      BY DEF Links
    <2>1. reg[d] \in Conn
      BY DEF IInv, TypeOK
    <2>2. conn[reg[d]].pc \in {"open", "closing"} /\ conn[reg[d]].device = d
      BY DEF IInv, Links
    <2> QED
      BY <2>1, <2>2
  <1>2. Fresh'
    BY DEF IInv, Fresh
  <1>3. Holder'
    BY DEF IInv, Holder, TypeOK
  <1>4. Shells'
    <2> SUFFICES ASSUME NEW c \in Conn PROVE ShellsOf(c)'
      BY DEF Shells
    <2>1. \A s \in Session : Own(c, s) => Own(c, s)'
      BY DEF Own
    <2>2. conn'[c].pc = "open" => conn[c].pc = "open"
      OBVIOUS
    <2> QED
      BY <2>1, <2>2, ShellsKept DEF IInv
  <1>5. OpenRowHasSession'
    BY DEF IInv, OpenRowHasSession
  <1> QED
    BY <1>1, <1>2, <1>3, <1>4, <1>5 DEF IInv

\* Frames to the API: what is left of them, and what is added.
LEMMA TailOfFrames ==
  ASSUME TypeOK, Refs, NEW c \in Conn, toServer[c] # <<>>
  PROVE  /\ Head(toServer[c]) \in ServerFrame
         /\ Tail(toServer[c]) \in Seq(ServerFrame)
  <1>1. toServer[c] \in Seq(ServerFrame)
    BY DEF Refs
  <1> QED
    BY <1>1

LEMMA ServerFrames ==
  \A q : q \in Seq(ServerFrame) =>
           q \in Seq([type : {"hello", "opened", "error", "exit"}, id : Session \cup {None}])
  <1>1. ServerFrame \subseteq [type : {"hello", "opened", "error", "exit"},
  id : Session \cup {None}]
    BY DEF ServerFrame
  <1> QED
    BY <1>1, SeqMonotonic

LEMMA DialInv ==
  ASSUME IInv, NEW c \in Conn, NEW t \in Token, Dial(c, t)
  PROVE  IInv'
  <1>1. /\ conn[c].pc = "free" /\ conn[c] \in ConnState
        /\ conn' = [conn EXCEPT ![c] = [conn[c] EXCEPT !.pc = "auth", !.token = t]]
        /\ toServer' = [toServer EXCEPT ![c] = <<Frame("hello", None)>>]
        /\ up' = up \cup {c}
        /\ UNCHANGED <<tokens, evictions, reg, pty, toAgent, sessionVars, faults>>
    BY DEF Dial, IInv, TypeOK
  <1>2. <<Frame("hello", None)>> \in Seq(ServerFrame)
    BY DEF Frame, ServerFrame
  <1>3. /\ conn' \in [Conn -> ConnState]
        /\ \A e \in Conn : e # c => conn'[e] = conn[e]
        /\ conn'[c].pc = "auth" /\ conn'[c].token = t
    BY <1>1 DEF IInv, TypeOK, ConnState
  <1>4. TypeOK'
    BY <1>1, <1>2, <1>3, ServerFrames DEF IInv, TypeOK, sessionVars
  <1>5. Refs'
    <2>1. \A e \in Conn : toServer'[e] \in Seq(ServerFrame)
      BY <1>1, <1>2 DEF IInv, TypeOK, Refs
    <2> QED
      BY <1>1, <1>3, <2>1 DEF IInv, Refs, sessionVars
  <1> QED
    BY <1>1, <1>3, <1>4, <1>5, NoSessionStep DEF sessionVars

LEMMA AuthTokenInv ==
  ASSUME IInv, NEW c \in Conn, AuthToken(c)
  PROVE  IInv'
  <1> DEFINE d == tokens[conn[c].token]
  <1>1. /\ conn[c].pc = "auth" /\ conn[c] \in ConnState /\ conn[c].token \in Token
        /\ conn' = [conn EXCEPT ![c] = [conn[c] EXCEPT !.pc = IF d = None THEN "closed" ELSE "known",
                                                       !.device = d]]
        /\ UNCHANGED <<tokens, evictions, reg, agentVars, toAgent, toServer, sessionVars, faults>>
    BY DEF AuthToken, IInv, TypeOK, Refs
  <1>2. d \in Device \cup {None}
    BY <1>1 DEF IInv, TypeOK
  <1> HIDE DEF d
  <1>3. /\ conn' \in [Conn -> ConnState]
        /\ \A e \in Conn : e # c => conn'[e] = conn[e]
        /\ conn'[c].pc = (IF d = None THEN "closed" ELSE "known") /\ conn'[c].device = d
    BY <1>1, <1>2 DEF IInv, TypeOK, ConnState
  <1>4. TypeOK'
    BY <1>1, <1>3 DEF IInv, TypeOK, sessionVars, agentVars
  <1>5. Refs'
    BY <1>1, <1>2, <1>3 DEF IInv, Refs, sessionVars
  <1> QED
    BY <1>1, <1>3, <1>4, <1>5, NoSessionStep DEF sessionVars, agentVars

LEMMA HelloDroppedInv ==
  ASSUME IInv, NEW c \in Conn, HelloDropped(c)
  PROVE  IInv'
  <1>1. /\ toServer' = [toServer EXCEPT ![c] = Tail(toServer[c])]
        /\ Tail(toServer[c]) \in Seq(ServerFrame)
        /\ UNCHANGED <<tokens, evictions, conn, reg, agentVars, toAgent, sessionVars, faults>>
    BY TailOfFrames DEF HelloDropped, IInv
  <1>2. TypeOK'
    BY <1>1, ServerFrames DEF IInv, TypeOK, sessionVars, agentVars
  <1>3. Refs'
    BY <1>1 DEF IInv, TypeOK, Refs, sessionVars
  <1> QED
    BY <1>1, <1>2, <1>3, NoSessionStep DEF sessionVars, agentVars

\* Tokens come and go without a step of the connections.
LEMMA TokenStepInv ==
  ASSUME IInv, NEW t \in Token, Invalidate(t) \/ \E d \in Device : Rebind(t, d)
  PROVE  IInv'
  <1>1. /\ tokens' \in [Token -> Device \cup {None}] /\ evictions' \subseteq Token \cup Device
        /\ UNCHANGED <<conn, reg, agentVars, toAgent, toServer, sessionVars, faults>>
    <2>1. CASE Invalidate(t)
      <3>1. tokens[t] \in Device /\ \E E \in {{}, {t},
      {tokens[t]}} : evictions' = evictions \cup E
        BY <2>1 DEF Invalidate, IInv, TypeOK
      <3>2. evictions' \subseteq Token \cup Device
        BY <3>1 DEF IInv, TypeOK
      <3> QED
        BY <2>1, <3>2 DEF Invalidate, IInv, TypeOK
    <2>2. CASE \E d \in Device : Rebind(t, d)
      BY <2>2 DEF Rebind, IInv, TypeOK
    <2> QED
      BY <2>1, <2>2
  <1>2. TypeOK' /\ Refs'
    BY <1>1 DEF IInv, TypeOK, Refs, sessionVars, agentVars
  <1> QED
    BY <1>1, <1>2, NoSessionStep DEF sessionVars, agentVars

LEMMA SocketEndsInv ==
  ASSUME IInv, NEW c \in Conn, SocketEnds(c)
  PROVE  IInv'
  <1> DEFINE p == IF conn[c].pc = "open" THEN "closing" ELSE "closed"
  <1>1. /\ conn[c].pc \in {"auth", "known", "open"} /\ conn[c] \in ConnState
        /\ conn' = [conn EXCEPT ![c] = [conn[c] EXCEPT !.pc = p]]
        /\ UNCHANGED <<tokens, evictions, reg, agentVars, toAgent, toServer, sessionVars>>
    BY DEF SocketEnds, IInv, TypeOK
  <1>2. /\ conn' \in [Conn -> ConnState]
        /\ \A e \in Conn : e # c => conn'[e] = conn[e]
        /\ conn'[c].pc = p /\ conn'[c].device = conn[c].device
    BY <1>1 DEF IInv, TypeOK, ConnState
  <1>3. faults' \in 0..MaxFaults
    BY ConsolesAssumption DEF SocketEnds, Fault, IInv, TypeOK
  <1>4. TypeOK'
    BY <1>1, <1>2, <1>3 DEF IInv, TypeOK, sessionVars, agentVars
  <1>5. Refs'
    BY <1>1, <1>2 DEF IInv, Refs, sessionVars
  <1> QED
    BY <1>1, <1>2, <1>4, <1>5, NoSessionStep DEF sessionVars, agentVars

\* An eviction takes the connections C out of the registry.
LEMMA EvictInv ==
  ASSUME IInv, NEW C \in SUBSET Conn, Evict(C), evictions' \subseteq Token \cup Device
  PROVE  IInv'
  <1>1. /\ conn' \in [Conn -> ConnState]
        /\ \A c \in Conn :
             /\ conn'[c].token = conn[c].token /\ conn'[c].device = conn[c].device
             /\ \/ conn'[c].pc = conn[c].pc
                \/ c \in C /\ conn[c].pc \in {"open", "closing"}
                           /\ conn'[c].pc \in {"closing", "closed"}
    <2> SUFFICES ASSUME NEW c \in Conn
                 PROVE  /\ conn'[c] \in ConnState
                        /\ conn'[c].token = conn[c].token /\ conn'[c].device = conn[c].device
                        /\ \/ conn'[c].pc = conn[c].pc
                           \/ c \in C /\ conn[c].pc \in {"open", "closing"}
                                      /\ conn'[c].pc \in {"closing", "closed"}
      BY DEF Evict
    <2>1. conn[c] \in ConnState
      BY DEF IInv, TypeOK
    <2>2. conn'[c] = IF c \in C
                     THEN [conn[c] EXCEPT !.revoked = TRUE,
                                          !.pc = IF conn[c].pc = "open" THEN "closing" ELSE conn[c].pc]
                     ELSE conn[c]
      BY DEF Evict
    <2>3. CASE c \notin C
      BY <2>1, <2>2, <2>3
    <2>4. CASE c \in C /\ conn[c].pc = "open"
      <3>1. conn'[c] = [conn[c] EXCEPT !.revoked = TRUE, !.pc = "closing"]
        BY <2>2, <2>4
      <3> QED
        BY <2>1, <2>4, <3>1 DEF ConnState
    <2>5. CASE c \in C /\ conn[c].pc # "open"
      <3>1. conn'[c] = [conn[c] EXCEPT !.revoked = TRUE, !.pc = conn[c].pc]
        BY <2>2, <2>5
      <3> QED
        BY <2>1, <3>1 DEF ConnState
    <2> QED
      BY <2>3, <2>4, <2>5
  <1>2. /\ Removed(C) /\ UNCHANGED <<tokens, agentVars, toServer, sess, row, faults, unended>>
    BY DEF Evict
  <1> QED
    BY <1>1, <1>2, RemovedInv DEF IInv, TypeOK, Refs, agentVars

LEMMA EvictionsInv ==
  ASSUME IInv,
         \/ \E c \in Conn : RecheckToken(c)
         \/ \E t \in Token : EvictTokens(t)
         \/ \E d \in Device : EvictDevice(d)
  PROVE  IInv'
  <1>1. \A d \in Device : reg[d] \in Conn \cup {None}
    BY DEF IInv, TypeOK
  <1>2. Registered \in SUBSET Conn
    BY <1>1 DEF Registered
  <1>3. CASE \E c \in Conn : RecheckToken(c)
    BY <1>3, EvictInv DEF RecheckToken, IInv, TypeOK
  <1>4. CASE \E t \in Token : EvictTokens(t)
    <2> PICK t \in Token : EvictTokens(t)
      BY <1>4
    <2>1. {c \in Registered : conn[c].token = t} \in SUBSET Conn
      BY <1>2
    <2>2. Evict({c \in Registered : conn[c].token = t}) /\ evictions' \subseteq evictions
      BY DEF EvictTokens
    <2> QED
      BY <2>1, <2>2, EvictInv DEF IInv, TypeOK
  <1>5. CASE \E d \in Device : EvictDevice(d)
    <2> PICK d \in Device : EvictDevice(d)
      BY <1>5
    <2>1. {reg[d]} \ {None} \in SUBSET Conn
      BY <1>1
    <2>2. Evict({reg[d]} \ {None}) /\ evictions' \subseteq evictions
      BY DEF EvictDevice
    <2> QED
      BY <2>1, <2>2, EvictInv DEF IInv, TypeOK
  <1> QED
    BY <1>3, <1>4, <1>5

LEMMA CloseEventInv ==
  ASSUME IInv, NEW c \in Conn, CloseEvent(c)
  PROVE  IInv'
  <1>1. /\ conn[c].pc = "closing" /\ conn[c] \in ConnState
        /\ conn' = [conn EXCEPT ![c] = [conn[c] EXCEPT !.pc = "closed"]]
        /\ toServer' = [toServer EXCEPT ![c] = <<>>] /\ Removed({c})
        /\ UNCHANGED <<tokens, evictions, agentVars, sess, row, faults, unended>>
    BY DEF CloseEvent, IInv, TypeOK
  <1>2. /\ conn' \in [Conn -> ConnState]
        /\ \A e \in Conn : e # c => conn'[e] = conn[e]
        /\ conn'[c].pc = "closed" /\ conn'[c].device = conn[c].device
        /\ conn'[c].token = conn[c].token
    BY <1>1 DEF IInv, TypeOK, ConnState
  <1>3. /\ toServer' \in [Conn -> Seq([type : {"hello", "opened", "error", "exit"},
                                       id : Session \cup {None}])]
        /\ \A e \in Conn : toServer'[e] \in Seq(ServerFrame)
    <2>1. toServer' = [e \in Conn |-> toServer'[e]]
      BY <1>1 DEF IInv, TypeOK
    <2>2. ASSUME NEW e \in Conn PROVE toServer'[e] \in Seq(ServerFrame)
      <3>1. toServer'[e] = <<>> \/ toServer'[e] = toServer[e]
        BY <1>1 DEF IInv, TypeOK
      <3> QED
        BY <3>1, EmptySeq DEF IInv, Refs
    <2>3. \A e \in Conn :
            toServer'[e] \in Seq([type : {"hello", "opened", "error", "exit"},
                                 id : Session \cup {None}])
      BY <2>2, ServerFrames
    <2> QED
      BY <2>1, <2>2, <2>3
  <1>4. /\ tokens' \in [Token -> Device \cup {None}] /\ evictions' \subseteq Token \cup Device
        /\ up' \subseteq Conn /\ faults' \in 0..MaxFaults
        /\ UNCHANGED <<pty, sess, row, unended>>
    BY <1>1 DEF IInv, TypeOK, agentVars
  <1>5. \A e \in Conn :
          /\ conn'[e].token = conn[e].token /\ conn'[e].device = conn[e].device
          /\ \/ conn'[e].pc = conn[e].pc
             \/ e \in {c} /\ conn[e].pc \in {"open", "closing"}
                          /\ conn'[e].pc \in {"closing", "closed"}
    BY <1>1, <1>2
  <1> QED
    BY <1>1, <1>2, <1>3, <1>4, <1>5, RemovedInv, ZenonT(30)

\* A new connection replaces that of its device: what the old one served is
\* closed, and the new one carries nothing yet.
LEMMA RegisterInv ==
  ASSUME IInv, NEW c \in Conn, Register(c)
  PROVE  IInv'
  <1> DEFINE d == conn[c].device
             S == IF reg[d] = None THEN {} ELSE HeldBy(d)
  <1>1. /\ conn[c].pc = "known" /\ d \in Device /\ reg' = [reg EXCEPT ![d] = c]
        /\ Close(S)
        /\ UNCHANGED <<tokens, evictions, agentVars, toServer, sess, row, faults, unended>>
    BY DEF Register, IInv, Refs
  <1>2. \A e \in Device : reg[e] \in Conn \cup {None} /\ reg[e] # c
    <2>1. \A e \in Device : reg[e] \in Conn \cup {None}
      BY DEF IInv, TypeOK
    <2>2. ASSUME NEW e \in Device, reg[e] = c PROVE FALSE
      <3>1. c # None
        BY ConsolesAssumption
      <3> QED
        BY <1>1, <2>2, <3>1 DEF IInv, Links
    <2> QED
      BY <2>1, <2>2
  <1>3. ASSUME NEW e \in Conn
        PROVE  /\ conn'[e] \in ConnState
               /\ conn'[e].token = conn[e].token /\ conn'[e].device = conn[e].device
               /\ conn'[e].pc = CASE e = c -> "open" [] e = reg[d] -> "closing"
                                  [] OTHER -> conn[e].pc
    <2>1. conn[e] \in ConnState
      BY DEF IInv, TypeOK
    <2>2. conn'[e] = CASE e = c      -> [conn[e] EXCEPT !.pc = "open"]
                       [] e = reg[d] -> [conn[e] EXCEPT !.pc = "closing"]
                       [] OTHER      -> conn[e]
      BY DEF Register
    <2>3. CASE e = c
      BY <2>1, <2>2, <2>3 DEF ConnState
    <2>4. CASE e # c /\ e = reg[d]
      BY <2>1, <2>2, <2>4 DEF ConnState
    <2>5. CASE e # c /\ e # reg[d]
      BY <2>1, <2>2, <2>5 DEF ConnState
    <2> QED
      BY <2>3, <2>4, <2>5
  <1>4. conn' \in [Conn -> ConnState]
    BY <1>3 DEF Register
  <1>5. S \in SUBSET Session /\ Apart(S)
    BY <1>1 DEF HeldBy, Apart, IInv, TypeOK
  <1>6. \A e \in Device : reg'[e] = IF e = d THEN c ELSE reg[e]
    BY <1>1 DEF IInv, TypeOK
  <1>7. HeldBy(d) \subseteq S
    <2> SUFFICES ASSUME reg[d] = None, byDevice[d] # None PROVE FALSE
      BY <1>1 DEF HeldBy
    <2>1. byDevice[d] \in sessions /\ sess[byDevice[d]].conn = None
      BY <1>1 DEF IInv, Holder
    <2>2. sess[byDevice[d]].conn \in Conn
      BY <2>1 DEF IInv, TypeOK, Refs
    <2> QED
      BY <2>1, <2>2, ConsolesAssumption
  <1> HIDE DEF d, S
  <1>8. TypeOK'
    <2>1. reg' \in [Device -> Conn \cup {None}]
      BY <1>1 DEF IInv, TypeOK
    <2> QED
      BY <1>1, <1>4, <1>5, <2>1, CloseType DEF IInv, TypeOK, agentVars
  <1>9. Refs'
    <2>1. \A e \in Conn : /\ conn'[e].pc = "auth" => conn'[e].token \in Token
                          /\ conn'[e].pc \in {"known", "open", "closing"} =>
                               conn'[e].device \in Device
      <3>1. reg[d] \in Conn => conn[reg[d]].device \in Device
        BY <1>1, ConsolesAssumption DEF IInv, Links
      <3> QED
        BY <1>1, <1>3, <3>1 DEF IInv, Refs, d
    <2> QED
      BY <1>1, <2>1 DEF IInv, Refs, Close
  <1>10. Links'
    <2> SUFFICES ASSUME NEW e \in Device, reg'[e] # None
                 PROVE  conn'[reg'[e]].pc \in {"open", "closing"} /\ conn'[reg'[e]].device = e
      BY DEF Links
    <2>1. CASE e = d
      BY <1>3, <1>6, <2>1 DEF d
    <2>2. CASE e # d
      <3>1. reg'[e] = reg[e] /\ reg[e] \in Conn
        BY <1>2, <1>6, <2>2
      <3>2. conn[reg[e]].pc \in {"open", "closing"} /\ conn[reg[e]].device = e
        BY <3>1, ConsolesAssumption DEF IInv, Links
      <3> QED
        BY <1>2, <1>3, <3>1, <3>2
    <2> QED
      BY <2>1, <2>2
  <1>11. \A e \in Conn : conn'[e].pc \in {"free", "auth", "known"} =>
                           conn[e].pc \in {"free", "auth", "known"}
    BY <1>3
  <1>12. Fresh' /\ toAgent' = CloseFrames(S) /\ sessions' = sessions \ S
    BY <1>1, <1>5, <1>11, CloseFresh DEF IInv, Close, agentVars
  <1>13. Holder'
    BY <1>1, <1>5, <1>6, <1>7, CloseHolder DEF IInv
  <1>14. Shells'
    <2> SUFFICES ASSUME NEW e \in Conn PROVE ShellsOf(e)'
      BY DEF Shells
    <2>1. CASE e = c
      <3>1. pty'[c] = {} /\ toAgent'[c] = <<>>
        BY <1>1, <1>5, <1>12, CloseFramesTo DEF IInv, Fresh, agentVars
      <3> QED
        BY <2>1, <3>1 DEF ShellsOf
    <2>2. CASE e # c
      <3>1. conn'[e].pc = "open" => conn[e].pc = "open"
        BY <1>3, <2>2
      <3> QED
        BY <1>1, <1>5, <1>12, <3>1, CloseShellsOf DEF IInv, agentVars
    <2> QED
      BY <2>1, <2>2
  <1>15. OpenRowHasSession'
    BY <1>1, <1>5, CloseRows DEF IInv
  <1> QED
    BY <1>8, <1>9, <1>10, <1>12, <1>13, <1>14, <1>15 DEF IInv

\* A step of the frames and shells alone.
LEMMA FramesStep ==
  ASSUME IInv, TypeOK', Refs', Fresh', Shells',
         UNCHANGED <<conn, reg, sess, sessions, byDevice, row, unended, ending>>
  PROVE  IInv'
  <1>1. Links' /\ Holder'
    BY DEF IInv, Links, Holder
  <1>2. OpenRowHasSession'
    BY DEF IInv, OpenRowHasSession
  <1> QED
    BY <1>1, <1>2 DEF IInv

\* A shell without a session is told to close; the end of one that has its
\* session closes it.
LEMMA DispatchInv ==
  ASSUME IInv, NEW c \in Conn, Dispatch(c)
  PROVE  IInv'
  <1> DEFINE m == Head(toServer[c])
  <1>1. /\ conn[c].pc \in {"open", "closing"} /\ conn[c] \in ConnState
        /\ toServer' = [toServer EXCEPT ![c] = Tail(toServer[c])]
        /\ UNCHANGED <<tokens, evictions, reg, agentVars, sess, row, faults, unended>>
    BY DEF Dispatch, IInv, TypeOK
  <1>2. m \in ServerFrame /\ Tail(toServer[c]) \in Seq(ServerFrame)
    BY TailOfFrames DEF Dispatch, IInv
  <1>3. /\ toServer' \in [Conn -> Seq([type : {"hello", "opened", "error", "exit"},
                                       id : Session \cup {None}])]
        /\ \A e \in Conn : toServer'[e] \in Seq(ServerFrame)
    BY <1>1, <1>2, ServerFrames DEF IInv, TypeOK, Refs
  <1>4. CASE /\ conn' = [conn EXCEPT ![c].console = TRUE]
             /\ UNCHANGED <<toAgent, sessions, byDevice, tab, ending>>
    <2>1. /\ conn' \in [Conn -> ConnState]
          /\ \A e \in Conn : /\ e # c => conn'[e] = conn[e]
                             /\ conn'[e].pc = conn[e].pc /\ conn'[e].device = conn[e].device
                             /\ conn'[e].token = conn[e].token
      BY <1>1, <1>4 DEF IInv, TypeOK, ConnState
    <2>2. TypeOK'
      BY <1>1, <1>3, <1>4, <2>1 DEF IInv, TypeOK, agentVars
    <2>3. Refs'
      BY <1>1, <1>3, <1>4, <2>1 DEF IInv, Refs
    <2> QED
      BY <1>1, <1>4, <2>1, <2>2, <2>3, NoSessionStep DEF agentVars
  <1>5. CASE Own(c, m.id) /\ Close({m.id}) /\ UNCHANGED conn
    <2>1. m.id \in Session
      BY <1>5 DEF Own, IInv, TypeOK
    <2> QED
      BY <1>1, <1>3, <1>5, <2>1, CloseOneInv DEF agentVars
  <1>6. CASE /\ m.type = "opened"
             /\ toAgent' = IF conn[c].pc = "open"
                           THEN [toAgent EXCEPT ![c] = Append(toAgent[c], Frame("close", m.id))]
                           ELSE toAgent
             /\ UNCHANGED <<conn, sessions, byDevice, tab, ending>>
    <2> DEFINE F == [type : {"open", "close"}, id : Session]
               s == m.id
    <2>1. s \in Session
      BY <1>2, <1>6 DEF ServerFrame
    <2> HIDE DEF m, s
    <2>2. /\ \A e \in Conn : e # c => toAgent'[e] = toAgent[e]
          /\ toAgent'[c] = toAgent[c] \/ toAgent'[c] = Append(toAgent[c], Frame("close", s))
      BY <1>6 DEF IInv, TypeOK, s
    <2>3. toAgent' \in [Conn -> Seq(F)]
      <3>1. toAgent \in [Conn -> Seq(F)] /\ Frame("close", s) \in F
        BY <2>1 DEF IInv, TypeOK, Frame
      <3> HIDE DEF F
      <3>2. Append(toAgent[c], Frame("close", s)) \in Seq(F)
        BY <3>1
      <3> QED
        BY <1>6, <3>1, <3>2 DEF s
    <2>4. TypeOK'
      BY <1>1, <1>3, <1>6, <2>3 DEF IInv, TypeOK, agentVars
    <2>5. Refs'
      BY <1>1, <1>3, <1>6 DEF IInv, Refs
    <2>6. Fresh'
      BY <1>1, <1>6, <2>2 DEF IInv, Fresh, agentVars
    <2>7. Shells'
      <3> SUFFICES ASSUME NEW e \in Conn PROVE ShellsOf(e)'
        BY DEF Shells
      <3>1. \A r \in Session : Own(e, r) => Own(e, r)'
        BY <1>1, <1>6 DEF Own
      <3>2. \/ toAgent'[e] = toAgent[e]
            \/ \E r \in Session : toAgent'[e] = Append(toAgent[e], Frame("close", r))
        BY <2>1, <2>2
      <3> QED
        BY <1>1, <1>6, <3>1, <3>2, ShellsKept DEF IInv, agentVars
    <2> QED
      BY <1>1, <1>6, <2>4, <2>5, <2>6, <2>7, FramesStep
  <1>7. CASE UNCHANGED <<conn, toAgent, sessions, byDevice, tab, ending>>
    <2>1. TypeOK' /\ Refs'
      BY <1>1, <1>3, <1>7 DEF IInv, TypeOK, Refs, agentVars
    <2> QED
      BY <1>1, <1>7, <2>1, NoSessionStep DEF agentVars
  <1> QED
    BY <1>4, <1>5, <1>6, <1>7 DEF Dispatch

-----------------------------------------------------------------------------
\* The agent.

LEMMA AgentGoneInv ==
  ASSUME IInv, NEW c \in Conn, AgentGone(c), faults' \in 0..MaxFaults
  PROVE  IInv'
  <1>1. /\ up' = up \ {c} /\ pty' = [pty EXCEPT ![c] = {}]
        /\ toAgent' = [toAgent EXCEPT ![c] = <<>>]
        /\ UNCHANGED <<tokens, evictions, conn, reg, toServer, sessionVars>>
    BY DEF AgentGone
  <1>2. \A e \in Conn : /\ e # c => pty'[e] = pty[e] /\ toAgent'[e] = toAgent[e]
                        /\ e = c => pty'[e] = {} /\ toAgent'[e] = <<>>
    BY <1>1 DEF IInv, TypeOK
  <1>3. TypeOK'
    <2> DEFINE F == [type : {"open", "close"}, id : Session]
    <2> HIDE DEF F
    <2>1. toAgent' \in [Conn -> Seq(F)]
      BY <1>1, EmptySeq DEF IInv, TypeOK, F
    <2>2. pty' \in [Conn -> SUBSET Session]
      BY <1>1 DEF IInv, TypeOK
    <2> QED
      BY <1>1, <2>1, <2>2 DEF IInv, TypeOK, sessionVars, F
  <1>4. Refs' /\ Fresh'
    BY <1>1, <1>2 DEF IInv, Refs, Fresh, sessionVars
  <1>5. Shells'
    <2> SUFFICES ASSUME NEW e \in Conn PROVE ShellsOf(e)'
      BY DEF Shells
    <2>1. CASE e = c
      BY <1>2, <2>1 DEF ShellsOf
    <2>2. CASE e # c
      <3>1. \A r \in Session : Own(e, r) => Own(e, r)'
        BY <1>1 DEF Own, sessionVars
      <3> QED
        BY <1>1, <1>2, <2>2, <3>1, ShellsKept DEF IInv
    <2> QED
      BY <2>1, <2>2
  <1> QED
    BY <1>1, <1>3, <1>4, <1>5, FramesStep DEF sessionVars

LEMMA AgentStopsInv ==
  ASSUME IInv, NEW c \in Conn, AgentDrops(c) \/ AgentEnds(c)
  PROVE  IInv'
  <1>1. AgentGone(c)
    BY DEF AgentDrops, AgentEnds
  <1>2. faults' \in 0..MaxFaults
    BY ConsolesAssumption DEF AgentDrops, AgentEnds, Fault, IInv, TypeOK
  <1> QED
    BY <1>1, <1>2, AgentGoneInv

\* Once the agent has read a frame, the others are one place nearer.
LEMMA ReadFrame ==
  ASSUME TypeOK, NEW c \in Conn, toAgent[c] # <<>>,
         toAgent' = [toAgent EXCEPT ![c] = Tail(toAgent[c])]
  PROVE  /\ toAgent' \in [Conn -> Seq([type : {"open", "close"}, id : Session])]
         /\ Head(toAgent[c]) = toAgent[c][1]
         /\ Head(toAgent[c]) \in [type : {"open", "close"}, id : Session]
         /\ \A e \in Conn : e # c => toAgent'[e] = toAgent[e]
         /\ DOMAIN toAgent'[c] \subseteq Nat
         /\ \A i \in DOMAIN toAgent'[c] :
              i + 1 \in DOMAIN toAgent[c] /\ toAgent'[c][i] = toAgent[c][i + 1]
         /\ \A s \in Session : \A n \in Nat :
              Closing(c, s, n + 1) => Closing(c, s, n)'
         /\ \A s \in Session :
              Head(toAgent[c]) # Frame("close", s) /\ Closing(c, s, 0) => Closing(c, s, 0)'
  <1> DEFINE F == [type : {"open", "close"}, id : Session]
             q == toAgent[c]
  <1>1. q \in Seq(F) /\ toAgent \in [Conn -> Seq(F)]
    BY DEF TypeOK
  <1> HIDE DEF F
  <1>2. /\ Tail(q) \in Seq(F) /\ Head(q) \in F /\ Head(q) = q[1]
        /\ Len(q) \in Nat \ {0} /\ DOMAIN q = 1..Len(q)
        /\ DOMAIN Tail(q) = 1..(Len(q) - 1)
        /\ \A i \in 1..(Len(q) - 1) : Tail(q)[i] = q[i + 1]
    BY <1>1
  <1>3. /\ toAgent'[c] = Tail(q) /\ \A e \in Conn : e # c => toAgent'[e] = toAgent[e]
        /\ toAgent' \in [Conn -> Seq(F)]
    BY <1>1, <1>2
  <1>4. \A i \in DOMAIN toAgent'[c] : i + 1 \in DOMAIN q /\ toAgent'[c][i] = q[i + 1]
    BY <1>2, <1>3
  <1>5. ASSUME NEW s \in Session, NEW n \in Nat, NEW i \in DOMAIN q,
               i > n + 1 \/ (i > 1 /\ n = 0), q[i] = Frame("close", s)
        PROVE  Closing(c, s, n)'
    <2>1. i \in Nat /\ i - 1 \in 1..(Len(q) - 1) /\ i - 1 > n
      BY <1>2, <1>5
    <2>2. i - 1 \in DOMAIN toAgent'[c] /\ toAgent'[c][i - 1] = Frame("close", s)
      BY <1>2, <1>3, <1>5, <2>1
    <2> QED
      BY <2>1, <2>2 DEF Closing
  <1>6. \A s \in Session : \A n \in Nat : Closing(c, s, n + 1) => Closing(c, s, n)'
    <2> SUFFICES ASSUME NEW s \in Session, NEW n \in Nat, Closing(c, s, n + 1)
                 PROVE  Closing(c, s, n)'
      OBVIOUS
    <2>1. PICK i \in DOMAIN q : i > n + 1 /\ q[i] = Frame("close", s)
      BY DEF Closing
    <2> QED
      BY <1>5, <2>1
  <1>7. ASSUME NEW s \in Session, Head(q) # Frame("close", s), Closing(c, s, 0)
        PROVE  Closing(c, s, 0)'
    <2>1. PICK i \in DOMAIN q : i > 0 /\ q[i] = Frame("close", s)
      BY <1>7 DEF Closing
    <2>2. i > 1
      BY <1>2, <1>7, <2>1
    <2> QED
      BY <1>5, <2>1, <2>2
  <1>8. DOMAIN toAgent'[c] \subseteq Nat
    BY <1>2, <1>3
  <1> QED
    BY <1>2, <1>3, <1>4, <1>6, <1>7, <1>8 DEF F

LEMMA ReadOrders ==
  ASSUME TypeOK, NEW c \in Conn, ShellsOf(c), conn[c].pc = "open", toAgent[c] # <<>>,
         toAgent' = [toAgent EXCEPT ![c] = Tail(toAgent[c])],
         UNCHANGED <<sess, sessions>>
  PROVE  \A i \in DOMAIN toAgent'[c] :
           toAgent'[c][i].type = "open" =>
             Own(c, toAgent[c][i].id)' \/ Closing(c, toAgent[c][i].id, i)'
  <1> SUFFICES ASSUME NEW i \in DOMAIN toAgent'[c], toAgent'[c][i].type = "open"
               PROVE  Own(c, toAgent[c][i].id)' \/ Closing(c, toAgent[c][i].id, i)'
    OBVIOUS
  <1> DEFINE F == [type : {"open", "close"}, id : Session]
  <1>1. /\ i \in Nat /\ i + 1 \in DOMAIN toAgent[c] /\ toAgent'[c][i] = toAgent[c][i + 1]
        /\ \A r \in Session : \A n \in Nat : Closing(c, r, n + 1) => Closing(c, r, n)'
    BY ReadFrame
  <1>2. toAgent[c] \in Seq(F)
    BY DEF TypeOK
  <1>3. toAgent[c][i + 1] \in F
    <2> HIDE DEF F
    <2> QED
      BY <1>1, <1>2
  <1>4. toAgent[c][i + 1].id \in Session
    BY <1>3
  <1>5. Own(c, toAgent[c][i + 1].id) \/ Closing(c, toAgent[c][i + 1].id, i + 1)
    BY <1>1 DEF ShellsOf
  <1>6. ASSUME NEW r \in Session, r = toAgent[c][i + 1].id
        PROVE  Own(c, r)' \/ Closing(c, r, i)'
    BY <1>1, <1>5, <1>6 DEF Own
  <1> QED
    BY <1>1, <1>4, <1>6

\* An order to open that is read either becomes a shell or is refused; the
\* order to close that follows it, if any, is still to come.
LEMMA AgentOpensInv ==
  ASSUME IInv, NEW c \in Conn, AgentOpens(c)
  PROVE  IInv'
  <1> DEFINE h == Head(toAgent[c])
  <1>1. /\ toAgent[c] # <<>> /\ h.type = "open"
        /\ toAgent' = [toAgent EXCEPT ![c] = Tail(toAgent[c])]
        /\ UNCHANGED <<tokens, evictions, conn, reg, up, sessionVars, faults>>
    BY DEF AgentOpens
  <1>2. /\ toAgent' \in [Conn -> Seq([type : {"open", "close"}, id : Session])]
        /\ h = toAgent[c][1] /\ h \in [type : {"open", "close"}, id : Session]
        /\ \A e \in Conn : e # c => toAgent'[e] = toAgent[e]
        /\ DOMAIN toAgent'[c] \subseteq Nat
        /\ \A i \in DOMAIN toAgent'[c] :
             i + 1 \in DOMAIN toAgent[c] /\ toAgent'[c][i] = toAgent[c][i + 1]
        /\ \A r \in Session : \A n \in Nat :
             Closing(c, r, n + 1) => Closing(c, r, n)'
        /\ \A r \in Session :
             h # Frame("close", r) /\ Closing(c, r, 0) => Closing(c, r, 0)'
    BY <1>1, ReadFrame DEF IInv
  <1>3. \A r \in Session : h # Frame("close", r)
    <2>1. \A r \in Session : Frame("close", r).type = "close"
      BY DEF Frame
    <2> QED
      BY <1>1, <2>1
  <1> PICK s \in Session : s = h.id
    BY <1>2
  <1>4. 1 \in DOMAIN toAgent[c]
    <2>1. toAgent[c] \in Seq([type : {"open", "close"}, id : Session])
      BY DEF IInv, TypeOK
    <2> QED
      BY <1>1, <2>1
  <1>5. \/ /\ pty' = [pty EXCEPT ![c] = pty[c] \cup {s}]
           /\ toServer' = [toServer EXCEPT ![c] = Append(toServer[c], Frame("opened", s))]
        \/ /\ toServer' = [toServer EXCEPT ![c] = Append(toServer[c], Frame("error", s))]
           /\ UNCHANGED pty
    BY DEF AgentOpens
  <1> HIDE DEF h
  <1>6. PICK f \in ServerFrame : toServer' = [toServer EXCEPT ![c] = Append(toServer[c], f)]
    <2>1. Frame("opened", s) \in ServerFrame /\ Frame("error", s) \in ServerFrame
      BY DEF Frame, ServerFrame
    <2> QED
      BY <1>5, <2>1
  <1>7. /\ toServer' \in [Conn -> Seq([type : {"hello", "opened", "error", "exit"},
                                       id : Session \cup {None}])]
        /\ \A e \in Conn : toServer'[e] \in Seq(ServerFrame)
    <2>1. toServer[c] \in Seq(ServerFrame)
      BY DEF IInv, Refs
    <2> HIDE DEF ServerFrame
    <2>2. Append(toServer[c], f) \in Seq(ServerFrame)
      BY <2>1
    <2> QED
      BY <1>6, <2>2, ServerFrames DEF IInv, TypeOK, Refs
  <1>8. /\ pty' \in [Conn -> SUBSET Session]
        /\ \A e \in Conn : e # c => pty'[e] = pty[e]
        /\ pty'[c] \subseteq pty[c] \cup {s}
    <2>1. pty \in [Conn -> SUBSET Session] /\ pty[c] \cup {s} \in SUBSET Session
      BY DEF IInv, TypeOK
    <2>2. pty' = pty \/ pty' = [pty EXCEPT ![c] = pty[c] \cup {s}]
      BY <1>5
    <2> QED
      BY <2>1, <2>2
  <1>9. TypeOK'
    BY <1>1, <1>2, <1>7, <1>8 DEF IInv, TypeOK, sessionVars
  <1>10. Refs'
    BY <1>1, <1>7 DEF IInv, Refs, sessionVars
  <1>11. Fresh'
    BY <1>1, <1>2, <1>8 DEF IInv, Fresh
  <1>12. \A e \in Conn : \A r : Own(e, r) => Own(e, r)'
    BY <1>1 DEF Own, sessionVars
  <1>13. ASSUME conn[c].pc = "open" PROVE ShellsOf(c)'
    <2>1. /\ \A r \in pty[c] : Own(c, r) \/ Closing(c, r, 0)
          /\ \A i \in DOMAIN toAgent[c] :
               toAgent[c][i].type = "open" =>
                 Own(c, toAgent[c][i].id) \/ Closing(c, toAgent[c][i].id, i)
      BY <1>13 DEF IInv, Shells, ShellsOf
    <2>2. Own(c, s) \/ Closing(c, s, 1)
      BY <1>1, <1>2, <1>4, <2>1 DEF h
    <2>3. Own(c, s)' \/ Closing(c, s, 0)'
      <3>1. 0 \in Nat /\ 0 + 1 = 1
        OBVIOUS
      <3>2. Closing(c, s, 0 + 1) => Closing(c, s, 0)'
        BY <1>2, <3>1
      <3> QED
        BY <1>12, <2>2, <3>1, <3>2
    <2>4. ASSUME NEW r \in pty'[c] PROVE Own(c, r)' \/ Closing(c, r, 0)'
      <3>1. r \in Session
        BY <1>8
      <3>2. CASE r = s
        BY <2>3, <3>2
      <3>3. CASE r \in pty[c]
        BY <1>2, <1>3, <1>12, <2>1, <3>1, <3>3
      <3> QED
        BY <1>8, <3>2, <3>3
    <2>5. \A i \in DOMAIN toAgent'[c] :
            toAgent'[c][i].type = "open" =>
              Own(c, toAgent[c][i].id)' \/ Closing(c, toAgent[c][i].id, i)'
      BY <1>1, <1>13, ReadOrders DEF IInv, Shells, sessionVars
    <2> QED
      BY <2>4, <2>5 DEF ShellsOf
  <1>14. Shells'
    <2> SUFFICES ASSUME NEW e \in Conn PROVE ShellsOf(e)'
      BY DEF Shells
    <2>1. CASE e = c
      BY <1>1, <1>13, <2>1 DEF ShellsOf
    <2>2. CASE e # c
      BY <1>1, <1>2, <1>8, <1>12, <2>2, ShellsKept DEF IInv
    <2> QED
      BY <2>1, <2>2
  <1> QED
    BY <1>1, <1>9, <1>10, <1>11, <1>14, FramesStep DEF sessionVars

LEMMA AgentClosesInv ==
  ASSUME IInv, NEW c \in Conn, AgentCloses(c)
  PROVE  IInv'
  <1> DEFINE h == Head(toAgent[c])
  <1>1. /\ toAgent[c] # <<>> /\ h.type = "close"
        /\ toAgent' = [toAgent EXCEPT ![c] = Tail(toAgent[c])]
        /\ pty' = [pty EXCEPT ![c] = pty[c] \ {h.id}]
        /\ UNCHANGED <<tokens, evictions, conn, reg, up, toServer, sessionVars, faults>>
    BY DEF AgentCloses
  <1>2. /\ toAgent' \in [Conn -> Seq([type : {"open", "close"}, id : Session])]
        /\ \A e \in Conn : e # c => toAgent'[e] = toAgent[e]
        /\ \A r \in Session :
             h # Frame("close", r) /\ Closing(c, r, 0) => Closing(c, r, 0)'
    BY <1>1, ReadFrame DEF IInv
  <1>3. \A r : r # h.id => h # Frame("close", r)
    <2>1. \A r : Frame("close", r).id = r
      BY DEF Frame
    <2> QED
      BY <2>1
  <1> PICK s : s = h.id
    OBVIOUS
  <1> HIDE DEF h
  <1>4. /\ pty' \in [Conn -> SUBSET Session]
        /\ \A e \in Conn : e # c => pty'[e] = pty[e]
        /\ pty'[c] = pty[c] \ {s}
    BY <1>1 DEF IInv, TypeOK
  <1>5. TypeOK'
    BY <1>1, <1>2, <1>4 DEF IInv, TypeOK, sessionVars
  <1>6. Refs' /\ Fresh'
    BY <1>1, <1>2, <1>4 DEF IInv, Refs, Fresh, sessionVars
  <1>7. \A e \in Conn : \A r : Own(e, r) => Own(e, r)'
    BY <1>1 DEF Own, sessionVars
  <1>8. ASSUME conn[c].pc = "open" PROVE ShellsOf(c)'
    <2>1. \A i \in DOMAIN toAgent'[c] :
            toAgent'[c][i].type = "open" =>
              Own(c, toAgent[c][i].id)' \/ Closing(c, toAgent[c][i].id, i)'
      BY <1>1, <1>8, ReadOrders DEF IInv, Shells, sessionVars
    <2>2. ASSUME NEW r \in pty'[c] PROVE Own(c, r)' \/ Closing(c, r, 0)'
      <3>1. r \in Session /\ r \in pty[c] /\ h # Frame("close", r)
        BY <1>3, <1>4
      <3>2. Own(c, r) \/ Closing(c, r, 0)
        BY <1>8, <3>1 DEF IInv, Shells, ShellsOf
      <3> QED
        BY <1>2, <1>7, <3>1, <3>2
    <2> QED
      BY <2>1, <2>2 DEF ShellsOf
  <1>9. Shells'
    <2> SUFFICES ASSUME NEW e \in Conn PROVE ShellsOf(e)'
      BY DEF Shells
    <2>1. CASE e = c
      BY <1>1, <1>8, <2>1 DEF ShellsOf
    <2>2. CASE e # c
      BY <1>1, <1>2, <1>4, <1>7, <2>2, ShellsKept DEF IInv
    <2> QED
      BY <2>1, <2>2
  <1> QED
    BY <1>1, <1>5, <1>6, <1>9, FramesStep DEF sessionVars

LEMMA PtyExitsInv ==
  ASSUME IInv, NEW c \in Conn, NEW s \in Session, PtyExits(c, s)
  PROVE  IInv'
  <1>1. /\ pty' = [pty EXCEPT ![c] = pty[c] \ {s}]
        /\ toServer' = [toServer EXCEPT ![c] = Append(toServer[c], Frame("exit", s))]
        /\ UNCHANGED <<tokens, evictions, conn, reg, up, toAgent, sessionVars, faults>>
    BY DEF PtyExits
  <1>2. /\ toServer' \in [Conn -> Seq([type : {"hello", "opened", "error", "exit"},
                                       id : Session \cup {None}])]
        /\ \A e \in Conn : toServer'[e] \in Seq(ServerFrame)
    <2>1. toServer[c] \in Seq(ServerFrame) /\ Frame("exit", s) \in ServerFrame
      BY DEF IInv, Refs, Frame, ServerFrame
    <2> HIDE DEF ServerFrame
    <2>2. Append(toServer[c], Frame("exit", s)) \in Seq(ServerFrame)
      BY <2>1
    <2> QED
      BY <1>1, <2>2, ServerFrames DEF IInv, TypeOK, Refs
  <1>3. pty' \in [Conn -> SUBSET Session] /\ \A e \in Conn : pty'[e] \subseteq pty[e]
    BY <1>1 DEF IInv, TypeOK
  <1>4. TypeOK'
    BY <1>1, <1>2, <1>3 DEF IInv, TypeOK, sessionVars
  <1>5. Refs'
    BY <1>1, <1>2 DEF IInv, Refs, sessionVars
  <1> QED
    BY <1>1, <1>3, <1>4, <1>5, NoSessionStep DEF sessionVars

-----------------------------------------------------------------------------
\* The routes of the consoles.

\* A request that is not a session yet moves on.
LEMMA RequestStep ==
  ASSUME IInv, NEW s \in Session, sess[s].pc # "live", NEW r \in SessionState,
         sess' = [sess EXCEPT ![s] = r],
         r.pc \in {"granted", "takeover", "insert", "live"} => r.device \in Device,
         r.pc \in {"takeover", "insert", "live"} => r.conn \in Conn,
         tab' \subseteq Session, faults' \in 0..MaxFaults,
         UNCHANGED <<tokens, evictions, conn, reg, agentVars, toAgent, toServer, sessions,
                     byDevice, ending>>,
         \/ UNCHANGED <<row, unended>>
         \/ row' = [row EXCEPT ![s] = "open"] /\ unended' = unended \cup {s}
  PROVE  IInv'
  <1>1. s \notin sessions
    BY DEF IInv, Refs
  <1>2. sess' \in [Session -> SessionState] /\ \A o \in Session : sess'[o] = IF o = s THEN r ELSE sess[o]
    BY DEF IInv, TypeOK
  <1>3. /\ row' \in [Session -> {"none", "open", "ended"}] /\ unended' \subseteq Session
        /\ unended \subseteq unended'
        /\ \A o \in Session : row'[o] = "open" => row[o] = "open" \/ o \in unended'
    BY DEF IInv, TypeOK
  <1>4. TypeOK'
    BY <1>2, <1>3 DEF IInv, TypeOK, agentVars
  <1>5. Refs'
    BY <1>1, <1>2 DEF IInv, Refs
  <1> QED
    BY <1>1, <1>2, <1>3, <1>4, <1>5, NoSessionStep DEF agentVars

LEMMA GrantInv ==
  ASSUME IInv, NEW s \in Session, NEW d \in Device, NEW takeover \in BOOLEAN,
         Grant(s, d, takeover)
  PROVE  IInv'
  <1> DEFINE r == [pc |-> "granted", device |-> d, conn |-> None,
                   over |-> IF takeover THEN byDevice[d] ELSE None]
  <1>1. /\ sess[s].pc = "free" /\ sess' = [sess EXCEPT ![s] = r]
        /\ UNCHANGED <<tokens, evictions, conn, reg, agentVars, toAgent, toServer,
                       sessions, byDevice, tab, ending, row, faults, unended>>
    BY DEF Grant
  <1>2. r \in SessionState /\ r.pc = "granted" /\ r.device = d
    BY DEF SessionState, IInv, TypeOK
  <1> HIDE DEF r
  <1> QED
    BY <1>1, <1>2, RequestStep DEF IInv, TypeOK

\* The steps that end a request or take it past its first await.
LEMMA RequestEndsInv ==
  ASSUME IInv, NEW s \in Session, GrantExpires(s) \/ AfterTakeover(s) \/ InsertFails(s)
  PROVE  IInv'
  <1>1. PICK p \in {"over", "insert"} :
          /\ sess' = [sess EXCEPT ![s] = [sess[s] EXCEPT !.pc = p]]
          /\ p = "insert" => sess[s].pc = "takeover"
    <2>1. CASE GrantExpires(s)
      BY <2>1 DEF GrantExpires
    <2>2. CASE AfterTakeover(s)
      BY <2>2 DEF AfterTakeover, AfterCheck
    <2>3. CASE InsertFails(s)
      BY <2>3 DEF InsertFails
    <2> QED
      BY <2>1, <2>2, <2>3
  <1>2. /\ sess[s].pc \in {"granted", "takeover", "insert"} /\ tab' \subseteq tab
        /\ UNCHANGED <<tokens, evictions, conn, reg, agentVars, toAgent, toServer,
                       sessions, byDevice, ending>>
        /\ \/ UNCHANGED <<row, unended>>
           \/ row' = [row EXCEPT ![s] = "open"] /\ unended' = unended \cup {s}
    BY DEF GrantExpires, AfterTakeover, InsertFails
  <1>3. faults' \in 0..MaxFaults
    BY ConsolesAssumption DEF GrantExpires, AfterTakeover, InsertFails, Fault, IInv, TypeOK
  <1> DEFINE r == [sess[s] EXCEPT !.pc = p]
  <1>4. sess[s] \in SessionState
    BY DEF IInv, TypeOK
  <1>5. r \in SessionState /\ r.pc = p /\ r.device = sess[s].device /\ r.conn = sess[s].conn
    BY <1>4 DEF SessionState
  <1>6. p = "insert" => r.device \in Device /\ r.conn \in Conn
    BY <1>1, <1>5 DEF IInv, Refs
  <1> HIDE DEF r
  <1>7. tab' \subseteq Session
    BY <1>2 DEF IInv, TypeOK
  <1>8. sess' = [sess EXCEPT ![s] = r]
    BY <1>1 DEF r
  <1> QED
    BY <1>2, <1>3, <1>5, <1>6, <1>7, <1>8, RequestStep

\* A takeover closes the session it was granted to replace.
LEMMA ConnectInv ==
  ASSUME IInv, NEW s \in Session, Connect(s)
  PROVE  IInv'
  <1> DEFINE d == sess[s].device
             o == sess[s].over
  <1>1. /\ sess[s].pc = "granted" /\ sess[s] \in SessionState /\ d \in Device
        /\ UNCHANGED <<tokens, evictions, conn, reg, agentVars, toServer, row, faults, unended>>
    BY DEF Connect, IInv, TypeOK, Refs
  <1>2. s \notin sessions
    BY <1>1 DEF IInv, Refs
  <1>3. ASSUME Reachable(d) PROVE reg[d] \in Conn
    BY <1>1, <1>3 DEF Reachable, IInv, TypeOK
  <1>0. faults' \in 0..MaxFaults /\ tab \subseteq Session
    BY <1>1 DEF IInv, TypeOK
  <1>4. CASE /\ sess' = [sess EXCEPT ![s].pc = "over"]
             /\ UNCHANGED <<toAgent, sessions, byDevice, tab, ending>>
    <2> DEFINE r == [sess[s] EXCEPT !.pc = "over"]
    <2>1. r \in SessionState /\ r.pc = "over" /\ sess' = [sess EXCEPT ![s] = r]
      BY <1>1, <1>4 DEF SessionState
    <2> HIDE DEF r
    <2> QED
      BY <1>0, <1>1, <1>4, <2>1, RequestStep
  <1>5. CASE /\ Reachable(d) /\ o \notin sessions
             /\ sess' = [sess EXCEPT ![s].pc = AfterCheck(d), ![s].conn = reg[d]]
             /\ tab' = IF byDevice[d] = None THEN tab \cup {s} ELSE tab
             /\ UNCHANGED <<toAgent, sessions, byDevice, ending>>
    <2> DEFINE r == [sess[s] EXCEPT !.pc = AfterCheck(d), !.conn = reg[d]]
    <2>1. AfterCheck(d) \in {"insert", "over"}
      BY DEF AfterCheck
    <2>2. /\ r \in SessionState /\ r.pc \in {"insert", "over"} /\ r.device = d /\ r.conn = reg[d]
          /\ sess' = [sess EXCEPT ![s] = r]
      BY <1>1, <1>3, <1>5, <2>1 DEF SessionState
    <2>3. tab' \subseteq Session
      BY <1>5 DEF IInv, TypeOK
    <2> HIDE DEF r, d, o
    <2>4. r.device \in Device /\ r.conn \in Conn
      BY <1>1, <1>3, <1>5, <2>2
    <2>5. UNCHANGED <<tokens, evictions, conn, reg, agentVars, toAgent, toServer, sessions,
                      byDevice, ending, row, unended>>
      BY <1>1, <1>5
    <2> QED
      BY <1>0, <1>1, <2>2, <2>3, <2>4, <2>5, RequestStep
  <1>6. CASE /\ Reachable(d) /\ o \in sessions
             /\ sess' = [sess EXCEPT ![s].pc = "takeover", ![s].conn = reg[d]]
             /\ sessions' = sessions \ {o}
             /\ byDevice' = [e \in Device |-> IF byDevice[e] = o THEN None ELSE byDevice[e]]
             /\ toAgent' = CloseFrames({o})
             /\ tab' = (tab \ {o}) \cup {s}
             /\ ending' = ending \cup {o}
    <2>1. o \in Session /\ {o} \in SUBSET Session /\ Apart({o})
      BY <1>6 DEF Apart, IInv, TypeOK
    <2> DEFINE r == [sess[s] EXCEPT !.pc = "takeover", !.conn = reg[d]]
    <2>2. /\ r \in SessionState /\ r.pc = "takeover" /\ r.device = d /\ r.conn \in Conn
          /\ sess' = [sess EXCEPT ![s] = r]
      BY <1>1, <1>3, <1>6 DEF SessionState
    <2> HIDE DEF r, d, o
    <2>3. sess' \in [Session -> SessionState] /\ \A x \in Session : sess'[x] = IF x = s THEN r ELSE sess[x]
      BY <2>2 DEF IInv, TypeOK
    <2>4. TypeOK'
      BY <1>1, <1>6, <2>1, <2>3, CloseFramesType DEF IInv, TypeOK, agentVars
    <2>5. Refs'
      BY <1>1, <1>2, <1>6, <2>2, <2>3 DEF IInv, Refs
    <2>6. Links'
      BY <1>1 DEF IInv, Links
    <2>7. Fresh'
      BY <1>1, <1>6, <2>1, CloseFresh DEF IInv, agentVars
    <2>8. Holder'
      <3> SUFFICES ASSUME NEW e \in Device, byDevice'[e] # None
                   PROVE  /\ byDevice'[e] \in sessions'
                          /\ sess'[byDevice'[e]].conn = reg'[e]
                          /\ sess'[byDevice'[e]].device = e
        BY DEF Holder
      <3>1. byDevice'[e] = byDevice[e] /\ byDevice[e] # o
        BY <1>6
      <3>2. /\ byDevice[e] \in sessions /\ sess[byDevice[e]].conn = reg[e]
            /\ sess[byDevice[e]].device = e
        BY <3>1 DEF IInv, Holder
      <3> QED
        BY <1>1, <1>2, <1>6, <2>3, <3>1, <3>2 DEF IInv, TypeOK
    <2>9. Shells'
      <3>1. \A x \in sessions \ {o} : x \in sessions' /\ sess'[x].conn = sess[x].conn
        BY <1>2, <1>6, <2>3 DEF IInv, TypeOK
      <3> QED
        BY <1>1, <1>6, <2>1, <3>1, CloseShells DEF IInv, agentVars
    <2>10. OpenRowHasSession'
      BY <1>1, <1>6 DEF IInv, OpenRowHasSession
    <2> QED
      BY <2>4, <2>5, <2>6, <2>7, <2>8, <2>9, <2>10 DEF IInv
  <1> QED
    BY <1>4, <1>5, <1>6 DEF Connect

\* The INSERT has returned: the session lives if the connection read before
\* the awaits is still the device's, and is closed otherwise.
LEMMA InsertedInv ==
  ASSUME IInv, NEW s \in Session, Inserted(s)
  PROVE  IInv'
  <1> PICK d, c : d = sess[s].device /\ c = sess[s].conn
    OBVIOUS
  <1>1. /\ sess[s].pc = "insert" /\ sess[s] \in SessionState /\ d \in Device /\ c \in Conn
        /\ row' = [row EXCEPT ![s] = "open"]
        /\ UNCHANGED <<tokens, evictions, conn, reg, agentVars, toServer, faults, unended>>
    BY DEF Inserted, IInv, TypeOK, Refs
  <1>2. s \notin sessions
    BY <1>1 DEF IInv, Refs
  <1>3. /\ row' \in [Session -> {"none", "open", "ended"}]
        /\ \A x \in Session : x # s => row'[x] = row[x]
    BY <1>1 DEF IInv, TypeOK
  <1>4. Links'
    BY <1>1 DEF IInv, Links
  <1>5. CASE /\ SameAgent(s)
             /\ sess' = [sess EXCEPT ![s].pc = "live"]
             /\ sessions' = sessions \cup {s}
             /\ byDevice' = [byDevice EXCEPT ![d] = s]
             /\ toAgent' = IF conn[c].pc = "open"
                           THEN [toAgent EXCEPT ![c] = Append(toAgent[c], Frame("open", s))]
                           ELSE toAgent
             /\ UNCHANGED <<tab, ending>>
    <2>1. reg[d] = c
      BY <1>5 DEF SameAgent
    <2>2. /\ sess' \in [Session -> SessionState]
          /\ \A x \in Session : /\ sess'[x].conn = sess[x].conn /\ sess'[x].device = sess[x].device
                                /\ x # s => sess'[x] = sess[x]
          /\ sess'[s].pc = "live"
      BY <1>1, <1>5 DEF IInv, TypeOK, SessionState
    <2> DEFINE F == [type : {"open", "close"}, id : Session]
    <2>3. Frame("open", s) \in F /\ Frame("open", s).type = "open" /\ Frame("open", s).id = s
      BY DEF Frame
    <2>4. toAgent \in [Conn -> Seq(F)]
      BY DEF IInv, TypeOK
    <2> HIDE DEF F
    <2>5. /\ toAgent' \in [Conn -> Seq(F)]
          /\ \A e \in Conn : e # c => toAgent'[e] = toAgent[e]
          /\ conn[c].pc = "open" => toAgent'[c] = Append(toAgent[c], Frame("open", s))
          /\ conn[c].pc # "open" => toAgent'[c] = toAgent[c]
      <3>1. Append(toAgent[c], Frame("open", s)) \in Seq(F)
        BY <1>1, <2>3, <2>4
      <3> QED
        BY <1>1, <1>5, <2>4, <3>1
    <2>6. TypeOK'
      BY <1>1, <1>3, <1>5, <2>2, <2>5 DEF IInv, TypeOK, agentVars, F
    <2>7. Refs'
      BY <1>1, <1>5, <2>2 DEF IInv, Refs
    <2>8. Fresh'
      BY <1>1, <2>5 DEF IInv, Fresh, agentVars
    <2>9. Holder'
      <3> SUFFICES ASSUME NEW e \in Device, byDevice'[e] # None
                   PROVE  /\ byDevice'[e] \in sessions'
                          /\ sess'[byDevice'[e]].conn = reg'[e]
                          /\ sess'[byDevice'[e]].device = e
        BY DEF Holder
      <3>1. byDevice'[e] = IF e = d THEN s ELSE byDevice[e]
        BY <1>5 DEF IInv, TypeOK
      <3>2. CASE e = d
        BY <1>1, <1>5, <2>1, <2>2, <3>1, <3>2
      <3>3. CASE e # d
        <4>1. /\ byDevice[e] \in sessions /\ sess[byDevice[e]].conn = reg[e]
              /\ sess[byDevice[e]].device = e
          BY <3>1, <3>3 DEF IInv, Holder
        <4>2. byDevice[e] \in Session
          BY <4>1 DEF IInv, TypeOK
        <4> QED
          BY <1>1, <1>5, <2>2, <3>1, <3>3, <4>1, <4>2
      <3> QED
        BY <3>2, <3>3
    <2>10. \A e \in Conn : \A r \in Session : Own(e, r) => Own(e, r)'
      BY <1>5, <2>2 DEF Own
    <2>11. Own(c, s)'
      BY <1>5, <2>2 DEF Own
    <2>12. ASSUME conn[c].pc = "open" PROVE ShellsOf(c)'
      <3>1. /\ \A r \in pty[c] : Own(c, r) \/ Closing(c, r, 0)
            /\ \A i \in DOMAIN toAgent[c] :
                 toAgent[c][i].type = "open" =>
                   Own(c, toAgent[c][i].id) \/ Closing(c, toAgent[c][i].id, i)
        BY <1>1, <2>12 DEF IInv, Shells, ShellsOf
      <3>2. /\ Len(toAgent[c]) \in Nat /\ DOMAIN toAgent[c] = 1..Len(toAgent[c])
            /\ DOMAIN toAgent'[c] = 1..(Len(toAgent[c]) + 1)
            /\ toAgent'[c][Len(toAgent[c]) + 1] = Frame("open", s)
            /\ \A i \in DOMAIN toAgent[c] : toAgent'[c][i] = toAgent[c][i]
        <4>1. /\ toAgent[c] \in Seq(F) /\ Frame("open", s) \in F
              /\ toAgent'[c] = Append(toAgent[c], Frame("open", s))
          BY <1>1, <2>3, <2>4, <2>5, <2>12
        <4> QED
          BY <4>1, AppendProperties, LenProperties, SMTT(30)
      <3>3. DOMAIN toAgent[c] \subseteq DOMAIN toAgent'[c]
        BY <3>2
      <3>4. \A r, n : Closing(c, r, n) => Closing(c, r, n)'
        BY <3>2, <3>3 DEF Closing
      <3>5. ASSUME NEW r \in pty'[c] PROVE Own(c, r)' \/ Closing(c, r, 0)'
        <4>1. r \in Session /\ r \in pty[c]
          BY <1>1 DEF IInv, TypeOK, agentVars
        <4> QED
          BY <1>1, <2>10, <3>1, <3>4, <4>1
      <3>6. ASSUME NEW i \in DOMAIN toAgent'[c], toAgent'[c][i].type = "open"
            PROVE  Own(c, toAgent[c][i].id)' \/ Closing(c, toAgent[c][i].id, i)'
        <4>1. CASE i = Len(toAgent[c]) + 1
          <5>1. toAgent'[c][i].id = s
            BY <2>3, <3>2, <4>1
          <5> QED
            BY <2>11, <5>1
        <4>2. CASE i \in DOMAIN toAgent[c]
          <5>1. toAgent[c][i] \in F
            BY <1>1, <2>4, <4>2
          <5>2. toAgent[c][i].id \in Session
            BY <5>1 DEF F
          <5>3. ASSUME NEW r \in Session, r = toAgent[c][i].id
                PROVE  Own(c, r)' \/ Closing(c, r, i)'
            BY <1>1, <2>10, <3>1, <3>2, <3>4, <3>6, <4>2, <5>3
          <5> QED
            BY <3>2, <4>2, <5>2, <5>3
        <4> QED
          BY <3>2, <4>1, <4>2
      <3> QED
        BY <3>5, <3>6 DEF ShellsOf
    <2>13. Shells'
      <3> SUFFICES ASSUME NEW e \in Conn PROVE ShellsOf(e)'
        BY DEF Shells
      <3>1. CASE e = c
        BY <1>1, <2>12, <3>1 DEF ShellsOf
      <3>2. CASE e # c
        BY <1>1, <2>5, <2>10, <3>2, ShellsKept DEF IInv, agentVars
      <3> QED
        BY <3>1, <3>2
    <2>14. OpenRowHasSession'
      BY <1>1, <1>3, <1>5 DEF IInv, OpenRowHasSession
    <2> QED
      BY <1>4, <2>6, <2>7, <2>8, <2>9, <2>13, <2>14 DEF IInv
  <1>6. CASE /\ sess' = [sess EXCEPT ![s].pc = "over"]
             /\ byDevice' = [byDevice EXCEPT ![d] = None]
             /\ tab' = tab \ {s}
             /\ ending' = ending \cup {s}
             /\ toAgent' = CloseFrames({s})
             /\ UNCHANGED sessions
    <2>1. {s} \in SUBSET Session /\ Apart({s})
      BY DEF Apart
    <2>2. /\ sess' \in [Session -> SessionState]
          /\ \A x \in Session : x # s => sess'[x] = sess[x]
          /\ sess'[s].pc = "over" /\ sess'[s].device = d
      BY <1>1, <1>6 DEF IInv, TypeOK, SessionState
    <2>3. TypeOK'
      BY <1>1, <1>3, <1>6, <2>1, <2>2, CloseFramesType DEF IInv, TypeOK, agentVars
    <2>4. Refs'
      BY <1>1, <1>2, <1>6, <2>2 DEF IInv, Refs
    <2>5. Fresh'
      BY <1>1, <1>6, <2>1, CloseFresh DEF IInv, agentVars
    <2>6. Holder'
      <3> SUFFICES ASSUME NEW e \in Device, byDevice'[e] # None
                   PROVE  /\ byDevice'[e] \in sessions'
                          /\ sess'[byDevice'[e]].conn = reg'[e]
                          /\ sess'[byDevice'[e]].device = e
        BY DEF Holder
      <3>1. byDevice'[e] = byDevice[e]
        BY <1>6 DEF IInv, TypeOK
      <3>2. /\ byDevice[e] \in sessions /\ sess[byDevice[e]].conn = reg[e]
            /\ sess[byDevice[e]].device = e
        BY <3>1 DEF IInv, Holder
      <3>3. byDevice[e] \in Session /\ byDevice[e] # s
        BY <1>2, <3>2 DEF IInv, TypeOK
      <3> QED
        BY <1>1, <1>6, <2>2, <3>1, <3>2, <3>3
    <2>7. Shells'
      <3>1. \A x \in sessions \ {s} : x \in sessions' /\ sess'[x].conn = sess[x].conn
        BY <1>6, <2>2 DEF IInv, TypeOK
      <3> QED
        BY <1>1, <1>6, <2>1, <3>1, CloseShells DEF IInv, agentVars
    <2>8. OpenRowHasSession'
      BY <1>1, <1>3, <1>6 DEF IInv, OpenRowHasSession
    <2> QED
      BY <1>4, <2>3, <2>4, <2>5, <2>6, <2>7, <2>8 DEF IInv
  <1> QED
    BY <1>5, <1>6 DEF Inserted

LEMMA BrowserClosesInv ==
  ASSUME IInv, NEW s \in Session, BrowserCloses(s)
  PROVE  IInv'
  <1>1. UNCHANGED <<tokens, evictions, conn, reg, agentVars, toServer, sess, row, faults,
  unended>>
    BY DEF BrowserCloses
  <1>2. CASE Close({s})
    BY <1>1, <1>2, CloseOneInv DEF IInv, TypeOK, Refs, agentVars
  <1>3. CASE tab' = tab \ {s} /\ UNCHANGED <<toAgent, sessions, byDevice, ending>>
    <2>1. TypeOK' /\ Refs'
      BY <1>1, <1>3 DEF IInv, TypeOK, Refs, agentVars
    <2> QED
      BY <1>1, <1>3, <2>1, NoSessionStep DEF agentVars
  <1> QED
    BY <1>2, <1>3 DEF BrowserCloses

LEMMA EndRowInv ==
  ASSUME IInv, NEW s \in Session, EndRow(s)
  PROVE  IInv'
  <1>1. /\ ending' = ending \ {s}
        /\ UNCHANGED <<tokens, evictions, conn, reg, agentVars, toAgent, toServer, sess,
                       sessions, byDevice, tab>>
        /\ \/ row' = [row EXCEPT ![s] = "ended"] /\ UNCHANGED <<faults, unended>>
           \/ Fault /\ unended' = unended \cup {s} /\ UNCHANGED row
    BY DEF EndRow
  <1>2. TypeOK'
    <2>1. faults' \in 0..MaxFaults
      BY <1>1, ConsolesAssumption DEF Fault, IInv, TypeOK
    <2>2. row' \in [Session -> {"none", "open", "ended"}] /\ unended' \subseteq Session
      BY <1>1 DEF IInv, TypeOK
    <2> QED
      BY <1>1, <2>1, <2>2 DEF IInv, TypeOK, agentVars
  <1>3. Refs' /\ Links' /\ Fresh' /\ Holder'
    BY <1>1 DEF IInv, Refs, Links, Fresh, Holder, agentVars
  <1>4. Shells'
    BY <1>1 DEF IInv, Shells, ShellsOf, Own, Closing, agentVars
  <1>5. OpenRowHasSession'
    <2> SUFFICES ASSUME NEW x \in Session, row'[x] = "open"
                 PROVE  x \in sessions' \cup ending' \cup unended'
      BY DEF OpenRowHasSession
    <2>1. CASE row' = [row EXCEPT ![s] = "ended"] /\ UNCHANGED <<faults, unended>>
      BY <1>1, <2>1 DEF IInv, TypeOK, OpenRowHasSession
    <2>2. CASE unended' = unended \cup {s} /\ UNCHANGED row
      BY <1>1, <2>2 DEF IInv, OpenRowHasSession
    <2> QED
      BY <1>1, <2>1, <2>2
  <1> QED
    BY <1>2, <1>3, <1>4, <1>5 DEF IInv

-----------------------------------------------------------------------------
LEMMA NextInv == IInv /\ [Next]_vars => IInv'
  <1> SUFFICES ASSUME IInv, [Next]_vars PROVE IInv'
    OBVIOUS
  <1>1. CASE ConnectionStep
    BY <1>1, DialInv, TokenStepInv, EvictionsInv, AuthTokenInv, HelloDroppedInv, RegisterInv,
       SocketEndsInv, CloseEventInv, DispatchInv DEF ConnectionStep
  <1>2. CASE AgentStep
    BY <1>2, AgentStopsInv, AgentOpensInv, AgentClosesInv, PtyExitsInv DEF AgentStep
  <1>3. CASE ConsoleStep
    BY <1>3, GrantInv, ConnectInv, RequestEndsInv, InsertedInv, BrowserClosesInv, EndRowInv
    DEF ConsoleStep
  <1>4. CASE UNCHANGED vars
    <2>1. TypeOK' /\ Refs'
      BY <1>4 DEF IInv, TypeOK, Refs, vars
    <2> QED
      BY <1>4, <2>1, NoSessionStep DEF vars
  <1> QED
    BY <1>1, <1>2, <1>3, <1>4 DEF Next

THEOREM Inductive == Spec => []IInv
  BY InitInv, NextInv, PTL DEF Spec

\* Connections, sessions, rows and frames keep their types, whatever arrives
\* after whatever await (agent-ws.js, console-sessions.js).
THEOREM TypeCorrect == Spec => []TypeOK
  <1>1. IInv => TypeOK
    BY DEF IInv
  <1> QED
    BY <1>1, Inductive, PTL

\* The session that occupies a device is tied to its present connection,
\* although both may change during the awaits of the handlers (console.js,
\* currentConn; agent-ws.js, disconnect).
THEOREM HolderIsReachableAlways == Spec => []HolderIsReachable
  <1>1. IInv => HolderIsReachable
    BY DEF IInv, Holder, HolderIsReachable
  <1> QED
    BY <1>1, Inductive, PTL

\* No shell of an open connection is forgotten: it has its session or is
\* about to be closed (console-sessions.js, close; agent.js, no-such-session).
THEOREM ShellHasSessionAlways == Spec => []ShellHasSession
  <1>1. IInv => ShellHasSession
    BY DEF IInv, Shells, ShellsOf, Closing, ShellHasSession
  <1> QED
    BY <1>1, Inductive, PTL

\* A row of remote_sessions stays open only for a session, an UPDATE to come,
\* or one that failed (console-sessions.js, create and close).
THEOREM OpenRowHasSessionAlways == Spec => []OpenRowHasSession
  <1>1. IInv => OpenRowHasSession
    BY DEF IInv
  <1> QED
    BY <1>1, Inductive, PTL
=============================================================================
