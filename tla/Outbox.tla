------------------------------- MODULE Outbox -------------------------------
(***************************************************************************)
(* The outbox of the email bridge: the columns email_sent_at,               *)
(* outbound_attempts and outbound_failed_at of `ticket_messages`, the       *)
(* worker that mails them (email-bridge/lib/outbound-worker.js,             *)
(* lib/non-overlapping.js, core/lib/graph-fetch.js, graph-send.js), and the *)
(* two routes that put a message in the outbox (tickets/routes/tickets.js). *)
(*                                                                         *)
(* A step is one SQL statement or one answer of Microsoft Graph. A message  *)
(* is a number: the order of created_at. The four requests that may make up *)
(* one delivery (createReply, PATCH, send, or sendMail) are one call: only  *)
(* the last of them delivers.                                               *)
(***************************************************************************)
EXTENDS Naturals, FiniteSets

CONSTANTS
    Message,      \* notes in `ticket_messages`, of tickets that came by mail
    NoRecipient,  \* those of a ticket none of whose mails has a sender
    Instance,     \* processes of the API, each with its worker
    Request,      \* slots for the send-by-mail requests in progress
    None,
    Batch,        \* MAX_BATCH
    MaxAttempts,  \* MAX_ATTEMPTS
    MaxRetries,   \* maxRetries after a 429
    MaxFaults     \* bound: crashes, stops, lost answers, failed statements

ASSUME OutboxAssumption ==
    /\ Message \subseteq Nat /\ NoRecipient \subseteq Message
    /\ Batch \in Nat \ {0} /\ MaxAttempts \in Nat \ {0}
    /\ MaxRetries \in Nat /\ MaxFaults \in Nat
    /\ None \notin Message

VARIABLES
    msg,        \* ticket_messages
    state,      \* instances: "up", "stopping" (stopSignal aborted), "down"
    tick,       \* the tick in progress of each instance
    req,        \* send-by-mail requests in progress
    faults,     \* failures so far
    accepted,   \* history: mails Graph accepted of a message, 2 for several
    ambiguous,  \* history: messages accepted by a call that seemed to fail
    reopened,   \* history: messages in the outbox that send-by-mail reset
    lost        \* history: messages left claimed by a crash or a failure

history == <<accepted, ambiguous, reopened, lost>>
vars == <<msg, state, tick, req, faults, history>>

MessageRow ==
    [type : {"internal_note", "comment"},
     sent : BOOLEAN,                \* email_sent_at IS NOT NULL
     attempts : 0..MaxAttempts,     \* outbound_attempts
     failed : BOOLEAN]              \* outbound_failed_at IS NOT NULL

TickState ==
    [pc : {"idle", "pick", "next", "claim", "send", "wait", "release", "fail"},
     batch : SUBSET Message,        \* of pickPending, those left
     before : 0..MaxAttempts,       \* attemptsBefore
     retries : 0..MaxRetries]       \* after a 429

Idle == [pc |-> "idle", batch |-> {}, before |-> 0, retries |-> 0]

TypeOK ==
    /\ msg \in [Message -> MessageRow]
    /\ state \in [Instance -> {"up", "stopping", "down"}]
    /\ tick \in [Instance -> TickState]
    /\ req \in [Request -> Message \cup {None}]
    /\ faults \in 0..MaxFaults
    /\ accepted \in [Message -> 0..2]
    /\ ambiguous \subseteq Message
    /\ reopened \subseteq Message
    /\ lost \subseteq Message

\* The notes of POST /:id/messages, created as already sent. The messages of
\* the other origins (received mails, comments of the portal) are created so
\* too, but as comments: no request puts them in the outbox.
Init ==
    /\ msg = [m \in Message |-> [type |-> "internal_note", sent |-> TRUE,
                                 attempts |-> 0, failed |-> FALSE]]
    /\ state = [i \in Instance |-> "up"]
    /\ tick = [i \in Instance |-> Idle]
    /\ req = [q \in Request |-> None]
    /\ faults = 0
    /\ accepted = [m \in Message |-> 0]
    /\ ambiguous = {}
    /\ reopened = {}
    /\ lost = {}

Fault == faults < MaxFaults /\ faults' = faults + 1

-----------------------------------------------------------------------------
\* The routes (tickets/routes/tickets.js).

\* POST .../send-by-mail: the SELECT of the type.
SendByMailRead(q, m) ==
    /\ req[q] = None /\ msg[m].type = "internal_note"
    /\ req' = [req EXCEPT ![q] = m]
    /\ UNCHANGED <<msg, state, tick, faults, history>>

\* Its UPDATE, of whatever the message has become.
SendByMailUpdate(q) ==
    LET m == req[q] IN
    /\ m # None
    /\ msg' = [msg EXCEPT ![m].type = "comment", ![m].sent = FALSE]
    /\ reopened' = IF msg[m].type = "comment" THEN reopened \cup {m} ELSE reopened
    /\ req' = [req EXCEPT ![q] = None]
    /\ UNCHANGED <<state, tick, faults, accepted, ambiguous, lost>>

\* POST .../retry-send
RetrySend(m) ==
    /\ msg[m].failed
    /\ msg' = [msg EXCEPT ![m].failed = FALSE, ![m].attempts = 0, ![m].sent = FALSE]
    /\ UNCHANGED <<state, tick, req, faults, history>>

-----------------------------------------------------------------------------
\* A tick of the worker.

Pending == {m \in Message : /\ msg[m].type = "comment"
                            /\ ~msg[m].sent /\ ~msg[m].failed}

\* ORDER BY created_at LIMIT MAX_BATCH
Oldest(S) == {m \in S : Cardinality({k \in S : k < m}) < Batch}

\* The message in hand: the batch is worked through in order.
Current(i) == CHOOSE m \in tick[i].batch : \A k \in tick[i].batch : m <= k

\* Mutant: a message that is skipped or settled ends the tick.
EndsTheTick(i) == Idle

\* The tick goes on to the next message of its batch, or is over.
Finished(i) ==
    LET rest == tick[i].batch \ {Current(i)} IN
    IF rest = {} THEN Idle ELSE [Idle EXCEPT !.pc = "next", !.batch = rest]

\* nonOverlapping: no tick starts while one runs.
TickStarts(i) ==
    /\ state[i] = "up" /\ tick[i].pc = "idle"
    /\ tick' = [tick EXCEPT ![i].pc = "pick"]
    /\ UNCHANGED <<msg, state, req, faults, history>>

PickPending(i) ==
    LET S == Oldest(Pending) IN
    /\ tick[i].pc = "pick"
    /\ tick' = [tick EXCEPT ![i] =
                  IF S = {} THEN Idle ELSE [Idle EXCEPT !.pc = "next", !.batch = S]]
    /\ UNCHANGED <<msg, state, req, faults, history>>

\* The next message, unless the API is stopping; a message without a
\* recipient is skipped.
NextMessage(i) ==
    /\ tick[i].pc = "next"
    /\ tick' = [tick EXCEPT ![i] =
                  CASE state[i] = "stopping" -> Idle
                    [] state[i] # "stopping" /\ Current(i) \in NoRecipient -> Finished(i)
                    [] OTHER -> [@ EXCEPT !.pc = "claim"]]
    /\ UNCHANGED <<msg, state, req, faults, history>>

\* Mutant: the claim trusts the selection.
ClaimsAnything(m) == TRUE

Claimable(m) == ~msg[m].sent /\ ~msg[m].failed

\* claimForSend; if the statement fails, which may have been executed, the
\* tick goes on.
ClaimForSend(i) ==
    LET m == Current(i)
        claimed == [msg EXCEPT ![m].sent = TRUE] IN
    /\ tick[i].pc = "claim"
    /\ \/ /\ Claimable(m)
          /\ msg' = claimed
          /\ tick' = [tick EXCEPT ![i].pc = "send", ![i].before = msg[m].attempts]
          /\ UNCHANGED <<faults, lost>>
       \/ /\ ~Claimable(m)
          /\ tick' = [tick EXCEPT ![i] = Finished(i)]
          /\ UNCHANGED <<msg, faults, lost>>
       \/ /\ Fault
          /\ tick' = [tick EXCEPT ![i] = Finished(i)]
          /\ \/ UNCHANGED <<msg, lost>>
             \/ Claimable(m) /\ msg' = claimed /\ lost' = lost \cup {m}
    /\ UNCHANGED <<state, req, accepted, ambiguous, reopened>>

\* Graph accepts the mail; the answer may be lost (timeout, reset).
GraphAccepts(i) ==
    LET m == Current(i) IN
    /\ tick[i].pc = "send"
    /\ accepted' = [accepted EXCEPT ![m] = IF @ = 2 THEN 2 ELSE @ + 1]
    /\ \/ /\ tick' = [tick EXCEPT ![i] = Finished(i)]
          /\ UNCHANGED <<faults, ambiguous>>
       \/ /\ Fault
          /\ ambiguous' = ambiguous \cup {m}
          /\ tick' = [tick EXCEPT ![i].pc = "fail"]
    /\ UNCHANGED <<msg, state, req, reopened, lost>>

\* Graph refuses, or is not reached.
GraphRefuses(i) ==
    /\ tick[i].pc = "send"
    /\ tick' = [tick EXCEPT ![i].pc = "fail"]
    /\ UNCHANGED <<msg, state, req, faults, history>>

\* 429 with an acceptable Retry-After: wait, or give the message back if the
\* API is stopping.
GraphThrottles(i) ==
    /\ tick[i].pc = "send" /\ tick[i].retries < MaxRetries
    /\ tick' = [tick EXCEPT
                  ![i].pc = IF state[i] = "stopping" THEN "release" ELSE "wait",
                  ![i].retries = @ + 1]
    /\ UNCHANGED <<msg, state, req, faults, history>>

\* The wait is over, or cut short by stopSignal.
WaitEnds(i) ==
    /\ tick[i].pc = "wait"
    /\ tick' = [tick EXCEPT ![i].pc = IF state[i] = "stopping" THEN "release" ELSE "send"]
    /\ UNCHANGED <<msg, state, req, faults, history>>

\* Mutant: a message that was not sent keeps its claim.
ReleasedNothing(m) == msg[m]

Released(m) == IF msg[m].failed THEN msg[m] ELSE [msg[m] EXCEPT !.sent = FALSE]

\* Mutant: one attempt too many.
GivesUpLate(n) == n > MaxAttempts

GivesUp(n) == n >= MaxAttempts

Failed(m, before) ==
    [msg[m] EXCEPT !.sent = FALSE, !.attempts = before + 1,
                   !.failed = GivesUp(before + 1)]

\* releaseClaim and markFailure; if the statement fails, the tick goes on and
\* the message stays claimed.
RecordOutcome(i) ==
    LET m == Current(i) IN
    /\ tick[i].pc \in {"release", "fail"}
    /\ \/ /\ msg' = [msg EXCEPT ![m] = IF tick[i].pc = "release" THEN Released(m)
                                       ELSE Failed(m, tick[i].before)]
          /\ UNCHANGED <<faults, lost>>
       \/ Fault /\ lost' = lost \cup {m} /\ UNCHANGED msg
    /\ tick' = [tick EXCEPT ![i] = Finished(i)]
    /\ UNCHANGED <<state, req, accepted, ambiguous, reopened>>

-----------------------------------------------------------------------------
\* The process (lib/shutdown.js, stopMailOutboundWorker).

\* SIGTERM: no new tick; the one in progress is awaited.
Stop(i) ==
    /\ state[i] = "up" /\ Fault
    /\ state' = [state EXCEPT ![i] = "stopping"]
    /\ UNCHANGED <<msg, tick, req, history>>

Stopped(i) ==
    /\ state[i] = "stopping" /\ tick[i].pc = "idle"
    /\ state' = [state EXCEPT ![i] = "down"]
    /\ UNCHANGED <<msg, tick, req, faults, history>>

Start(i) ==
    /\ state[i] = "down"
    /\ state' = [state EXCEPT ![i] = "up"]
    /\ UNCHANGED <<msg, tick, req, faults, history>>

\* The messages an instance has claimed and not settled.
Held(i) == IF tick[i].pc \in {"send", "wait", "release", "fail"} THEN {Current(i)} ELSE {}

\* The messages queued or being sent.
Outgoing == Pending \cup UNION {Held(i) : i \in Instance}

\* A crash, a SIGKILL, or the forced exit 8 s after the SIGTERM.
Crash(i) ==
    /\ state[i] # "down" /\ Fault
    /\ lost' = lost \cup Held(i)
    /\ state' = [state EXCEPT ![i] = "down"]
    /\ tick' = [tick EXCEPT ![i] = Idle]
    /\ UNCHANGED <<msg, req, accepted, ambiguous, reopened>>

-----------------------------------------------------------------------------
RouteStep ==
    \/ \E q \in Request :
         \/ \E m \in Message : SendByMailRead(q, m)
         \/ SendByMailUpdate(q)
    \/ \E m \in Message : RetrySend(m)

TickStep(i) ==
    \/ PickPending(i) \/ NextMessage(i) \/ ClaimForSend(i)
    \/ GraphAccepts(i) \/ GraphRefuses(i) \/ GraphThrottles(i)
    \/ WaitEnds(i) \/ RecordOutcome(i)

ProcessStep(i) == TickStarts(i) \/ Stop(i) \/ Stopped(i) \/ Start(i) \/ Crash(i)

Next == RouteStep \/ \E i \in Instance : TickStep(i) \/ ProcessStep(i)

Spec == Init /\ [][Next]_vars

(***************************************************************************)
(* The timer ticks every 10 s, a tick goes on (every request to Graph has   *)
(* a deadline of 30 s and every wait one too), and a process that ended is  *)
(* started again. Nothing forces an admin to act.                           *)
(***************************************************************************)
Fairness ==
    \A i \in Instance :
      /\ WF_vars(TickStarts(i))
      /\ WF_vars(TickStep(i))
      /\ WF_vars(Stopped(i))
      /\ WF_vars(Start(i))

FairSpec == Spec /\ Fairness

-----------------------------------------------------------------------------
\* Properties.

\* Graph accepts a message once, whatever the number of instances, ticks,
\* stops and crashes, unless an answer was lost or send-by-mail reset a
\* message already in the outbox (outbound-worker.js, claimForSend, 18-27).
SentOnce == \A m \in Message : accepted[m] = 2 => m \in ambiguous \cup reopened

\* A message shown as sent was sent, or is being sent, unless a crash or a
\* failed statement left its claim behind; one shown as failed was not
\* delivered, so that relaunching it is no second mail, with the exceptions
\* of SentOnce (outbound-worker.js, releaseClaim, markFailure; tickets.js,
\* retry-send).
ShownIsTrue ==
    \A m \in Message :
      /\ /\ msg[m].type = "comment" /\ msg[m].sent
         /\ \A i \in Instance : m \notin Held(i)
         => accepted[m] > 0 \/ m \in lost
      /\ msg[m].failed /\ accepted[m] > 0 => m \in ambiguous \cup reopened

\* Every message leaves the outbox, sent or given up, however Graph answers
\* and although one that has no recipient is older, unless send-by-mail
\* resets it meanwhile (outbound-worker.js, flushOutbox, MAX_ATTEMPTS).
LeavesTheOutbox ==
    \A m \in Message \ NoRecipient :
      m \in Outgoing ~> m \notin Outgoing \/ m \in reopened
=============================================================================
