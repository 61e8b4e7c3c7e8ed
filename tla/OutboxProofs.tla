---------------------------- MODULE OutboxProofs ----------------------------
(***************************************************************************)
(* Theorems about Outbox, for any sets of messages, instances and requests  *)
(* and any number of failures: no mail is accepted twice, and what a        *)
(* message shows is true.                                                   *)
(***************************************************************************)
EXTENDS Outbox, WellFoundedInduction, TLAPS

\* The oldest message of a batch.
First(B) == CHOOSE m \in B : \A k \in B : m <= k

Holding == {"send", "wait", "release", "fail"}

\* What a tick t holds.
InHand(t) == IF t.pc \in Holding THEN {First(t.batch)} ELSE {}

\* A message that nothing the code accepts has happened to: no lost answer,
\* no reset in the outbox.
Regular(m) == m \notin ambiguous \cup reopened

\* A tick in progress has a message in hand, and only messages that
\* send-by-mail put in the outbox; those never leave the type "comment".
Batches ==
    \A i \in Instance :
      /\ tick[i].pc \notin {"idle", "pick"} => tick[i].batch # {}
      /\ \A m \in tick[i].batch : msg[m].type = "comment"

\* A note that nobody sent by mail is neither accepted nor failed.
Notes ==
    \A m \in Message :
      msg[m].type = "internal_note" => accepted[m] = 0 /\ ~msg[m].failed

\* Attempts are left to every message that has not failed and to every tick
\* that holds one.
Attempts ==
    /\ \A m \in Message : ~msg[m].failed => msg[m].attempts < MaxAttempts
    /\ \A i \in Instance : tick[i].pc \in Holding => tick[i].before < MaxAttempts

\* The claim is a mutual exclusion: a message in hand is claimed, by one
\* instance, and Graph has not accepted it.
Owned ==
    \A i \in Instance : \A m \in InHand(tick[i]) :
      Regular(m) =>
        /\ accepted[m] = 0 /\ msg[m].sent /\ ~msg[m].failed
        /\ \A j \in Instance : m \in InHand(tick[j]) => i = j

\* The claim of an accepted message stays.
Delivered ==
    \A m \in Message :
      Regular(m) /\ accepted[m] > 0 =>
        accepted[m] = 1 /\ msg[m].sent /\ ~msg[m].failed

\* A failed message is not claimed; a claim without a holder is a delivery or
\* what a failure left.
Shown ==
    \A m \in Message :
      /\ msg[m].failed => ~msg[m].sent
      /\ /\ msg[m].type = "comment" /\ msg[m].sent
         /\ \A i \in Instance : m \notin InHand(tick[i])
         => accepted[m] > 0 \/ m \in lost

IInv ==
    TypeOK /\ Batches /\ Notes /\ Attempts /\ Owned /\ Delivered /\ Shown

-----------------------------------------------------------------------------
\* A batch has an oldest message, since messages are numbers.
LEMMA FirstInBatch ==
  ASSUME NEW B \in SUBSET Message, B # {}
  PROVE  First(B) \in B
  <1> DEFINE R == OpToRel(<, Nat)
  <1>1. B \subseteq Nat
    BY OutboxAssumption
  <1>2. PICK x \in B : \A y \in B : ~(<<y, x>> \in R)
    <2> HIDE DEF R
    <2>1. IsWellFoundedOn(R, Nat)
      BY NatLessThanWellFounded DEF R
    <2> QED
      BY <1>1, <2>1, WFMin
  <1>3. \A y \in B : x <= y
    <2> SUFFICES ASSUME NEW y \in B, y < x PROVE FALSE
      BY <1>1
    <2>1. /\ <<y, x>> \in Nat \X Nat
          /\ <<y, x>>[1] < <<y, x>>[2]
      BY <1>1
    <2>2. <<y, x>> \in R
      BY <2>1 DEF OpToRel
    <2> QED
      BY <1>2, <2>2
  <1> QED
    BY <1>3 DEF First

LEMMA HeldIsInHand == \A i : Held(i) = InHand(tick[i])
  BY DEF Held, InHand, Current, First, Holding

LEMMA CurrentIsFirst == \A i : Current(i) = First(tick[i].batch)
  BY DEF Current, First

\* What is in hand belongs to the batch, so it is a comment.
LEMMA InHandInBatch ==
  ASSUME TypeOK, Batches, NEW i \in Instance
  PROVE  /\ tick[i].batch \subseteq Message
         /\ tick[i].pc \notin {"idle", "pick"} => First(tick[i].batch) \in tick[i].batch
         /\ InHand(tick[i]) \subseteq Message
         /\ \A m \in InHand(tick[i]) : msg[m].type = "comment"
  <1>1. tick[i].batch \subseteq Message
    BY DEF TypeOK, TickState
  <1>2. tick[i].pc \notin {"idle", "pick"} => First(tick[i].batch) \in tick[i].batch
    BY <1>1, FirstInBatch DEF Batches
  <1> QED
    BY <1>1, <1>2 DEF InHand, Holding, Batches

LEMMA FinishedIsFree ==
  ASSUME TypeOK, NEW i \in Instance
  PROVE  /\ Finished(i) \in TickState
         /\ Finished(i).pc \in {"idle", "next"}
         /\ Finished(i).pc = "next" => Finished(i).batch # {}
         /\ Finished(i).batch \subseteq tick[i].batch
         /\ InHand(Finished(i)) = {}
  <1> DEFINE rest == tick[i].batch \ {Current(i)}
  <1>1. tick[i].batch \subseteq Message
    BY DEF TypeOK, TickState
  <1>2. rest \subseteq tick[i].batch
    OBVIOUS
  <1>3. \/ Finished(i) = Idle
        \/ rest # {} /\ Finished(i) = [Idle EXCEPT !.pc = "next", !.batch = rest]
    BY DEF Finished
  <1> HIDE DEF rest
  <1>4. 0 \in 0..MaxAttempts /\ 0 \in 0..MaxRetries
    BY OutboxAssumption
  <1>5. Idle \in TickState /\ Idle.pc = "idle" /\ Idle.batch = {}
    BY <1>4 DEF Idle, TickState
  <1> HIDE DEF Idle
  <1>6. /\ [Idle EXCEPT !.pc = "next", !.batch = rest] \in TickState
        /\ [Idle EXCEPT !.pc = "next", !.batch = rest].pc = "next"
        /\ [Idle EXCEPT !.pc = "next", !.batch = rest].batch = rest
    BY <1>1, <1>2, <1>5 DEF TickState
  <1> QED
    BY <1>2, <1>3, <1>5, <1>6 DEF InHand, Holding

-----------------------------------------------------------------------------
LEMMA InitInv == Init => IInv
  <1> SUFFICES ASSUME Init PROVE IInv
    OBVIOUS
  <1>1. 0 \in 0..MaxAttempts /\ 0 \in 0..MaxRetries /\ 0 \in 0..MaxFaults /\ 0 < MaxAttempts
    BY OutboxAssumption
  <1>2. Idle \in TickState /\ Idle.pc = "idle" /\ Idle.batch = {} /\ InHand(Idle) = {}
    BY <1>1 DEF Idle, TickState, InHand, Holding
  <1> HIDE DEF Idle
  <1>3. TypeOK
    BY <1>1, <1>2 DEF Init, TypeOK, MessageRow
  <1>4. Batches /\ Notes
    BY <1>2 DEF Init, Batches, Notes
  <1>5. Attempts
    BY <1>1, <1>2 DEF Init, Attempts, Holding
  <1>6. Owned /\ Delivered /\ Shown
    BY <1>2 DEF Init, Owned, Delivered, Shown
  <1> QED
    BY <1>3, <1>4, <1>5, <1>6 DEF IInv

\* A step that writes no message and leaves in hand what was keeps the
\* invariant, if it keeps the types and the batches.
LEMMA SameHands ==
  ASSUME IInv, TypeOK', Batches',
         UNCHANGED <<msg, accepted, ambiguous, reopened, lost>>,
         \A j \in Instance : InHand(tick'[j]) = InHand(tick[j]),
         \A j \in Instance : tick'[j].pc \in Holding => tick'[j].before < MaxAttempts
  PROVE  IInv'
  <1>1. Notes' /\ Attempts'
    BY DEF IInv, Notes, Attempts
  <1>2. Owned' /\ Delivered' /\ Shown'
    BY DEF IInv, Owned, Delivered, Shown, Regular
  <1> QED
    BY <1>1, <1>2 DEF IInv

\* The same, of a step of one tick, which becomes t.
LEMMA OneTick ==
  ASSUME IInv, NEW i \in Instance, NEW t \in TickState,
         tick' = [tick EXCEPT ![i] = t],
         UNCHANGED <<msg, state, req, faults, history>>,
         t.pc \notin {"idle", "pick"} => t.batch # {},
         \A m \in t.batch : msg[m].type = "comment",
         InHand(t) = InHand(tick[i]),
         t.pc \in Holding => t.before < MaxAttempts
  PROVE  IInv'
  <1>1. TypeOK'
    BY DEF IInv, TypeOK, history
  <1>2. \A j \in Instance : tick'[j] = IF j = i THEN t ELSE tick[j]
    BY DEF IInv, TypeOK
  <1>3. Batches'
    BY <1>2 DEF IInv, Batches, history
  <1>4. \A j \in Instance : InHand(tick'[j]) = InHand(tick[j])
    BY <1>2
  <1>5. \A j \in Instance : tick'[j].pc \in Holding => tick'[j].before < MaxAttempts
    BY <1>2 DEF IInv, Attempts
  <1> QED
    BY <1>1, <1>3, <1>4, <1>5, SameHands DEF history

LEMMA TickStartsInv ==
  ASSUME IInv, NEW i \in Instance, TickStarts(i)
  PROVE  IInv'
  <1> DEFINE t == [tick[i] EXCEPT !.pc = "pick"]
  <1>1. /\ t \in TickState /\ tick[i].pc = "idle" /\ t.pc = "pick" /\ t.batch = tick[i].batch
    BY DEF IInv, TypeOK, TickState, TickStarts
  <1>2. tick' = [tick EXCEPT ![i] = t] /\ UNCHANGED <<msg, state, req, faults, history>>
    BY DEF TickStarts
  <1>3. \A m \in t.batch : msg[m].type = "comment"
    BY <1>1 DEF IInv, Batches
  <1>4. InHand(t) = InHand(tick[i])
    BY <1>1 DEF InHand, Holding
  <1> HIDE DEF t
  <1> QED
    BY <1>1, <1>2, <1>3, <1>4, OneTick DEF Holding

LEMMA PickPendingInv ==
  ASSUME IInv, NEW i \in Instance, PickPending(i)
  PROVE  IInv'
  <1> DEFINE S == Oldest(Pending)
             t == IF S = {} THEN Idle ELSE [Idle EXCEPT !.pc = "next", !.batch = S]
  <1>1. S \subseteq Message /\ \A m \in S : msg[m].type = "comment"
    BY DEF Oldest, Pending
  <1>2. /\ tick[i].pc = "pick" /\ tick' = [tick EXCEPT ![i] = t]
        /\ UNCHANGED <<msg, state, req, faults, history>>
    BY DEF PickPending
  <1> HIDE DEF S
  <1>3. Idle \in TickState /\ Idle.pc = "idle" /\ Idle.batch = {}
    BY OutboxAssumption DEF Idle, TickState
  <1> HIDE DEF Idle
  <1>4. /\ t \in TickState
        /\ t.pc \in {"idle", "next"} /\ (t.pc = "next" => t.batch # {})
        /\ t.batch \subseteq S
    BY <1>1, <1>3 DEF TickState
  <1> HIDE DEF t
  <1>5. InHand(t) = {} /\ InHand(tick[i]) = {}
    BY <1>2, <1>4 DEF InHand, Holding
  <1> QED
    BY <1>1, <1>2, <1>4, <1>5, OneTick DEF Holding

LEMMA NextMessageInv ==
  ASSUME IInv, NEW i \in Instance, NextMessage(i)
  PROVE  IInv'
  <1> DEFINE t == CASE state[i] = "stopping" -> Idle
                    [] state[i] # "stopping" /\ Current(i) \in NoRecipient -> Finished(i)
                    [] OTHER -> [tick[i] EXCEPT !.pc = "claim"]
  <1>1. /\ tick[i].pc = "next" /\ tick' = [tick EXCEPT ![i] = t]
        /\ UNCHANGED <<msg, state, req, faults, history>>
    BY DEF NextMessage
  <1>2. Idle \in TickState /\ Idle.pc = "idle" /\ Idle.batch = {}
    BY OutboxAssumption DEF Idle, TickState
  <1>3. /\ Finished(i) \in TickState /\ Finished(i).pc \in {"idle", "next"}
        /\ Finished(i).pc = "next" => Finished(i).batch # {}
        /\ Finished(i).batch \subseteq tick[i].batch
    BY FinishedIsFree DEF IInv
  <1>4. tick[i] \in TickState /\ tick[i].batch # {}
    BY <1>1 DEF IInv, TypeOK, Batches
  <1> HIDE DEF Idle
  <1>5. /\ [tick[i] EXCEPT !.pc = "claim"] \in TickState
        /\ [tick[i] EXCEPT !.pc = "claim"].pc = "claim"
        /\ [tick[i] EXCEPT !.pc = "claim"].batch = tick[i].batch
    BY <1>4 DEF TickState
  <1>6. t = Idle \/ t = Finished(i) \/ t = [tick[i] EXCEPT !.pc = "claim"]
    OBVIOUS
  <1> HIDE DEF t
  <1>7. /\ t \in TickState /\ t.pc \in {"idle", "next", "claim"}
        /\ t.pc # "idle" => t.batch # {}
        /\ t.batch \subseteq tick[i].batch
    BY <1>2, <1>3, <1>4, <1>5, <1>6
  <1>8. InHand(t) = {} /\ InHand(tick[i]) = {}
    BY <1>1, <1>7 DEF InHand, Holding
  <1>9. \A m \in t.batch : msg[m].type = "comment"
    BY <1>7 DEF IInv, Batches
  <1> QED
    BY <1>1, <1>7, <1>8, <1>9, OneTick DEF Holding

\* Refused, throttled or woken, a tick keeps its message in hand.
LEMMA SendingInv ==
  ASSUME IInv, NEW i \in Instance, GraphRefuses(i) \/ GraphThrottles(i) \/ WaitEnds(i)
  PROVE  IInv'
  <1>1. /\ tick[i] \in TickState /\ tick[i].pc \in {"send", "wait"}
        /\ UNCHANGED <<msg, state, req, faults, history>>
    BY DEF GraphRefuses, GraphThrottles, WaitEnds, IInv, TypeOK
  <1>2. PICK p \in Holding, r \in 0..MaxRetries :
          tick' = [tick EXCEPT ![i] = [tick[i] EXCEPT !.pc = p, !.retries = r]]
    <2>1. CASE GraphRefuses(i)
      <3>1. tick' = [tick EXCEPT ![i] = [tick[i] EXCEPT !.pc = "fail",
      !.retries = tick[i].retries]]
        BY <1>1, <2>1 DEF GraphRefuses, TickState
      <3> QED
        BY <1>1, <3>1 DEF TickState, Holding
    <2>2. CASE GraphThrottles(i)
      <3> DEFINE p == IF state[i] = "stopping" THEN "release" ELSE "wait"
      <3>1. tick[i].retries \in 0..MaxRetries /\ tick[i].retries < MaxRetries
        BY <1>1, <2>2 DEF GraphThrottles, TickState
      <3>2. tick[i].retries + 1 \in 0..MaxRetries
        BY <3>1, OutboxAssumption
      <3>3. tick' = [tick EXCEPT ![i] = [tick[i] EXCEPT !.pc = p,
      !.retries = tick[i].retries + 1]]
        BY <2>2 DEF GraphThrottles
      <3>4. p \in Holding
        BY DEF Holding
      <3> HIDE DEF p
      <3> QED
        BY <3>2, <3>3, <3>4
    <2>3. CASE WaitEnds(i)
      <3> DEFINE p == IF state[i] = "stopping" THEN "release" ELSE "send"
      <3>1. p \in Holding
        BY DEF Holding
      <3>2. tick' = [tick EXCEPT ![i] = [tick[i] EXCEPT !.pc = p, !.retries = tick[i].retries]]
        BY <1>1, <2>3 DEF WaitEnds, TickState
      <3> HIDE DEF p
      <3> QED
        BY <1>1, <3>1, <3>2 DEF TickState
    <2> QED
      BY <2>1, <2>2, <2>3
  <1> DEFINE t == [tick[i] EXCEPT !.pc = p, !.retries = r]
  <1>3. /\ t \in TickState /\ t.pc = p /\ t.batch = tick[i].batch /\ t.before = tick[i].before
    BY <1>1 DEF TickState, Holding
  <1> HIDE DEF t
  <1>4. tick[i].batch # {} /\ \A m \in t.batch : msg[m].type = "comment"
    BY <1>1, <1>3 DEF IInv, Batches
  <1>5. tick[i].pc \in Holding /\ tick[i].before < MaxAttempts
    BY <1>1 DEF Holding, IInv, Attempts
  <1>6. InHand(t) = InHand(tick[i])
    BY <1>3, <1>5 DEF InHand
  <1> QED
    BY <1>1, <1>2, <1>3, <1>4, <1>5, <1>6, OneTick DEF t

\* A step of the processes or of a request that leaves ticks and messages.
LEMMA IdleStepsInv ==
  ASSUME IInv, 
         \/ \E i \in Instance : Stop(i) \/ Stopped(i) \/ Start(i)
         \/ \E q \in Request, m \in Message : SendByMailRead(q, m)
  PROVE  IInv'
  <1>1. UNCHANGED <<msg, tick, history>>
    BY DEF Stop, Stopped, Start, SendByMailRead
  <1>2. TypeOK'
    <2>1. faults' \in 0..MaxFaults
      BY OutboxAssumption
      DEF IInv, TypeOK, Stop, Stopped, Start, SendByMailRead, Fault
    <2>2. state' \in [Instance -> {"up", "stopping", "down"}]
      BY DEF IInv, TypeOK, Stop, Stopped, Start, SendByMailRead
    <2>3. req' \in [Request -> Message \cup {None}]
      BY DEF IInv, TypeOK, Stop, Stopped, Start, SendByMailRead
    <2> QED
      BY <1>1, <2>1, <2>2, <2>3 DEF IInv, TypeOK, history
  <1>3. Batches'
    BY <1>1 DEF IInv, Batches
  <1>4. \A j \in Instance : tick'[j].pc \in Holding => tick'[j].before < MaxAttempts
    BY <1>1 DEF IInv, Attempts
  <1> QED
    BY <1>1, <1>2, <1>3, <1>4, SameHands DEF history

\* What a tick holds at a crash becomes a claim that nobody settles.
LEMMA CrashInv ==
  ASSUME IInv, NEW i \in Instance, Crash(i)
  PROVE  IInv'
  <1>1. /\ tick' = [tick EXCEPT ![i] = Idle] /\ lost' = lost \cup InHand(tick[i])
        /\ UNCHANGED <<msg, req, accepted, ambiguous, reopened>>
    BY HeldIsInHand DEF Crash
  <1>2. Idle \in TickState /\ Idle.pc = "idle" /\ Idle.batch = {} /\ InHand(Idle) = {}
    BY OutboxAssumption DEF Idle, TickState, InHand, Holding
  <1>3. InHand(tick[i]) \subseteq Message
    BY InHandInBatch DEF IInv
  <1> HIDE DEF Idle
  <1>4. \A j \in Instance : tick'[j] = IF j = i THEN Idle ELSE tick[j]
    BY <1>1 DEF IInv, TypeOK
  <1>5. TypeOK'
    <2>1. faults' \in 0..MaxFaults /\ state' \in [Instance -> {"up", "stopping", "down"}]
      BY OutboxAssumption DEF IInv, TypeOK, Crash, Fault
    <2> QED
      BY <1>1, <1>2, <1>3, <2>1 DEF IInv, TypeOK
  <1>6. Batches' /\ Notes' /\ Attempts'
    BY <1>1, <1>2, <1>4 DEF IInv, Batches, Notes, Attempts, Holding
  <1>7. Owned' /\ Delivered'
    BY <1>1, <1>2, <1>4 DEF IInv, Owned, Delivered, Regular
  <1>8. Shown'
    BY <1>1, <1>2, <1>4 DEF IInv, Shown
  <1> QED
    BY <1>5, <1>6, <1>7, <1>8 DEF IInv

-----------------------------------------------------------------------------
\* The steps that write a message.

\* A relaunched message had failed, so it is in nobody's hands and was not
\* accepted.
LEMMA RetrySendInv ==
  ASSUME IInv, NEW m \in Message, RetrySend(m)
  PROVE  IInv'
  <1>1. /\ msg[m].failed /\ msg \in [Message -> MessageRow]
        /\ msg' = [msg EXCEPT ![m].failed = FALSE, ![m].attempts = 0, ![m].sent = FALSE]
        /\ UNCHANGED <<state, tick, req, faults, history>>
    BY DEF RetrySend, IInv, TypeOK
  <1>2. /\ \A k \in Message \ {m} : msg'[k] = msg[k]
        /\ msg'[m].type = msg[m].type /\ ~msg'[m].failed /\ ~msg'[m].sent
        /\ msg'[m].attempts = 0
        /\ msg' \in [Message -> MessageRow]
    <2>1. 0 \in 0..MaxAttempts
      BY OutboxAssumption
    <2> DEFINE n == [msg[m] EXCEPT !.failed = FALSE, !.attempts = 0, !.sent = FALSE]
    <2>2. /\ n \in MessageRow /\ n.type = msg[m].type /\ ~n.failed /\ ~n.sent
          /\ n.attempts = 0
      BY <1>1, <2>1 DEF MessageRow
    <2>3. msg' = [msg EXCEPT ![m] = n]
      BY <1>1
    <2> HIDE DEF n
    <2> QED
      BY <1>1, <2>2, <2>3, ZenonT(30)
  <1>3. TypeOK'
    BY <1>1, <1>2 DEF IInv, TypeOK, history
  <1>4. Batches' /\ Notes'
    BY <1>1, <1>2 DEF IInv, Batches, Notes, TypeOK, TickState, history
  <1>5. Attempts'
    BY <1>1, <1>2, OutboxAssumption DEF IInv, Attempts
  <1>6. \A i \in Instance : InHand(tick[i]) \subseteq Message
    BY InHandInBatch DEF IInv
  <1>7. Owned' /\ Delivered' /\ Shown'
    BY <1>1, <1>2, <1>6 DEF IInv, Owned, Delivered, Shown, Regular, history
  <1> QED
    BY <1>3, <1>4, <1>5, <1>7 DEF IInv

\* A note is in nobody's hands; a comment that is reset is no longer regular.
LEMMA SendByMailUpdateInv ==
  ASSUME IInv, NEW q \in Request, SendByMailUpdate(q)
  PROVE  IInv'
  <1> DEFINE m == req[q]
  <1>1. /\ m \in Message /\ msg \in [Message -> MessageRow]
        /\ msg' = [msg EXCEPT ![m].type = "comment", ![m].sent = FALSE]
        /\ reopened' = IF msg[m].type = "comment" THEN reopened \cup {m} ELSE reopened
        /\ req' = [req EXCEPT ![q] = None]
        /\ UNCHANGED <<state, tick, faults, accepted, ambiguous, lost>>
    BY DEF SendByMailUpdate, IInv, TypeOK
  <1> HIDE DEF m
  <1>2. /\ \A k \in Message \ {m} : msg'[k] = msg[k]
        /\ msg'[m].type = "comment" /\ ~msg'[m].sent
        /\ msg'[m].attempts = msg[m].attempts /\ msg'[m].failed = msg[m].failed
        /\ msg' \in [Message -> MessageRow]
    BY <1>1 DEF MessageRow
  <1>3. TypeOK'
    BY <1>1, <1>2 DEF IInv, TypeOK
  <1>4. Batches' /\ Notes'
    BY <1>1, <1>2 DEF IInv, Batches, Notes, TypeOK, TickState
  <1>5. Attempts'
    BY <1>1, <1>2 DEF IInv, Attempts
  <1>6. \A i \in Instance : /\ InHand(tick[i]) \subseteq Message
                            /\ \A k \in InHand(tick[i]) : msg[k].type = "comment"
    BY InHandInBatch DEF IInv
  <1>7. msg[m].type \in {"internal_note", "comment"} /\ accepted[m] \in 0..2
    BY <1>1 DEF MessageRow, IInv, TypeOK
  <1>8. Owned' /\ Delivered' /\ Shown'
    <2>1. CASE msg[m].type = "comment"
      BY <1>1, <1>2, <1>6, <2>1 DEF IInv, Owned, Delivered, Shown, Regular
    <2>2. CASE msg[m].type = "internal_note"
      <3>1. accepted[m] = 0 /\ \A i \in Instance : m \notin InHand(tick[i])
        BY <1>1, <1>6, <2>2 DEF IInv, Notes
      <3> QED
        BY <1>1, <1>2, <1>6, <2>2, <3>1 DEF IInv, Owned, Delivered, Shown, Regular
    <2> QED
      BY <1>7, <2>1, <2>2
  <1> QED
    BY <1>3, <1>4, <1>5, <1>8 DEF IInv

\* A claim that fails leaves the tick's hands empty; if it was executed, the
\* message it marks as sent is lost.
LEMMA ClaimFailsInv ==
  ASSUME IInv, NEW i \in Instance, tick[i].pc = "claim", Fault,
         tick' = [tick EXCEPT ![i] = Finished(i)],
         UNCHANGED <<state, req, accepted, ambiguous, reopened>>,
         NEW m \in Message,
         \/ UNCHANGED <<msg, lost>>
         \/ Claimable(m) /\ msg' = [msg EXCEPT ![m].sent = TRUE] /\ lost' = lost \cup {m}
  PROVE  IInv'
  <1> DEFINE t == Finished(i)
  <1>1. /\ t \in TickState /\ t.pc \in {"idle", "next"} /\ InHand(t) = {}
        /\ t.pc = "next" => t.batch # {}
        /\ t.batch \subseteq tick[i].batch
    BY FinishedIsFree DEF IInv
  <1> HIDE DEF t
  <1>2. tick' = [tick EXCEPT ![i] = t]
    BY DEF t
  <1>3. \A j \in Instance : tick'[j] = IF j = i THEN t ELSE tick[j]
    BY <1>2 DEF IInv, TypeOK
  <1>4. \A j \in Instance : InHand(tick'[j]) = InHand(tick[j])
    BY <1>1, <1>3 DEF InHand, Holding
  <1>5. \A k \in Message : /\ msg'[k].type = msg[k].type /\ msg'[k].failed = msg[k].failed
                           /\ msg'[k].attempts = msg[k].attempts
                           /\ msg[k].sent => msg'[k].sent
                           /\ msg'[k].sent = msg[k].sent \/ (k \in lost' /\ ~msg[k].failed)
    BY DEF Claimable, IInv, TypeOK, MessageRow
  <1>6. msg' \in [Message -> MessageRow] /\ lost \subseteq lost' /\ lost' \subseteq Message
    <2>1. msg \in [Message -> MessageRow] /\ lost \subseteq Message
      BY DEF IInv, TypeOK
    <2>2. [msg[m] EXCEPT !.sent = TRUE] \in MessageRow
      BY <2>1 DEF MessageRow
    <2> QED
      BY <2>1, <2>2
  <1>7. TypeOK'
    <2>1. faults' \in 0..MaxFaults
      BY OutboxAssumption DEF IInv, TypeOK, Fault
    <2> QED
      BY <1>1, <1>2, <1>6, <2>1 DEF IInv, TypeOK
  <1>8. \A j \in Instance : InHand(tick[j]) \subseteq Message /\ tick[j].batch \subseteq Message
    BY InHandInBatch DEF IInv
  <1>9. Batches' /\ Notes'
    BY <1>1, <1>3, <1>5, <1>8 DEF IInv, Batches, Notes
  <1>10. Attempts'
    BY <1>1, <1>3, <1>5 DEF IInv, Attempts, Holding
  <1>11. Owned'
    BY <1>4, <1>5, <1>8 DEF IInv, Owned, Regular
  <1>12. Delivered'
    BY <1>5 DEF IInv, Delivered, Regular
  <1>13. Shown'
    BY <1>4, <1>5, <1>6 DEF IInv, Shown
  <1> QED
    BY <1>7, <1>9, <1>10, <1>11, <1>12, <1>13 DEF IInv

\* A claimable message is in nobody's hands and was not accepted, unless it is
\* irregular.
LEMMA ClaimForSendInv ==
  ASSUME IInv, NEW i \in Instance, ClaimForSend(i)
  PROVE  IInv'
  <1> DEFINE m == Current(i)
  <1>1. /\ tick[i].pc = "claim" /\ tick[i] \in TickState
        /\ UNCHANGED <<state, req, accepted, ambiguous, reopened>>
        /\ m = First(tick[i].batch) /\ m \in tick[i].batch /\ m \in Message
    BY InHandInBatch, CurrentIsFirst DEF ClaimForSend, IInv, TypeOK
  <1>2. InHand(tick[i]) = {}
    BY <1>1 DEF InHand, Holding
  <1>3. CASE /\ ~Claimable(m) /\ tick' = [tick EXCEPT ![i] = Finished(i)]
             /\ UNCHANGED <<msg, faults, lost>>
    <2> DEFINE t == Finished(i)
    <2>1. tick' = [tick EXCEPT ![i] = t] /\ UNCHANGED <<msg, faults, history>>
      BY <1>1, <1>3 DEF history
    <2>2. /\ t \in TickState /\ t.pc \in {"idle", "next"} /\ InHand(t) = {}
          /\ t.pc = "next" => t.batch # {}
          /\ t.batch \subseteq tick[i].batch
      BY FinishedIsFree DEF IInv
    <2> HIDE DEF t
    <2>3. \A k \in t.batch : msg[k].type = "comment"
      BY <2>2 DEF IInv, Batches
    <2> QED
      BY <1>1, <1>2, <2>1, <2>2, <2>3, OneTick DEF Holding
  <1>4. CASE /\ Claimable(m) /\ msg' = [msg EXCEPT ![m].sent = TRUE]
             /\ tick' = [tick EXCEPT ![i].pc = "send", ![i].before = msg[m].attempts]
             /\ UNCHANGED <<faults, lost>>
    <2> DEFINE t == [tick[i] EXCEPT !.pc = "send", !.before = msg[m].attempts]
    <2>0. UNCHANGED <<faults, lost>>
      BY <1>4
    <2>1. /\ msg \in [Message -> MessageRow]
          /\ msg' = [msg EXCEPT ![m].sent = TRUE]
          /\ tick' = [tick EXCEPT ![i] = [tick[i] EXCEPT !.pc = "send",
                                                  !.before = msg[m].attempts]]
      BY <1>4 DEF IInv, TypeOK
    <2> HIDE DEF m
    <2>2. msg[m].attempts \in 0..MaxAttempts /\ msg[m].attempts < MaxAttempts
      BY <1>1, <1>4, <2>1 DEF Claimable, MessageRow, IInv, Attempts
    <2>3. /\ t \in TickState /\ t.pc = "send" /\ t.batch = tick[i].batch
          /\ t.before = msg[m].attempts
      BY <1>1, <2>2 DEF TickState
    <2>4. tick' = [tick EXCEPT ![i] = t]
      BY <2>1
    <2> HIDE DEF t
    <2>5. /\ \A k \in Message \ {m} : msg'[k] = msg[k]
          /\ msg'[m].type = msg[m].type /\ msg'[m].sent
          /\ msg'[m].attempts = msg[m].attempts /\ msg'[m].failed = msg[m].failed
          /\ msg' \in [Message -> MessageRow]
      BY <1>1, <2>1 DEF MessageRow
    <2>6. \A j \in Instance : tick'[j] = IF j = i THEN t ELSE tick[j]
      BY <2>4 DEF IInv, TypeOK
    <2>7. InHand(t) = {m}
      BY <1>1, <2>3 DEF InHand, Holding
    <2>8. TypeOK'
      BY <1>1, <2>0, <2>3, <2>4, <2>5 DEF IInv, TypeOK
    <2>9. Batches' /\ Notes'
      <3>1. \A k \in Message : msg'[k].type = msg[k].type /\ msg'[k].failed = msg[k].failed
        BY <2>5
      <3>2. \A j \in Instance : tick[j].batch \subseteq Message
        BY InHandInBatch DEF IInv
      <3>3. Batches'
        BY <1>1, <2>3, <2>6, <3>1, <3>2 DEF IInv, Batches
      <3>4. Notes'
        BY <1>1, <3>1 DEF IInv, Notes
      <3> QED
        BY <3>3, <3>4
    <2>10. Attempts'
      BY <1>1, <2>2, <2>3, <2>5, <2>6 DEF IInv, Attempts
    <2>11. \A j \in Instance : InHand(tick[j]) \subseteq Message
      BY InHandInBatch DEF IInv
    <2>12. ~msg[m].sent /\ ~msg[m].failed /\ accepted[m] \in 0..2
      BY <1>1, <1>4 DEF Claimable, IInv, TypeOK
    <2>13. Regular(m) => accepted[m] = 0 /\ \A j \in Instance : m \notin InHand(tick[j])
      BY <1>1, <2>12 DEF IInv, Owned, Delivered
    <2>14. Owned'
      BY <1>1, <2>5, <2>6, <2>7, <2>11, <2>12, <2>13 DEF IInv, Owned, Regular
    <2>15. Delivered' /\ Shown'
      BY <1>1, <1>2, <2>0, <2>5, <2>6, <2>7, <2>11, <2>12, <2>13
      DEF IInv, Delivered, Shown, Regular
    <2> QED
      BY <2>8, <2>9, <2>10, <2>14, <2>15 DEF IInv
  <1>5. CASE /\ Fault /\ tick' = [tick EXCEPT ![i] = Finished(i)]
             /\ \/ UNCHANGED <<msg, lost>>
                \/ /\ Claimable(m) /\ msg' = [msg EXCEPT ![m].sent = TRUE]
                   /\ lost' = lost \cup {m}
    BY <1>1, <1>5, ClaimFailsInv
  <1> QED
    BY <1>3, <1>4, <1>5 DEF ClaimForSend

\* An accepted mail was in one tick's hands and not accepted yet, unless its
\* message is irregular.
LEMMA GraphAcceptsInv ==
  ASSUME IInv, NEW i \in Instance, GraphAccepts(i)
  PROVE  IInv'
  <1> DEFINE m == Current(i)
             a == IF accepted[m] = 2 THEN 2 ELSE accepted[m] + 1
  <1>1. /\ tick[i].pc = "send" /\ tick[i] \in TickState
        /\ UNCHANGED <<msg, state, req, reopened, lost>>
        /\ m = First(tick[i].batch) /\ m \in tick[i].batch /\ m \in Message
        /\ accepted' = [accepted EXCEPT ![m] = a]
    BY InHandInBatch, CurrentIsFirst DEF GraphAccepts, IInv, TypeOK
  <1>2. InHand(tick[i]) = {m}
    BY <1>1 DEF InHand, Holding
  <1>3. PICK t \in TickState :
          /\ tick' = [tick EXCEPT ![i] = t]
          /\ t.pc \in {"idle", "next", "fail"} /\ (t.pc # "idle" => t.batch # {})
          /\ t.batch \subseteq tick[i].batch
          /\ \/ InHand(t) = {} /\ UNCHANGED <<ambiguous, faults>>
             \/ /\ InHand(t) = {m} /\ ambiguous' = ambiguous \cup {m}
                /\ t.before = tick[i].before /\ Fault
    <2>1. CASE tick' = [tick EXCEPT ![i] = Finished(i)] /\ UNCHANGED <<faults, ambiguous>>
      <3>1. /\ Finished(i) \in TickState
            /\ Finished(i).pc \in {"idle", "next"}
            /\ Finished(i).pc = "next" => Finished(i).batch # {}
            /\ Finished(i).batch \subseteq tick[i].batch
            /\ InHand(Finished(i)) = {}
        BY FinishedIsFree DEF IInv
      <3> QED
        BY <2>1, <3>1
    <2>2. CASE Fault /\ ambiguous' = ambiguous \cup {m} /\ tick' = [tick EXCEPT ![i].pc = "fail"]
      <3> DEFINE t == [tick[i] EXCEPT !.pc = "fail"]
      <3> HIDE DEF m
      <3>1. /\ t \in TickState /\ t.pc = "fail" /\ t.batch = tick[i].batch
            /\ t.before = tick[i].before
        BY <1>1 DEF TickState
      <3>2. tick' = [tick EXCEPT ![i] = t]
        BY <2>2
      <3> HIDE DEF t
      <3>3. InHand(t) = {m}
        BY <1>1, <3>1 DEF InHand, Holding
      <3> QED
        BY <1>1, <2>2, <3>1, <3>2, <3>3
    <2> QED
      BY <2>1, <2>2 DEF GraphAccepts
  <1> HIDE DEF m
  <1>4. accepted[m] \in 0..2
    BY <1>1 DEF IInv, TypeOK
  <1>5. /\ \A k \in Message \ {m} : accepted'[k] = accepted[k]
        /\ accepted'[m] = a /\ a \in 0..2 /\ a > 0 /\ (accepted[m] = 0 => a = 1)
        /\ accepted' \in [Message -> 0..2]
    BY <1>1, <1>4 DEF IInv, TypeOK
  <1> HIDE DEF a
  <1>6. \A j \in Instance : tick'[j] = IF j = i THEN t ELSE tick[j]
    BY <1>3 DEF IInv, TypeOK
  <1>7. ambiguous \subseteq ambiguous' /\ ambiguous' \subseteq ambiguous \cup {m}
    BY <1>3
  <1>8. TypeOK'
    <2>1. faults' \in 0..MaxFaults
      BY <1>3, OutboxAssumption DEF IInv, TypeOK, Fault
    <2> QED
      BY <1>1, <1>3, <1>5, <1>7, <2>1 DEF IInv, TypeOK
  <1>9. msg[m].type = "comment"
    BY <1>1 DEF IInv, Batches
  <1>10. Batches' /\ Notes'
    BY <1>1, <1>3, <1>5, <1>6, <1>9 DEF IInv, Batches, Notes
  <1>11. Attempts'
    <2>1. tick[i].before < MaxAttempts
      BY <1>1 DEF IInv, Attempts, Holding
    <2>2. t.pc \in Holding => t.before < MaxAttempts
      BY <1>3, <2>1 DEF InHand
    <2> QED
      BY <1>1, <1>6, <2>2 DEF IInv, Attempts
  <1>12. \A j \in Instance : InHand(tick[j]) \subseteq Message
    BY InHandInBatch DEF IInv
  <1>13. Regular(m) => /\ accepted[m] = 0 /\ msg[m].sent /\ ~msg[m].failed
                       /\ \A j \in Instance \ {i} : m \notin InHand(tick[j])
    BY <1>2 DEF IInv, Owned
  <1>14. Owned'
    BY <1>1, <1>2, <1>3, <1>5, <1>6, <1>7, <1>12, <1>13 DEF IInv, Owned, Regular
  <1>15. Delivered'
    BY <1>1, <1>5, <1>7, <1>13 DEF IInv, Delivered, Regular
  <1>16. Shown'
    BY <1>1, <1>2, <1>3, <1>5, <1>6 DEF IInv, Shown
  <1> QED
    BY <1>8, <1>10, <1>11, <1>14, <1>15, <1>16 DEF IInv

\* What a tick settles, it alone held, and Graph had not accepted.
LEMMA RecordOutcomeInv ==
  ASSUME IInv, NEW i \in Instance, RecordOutcome(i)
  PROVE  IInv'
  <1> DEFINE m == Current(i)
             t == Finished(i)
  <1>1. /\ tick[i].pc \in {"release", "fail"} /\ tick[i] \in TickState
        /\ tick' = [tick EXCEPT ![i] = t]
        /\ UNCHANGED <<state, req, accepted, ambiguous, reopened>>
        /\ m = First(tick[i].batch) /\ m \in tick[i].batch /\ m \in Message
    BY InHandInBatch, CurrentIsFirst DEF RecordOutcome, IInv, TypeOK
  <1>2. InHand(tick[i]) = {m} /\ tick[i].before < MaxAttempts
    BY <1>1 DEF InHand, Holding, IInv, Attempts
  <1>3. /\ t \in TickState /\ t.pc \in {"idle", "next"} /\ InHand(t) = {}
        /\ t.pc = "next" => t.batch # {}
        /\ t.batch \subseteq tick[i].batch
    BY FinishedIsFree DEF IInv
  <1>4. \/ /\ lost' = lost \cup {m} /\ msg' = msg /\ Fault
        \/ /\ lost' = lost /\ faults' = faults
           /\ \/ msg' = [msg EXCEPT ![m] = Released(m)]
              \/ msg' = [msg EXCEPT ![m] = Failed(m, tick[i].before)]
    BY DEF RecordOutcome
  <1> HIDE DEF m, t
  <1>5. msg \in [Message -> MessageRow] /\ msg[m] \in MessageRow /\ tick[i].before \in 0..MaxAttempts
    BY <1>1 DEF IInv, TypeOK, TickState
  <1>6. /\ Released(m) \in MessageRow /\ Released(m).type = msg[m].type
        /\ ~Released(m).sent /\ Released(m).failed = msg[m].failed
        /\ Released(m).attempts = msg[m].attempts
    BY <1>1, <1>5 DEF Released, MessageRow, IInv, Shown
  <1>7. /\ Failed(m, tick[i].before) \in MessageRow
        /\ Failed(m, tick[i].before).type = msg[m].type
        /\ ~Failed(m, tick[i].before).sent
        /\ Failed(m, tick[i].before).failed
             \/ Failed(m, tick[i].before).attempts < MaxAttempts
    <2> DEFINE n == tick[i].before + 1
    <2>1. n \in 0..MaxAttempts /\ GivesUp(n) \in BOOLEAN /\ (~GivesUp(n) => n < MaxAttempts)
      BY <1>2, <1>5, OutboxAssumption DEF GivesUp
    <2>2. Failed(m, tick[i].before)
            = [msg[m] EXCEPT !.sent = FALSE, !.attempts = n, !.failed = GivesUp(n)]
      BY DEF Failed
    <2> HIDE DEF n
    <2> QED
      BY <1>5, <2>1, <2>2 DEF MessageRow
  <1>8. /\ \A k \in Message \ {m} : msg'[k] = msg[k]
        /\ msg'[m].type = msg[m].type /\ msg' \in [Message -> MessageRow]
        /\ ~msg'[m].failed => msg'[m].attempts < MaxAttempts
        /\ msg' = msg \/ ~msg'[m].sent
    BY <1>1, <1>4, <1>5, <1>6, <1>7 DEF IInv, Attempts
  <1>9. \A j \in Instance : tick'[j] = IF j = i THEN t ELSE tick[j]
    BY <1>1 DEF IInv, TypeOK
  <1>10. TypeOK'
    <2>1. faults' \in 0..MaxFaults
      BY <1>4, OutboxAssumption DEF IInv, TypeOK, Fault
    <2>2. lost' \subseteq Message
      BY <1>1, <1>4 DEF IInv, TypeOK
    <2> QED
      BY <1>1, <1>3, <1>8, <2>1, <2>2 DEF IInv, TypeOK
  <1>11. msg[m].type = "comment"
    BY <1>1 DEF IInv, Batches
  <1>12. Batches' /\ Notes'
    BY <1>1, <1>3, <1>8, <1>9, <1>11 DEF IInv, Batches, Notes, TypeOK, TickState
  <1>13. Attempts'
    BY <1>1, <1>3, <1>8, <1>9 DEF IInv, Attempts, Holding
  <1>14. \A j \in Instance : InHand(tick[j]) \subseteq Message
    BY InHandInBatch DEF IInv
  <1>15. Regular(m) => /\ accepted[m] = 0
                       /\ \A j \in Instance \ {i} : m \notin InHand(tick[j])
    BY <1>2 DEF IInv, Owned
  <1>16. Owned'
    BY <1>1, <1>3, <1>8, <1>9, <1>14, <1>15 DEF IInv, Owned, Regular
  <1>17. Delivered'
    BY <1>1, <1>8, <1>15 DEF IInv, Delivered, Regular
  <1>18. Shown'
    <2>1. msg' = msg => lost' = lost \cup {m} \/ ~msg[m].sent
      BY <1>1, <1>4, <1>5, <1>6, <1>7
    <2>2. lost \subseteq lost'
      BY <1>4
    <2> QED
      BY <1>1, <1>2, <1>3, <1>8, <1>9, <2>1, <2>2 DEF IInv, Shown
  <1> QED
    BY <1>10, <1>12, <1>13, <1>16, <1>17, <1>18 DEF IInv

-----------------------------------------------------------------------------
LEMMA NextInv == IInv /\ [Next]_vars => IInv'
  <1> SUFFICES ASSUME IInv, [Next]_vars PROVE IInv'
    OBVIOUS
  <1>1. CASE RouteStep
    BY <1>1, IdleStepsInv, SendByMailUpdateInv, RetrySendInv DEF RouteStep
  <1>2. ASSUME NEW i \in Instance, TickStep(i) PROVE IInv'
    BY <1>2, PickPendingInv, NextMessageInv, ClaimForSendInv, GraphAcceptsInv, SendingInv,
       RecordOutcomeInv DEF TickStep
  <1>3. ASSUME NEW i \in Instance, ProcessStep(i) PROVE IInv'
    BY <1>3, TickStartsInv, IdleStepsInv, CrashInv DEF ProcessStep
  <1>4. CASE UNCHANGED vars
    <2>1. TypeOK' /\ Batches'
      BY <1>4 DEF IInv, TypeOK, Batches, vars, history
    <2>2. \A j \in Instance : tick'[j].pc \in Holding => tick'[j].before < MaxAttempts
      BY <1>4 DEF IInv, Attempts, vars
    <2> QED
      BY <1>4, <2>1, <2>2, SameHands DEF vars, history
  <1> QED
    BY <1>1, <1>2, <1>3, <1>4 DEF Next

THEOREM Inductive == Spec => []IInv
  BY InitInv, NextInv, PTL DEF Spec

\* The types of the rows, ticks and histories are those of the tables: the
\* counter of attempts never passes MAX_ATTEMPTS (outbound-worker.js).
THEOREM TypeCorrect == Spec => []TypeOK
  <1>1. IInv => TypeOK
    BY DEF IInv
  <1> QED
    BY <1>1, Inductive, PTL

\* However many instances race, stop and crash, Graph accepts a message once,
\* unless an answer was lost or send-by-mail reset it (claimForSend).
THEOREM SentOnceAlways == Spec => []SentOnce
  <1>1. IInv => SentOnce
    BY DEF IInv, Delivered, Regular, SentOnce
  <1> QED
    BY <1>1, Inductive, PTL

\* A message shown as sent or as failed is what it shows, with the exceptions
\* the property names (releaseClaim, markFailure, retry-send).
THEOREM ShownIsTrueAlways == Spec => []ShownIsTrue
  <1>1. IInv => ShownIsTrue
    BY HeldIsInHand DEF IInv, Shown, Delivered, Regular, ShownIsTrue
  <1> QED
    BY <1>1, Inductive, PTL
=============================================================================
