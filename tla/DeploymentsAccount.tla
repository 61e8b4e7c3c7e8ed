------------------------- MODULE DeploymentsAccount -------------------------
(***************************************************************************)
(* Where an attempt of Deployments is: RunningIsAccountedFor for every      *)
(* value of the constants. Deliveries and results belong to the device of   *)
(* their row, and a result leaves its device's queue only after the API has *)
(* dealt with it. Then: an attempt is executed at most once, and the rows   *)
(* keep the promises of Attempts.                                           *)
(***************************************************************************)
EXTENDS DeploymentsProofs

\* What the agent's place in its cycle says of its work and of its queue.
AgentPlaces ==
    \A d \in Device :
      /\ unsaved[d] # {} => apc[d] = "working"
      /\ todo[d] # {} => apc[d] \in {"acked", "working"}
      /\ apc[d] = "recheck" => mem[d] # {}

\* What the place of a checkin request says of what it carries.
RequestPlaces ==
    \A q \in Checkin :
      /\ checkin[q].jobs # {} => checkin[q].pc = "reply" /\ ~ResponseIgnored(q)
      /\ checkin[q].results # {} => checkin[q].pc = "results"
      /\ checkin[q].follow => checkin[q].device \in Legacy /\ checkin[q].sent # {}

Places == AgentPlaces /\ RequestPlaces

\* A delivery or a result of S is of row i; of its attempt c.
Of(S, i) == \E x \in S : x.dep = i
Has(S, i, c) == \E x \in S : x.dep = i /\ x.claim = c

\* Rows an agent or a request has to do with.
Bears(d, i) == Of(todo[d], i) \/ Of(unsaved[d], i) \/ Of(mem[d], i) \/ Of(disk[d], i)
Carries(q, i) == Of(checkin[q].jobs, i) \/ Of(checkin[q].sent, i) \/ i \in checkin[q].picked

Belongs(i, d) == dep[i].status # "absent" /\ dep[i].device = d

\* They are rows of its device.
Owned ==
    \A i \in Deployment :
      /\ \A d \in Device : Bears(d, i) => Belongs(i, d)
      /\ \A q \in Checkin : Carries(q, i) => Belongs(i, checkin[q].device)

Runs(i, c) == dep[i].status = "running" /\ dep[i].claim = c

IsLost(i, c) == [dep |-> i, claim |-> c] \in lost

\* A result that its request has dealt with ended the attempt, or was lost.
Told ==
    \A q \in Checkin : \A r \in checkin[q].sent \ checkin[q].results :
      Runs(r.dep, r.claim) => IsLost(r.dep, r.claim)

\* Where an attempt may be.
Somewhere(i, c) ==
    \/ IsLost(i, c)
    \/ \E q \in Checkin : Has(checkin[q].jobs, i, c)
    \/ \E d \in Device : Has(todo[d], i, c) \/ Has(unsaved[d], i, c) \/ Has(mem[d], i, c)

Accounted ==
    \A i \in Deployment, c \in Claim : Runs(i, c) => Somewhere(i, c)

AccountInv == Places /\ Owned /\ Told /\ Accounted

-----------------------------------------------------------------------------
\* What one step does to deliveries and results, wherever they are.

Flows ==
    \A i \in Deployment :
      /\ \A d \in Device : Bears(d, i)' =>
           Bears(d, i) \/ \E q \in Checkin : checkin[q].device = d /\ Carries(q, i)
      /\ \A q \in Checkin : Carries(q, i)' =>
           \/ /\ checkin'[q].device = checkin[q].device
              /\ Carries(q, i) \/ Belongs(i, checkin[q].device)
           \/ checkin'[q].device \in Device /\ Bears(checkin'[q].device, i)

Heard ==
    \A q \in Checkin : \A r \in checkin'[q].sent \ checkin'[q].results :
      \/ r \in checkin[q].sent \ checkin[q].results
      \/ r \in checkin[q].results /\ (ApplyResult(q, r) \/ ResultThrows(q, r))

\* An attempt is lost from sight only when the reply to a checkin that has
\* dealt with its result reaches the agent.
Stays ==
    \A i \in Deployment, c \in Claim : Somewhere(i, c) =>
      \/ Somewhere(i, c)'
      \/ \E q \in Checkin : checkin[q].results = {} /\ Has(checkin[q].sent, i, c)

Transport == Places' /\ Flows /\ Heard /\ Stays /\ lost \subseteq lost'

Fields ==
    /\ checkin \in [Checkin -> CheckinRequest]
    /\ apc \in [Device -> {"idle", "waiting", "acked", "working", "recheck"}]
    /\ conn \in [Device -> Checkin \cup {None}]
    /\ mem \in [Device -> SUBSET Result] /\ disk \in [Device -> SUBSET Result]
    /\ todo \in [Device -> SUBSET Delivery] /\ unsaved \in [Device -> SUBSET Result]

LEMMA TypeFields == TypeInv => Fields
  BY DEF TypeInv, TypeOK, Fields

\* The agents do not move, and no request of the API gives a place up.
LEMMA QuietTransport ==
  ASSUME Fields, Places, UNCHANGED agentVars, lost \subseteq lost',
         \A q \in Checkin :
           /\ checkin'[q].device = checkin[q].device
           /\ checkin'[q].sent = checkin[q].sent
           /\ checkin'[q].results = checkin[q].results
           /\ checkin'[q].follow = checkin[q].follow
           /\ checkin[q].jobs \subseteq checkin'[q].jobs
           /\ checkin[q].results # {} => checkin'[q].pc = "results"
           /\ checkin'[q].jobs # {} => checkin'[q].pc = "reply" /\ ~ResponseIgnored(q)'
           /\ \A i \in Deployment : Carries(q, i)' =>
                Carries(q, i) \/ Belongs(i, checkin[q].device)
  PROVE  Transport
  <1>1. Places'
    BY DEF Places, AgentPlaces, RequestPlaces, agentVars
  <1>2. Flows
    BY DEF Flows, Bears, agentVars
  <1>3. Heard
    BY DEF Heard
  <1>4. Stays
    <2>1. ASSUME NEW i \in Deployment, NEW c \in Claim, Somewhere(i, c)
          PROVE  Somewhere(i, c)'
      <3>1. CASE IsLost(i, c)
        BY <3>1 DEF IsLost, Somewhere
      <3>2. ASSUME NEW q \in Checkin, Has(checkin[q].jobs, i, c)
            PROVE  Somewhere(i, c)'
        BY <3>2 DEF Has, Somewhere
      <3>3. ASSUME NEW d \in Device,
                   Has(todo[d], i, c) \/ Has(unsaved[d], i, c) \/ Has(mem[d], i, c)
            PROVE  Somewhere(i, c)'
        BY <3>3 DEF Somewhere, agentVars
      <3> QED
        BY <2>1, <3>1, <3>2, <3>3 DEF Somewhere
    <2> QED
      BY <2>1 DEF Stays
  <1> QED
    BY <1>1, <1>2, <1>3, <1>4 DEF Transport

LEMMA ServerTransport ==
  TypeInv /\ Places /\ (ServerStep \/ UNCHANGED vars) => Transport
  <1> SUFFICES ASSUME TypeInv, Places, ServerStep \/ UNCHANGED vars PROVE Transport
    OBVIOUS
  <1>1. UNCHANGED <<checkin, agentVars>>
    BY ServerSteps DEF vars, agentVars
  <1>2. lost' = lost
    <2>1. PackageStep => lost' = lost
      BY DEF PackageStep, CreatePackage, EditPackage, ApproveCheck, ApproveRefresh,
             ApproveCommit, DeployCheck, DeployJob, DeployRow, DeployEnd, CancelAllRows,
             CancelAllJobs, CancelJob, DeleteCheck, DeleteCommit
    <2>2. DeploymentStep => lost' = lost
      BY DEF DeploymentStep, CancelDeployments, RetryBulk, RetryRead, RetryConflict,
             RetryUpdate, TimeoutStuck, AdminFails
    <2> QED
      BY <2>1, <2>2 DEF ServerStep, vars
  <1>3. ASSUME NEW q \in Checkin
        PROVE  /\ ResponseIgnored(q)' = ResponseIgnored(q)
               /\ \A i \in Deployment : Carries(q, i)' = Carries(q, i)
    BY <1>1 DEF ResponseIgnored, Carries
  <1> QED
    BY <1>1, <1>2, <1>3, TypeFields, QuietTransport DEF Places, RequestPlaces

LEMMA ResultsDoneTransport ==
  ASSUME TypeInv, Places, NEW q \in Checkin, ResultsDone(q) \/ FanOut(q)
  PROVE  Transport
  <1>1. /\ \/ checkin[q].pc = "results" /\ checkin' = [checkin EXCEPT ![q].pc = "fanout"]
           \/ checkin[q].pc = "fanout" /\ checkin' = [checkin EXCEPT ![q].pc = "select"]
        /\ checkin[q].pc = "results" => checkin[q].results = {}
        /\ UNCHANGED agentVars /\ lost' = lost
    BY DEF ResultsDone, FanOut
  <1>2. \A k \in Checkin : /\ checkin'[k].device = checkin[k].device
                           /\ checkin'[k].sent = checkin[k].sent
                           /\ checkin'[k].results = checkin[k].results
                           /\ checkin'[k].follow = checkin[k].follow
                           /\ checkin'[k].jobs = checkin[k].jobs
                           /\ checkin'[k].picked = checkin[k].picked
                           /\ checkin'[k].offer = checkin[k].offer
                           /\ k # q => checkin'[k].pc = checkin[k].pc
    BY <1>1, TypeFields DEF Fields, CheckinRequest
  <1>3. ASSUME NEW k \in Checkin
        PROVE  /\ ResponseIgnored(k)' = ResponseIgnored(k)
               /\ \A i \in Deployment : Carries(k, i)' = Carries(k, i)
    BY <1>2 DEF ResponseIgnored, Carries
  <1>4. checkin[q].jobs = {} /\ checkin[q].results = {}
    BY <1>1 DEF Places, RequestPlaces
  <1> QED
    BY <1>1, <1>2, <1>3, <1>4, TypeFields, QuietTransport DEF Places, RequestPlaces

LEMMA SelectTransport ==
  ASSUME TypeInv, Places, NEW q \in Checkin, NEW window \in BOOLEAN, NEW offer \in BOOLEAN,
         Select(q, window, offer)
  PROVE  Transport
  <1>1. PICK B \in SUBSET Eligible(checkin[q].device) :
          checkin' = [checkin EXCEPT ![q].pc = "claim", ![q].offer = offer,
                        ![q].picked = IF window THEN {i \in B : dep[i].snap # 0} ELSE {}]
    BY DEF Select
  <1>2. /\ checkin[q].pc = "select" /\ UNCHANGED agentVars /\ lost' = lost
    BY DEF Select
  <1>3. \A k \in Checkin : /\ checkin'[k].device = checkin[k].device
                           /\ checkin'[k].sent = checkin[k].sent
                           /\ checkin'[k].results = checkin[k].results
                           /\ checkin'[k].follow = checkin[k].follow
                           /\ checkin'[k].jobs = checkin[k].jobs
                           /\ k # q => checkin'[k] = checkin[k]
                           /\ k = q => checkin'[k].picked \subseteq B
    BY <1>1, TypeFields DEF Fields, CheckinRequest
  <1>4. checkin[q].jobs = {} /\ checkin[q].results = {}
    BY <1>2 DEF Places, RequestPlaces
  <1>5. ASSUME NEW k \in Checkin, NEW i \in Deployment, Carries(k, i)'
        PROVE  Carries(k, i) \/ Belongs(i, checkin[k].device)
    <2>1. \A e \in B : Belongs(e, checkin[q].device)
      BY DEF Eligible, Belongs
    <2> QED
      BY <1>3, <1>5, <2>1 DEF Carries
  <1>6. \A k \in Checkin : k # q => ResponseIgnored(k)' = ResponseIgnored(k)
    BY <1>3 DEF ResponseIgnored
  <1> QED
    BY <1>2, <1>3, <1>4, <1>5, <1>6, TypeFields, QuietTransport DEF Places, RequestPlaces

LEMMA ClaimTransport ==
  ASSUME TypeInv, Places, Owned, NEW q \in Checkin, ClaimJobs(q)
  PROVE  Transport
  <1> DEFINE C == IF ResponseIgnored(q) THEN {} ELSE Claimable(q)
             J == {[dep |-> i, claim |-> claims + 1, content |-> dep[i].snap] : i \in C}
  <1>1. /\ checkin[q].pc = "claim"
        /\ checkin' = [checkin EXCEPT ![q].pc = "reply", ![q].jobs = J]
        /\ UNCHANGED agentVars /\ lost' = lost
    BY DEF ClaimJobs
  <1>2. J # {} => ~ResponseIgnored(q)
    OBVIOUS
  <1>3. \A i : Of(J, i) => i \in checkin[q].picked
    BY DEF Of, Claimable
  <1> HIDE DEF J
  <1>4. \A k \in Checkin : /\ checkin'[k].device = checkin[k].device
                           /\ checkin'[k].sent = checkin[k].sent
                           /\ checkin'[k].results = checkin[k].results
                           /\ checkin'[k].follow = checkin[k].follow
                           /\ checkin'[k].offer = checkin[k].offer
                           /\ checkin'[k].picked = checkin[k].picked
                           /\ k # q => checkin'[k] = checkin[k]
                           /\ k = q => checkin'[k].pc = "reply" /\ checkin'[k].jobs = J
    BY <1>1, TypeFields DEF Fields, CheckinRequest
  <1>5. checkin[q].jobs = {} /\ checkin[q].results = {}
    BY <1>1 DEF Places, RequestPlaces
  <1>6. \A k \in Checkin : ResponseIgnored(k)' = ResponseIgnored(k)
    BY <1>4 DEF ResponseIgnored
  <1>7. \A k \in Checkin, i \in Deployment : Carries(k, i)' => Carries(k, i)
    BY <1>3, <1>4 DEF Carries
  <1>8. ASSUME NEW k \in Checkin
        PROVE  /\ checkin[k].jobs \subseteq checkin'[k].jobs
               /\ checkin[k].results # {} => checkin'[k].pc = "results"
               /\ checkin'[k].jobs # {} => checkin'[k].pc = "reply" /\ ~ResponseIgnored(k)'
    <2>1. CASE k = q
      BY <1>2, <1>4, <1>5, <1>6, <2>1
    <2>2. CASE k # q
      BY <1>4, <1>6, <2>2 DEF Places, RequestPlaces
    <2> QED
      BY <2>1, <2>2
  <1> QED
    BY <1>1, <1>4, <1>7, <1>8, TypeFields, QuietTransport

LEMMA ResultTransport ==
  ASSUME TypeInv, Places, NEW q \in Checkin, NEW r \in checkin[q].results,
         ApplyResult(q, r) \/ ResultThrows(q, r)
  PROVE  Transport
  <1>1. /\ checkin' = [checkin EXCEPT ![q].results = @ \ {r}]
        /\ UNCHANGED agentVars /\ lost \subseteq lost'
    BY DEF ApplyResult, ResultThrows
  <1>2. \A k \in Checkin : /\ checkin'[k].device = checkin[k].device
                           /\ checkin'[k].sent = checkin[k].sent
                           /\ checkin'[k].follow = checkin[k].follow
                           /\ checkin'[k].offer = checkin[k].offer
                           /\ checkin'[k].picked = checkin[k].picked
                           /\ checkin'[k].jobs = checkin[k].jobs
                           /\ checkin'[k].pc = checkin[k].pc
                           /\ k # q => checkin'[k] = checkin[k]
                           /\ k = q => checkin'[k].results = checkin[k].results \ {r}
    BY <1>1, TypeFields DEF Fields, CheckinRequest
  <1>3. \A k \in Checkin : ResponseIgnored(k)' = ResponseIgnored(k)
    BY <1>2 DEF ResponseIgnored
  <1>4. Places'
    <2>1. AgentPlaces'
      BY <1>1 DEF Places, AgentPlaces, agentVars
    <2>2. RequestPlaces'
      BY <1>2, <1>3 DEF Places, RequestPlaces
    <2> QED
      BY <2>1, <2>2 DEF Places
  <1>5. Flows
    BY <1>1, <1>2 DEF Flows, Bears, Carries, agentVars
  <1>6. Heard
    BY <1>2 DEF Heard
  <1>7. Stays
    BY <1>1, <1>2 DEF Stays, Somewhere, IsLost, agentVars
  <1> QED
    BY <1>1, <1>4, <1>5, <1>6, <1>7 DEF Transport

\* An attempt of S is among its keys.
LEMMA KeysHave ==
  ASSUME NEW S, NEW i, NEW c, Has(S, i, c)
  PROVE  [dep |-> i, claim |-> c] \in Keys(S)
  BY DEF Has, Keys, Key

LEMMA RequestEndsTransport ==
  ASSUME TypeInv, Places, NEW q \in Checkin, CheckinFails(q) \/ ReplyUnread(q)
  PROVE  Transport
  <1>1. /\ checkin' = [checkin EXCEPT ![q] = NoCheckin]
        /\ UNCHANGED agentVars /\ lost' = lost \cup Keys(checkin[q].jobs)
    BY DEF CheckinFails, ReplyUnread
  <1>2. \A k \in Checkin : checkin'[k] = IF k = q THEN NoCheckin ELSE checkin[k]
    BY <1>1, TypeFields DEF Fields
  <1>3. Places'
    <2>1. AgentPlaces'
      BY <1>1 DEF Places, AgentPlaces, agentVars
    <2>2. RequestPlaces'
      BY <1>2 DEF Places, RequestPlaces, NoCheckin, ResponseIgnored
    <2> QED
      BY <2>1, <2>2 DEF Places
  <1>4. Flows
    <2>1. \A i \in Deployment : ~Carries(q, i)'
      BY <1>2 DEF Carries, NoCheckin, Of
    <2>2. \A k \in Checkin, i \in Deployment : k # q => Carries(k, i)' = Carries(k, i)
      BY <1>2 DEF Carries
    <2> QED
      BY <1>1, <1>2, <2>1, <2>2 DEF Flows, Bears, agentVars
  <1>5. Heard
    BY <1>2 DEF Heard, NoCheckin
  <1>6. Stays
    <2> SUFFICES ASSUME NEW i \in Deployment, NEW c \in Claim, Somewhere(i, c)
                 PROVE  Somewhere(i, c)'
      BY DEF Stays
    <2>1. CASE IsLost(i, c)
      BY <1>1, <2>1 DEF IsLost, Somewhere
    <2>2. ASSUME NEW k \in Checkin, Has(checkin[k].jobs, i, c)
          PROVE  Somewhere(i, c)'
      <3>1. CASE k = q
        BY <1>1, <2>2, <3>1, KeysHave DEF IsLost, Somewhere
      <3>2. CASE k # q
        BY <1>2, <2>2, <3>2 DEF Somewhere
      <3> QED
        BY <3>1, <3>2
    <2>3. ASSUME NEW d \in Device,
                 Has(todo[d], i, c) \/ Has(unsaved[d], i, c) \/ Has(mem[d], i, c)
          PROVE  Somewhere(i, c)'
      BY <1>1, <2>3 DEF Somewhere, agentVars
    <2> QED
      BY <2>1, <2>2, <2>3 DEF Somewhere
  <1> QED
    BY <1>1, <1>3, <1>4, <1>5, <1>6 DEF Transport

-----------------------------------------------------------------------------
\* The agent.

LEMMA SendTransport ==
  ASSUME TypeInv, Places, NEW d \in Device, NEW q \in Checkin, SendCheckin(d, q)
  PROVE  Transport
  <1>1. PICK S \in SUBSET mem[d] :
          /\ mem[d] # {} => S # {}
          /\ checkin' = [checkin EXCEPT ![q] =
                          [NoCheckin EXCEPT !.pc = "results", !.device = d,
                             !.sent = S, !.results = S,
                             !.follow = (apc[d] = "recheck" /\ d \in Legacy)]]
    BY DEF SendCheckin
  <1>2. /\ apc[d] \in {"idle", "recheck"} /\ checkin[q].pc = "free"
        /\ apc' = [apc EXCEPT ![d] = "waiting"]
        /\ UNCHANGED <<mem, disk, todo, unsaved, lost>>
    BY DEF SendCheckin
  <1>3. /\ \A k \in Checkin : k # q => checkin'[k] = checkin[k]
        /\ checkin'[q].pc = "results" /\ checkin'[q].device = d
        /\ checkin'[q].sent = S /\ checkin'[q].results = S
        /\ checkin'[q].jobs = {} /\ checkin'[q].picked = {}
        /\ checkin'[q].follow => apc[d] = "recheck" /\ d \in Legacy
    BY <1>1, TypeFields DEF Fields, NoCheckin
  <1>4. checkin[q].jobs = {}
    BY <1>2 DEF Places, RequestPlaces
  <1>5. Places'
    <2>1. AgentPlaces'
      BY <1>2, TypeFields DEF Places, AgentPlaces, Fields
    <2>2. checkin'[q].follow => checkin'[q].device \in Legacy /\ checkin'[q].sent # {}
      BY <1>1, <1>3 DEF Places, AgentPlaces
    <2>3. ASSUME NEW k \in Checkin, k # q
          PROVE  ResponseIgnored(k)' = ResponseIgnored(k)
      BY <1>3, <2>3 DEF ResponseIgnored
    <2>4. RequestPlaces'
      BY <1>3, <2>2, <2>3 DEF Places, RequestPlaces
    <2> QED
      BY <2>1, <2>4 DEF Places
  <1>6. Flows
    <2>1. \A i \in Deployment : Carries(q, i)' => Bears(d, i)
      BY <1>1, <1>3 DEF Carries, Bears, Of
    <2>2. \A k \in Checkin, i \in Deployment : k # q => Carries(k, i)' = Carries(k, i)
      BY <1>3 DEF Carries
    <2>3. \A e \in Device, i \in Deployment : Bears(e, i)' = Bears(e, i)
      BY <1>2 DEF Bears
    <2> QED
      BY <1>3, <2>1, <2>2, <2>3 DEF Flows
  <1>7. Heard
    BY <1>3 DEF Heard
  <1>8. Stays
    <2> SUFFICES ASSUME NEW i \in Deployment, NEW c \in Claim, Somewhere(i, c)
                 PROVE  Somewhere(i, c)'
      BY DEF Stays
    <2>1. ASSUME NEW k \in Checkin, Has(checkin[k].jobs, i, c)
          PROVE  Somewhere(i, c)'
      <3>1. k # q
        BY <1>4, <2>1 DEF Has
      <3> QED
        BY <1>3, <2>1, <3>1 DEF Somewhere
    <2> QED
      BY <1>2, <2>1 DEF Somewhere, IsLost
  <1> QED
    BY <1>2, <1>5, <1>6, <1>7, <1>8 DEF Transport

\* The reply takes the results that were sent out of the queue, and its work
\* replaces none: the agent had none left.
LEMMA ReceiveTransport ==
  ASSUME TypeInv, Places, NEW d \in Device, NEW q \in Checkin, ReceiveReply(d, q)
  PROVE  Transport
  <1>1. /\ apc[d] = "waiting" /\ checkin[q].pc = "reply" /\ checkin[q].device = d
        /\ mem' = [mem EXCEPT ![d] = @ \ checkin[q].sent]
        /\ todo' = [todo EXCEPT ![d] = WorkOf(d, checkin[q])]
        /\ apc' = [apc EXCEPT ![d] = "acked"]
        /\ checkin' = [checkin EXCEPT ![q] = NoCheckin]
        /\ UNCHANGED <<disk, unsaved, lost>>
    BY DEF ReceiveReply
  <1>2. \A k \in Checkin : checkin'[k] = IF k = q THEN NoCheckin ELSE checkin[k]
    BY <1>1, TypeFields DEF Fields
  <1>3. /\ todo[d] = {} /\ unsaved[d] = {} /\ checkin[q].results = {}
        /\ checkin[q].jobs # {} => ~ResponseIgnored(q)
        /\ checkin[q].follow => checkin[q].device \in Legacy /\ checkin[q].sent # {}
    BY <1>1 DEF Places, AgentPlaces, RequestPlaces
  <1>4. WorkOf(d, checkin[q]) = checkin[q].jobs
    BY <1>1, <1>3 DEF WorkOf, ResponseIgnored
  <1>5. /\ mem'[d] = mem[d] \ checkin[q].sent /\ todo'[d] = checkin[q].jobs
        /\ \A e \in Device : e # d => mem'[e] = mem[e] /\ todo'[e] = todo[e] /\ apc'[e] = apc[e]
        /\ apc'[d] = "acked"
    BY <1>1, <1>4, TypeFields DEF Fields
  <1>6. Places'
    <2>1. AgentPlaces'
      BY <1>1, <1>3, <1>5 DEF Places, AgentPlaces
    <2>2. RequestPlaces'
      BY <1>2 DEF Places, RequestPlaces, NoCheckin, ResponseIgnored
    <2> QED
      BY <2>1, <2>2 DEF Places
  <1>7. Flows
    <2>1. \A i \in Deployment : ~Carries(q, i)'
      BY <1>2 DEF Carries, NoCheckin, Of
    <2>2. \A k \in Checkin, i \in Deployment : k # q => Carries(k, i)' = Carries(k, i)
      BY <1>2 DEF Carries
    <2>3. \A i \in Deployment : Bears(d, i)' => Bears(d, i) \/ Carries(q, i)
      BY <1>1, <1>5 DEF Bears, Carries, Of
    <2>4. \A e \in Device, i \in Deployment : e # d => Bears(e, i)' = Bears(e, i)
      BY <1>1, <1>5 DEF Bears
    <2> QED
      BY <1>1, <1>2, <2>1, <2>2, <2>3, <2>4 DEF Flows
  <1>8. Heard
    BY <1>2 DEF Heard, NoCheckin
  <1>9. Stays
    <2> SUFFICES ASSUME NEW i \in Deployment, NEW c \in Claim, Somewhere(i, c),
                        ~Has(checkin[q].sent, i, c)
                 PROVE  Somewhere(i, c)'
      BY <1>3 DEF Stays
    <2>1. ASSUME NEW k \in Checkin, Has(checkin[k].jobs, i, c)
          PROVE  Somewhere(i, c)'
      <3>1. CASE k = q
        BY <1>5, <2>1, <3>1 DEF Somewhere
      <3>2. CASE k # q
        BY <1>2, <2>1, <3>2 DEF Somewhere
      <3> QED
        BY <3>1, <3>2
    <2>2. ASSUME NEW e \in Device,
                 Has(todo[e], i, c) \/ Has(unsaved[e], i, c) \/ Has(mem[e], i, c)
          PROVE  Somewhere(i, c)'
      <3>1. CASE e = d
        <4>1. Has(mem'[d], i, c)
          BY <1>3, <1>5, <2>2, <3>1 DEF Has
        <4> QED
          BY <4>1 DEF Somewhere
      <3>2. CASE e # d
        BY <1>1, <1>5, <2>2, <3>2 DEF Somewhere
      <3> QED
        BY <3>1, <3>2
    <2> QED
      BY <1>1, <2>1, <2>2 DEF Somewhere, IsLost
  <1> QED
    BY <1>1, <1>6, <1>7, <1>8, <1>9 DEF Transport

\* The requests do not move, and every attempt that an agent has stays with
\* it or is lost.
LEMMA AgentTransport ==
  ASSUME Fields, Places, AgentPlaces', UNCHANGED checkin, lost \subseteq lost',
         \A e \in Device, i \in Deployment : Bears(e, i)' => Bears(e, i),
         \A e \in Device, i \in Deployment, c \in Claim :
           Has(todo[e], i, c) \/ Has(unsaved[e], i, c) \/ Has(mem[e], i, c)
             => \/ Has(todo'[e], i, c) \/ Has(unsaved'[e], i, c) \/ Has(mem'[e], i, c)
                \/ IsLost(i, c)'
  PROVE  Transport
  <1>1. Places'
    BY DEF Places, RequestPlaces, ResponseIgnored
  <1>2. Flows
    BY DEF Flows, Carries
  <1>3. Heard
    BY DEF Heard
  <1>4. Stays
    <2> SUFFICES ASSUME NEW i \in Deployment, NEW c \in Claim, Somewhere(i, c)
                 PROVE  Somewhere(i, c)'
      BY DEF Stays
    <2>1. IsLost(i, c) => IsLost(i, c)'
      BY DEF IsLost
    <2> QED
      BY <2>1 DEF Somewhere
  <1> QED
    BY <1>1, <1>2, <1>3, <1>4 DEF Transport

LEMMA CycleTransport ==
  ASSUME TypeInv, Places, NEW d \in Device, GiveUp(d) \/ SaveAcked(d) \/ EndCycle(d)
  PROVE  Transport
  <1>1. /\ UNCHANGED <<checkin, mem, todo, unsaved, lost>>
        /\ \/ disk' = disk
           \/ disk' = [disk EXCEPT ![d] = mem[d]]
        /\ \/ apc[d] \in {"waiting", "recheck"} /\ apc' = [apc EXCEPT ![d] = "idle"]
           \/ /\ apc[d] = "acked"
              /\ apc' = [apc EXCEPT ![d] = IF todo[d] = {} THEN "idle" ELSE "working"]
    BY DEF GiveUp, SaveAcked, EndCycle
  <1>2. AgentPlaces'
    BY <1>1, TypeFields DEF Places, AgentPlaces, Fields
  <1>3. \A e \in Device, i \in Deployment : Bears(e, i)' => Bears(e, i)
    BY <1>1, TypeFields DEF Bears, Fields
  <1> QED
    BY <1>1, <1>2, <1>3, TypeFields, AgentTransport

LEMMA ExecuteTransport ==
  ASSUME TypeInv, Places, NEW d \in Device, NEW w \in todo[d], Execute(d, w)
  PROVE  Transport
  <1>1. PICK r : /\ r.dep = w.dep /\ r.claim = w.claim
                 /\ unsaved' = [unsaved EXCEPT ![d] = {r}]
    BY DEF Execute
  <1>2. /\ apc[d] = "working" /\ unsaved[d] = {} /\ todo' = [todo EXCEPT ![d] = @ \ {w}]
        /\ UNCHANGED <<checkin, apc, mem, disk, lost>>
    BY DEF Execute
  <1>3. /\ unsaved'[d] = {r} /\ todo'[d] = todo[d] \ {w}
        /\ \A e \in Device : e # d => unsaved'[e] = unsaved[e] /\ todo'[e] = todo[e]
    BY <1>1, <1>2, TypeFields DEF Fields
  <1>4. AgentPlaces'
    BY <1>2, <1>3 DEF Places, AgentPlaces
  <1>5. ASSUME NEW e \in Device, NEW i \in Deployment, Bears(e, i)'
        PROVE  Bears(e, i)
    <2>1. CASE e = d
      BY <1>1, <1>2, <1>3, <1>5, <2>1 DEF Bears, Of
    <2>2. CASE e # d
      BY <1>2, <1>3, <1>5, <2>2 DEF Bears
    <2> QED
      BY <2>1, <2>2
  <1>6. ASSUME NEW e \in Device, NEW i \in Deployment, NEW c \in Claim,
               Has(todo[e], i, c) \/ Has(unsaved[e], i, c) \/ Has(mem[e], i, c)
        PROVE  Has(todo'[e], i, c) \/ Has(unsaved'[e], i, c) \/ Has(mem'[e], i, c)
    <2>1. CASE e = d
      <3>1. Has(todo[d], i, c) => Has(todo'[d], i, c) \/ Has(unsaved'[d], i, c)
        BY <1>1, <1>3 DEF Has
      <3>2. ~Has(unsaved[d], i, c)
        BY <1>2 DEF Has
      <3> QED
        BY <1>2, <1>6, <2>1, <3>1, <3>2
    <2>2. CASE e # d
      BY <1>2, <1>3, <1>6, <2>2
    <2> QED
      BY <2>1, <2>2
  <1> QED
    BY <1>2, <1>4, <1>5, <1>6, TypeFields, AgentTransport

LEMMA QueueTransport ==
  ASSUME TypeInv, Places, NEW d \in Device, QueueResult(d)
  PROVE  Transport
  <1>1. /\ apc[d] = "working" /\ unsaved[d] # {}
        /\ mem' = [mem EXCEPT ![d] = @ \cup unsaved[d]]
        /\ disk' = disk \/ disk' = [disk EXCEPT ![d] = mem[d] \cup unsaved[d]]
        /\ unsaved' = [unsaved EXCEPT ![d] = {}]
        /\ apc' = [apc EXCEPT ![d] = IF todo[d] = {} THEN "recheck" ELSE "working"]
        /\ UNCHANGED <<checkin, todo, lost>>
    BY DEF QueueResult
  <1>2. /\ mem'[d] = mem[d] \cup unsaved[d] /\ unsaved'[d] = {}
        /\ disk'[d] = disk[d] \/ disk'[d] = mem[d] \cup unsaved[d]
        /\ apc'[d] = IF todo[d] = {} THEN "recheck" ELSE "working"
        /\ \A e \in Device : e # d => /\ mem'[e] = mem[e] /\ unsaved'[e] = unsaved[e]
                                      /\ disk'[e] = disk[e] /\ apc'[e] = apc[e]
    BY <1>1, TypeFields DEF Fields
  <1>3. AgentPlaces'
    BY <1>1, <1>2 DEF Places, AgentPlaces
  <1>4. \A e \in Device, i \in Deployment : Bears(e, i)' => Bears(e, i)
    BY <1>1, <1>2 DEF Bears, Of
  <1>5. \A e \in Device, i \in Deployment, c \in Claim :
          Has(todo[e], i, c) \/ Has(unsaved[e], i, c) \/ Has(mem[e], i, c)
            => Has(todo'[e], i, c) \/ Has(unsaved'[e], i, c) \/ Has(mem'[e], i, c)
    BY <1>1, <1>2 DEF Has
  <1> QED
    BY <1>1, <1>3, <1>4, <1>5, TypeFields, AgentTransport

\* What is not in state.json is gone, and known to be.
LEMMA CrashTransport ==
  ASSUME TypeInv, Places, NEW d \in Device, Crash(d)
  PROVE  Transport
  <1>1. /\ lost' = lost \cup Keys(todo[d]) \cup Keys(unsaved[d]) \cup Keys(mem[d] \ disk[d])
        /\ mem' = [mem EXCEPT ![d] = disk[d]]
        /\ todo' = [todo EXCEPT ![d] = {}] /\ unsaved' = [unsaved EXCEPT ![d] = {}]
        /\ apc' = [apc EXCEPT ![d] = "idle"]
        /\ UNCHANGED <<checkin, disk>>
    BY DEF Crash
  <1>2. /\ mem'[d] = disk[d] /\ todo'[d] = {} /\ unsaved'[d] = {} /\ apc'[d] = "idle"
        /\ \A e \in Device : e # d => /\ mem'[e] = mem[e] /\ todo'[e] = todo[e]
                                      /\ unsaved'[e] = unsaved[e] /\ apc'[e] = apc[e]
    BY <1>1, TypeFields DEF Fields
  <1>3. AgentPlaces'
    BY <1>2 DEF Places, AgentPlaces
  <1>4. \A e \in Device, i \in Deployment : Bears(e, i)' => Bears(e, i)
    BY <1>1, <1>2 DEF Bears, Of
  <1>5. ASSUME NEW e \in Device, NEW i \in Deployment, NEW c \in Claim,
               Has(todo[e], i, c) \/ Has(unsaved[e], i, c) \/ Has(mem[e], i, c)
        PROVE  \/ Has(todo'[e], i, c) \/ Has(unsaved'[e], i, c) \/ Has(mem'[e], i, c)
               \/ IsLost(i, c)'
    <2>1. CASE e = d
      <3>1. Has(mem[d], i, c) => Has(disk[d], i, c) \/ Has(mem[d] \ disk[d], i, c)
        BY DEF Has
      <3>2. Has(todo[d], i, c) \/ Has(unsaved[d], i, c) \/ Has(mem[d] \ disk[d], i, c)
              => IsLost(i, c)'
        BY <1>1, KeysHave DEF IsLost
      <3> QED
        BY <1>2, <1>5, <2>1, <3>1, <3>2
    <2>2. CASE e # d
      BY <1>2, <1>5, <2>2
    <2> QED
      BY <2>1, <2>2
  <1> QED
    BY <1>1, <1>3, <1>4, <1>5, TypeFields, AgentTransport

LEMMA TransportSteps ==
  ASSUME TypeInv, Places, Owned, [Next]_vars
  PROVE  Transport
  <1>1. CASE ServerStep \/ UNCHANGED vars
    BY <1>1, ServerTransport
  <1>2. CASE CheckinStep
    BY <1>2, ResultTransport, ResultsDoneTransport, SelectTransport, ClaimTransport,
       RequestEndsTransport DEF CheckinStep
  <1>3. CASE AgentStep
    BY <1>3, SendTransport, ReceiveTransport, CycleTransport, ExecuteTransport,
       QueueTransport, CrashTransport DEF AgentStep
  <1> QED
    BY <1>1, <1>2, <1>3 DEF Next, ServerStep

-----------------------------------------------------------------------------
\* The rows.

\* No attempt of a claim that was made begins again.
LEMMA RunsSteps ==
  ASSUME TypeInv, QueueInv, [Next]_vars, NEW i \in Deployment, NEW c \in Claim, c <= claims,
         Runs(i, c)'
  PROVE  Runs(i, c)
  <1>a. dep \in [Deployment -> DeploymentRow] /\ c \in Nat /\ claims \in Nat
    BY DeploymentsAssumption DEF TypeInv, TypeOK, Claim
  <1>1. CASE Kept(i) \/ Missed(i)
    BY <1>1 DEF Kept, Missed, Runs
  <1>2. CASE Enqueued(i)
    BY <1>2 DEF Enqueued, Runs
  <1>3. CASE Refreshed(i) \/ Withdrawn(i) \/ Removed(i)
    BY <1>a, <1>3 DEF Refreshed, Withdrawn, Removed, Runs, DeploymentRow
  <1>4. CASE Claimed(i)
    <2>1. dep'[i].claim = claims + 1
      BY <1>a, <1>4 DEF Claimed, DeploymentRow
    <2> QED
      BY <1>a, <2>1 DEF Runs
  <1>5. CASE TimedOut(i)
    BY <1>a, <1>5 DEF TimedOut, Runs, DeploymentRow
  <1>6. CASE Settled(i)
    BY <1>a, <1>6 DEF Settled, Runs, DeploymentRow
  <1> QED
    BY RowSteps, <1>1, <1>2, <1>3, <1>4, <1>5, <1>6 DEF RowStep, QueueInv

\* A new claim is in the reply of its request.
LEMMA ClaimsTravel ==
  ASSUME TypeInv, QueueInv, [Next]_vars, NEW i \in Deployment,
         NEW c \in Claim, ~(c <= claims), Runs(i, c)', TokensInv, TokensInv'
  PROVE  Somewhere(i, c)'
  <1>a. /\ dep \in [Deployment -> DeploymentRow] /\ c \in Nat /\ claims \in Nat
        /\ checkin \in [Checkin -> CheckinRequest]
    BY DeploymentsAssumption DEF TypeInv, TypeOK, Claim
  <1>1. c <= claims' /\ claims' # claims
    BY <1>a DEF Runs, TokensInv
  <1>2. PICK q \in Checkin : ClaimJobs(q)
    <2>1. PackageStep => claims' = claims
      BY DEF PackageStep, CreatePackage, EditPackage, ApproveCheck, ApproveRefresh,
             ApproveCommit, DeployCheck, DeployJob, DeployRow, DeployEnd, CancelAllRows,
             CancelAllJobs, CancelJob, DeleteCheck, DeleteCommit, serverVars
    <2>2. DeploymentStep => claims' = claims
      BY DEF DeploymentStep, CancelDeployments, RetryBulk, RetryRead, RetryConflict,
             RetryUpdate, TimeoutStuck, AdminFails, serverVars
    <2>3. AgentStep => claims' = claims
      BY AgentsLeave
    <2>4. CheckinStep => claims' = claims \/ \E q \in Checkin : ClaimJobs(q)
      BY DEF CheckinStep, ApplyResult, ResultThrows, ResultsDone, FanOut, Select,
             CheckinFails, ReplyUnread, serverVars
    <2> QED
      BY <1>1, <2>1, <2>2, <2>3, <2>4 DEF Next, vars
  <1> DEFINE C == IF ResponseIgnored(q) THEN {} ELSE Claimable(q)
             J == {[dep |-> k, claim |-> claims + 1, content |-> dep[k].snap] : k \in C}
  <1>3. /\ claims' = claims + 1
        /\ dep'[i] = IF i \in C THEN [dep[i] EXCEPT !.status = "running", !.claim = claims + 1]
                     ELSE dep[i]
        /\ checkin' = [checkin EXCEPT ![q].pc = "reply", ![q].jobs = J]
    BY <1>1, <1>2 DEF ClaimJobs
  <1>4. c = claims + 1
    BY <1>a, <1>1, <1>3
  <1>5. i \in C
    <2>1. CASE i \notin C
      <3>1. dep[i].claim = c /\ dep[i].claim <= claims
        BY <1>3, <2>1 DEF Runs, TokensInv
      <3> QED
        BY <3>1
    <2> QED
      BY <2>1
  <1>6. Has(J, i, c)
    <2> DEFINE w == [dep |-> i, claim |-> claims + 1, content |-> dep[i].snap]
    <2>1. w \in J
      BY <1>5
    <2>2. w.dep = i /\ w.claim = c
      BY <1>4
    <2> QED
      BY <2>1, <2>2 DEF Has
  <1> HIDE DEF J
  <1>7. checkin'[q].jobs = J
    BY <1>a, <1>3 DEF CheckinRequest
  <1> QED
    BY <1>6, <1>7 DEF Somewhere

LEMMA AccountInit == Init => AccountInv
  BY DEF Init, AccountInv, Places, AgentPlaces, RequestPlaces, Owned, Told, Accounted,
         Bears, Carries, Of, NoCheckin, Runs

\* Results are of claims that were made.
LEMMA ResultClaims ==
  ASSUME TypeInv, OutcomeInv, NEW q \in Checkin, NEW r \in checkin[q].sent
  PROVE  /\ r \in Result /\ r.dep \in Deployment /\ r.claim \in Claim
         /\ r.claim <= claims
  <1>1. r \in Result /\ r.dep \in Deployment /\ r.claim \in Claim
    BY DEF TypeInv, TypeOK, CheckinRequest, Result
  <1>2. PICK e \in ran : e.dep = r.dep /\ e.claim = r.claim
    BY <1>1 DEF OutcomeInv, ResultInv, HasResult, Executed
  <1> DEFINE w == [dep |-> e.dep, claim |-> e.claim, content |-> e.content]
  <1>3. w \in Delivery /\ w.claim = r.claim
    BY <1>2 DEF TypeInv, TypeOK, Run, Delivery
  <1>4. InWork(w)
    BY DEF InWork
  <1> HIDE DEF w
  <1>5. w.claim <= claims
    BY <1>3, <1>4 DEF OutcomeInv, WorkInv
  <1> QED
    BY <1>1, <1>3, <1>5

LEMMA AccountStep ==
  TypeInv /\ QueueInv /\ OutcomeInv /\ OutcomeInv' /\ AccountInv /\ [Next]_vars => AccountInv'
  <1> SUFFICES ASSUME TypeInv, QueueInv, OutcomeInv, OutcomeInv', AccountInv, [Next]_vars
               PROVE  AccountInv'
    OBVIOUS
  <1>a. Places /\ Owned /\ Told /\ Accounted
    BY DEF AccountInv
  <1>b. Places' /\ Flows /\ Heard /\ Stays /\ lost \subseteq lost'
    BY <1>a, TransportSteps DEF Transport
  <1>c. \A i \in Deployment : \A d : Belongs(i, d) => Belongs(i, d)'
    BY RowsKeepTheirPackage DEF Belongs
  <1>1. Owned'
    BY <1>a, <1>b, <1>c DEF Owned, Flows
  <1>2. Told'
    <2> SUFFICES ASSUME NEW q \in Checkin, NEW r \in checkin'[q].sent \ checkin'[q].results,
                        Runs(r.dep, r.claim)'
                 PROVE  IsLost(r.dep, r.claim)'
      BY DEF Told
    <2>1. CASE r \in checkin[q].sent \ checkin[q].results
      <3>1. Runs(r.dep, r.claim)
        BY <2>1, ResultClaims, RunsSteps
      <3> QED
        BY <1>a, <1>b, <2>1, <3>1 DEF Told, IsLost
    <2>2. CASE r \in checkin[q].results /\ ResultThrows(q, r)
      BY <2>2 DEF ResultThrows, Key, IsLost
    <2>3. CASE r \in checkin[q].results /\ ApplyResult(q, r)
      <3>1. checkin'[q].sent = checkin[q].sent
        BY <2>3, TypeFields DEF ApplyResult, Fields, CheckinRequest
      <3>2. r \in checkin[q].sent
        BY <3>1
      <3>3. r.dep \in Deployment /\ Runs(r.dep, r.claim)
        BY <3>2, ResultClaims, RunsSteps
      <3>4. Belongs(r.dep, checkin[q].device)
        BY <1>a, <3>2, <3>3 DEF Owned, Carries, Of
      <3>5. Applies(r, checkin[q].device)
        BY <3>3, <3>4 DEF Applies, TokenMatches, Runs, Belongs
      <3>6. dep'[r.dep].status # "running"
        BY <2>3, <3>3, <3>5 DEF ApplyResult, TypeInv, TypeOK, DeploymentRow
      <3> QED
        BY <3>6 DEF Runs
    <2> QED
      BY <1>b, <2>1, <2>2, <2>3 DEF Heard
  <1>3. Accounted'
    <2> SUFFICES ASSUME NEW i \in Deployment, NEW c \in Claim, Runs(i, c)'
                 PROVE  Somewhere(i, c)'
      BY DEF Accounted
    <2>1. CASE c <= claims
      <3>1. Runs(i, c)
        BY <2>1, RunsSteps
      <3>2. Somewhere(i, c)
        BY <1>a, <3>1 DEF Accounted
      <3>3. ASSUME NEW q \in Checkin, checkin[q].results = {}, Has(checkin[q].sent, i, c)
            PROVE  IsLost(i, c)
        BY <1>a, <3>1, <3>3 DEF Told, Has
      <3> QED
        BY <1>b, <3>2, <3>3 DEF Stays, Somewhere, IsLost
    <2>2. CASE ~(c <= claims)
      BY <2>2, ClaimsTravel DEF OutcomeInv
    <2> QED
      BY <2>1, <2>2
  <1> QED
    BY <1>b, <1>1, <1>2, <1>3 DEF AccountInv

\* A running deployment is in a reply, in an agent's work, or in its queue of
\* results; else its delivery or its result was lost (agent.js, claim; loop.go,
\* checkin.go).
THEOREM RunningIsAccountedForAlways == Spec => []RunningIsAccountedFor
  <1>1. TypeInv /\ AccountInv => RunningIsAccountedFor
    <2> SUFFICES ASSUME TypeInv, AccountInv, NEW i \in Deployment, dep[i].status = "running"
                 PROVE  LET k == [dep |-> i, claim |-> dep[i].claim] IN
                        \/ k \in lost
                        \/ \E q \in Checkin : k \in Keys(checkin[q].jobs)
                        \/ \E d \in Device : k \in Keys(todo[d]) \cup Keys(unsaved[d])
                                                   \cup Keys(mem[d])
      BY DEF RunningIsAccountedFor
    <2>1. dep[i].claim \in Claim
      BY DEF TypeInv, TypeOK, DeploymentRow
    <2>2. Somewhere(i, dep[i].claim)
      BY <2>1 DEF AccountInv, Accounted, Runs
    <2> QED
      BY <2>2, KeysHave DEF Somewhere, IsLost
  <1> QED
    BY <1>1, TypeInvInductive, QueueInvInductive, OutcomeInvInit, OutcomeInvStep,
       AccountInit, AccountStep, PTL DEF Spec

-----------------------------------------------------------------------------
\* An attempt is executed at most once.

SameAttempt(w, v) == w.dep = v.dep /\ w.claim = v.claim

\* No two deliveries of S are of one attempt.
Single(S) == \A w, v \in S : SameAttempt(w, v) => w = v

\* No delivery of S is of an attempt that is in T.
Apart(S, T) == \A w \in S, v \in T : ~SameAttempt(w, v)

\* A delivery is in one reply or with one agent, and not executed yet.
OnceInv ==
    /\ \A q \in Checkin :
         /\ Single(checkin[q].jobs) /\ Apart(checkin[q].jobs, ran)
         /\ \A p \in Checkin : p # q => Apart(checkin[p].jobs, checkin[q].jobs)
         /\ \A d \in Device : Apart(checkin[q].jobs, todo[d])
    /\ \A d \in Device :
         /\ Single(todo[d]) /\ Apart(todo[d], ran)
         /\ \A e \in Device : e # d => Apart(todo[e], todo[d])

\* Deliveries leave their places, or stay.
NoWorkMoves ==
    /\ \A q \in Checkin : checkin'[q].jobs \subseteq checkin[q].jobs
    /\ \A d \in Device : todo'[d] \subseteq todo[d]
    /\ ran' = ran

LEMMA WorkMoves ==
  ASSUME TypeInv, [Next]_vars
  PROVE  \/ NoWorkMoves
         \/ \E q \in Checkin : ClaimJobs(q)
         \/ \E d \in Device, q \in Checkin : ReceiveReply(d, q)
         \/ \E d \in Device : \E w \in todo[d] : Execute(d, w)
  <1>a. checkin \in [Checkin -> CheckinRequest] /\ todo \in [Device -> SUBSET Delivery]
    BY DEF TypeInv, TypeOK
  <1>1. CASE ServerStep \/ UNCHANGED vars
    BY <1>1, ServerSteps DEF vars, agentVars, NoWorkMoves
  <1>2. CASE CheckinStep
    <2> SUFFICES ASSUME NEW q \in Checkin,
                        \/ \E r \in checkin[q].results : ApplyResult(q, r) \/ ResultThrows(q, r)
                        \/ ResultsDone(q) \/ FanOut(q)
                        \/ \E window, offer \in BOOLEAN : Select(q, window, offer)
                        \/ CheckinFails(q) \/ ReplyUnread(q)
                 PROVE  NoWorkMoves
      BY <1>2 DEF CheckinStep
    <2>1. UNCHANGED <<todo, ran>>
      BY DEF ApplyResult, ResultThrows, ResultsDone, FanOut, Select, CheckinFails, ReplyUnread,
             agentVars
    <2> DEFINE Shrinks == \A p \in Checkin : checkin'[p].jobs \subseteq checkin[p].jobs
    <2>2. ASSUME NEW r \in checkin[q].results, ApplyResult(q, r) \/ ResultThrows(q, r)
          PROVE  Shrinks
      BY <1>a, <2>2 DEF ApplyResult, ResultThrows, CheckinRequest
    <2>3. ASSUME NEW window \in BOOLEAN, NEW offer \in BOOLEAN, Select(q, window, offer)
          PROVE  Shrinks
      <3>1. PICK B : checkin' = [checkin EXCEPT ![q].pc = "claim", ![q].offer = offer,
                                                ![q].picked = B]
        BY <2>3 DEF Select
      <3> QED
        BY <1>a, <3>1 DEF CheckinRequest
    <2>4. ResultsDone(q) \/ FanOut(q) => Shrinks
      BY <1>a DEF ResultsDone, FanOut, CheckinRequest
    <2>5. CheckinFails(q) \/ ReplyUnread(q) => Shrinks
      BY <1>a DEF CheckinFails, ReplyUnread, NoCheckin
    <2> QED
      BY <2>1, <2>2, <2>3, <2>4, <2>5 DEF NoWorkMoves
  <1>3. CASE AgentStep
    <2> SUFFICES ASSUME NEW d \in Device,
                        \/ \E q \in Checkin : SendCheckin(d, q)
                        \/ GiveUp(d) \/ SaveAcked(d) \/ QueueResult(d) \/ EndCycle(d) \/ Crash(d)
                 PROVE  NoWorkMoves
      BY <1>3 DEF AgentStep
    <2>1. CASE \E q \in Checkin : SendCheckin(d, q)
      <3>1. PICK q \in Checkin, S \in SUBSET mem[d], f \in BOOLEAN :
              /\ checkin' = [checkin EXCEPT ![q] =
                               [NoCheckin EXCEPT !.pc = "results", !.device = d,
                                  !.sent = S, !.results = S, !.follow = f]]
              /\ UNCHANGED <<todo, ran>>
        BY <2>1 DEF SendCheckin
      <3> QED
        BY <1>a, <3>1 DEF NoWorkMoves, NoCheckin
    <2>2. CASE GiveUp(d) \/ SaveAcked(d) \/ QueueResult(d) \/ EndCycle(d)
      BY <2>2 DEF GiveUp, SaveAcked, QueueResult, EndCycle, NoWorkMoves
    <2>3. CASE Crash(d)
      BY <1>a, <2>3 DEF Crash, NoWorkMoves
    <2> QED
      BY <2>1, <2>2, <2>3
  <1> QED
    BY <1>1, <1>2, <1>3 DEF Next, ServerStep

LEMMA OnceInit == Init => OnceInv
  BY DEF Init, OnceInv, Single, Apart, NoCheckin

\* The deliveries of a claim are of a claim that nobody has seen.
LEMMA ClaimOnce ==
  ASSUME TypeInv, WorkInv, OnceInv, NEW q \in Checkin, ClaimJobs(q)
  PROVE  OnceInv'
  <1> DEFINE C == IF ResponseIgnored(q) THEN {} ELSE Claimable(q)
             J == {[dep |-> i, claim |-> claims + 1, content |-> dep[i].snap] : i \in C}
  <1>1. /\ checkin' = [checkin EXCEPT ![q].pc = "reply", ![q].jobs = J]
        /\ UNCHANGED <<todo, ran>>
    BY DEF ClaimJobs, agentVars
  <1>2. /\ checkin'[q].jobs = J
        /\ \A p \in Checkin : p # q => checkin'[p].jobs = checkin[p].jobs
    BY <1>1 DEF TypeInv, TypeOK, CheckinRequest
  <1>3. \A w \in J : w.claim = claims + 1
    OBVIOUS
  <1>4. Single(J)
    BY DEF Single, SameAttempt
  <1> HIDE DEF J
  <1>5. claims \in Nat
    BY DeploymentsAssumption DEF TypeInv, TypeOK, Claim
  <1>6. ASSUME NEW v, v \in Delivery \cup Run, v.claim <= claims, NEW w \in J
        PROVE  ~SameAttempt(w, v)
    BY <1>3, <1>5, <1>6 DEF SameAttempt, Delivery, Run, Claim
  <1>7. ASSUME NEW v \in Delivery, InWork(v)
        PROVE  v.claim <= claims
    BY <1>7 DEF WorkInv
  <1>8. Apart(J, ran)
    <2> SUFFICES ASSUME NEW w \in J, NEW e \in ran PROVE ~SameAttempt(w, e)
      BY DEF Apart
    <2> DEFINE v == [dep |-> e.dep, claim |-> e.claim, content |-> e.content]
    <2>1. e \in Run /\ v \in Delivery /\ v.claim = e.claim
      BY DEF TypeInv, TypeOK, Run, Delivery
    <2>2. InWork(v)
      BY DEF InWork
    <2> HIDE DEF v
    <2> QED
      BY <1>6, <1>7, <2>1, <2>2
  <1>9. \A p \in Checkin : p # q => Apart(J, checkin[p].jobs)
    BY <1>6, <1>7 DEF Apart, InWork, TypeInv, TypeOK, CheckinRequest
  <1>10. \A d \in Device : Apart(J, todo[d])
    BY <1>6, <1>7 DEF Apart, InWork, TypeInv, TypeOK
  <1>11. \A S, T : Apart(S, T) => Apart(T, S)
    BY DEF Apart, SameAttempt
  <1>12. \A p \in Checkin :
           /\ Single(checkin[p].jobs) /\ Apart(checkin[p].jobs, ran)
           /\ \A r \in Checkin : r # p => Apart(checkin[r].jobs, checkin[p].jobs)
           /\ \A d \in Device : Apart(checkin[p].jobs, todo[d])
    BY DEF OnceInv
  <1>13. \A d \in Device :
           /\ Single(todo[d]) /\ Apart(todo[d], ran)
           /\ \A e \in Device : e # d => Apart(todo[e], todo[d])
    BY DEF OnceInv
  <1>14. ASSUME NEW p \in Checkin
         PROVE  /\ Single(checkin'[p].jobs) /\ Apart(checkin'[p].jobs, ran')
                /\ \A r \in Checkin : r # p => Apart(checkin'[r].jobs, checkin'[p].jobs)
                /\ \A d \in Device : Apart(checkin'[p].jobs, todo'[d])
    BY <1>1, <1>2, <1>4, <1>8, <1>9, <1>10, <1>11, <1>12
  <1>15. todo' = todo /\ ran' = ran
    BY <1>1
  <1> HIDE DEF C
  <1> QED
    BY <1>13, <1>14, <1>15 DEF OnceInv, Single, Apart, SameAttempt

LEMMA OnceStep ==
  TypeInv /\ WorkInv /\ OnceInv /\ [Next]_vars => OnceInv'
  <1> SUFFICES ASSUME TypeInv, WorkInv, OnceInv, [Next]_vars PROVE OnceInv'
    OBVIOUS
  <1>1. CASE NoWorkMoves
    BY <1>1 DEF NoWorkMoves, OnceInv, Apart, Single, SameAttempt
  <1>2. CASE \E q \in Checkin : ClaimJobs(q)
    BY <1>2, ClaimOnce
  <1>3. ASSUME NEW d \in Device, NEW q \in Checkin, ReceiveReply(d, q) PROVE OnceInv'
    <2>1. /\ todo' = [todo EXCEPT ![d] = WorkOf(d, checkin[q])]
          /\ checkin' = [checkin EXCEPT ![q] = NoCheckin]
          /\ ran' = ran
      BY <1>3 DEF ReceiveReply
    <2>2. /\ checkin'[q].jobs = {}
          /\ \A p \in Checkin : p # q => checkin'[p] = checkin[p]
          /\ todo'[d] \subseteq checkin[q].jobs
          /\ \A e \in Device : e # d => todo'[e] = todo[e]
      BY <2>1 DEF WorkOf, NoCheckin, TypeInv, TypeOK
    <2>3. ASSUME NEW p \in Checkin
          PROVE  /\ Single(checkin'[p].jobs) /\ Apart(checkin'[p].jobs, ran)
                 /\ \A r \in Checkin : r # p => Apart(checkin'[r].jobs, checkin'[p].jobs)
                 /\ \A e \in Device : Apart(checkin'[p].jobs, todo'[e])
      BY <2>2 DEF OnceInv, Single, Apart
    <2>4. ASSUME NEW e \in Device
          PROVE  /\ Single(todo'[e]) /\ Apart(todo'[e], ran)
                 /\ \A f \in Device : f # e => Apart(todo'[f], todo'[e])
      BY <2>2 DEF OnceInv, Single, Apart, SameAttempt
    <2> QED
      BY <2>1, <2>3, <2>4 DEF OnceInv, Single, Apart, SameAttempt
  <1>4. ASSUME NEW d \in Device, NEW w \in todo[d], Execute(d, w) PROVE OnceInv'
    <2>1. PICK e : /\ ran' = ran \cup {e} /\ e.dep = w.dep /\ e.claim = w.claim
      <3>1. PICK x \in Exit : ran' = ran \cup {[dep |-> w.dep, claim |-> w.claim,
                                                content |-> w.content, exit |-> x]}
        BY <1>4 DEF Execute
      <3> DEFINE r == [dep |-> w.dep, claim |-> w.claim, content |-> w.content, exit |-> x]
      <3>2. r.dep = w.dep /\ r.claim = w.claim
        OBVIOUS
      <3> HIDE DEF r
      <3> QED
        BY <3>1, <3>2 DEF r
    <2>2. checkin' = checkin /\ todo' = [todo EXCEPT ![d] = @ \ {w}]
      BY <1>4 DEF Execute
    <2>3. /\ todo'[d] = todo[d] \ {w}
          /\ \A f \in Device : f # d => todo'[f] = todo[f]
      BY <2>2 DEF TypeInv, TypeOK
    <2>4. \A v \in todo[d] \ {w} : ~SameAttempt(v, e)
      BY <2>1 DEF OnceInv, Single, SameAttempt
    <2>5. ASSUME NEW f \in Device, f # d PROVE \A v \in todo[f] : ~SameAttempt(v, e)
      BY <2>1, <2>5 DEF OnceInv, Apart, SameAttempt
    <2>6. \A q \in Checkin : \A v \in checkin[q].jobs : ~SameAttempt(v, e)
      BY <2>1 DEF OnceInv, Apart, SameAttempt
    <2>7. ASSUME NEW p \in Checkin
          PROVE  /\ Apart(checkin[p].jobs, ran')
                 /\ \A f \in Device : Apart(checkin[p].jobs, todo'[f])
      BY <2>1, <2>3, <2>6 DEF OnceInv, Apart
    <2>8. ASSUME NEW f \in Device
          PROVE  /\ Single(todo'[f]) /\ Apart(todo'[f], ran')
                 /\ \A g \in Device : g # f => Apart(todo'[g], todo'[f])
      BY <2>1, <2>3, <2>4, <2>5 DEF OnceInv, Single, Apart
    <2> QED
      BY <2>2, <2>7, <2>8 DEF OnceInv, Single, Apart, SameAttempt
  <1> QED
    BY <1>1, <1>2, <1>3, <1>4, WorkMoves

LEMMA OnceInductive == Spec => []OnceInv
  <1>1. TypeInv /\ OutcomeInv /\ OnceInv /\ [Next]_vars => OnceInv'
    BY OnceStep DEF OutcomeInv
  <1> QED
    BY <1>1, TypeInvInductive, QueueInvInductive, OutcomeInvInit, OutcomeInvStep, OnceInit,
       PTL DEF Spec

\* The agent works on an attempt that no device has executed and that no other
\* has to work on.
NotYetRun(d, w) ==
    /\ \A e \in ran : ~SameAttempt(w, e)
    /\ \A v \in Device : \A u \in todo[v] : SameAttempt(w, u) => v = d /\ u = w

\* An attempt is executed at most once and by one device, whatever is lost,
\* retried, claimed again or left by an agent that drops replies: the single
\* retry and agents before 2.15.3, which the refinement below leaves out,
\* included (loop.go, the execution of a reply's deployments; agent.js, claim).
THEOREM AttemptsRunOnce ==
  Spec => [][\A d \in Device : \A w \in todo[d] : Execute(d, w) => NotYetRun(d, w)]_vars
  <1> DEFINE Once == \A d \in Device : \A w \in todo[d] : Execute(d, w) => NotYetRun(d, w)
  <1>1. OnceInv => Once
    BY DEF OnceInv, Single, Apart, SameAttempt, NotYetRun
  <1>2. OnceInv /\ [Next]_vars => [Once]_vars
    BY <1>1
  <1> QED
    BY <1>2, OnceInductive, PTL DEF Spec

-----------------------------------------------------------------------------
\* The abstract specification.

\* The rows of S move from From to To, and no row's claim changes.
Shift(S, From, To) ==
    /\ \A i \in S : dep[i].status \in From /\ dep'[i].status = To
    /\ \A i \in Deployment \ S : dep'[i].status = dep[i].status
    /\ \A i \in Deployment : dep'[i].claim = dep[i].claim
    /\ claims' = claims /\ ran' = ran

Still == UNCHANGED Ledger!vars

LedgerStep == Ledger!Next \/ Still

LEMMA MoveOf ==
  ASSUME NEW S \in SUBSET Deployment, NEW From, NEW To, Shift(S, From, To)
  PROVE  Ledger!Move(S, From, To)
  BY DEF Shift, Ledger!Move

LEMMA ShiftKeeps ==
  ASSUME NEW S, NEW From, NEW To, Shift(S, From, To)
  PROVE  /\ [i \in Deployment |-> dep[i].claim]' = [i \in Deployment |-> dep[i].claim]
         /\ claims' = claims
         /\ {[dep |-> e.dep, claim |-> e.claim, exit |-> e.exit] : e \in ran}'
              = {[dep |-> e.dep, claim |-> e.claim, exit |-> e.exit] : e \in ran}
  BY DEF Shift

LEMMA ShiftSteps ==
  ASSUME NEW S \in SUBSET Deployment,
         \/ Shift(S, {"absent"}, "pending")
         \/ Shift(S, {"pending"}, "cancelled")
         \/ Shift(S, {"pending", "running", "success", "failed", "cancelled", "deleted"},
                  "deleted")
         \/ Shift(S, {"running"}, "failed")
  PROVE  LedgerStep
  <1>1. CASE Shift(S, {"absent"}, "pending")
    BY <1>1, MoveOf, ShiftKeeps DEF LedgerStep, Ledger!Next, Ledger!Queue
  <1>2. CASE Shift(S, {"pending"}, "cancelled")
    BY <1>2, MoveOf, ShiftKeeps DEF LedgerStep, Ledger!Next, Ledger!Cancel
  <1>3. CASE Shift(S, {"pending", "running", "success", "failed", "cancelled", "deleted"},
                   "deleted")
    BY <1>3, MoveOf, ShiftKeeps DEF LedgerStep, Ledger!Next, Ledger!Remove
  <1>4. CASE Shift(S, {"running"}, "failed")
    BY <1>4, MoveOf, ShiftKeeps DEF LedgerStep, Ledger!Next, Ledger!Expire
  <1> QED
    BY <1>1, <1>2, <1>3, <1>4

LEMMA StillSteps ==
  ASSUME \A i \in Deployment : dep'[i].status = dep[i].status /\ dep'[i].claim = dep[i].claim,
         claims' = claims, ran' = ran
  PROVE  LedgerStep
  BY DEF LedgerStep, Still, Ledger!vars

LEMMA PackageLedger ==
  ASSUME TypeInv, TokensInv, PackageStep
  PROVE  LedgerStep
  <1>a. dep \in [Deployment -> DeploymentRow]
    BY DEF TypeInv, TypeOK
  <1>b. claims' = claims /\ ran' = ran
    BY DEF PackageStep, CreatePackage, EditPackage, ApproveCheck, ApproveRefresh, ApproveCommit,
           DeployCheck, DeployJob, DeployRow, DeployEnd, CancelAllRows, CancelAllJobs, CancelJob,
           DeleteCheck, DeleteCommit, serverVars
  <1>1. CASE dep' = dep
    BY <1>b, <1>1, StillSteps
  <1>2. ASSUME NEW a \in Admin, NEW p \in Package, CancelAllRows(a, p) PROVE LedgerStep
    <2> DEFINE S == {i \in Deployment : dep[i].status = "pending" /\ dep[i].pkg = p}
    <2>1. Shift(S, {"pending"}, "cancelled")
      BY <1>a, <1>b, <1>2 DEF CancelAllRows, Shift, DeploymentRow
    <2> QED
      BY <2>1, ShiftSteps
  <1>3. ASSUME NEW a \in Admin, ApproveCommit(a) PROVE LedgerStep
    BY <1>a, <1>b, <1>3, StillSteps DEF ApproveCommit, RefreshedSnapshots, DeploymentRow
  <1>4. ASSUME NEW a \in Admin, NEW d \in Device, DeployRow(a, d) PROVE LedgerStep
    <2>1. CASE dep' = dep
      BY <1>1, <2>1
    <2>2. ASSUME NEW k \in FreeRow,
                 dep' = [dep EXCEPT ![k] = NewRow(admin[a].pkg, d, admin[a].job)]
          PROVE  LedgerStep
      <3>1. Shift({k}, {"absent"}, "pending")
        BY <1>a, <1>b, <2>2 DEF Shift, FreeRow, NewRow, TokensInv
      <3> QED
        BY <3>1, ShiftSteps DEF FreeRow
    <2> QED
      BY <1>4, <2>1, <2>2 DEF DeployRow
  <1>5. ASSUME NEW a \in Admin, DeleteCommit(a) PROVE LedgerStep
    <2> DEFINE S == {i \in Deployment : dep[i].pkg = admin[a].pkg}
    <2>1. admin[a].pkg \in Package
      BY <1>5 DEF DeleteCommit, TypeInv, Linked, AdminLinked
    <2>2. \A i \in S : dep[i].status # "absent"
      BY <2>1, DeploymentsAssumption DEF TypeInv, Linked, RowLinked
    <2>3. Shift(S, {"pending", "running", "success", "failed", "cancelled", "deleted"}, "deleted")
      BY <1>a, <1>b, <1>5, <2>2 DEF DeleteCommit, Shift, DeploymentRow
    <2> QED
      BY <2>3, ShiftSteps
  <1> QED
    BY <1>1, <1>2, <1>3, <1>4, <1>5
    DEF PackageStep, CreatePackage, EditPackage, ApproveCheck, ApproveRefresh, DeployCheck,
        DeployJob, DeployEnd, CancelAllJobs, CancelJob, DeleteCheck, serverVars

\* Nobody retries a row by its id.
NoRetry == \A a \in Admin : admin[a].pc \notin {"conflict", "requeue"}

LEMMA DeploymentLedger ==
  ASSUME TypeInv, NoRetry, "retry" \notin AdminOps, DeploymentStep
  PROVE  LedgerStep
  <1>a. dep \in [Deployment -> DeploymentRow]
    BY DEF TypeInv, TypeOK
  <1>b. claims' = claims /\ ran' = ran
    BY DEF DeploymentStep, CancelDeployments, RetryBulk, RetryRead, RetryConflict, RetryUpdate,
           TimeoutStuck, AdminFails, serverVars
  <1>1. ASSUME NEW S \in SUBSET Deployment, CancelDeployments(S) PROVE LedgerStep
    <2> DEFINE T == {i \in S : dep[i].status = "pending"}
    <2>1. Shift(T, {"pending"}, "cancelled")
      BY <1>a, <1>b, <1>1 DEF CancelDeployments, Shift, DeploymentRow
    <2> QED
      BY <2>1, ShiftSteps
  <1>2. ASSUME NEW S \in SUBSET Deployment, RetryBulk(S) PROVE LedgerStep
    <2> DEFINE U == Retryable(S)
    <2>1. /\ \A i \in U : /\ dep[i].status \in {"failed", "cancelled"}
                          /\ dep'[i].status = "pending" /\ dep'[i].claim = 0
          /\ \A i \in Deployment \ U : dep'[i] = dep[i]
      BY <1>a, <1>2 DEF RetryBulk, Retryable, Requeued, DeploymentRow
    <2>2. U \in SUBSET Deployment
      BY DEF Retryable
    <2> HIDE DEF U
    <2>3. PICK T \in SUBSET Deployment : T = U
      BY <2>2
    <2>4. Ledger!Retry(T)
      BY <1>b, <2>1, <2>3 DEF Ledger!Retry, Ledger!Move
    <2> QED
      BY <2>4 DEF LedgerStep, Ledger!Next
  <1>3. ASSUME NEW c \in 1..claims, TimeoutStuck(c) PROVE LedgerStep
    <2> DEFINE T == {i \in Deployment : dep[i].status = "running" /\ dep[i].claim <= c}
    <2>1. Shift(T, {"running"}, "failed")
      BY <1>a, <1>b, <1>3 DEF TimeoutStuck, Shift, DeploymentRow
    <2> QED
      BY <2>1, ShiftSteps
  <1>4. ASSUME NEW a \in Admin, NEW i \in Deployment
        PROVE  ~RetryConflict(a, i) /\ ~RetryUpdate(a, i)
    BY DEF NoRetry, RetryConflict, RetryUpdate
  <1>5. ASSUME NEW a \in Admin, AdminFails(a) PROVE LedgerStep
    BY <1>5, StillSteps DEF AdminFails, serverVars
  <1> QED
    BY <1>1, <1>2, <1>3, <1>4, <1>5 DEF DeploymentStep

LEMMA CheckinLedger ==
  ASSUME TypeInv, OutcomeInv, Legacy = {}, CheckinStep
  PROVE  LedgerStep
  <1>a. /\ dep \in [Deployment -> DeploymentRow] /\ claims \in Nat
        /\ checkin \in [Checkin -> CheckinRequest]
    BY DeploymentsAssumption DEF TypeInv, TypeOK, Claim
  <1>b. TokensInv /\ ResultInv
    BY DEF OutcomeInv
  <1>1. ASSUME NEW q \in Checkin, NEW r \in checkin[q].results, ApplyResult(q, r)
        PROVE  LedgerStep
    <2>1. CASE dep' = dep
      BY <1>1, <2>1, StillSteps DEF ApplyResult
    <2>2. CASE Applies(r, checkin[q].device)
      <3>1. r \in Result /\ r.dep \in Deployment /\ r.exit \in Exit
        BY <1>a DEF CheckinRequest, Result
      <3>2. /\ dep[r.dep].status = "running" /\ dep[r.dep].claim = r.claim
        BY <2>2 DEF Applies, TokenMatches
      <3>3. PICK e \in ran : e.dep = r.dep /\ e.claim = r.claim /\ e.exit = r.exit
        BY <1>b, <3>1 DEF ResultInv, HasResult, Executed
      <3>4. /\ dep' = [dep EXCEPT
                         ![r.dep].status = IF r.exit = 0 THEN "success" ELSE "failed",
                         ![r.dep].exit = r.exit]
            /\ claims' = claims /\ ran' = ran
        BY <1>1, <2>2 DEF ApplyResult
      <3>5. PICK i \in Deployment, x \in {0, 1} : i = r.dep /\ x = r.exit
        BY <3>1 DEF Exit
      <3>6. Shift({i}, {"running"}, IF x = 0 THEN "success" ELSE "failed")
        BY <1>a, <3>2, <3>4, <3>5 DEF Shift, DeploymentRow
      <3>7. [dep |-> i, claim |-> [k \in Deployment |-> dep[k].claim][i], exit |-> x]
              \in {[dep |-> f.dep, claim |-> f.claim, exit |-> f.exit] : f \in ran}
        BY <3>2, <3>3, <3>5
      <3>8. Ledger!Settle(i, x)
        BY <3>6, <3>7, MoveOf, ShiftKeeps DEF Ledger!Settle
      <3> QED
        BY <3>8 DEF LedgerStep, Ledger!Next
    <2> QED
      BY <1>1, <2>1, <2>2 DEF ApplyResult
  <1>2. ASSUME NEW q \in Checkin, FanOut(q) PROVE LedgerStep
    <2>1. PICK J \in SUBSET Missing(checkin[q].device) : \E row \in [J -> FreeRow] :
            dep' = [i \in Deployment |->
                      IF \E j \in J : row[j] = i
                      THEN LET j == CHOOSE k \in J : row[k] = i
                           IN  NewRow(job[j].pkg, checkin[q].device, j)
                      ELSE dep[i]]
      BY <1>2 DEF FanOut
    <2>2. PICK row \in [J -> FreeRow] :
            dep' = [i \in Deployment |->
                      IF \E j \in J : row[j] = i
                      THEN LET j == CHOOSE k \in J : row[k] = i
                           IN  NewRow(job[j].pkg, checkin[q].device, j)
                      ELSE dep[i]]
      BY <2>1
    <2> DEFINE S == {i \in Deployment : \E j \in J : row[j] = i}
    <2>3. \A i \in S : dep[i].status = "absent" /\ dep[i].claim = 0
      BY <1>b, <2>2 DEF FreeRow, TokensInv
    <2>4. /\ \A i \in S : dep'[i].status = "pending" /\ dep'[i].claim = 0
          /\ \A i \in Deployment \ S : dep'[i] = dep[i]
      BY <2>2 DEF NewRow
    <2>5. claims' = claims /\ ran' = ran
      BY <1>2 DEF FanOut
    <2>6. Shift(S, {"absent"}, "pending")
      BY <2>3, <2>4, <2>5 DEF Shift
    <2> QED
      BY <2>6, ShiftSteps
  <1>3. ASSUME NEW q \in Checkin, ClaimJobs(q) PROVE LedgerStep
    <2> DEFINE C == IF ResponseIgnored(q) THEN {} ELSE Claimable(q)
    <2>1. /\ claims' = IF C = {} THEN claims ELSE claims + 1
          /\ ran' = ran
          /\ dep' = [i \in Deployment |->
                       IF i \in C THEN [dep[i] EXCEPT !.status = "running", !.claim = claims + 1]
                       ELSE dep[i]]
      BY <1>3 DEF ClaimJobs
    <2>2. C \in SUBSET Deployment /\ \A i \in C : dep[i].status = "pending"
      BY <1>a DEF Claimable, CheckinRequest
    <2> HIDE DEF C
    <2>3. CASE C = {}
      BY <2>1, <2>3, StillSteps
    <2>4. CASE C # {}
      <3>1. PICK S \in SUBSET Deployment : S = C
        BY <2>2
      <3>2. /\ \A i \in S : dep'[i].status = "running" /\ dep'[i].claim = claims + 1
            /\ \A i \in Deployment \ S : dep'[i] = dep[i]
            /\ claims' = claims + 1
        BY <1>a, <2>1, <2>4, <3>1 DEF DeploymentRow
      <3>3. [i \in Deployment |-> dep'[i].status]
              = [i \in Deployment |-> IF i \in S THEN "running" ELSE dep[i].status]
        BY <3>2
      <3>4. [i \in Deployment |-> dep'[i].claim]
              = [i \in Deployment |-> IF i \in S THEN claims + 1 ELSE dep[i].claim]
        BY <3>2
      <3>5. Ledger!Start(S)
        BY <2>1, <2>2, <3>1, <3>2, <3>3, <3>4 DEF Ledger!Start, Ledger!Move
      <3> QED
        BY <3>5 DEF LedgerStep, Ledger!Next
    <2> QED
      BY <2>3, <2>4
  <1>4. ASSUME UNCHANGED <<dep, claims, ran>> PROVE LedgerStep
    BY <1>4, StillSteps
  <1> QED
    BY <1>1, <1>2, <1>3, <1>4
    DEF CheckinStep, ResultThrows, ResultsDone, Select, CheckinFails, ReplyUnread, serverVars

LEMMA AgentLedger ==
  ASSUME TypeInv, WorkInv, OnceInv, AgentStep
  PROVE  LedgerStep
  <1>1. ASSUME NEW d \in Device, NEW w \in todo[d], Execute(d, w) PROVE LedgerStep
    <2>1. /\ w \in Delivery /\ w.dep \in Deployment /\ w.claim \in Nat /\ claims \in Nat
      BY DeploymentsAssumption DEF TypeInv, TypeOK, Delivery, Claim
    <2>2. w.claim \in 1..claims
      BY <2>1 DEF WorkInv, InWork
    <2>3. PICK i \in Deployment, c \in 1..claims : i = w.dep /\ c = w.claim
      BY <2>1, <2>2
    <2>4. PICK x \in {0, 1} :
            ran' = ran \cup {[dep |-> i, claim |-> c, content |-> w.content, exit |-> x]}
      BY <1>1, <2>3 DEF Execute, Exit
    <2>5. UNCHANGED <<dep, claims>>
      BY <1>1 DEF Execute, serverVars
    <2>6. \A e \in ran : ~(e.dep = i /\ e.claim = c)
      BY <2>3 DEF OnceInv, Apart, SameAttempt
    <2> DEFINE Outcome(e) == [dep |-> e.dep, claim |-> e.claim, exit |-> e.exit]
               r == [dep |-> i, claim |-> c, content |-> w.content, exit |-> x]
    <2>7. {Outcome(e) : e \in ran'}
            = {Outcome(e) : e \in ran} \cup {[dep |-> i, claim |-> c, exit |-> x]}
      <3>1. Outcome(r) = [dep |-> i, claim |-> c, exit |-> x]
        OBVIOUS
      <3> HIDE DEF Outcome, r
      <3>2. {Outcome(e) : e \in ran'} = {Outcome(e) : e \in ran} \cup {Outcome(r)}
        BY <2>4 DEF r
      <3> QED
        BY <3>1, <3>2
    <2>8. Ledger!Execute(i, c, x)
      BY <2>5, <2>6, <2>7 DEF Ledger!Execute
    <2> QED
      BY <2>8 DEF LedgerStep, Ledger!Next
  <1>2. ASSUME UNCHANGED <<dep, claims, ran>> PROVE LedgerStep
    BY <1>2, StillSteps
  <1> QED
    BY <1>1, <1>2
    DEF AgentStep, SendCheckin, ReceiveReply, GiveUp, SaveAcked, QueueResult, EndCycle, Crash,
        serverVars

LEMMA NoRetryStep ==
  "retry" \notin AdminOps /\ TypeInv /\ NoRetry /\ [Next]_vars => NoRetry'
  <1> SUFFICES ASSUME "retry" \notin AdminOps, TypeInv, NoRetry, [Next]_vars
               PROVE  NoRetry'
    OBVIOUS
  <1>a. admin \in [Admin -> AdminRequest]
    BY DEF TypeInv, TypeOK
  <1>1. CASE PackageStep
    <2>1. \/ admin' = admin
          \/ \E a \in Admin :
               /\ \/ admin'[a].pc \in {"free", "approve", "commit", "job", "rows", "cancelJobs",
                                       "delete"}
                  \/ admin'[a].pc = admin[a].pc
               /\ \A b \in Admin : b # a => admin'[b] = admin[b]
      <3>1. ASSUME NEW a \in Admin, NEW p \in Package, DeployCheck(a, p)
            PROVE  /\ admin'[a].pc \in {"job", "rows"}
                   /\ \A b \in Admin : b # a => admin'[b] = admin[b]
        BY <1>a, <3>1 DEF DeployCheck, NoAdmin
      <3>2. ASSUME NEW a \in Admin, NEW p \in Package,
                   ApproveCheck(a, p) \/ CancelAllRows(a, p) \/ DeleteCheck(a, p)
            PROVE  /\ admin'[a].pc \in {"approve", "cancelJobs", "delete"}
                   /\ \A b \in Admin : b # a => admin'[b] = admin[b]
        BY <1>a, <3>2 DEF ApproveCheck, CancelAllRows, DeleteCheck, NoAdmin
      <3>3. ASSUME NEW a \in Admin, ApproveRefresh(a) \/ DeployJob(a)
            PROVE  /\ admin'[a].pc \in {"commit", "free", "rows"}
                   /\ \A b \in Admin : b # a => admin'[b] = admin[b]
        BY <1>a, <3>3 DEF ApproveRefresh, DeployJob, NoAdmin, AdminRequest
      <3>4. ASSUME NEW a \in Admin, ApproveCommit(a) \/ DeployEnd(a) \/ CancelAllJobs(a)
                                      \/ DeleteCommit(a)
            PROVE  /\ admin'[a].pc = "free"
                   /\ \A b \in Admin : b # a => admin'[b] = admin[b]
        <4>1. admin' = [admin EXCEPT ![a] = NoAdmin]
          BY <3>4 DEF ApproveCommit, DeployEnd, CancelAllJobs, DeleteCommit
        <4> QED
          BY <1>a, <4>1 DEF NoAdmin
      <3>5. ASSUME NEW a \in Admin, NEW d \in Device, DeployRow(a, d)
            PROVE  /\ admin'[a].pc = admin[a].pc
                   /\ \A b \in Admin : b # a => admin'[b] = admin[b]
        BY <1>a, <3>5 DEF DeployRow, AdminRequest
      <3> QED
        BY <1>1, <3>1, <3>2, <3>3, <3>4, <3>5
        DEF PackageStep, CreatePackage, EditPackage, CancelJob
    <2> QED
      BY <2>1 DEF NoRetry
  <1>2. CASE DeploymentStep
    <2>1. ASSUME NEW a \in Admin, NEW i \in Deployment
          PROVE  ~RetryConflict(a, i) /\ ~RetryUpdate(a, i)
      BY DEF NoRetry, RetryConflict, RetryUpdate
    <2> QED
      BY <1>a, <1>2, <2>1
      DEF DeploymentStep, CancelDeployments, RetryBulk, TimeoutStuck, AdminFails, NoRetry, NoAdmin
  <1>3. CASE CheckinStep
    BY <1>3, CheckinsLeave DEF NoRetry
  <1>4. CASE AgentStep
    BY <1>4, AgentsLeave DEF NoRetry
  <1>5. CASE UNCHANGED vars
    BY <1>5 DEF vars, NoRetry
  <1> QED
    BY <1>1, <1>2, <1>3, <1>4, <1>5 DEF Next

\* Rows that no agent older than 2.15.1 executes and nobody retries by id keep
\* the promises of Attempts: an attempt is executed at most once, and shows its
\* own result (agent.js, claim and claim token; loop.go).
THEOREM LedgerIsKept ==
  ASSUME Legacy = {}, "retry" \notin AdminOps
  PROVE  Spec => KeepsTheLedger
  <1>1. Init => Ledger!Init
    BY DEF Init, Ledger!Init
  <1>2. Init => NoRetry
    BY DEF Init, NoRetry, NoAdmin
  <1>3. TypeInv /\ NoRetry /\ [Next]_vars => NoRetry'
    BY NoRetryStep
  <1>4. TypeInv /\ OutcomeInv /\ OnceInv /\ NoRetry /\ [Next]_vars
          => [Ledger!Next]_(Ledger!vars)
    <2> SUFFICES ASSUME TypeInv, OutcomeInv, OnceInv, NoRetry, [Next]_vars
                 PROVE  LedgerStep
      BY DEF LedgerStep, Still
    <2>1. WorkInv /\ TokensInv
      BY DEF OutcomeInv
    <2>2. CASE UNCHANGED vars
      BY <2>2, StillSteps DEF vars
    <2> QED
      BY <2>1, <2>2, PackageLedger, DeploymentLedger, CheckinLedger, AgentLedger DEF Next
  <1> QED
    BY <1>1, <1>2, <1>3, <1>4, TypeInvInductive, QueueInvInductive, OutcomeInvInit,
       OutcomeInvStep, OnceInductive, PTL DEF Spec, KeepsTheLedger, Ledger!Spec
=============================================================================
