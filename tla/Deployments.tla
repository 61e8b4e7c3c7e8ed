----------------------------- MODULE Deployments -----------------------------
(***************************************************************************)
(* The delivery of packages to managed devices: the tables `packages`,      *)
(* `deployments`, `deployment_snapshots` and `deployment_jobs` of the API,  *)
(* the handlers that change them (routes/packages.js, routes/deployments.js,*)
(* the checkin of routes/agent.js, plugins/cleanup.js), and the checkin     *)
(* cycle of the Windows agent (agent-go/loop.go, checkin.go, exec_*.go).    *)
(*                                                                         *)
(* A step is one SQL statement, one message, or one step of the agent:      *)
(* everything two `await`s of a handler separate is separated here. What a  *)
(* transaction of several statements writes appears at its COMMIT; until    *)
(* then the rows it wrote are locked and the others read the old ones.      *)
(***************************************************************************)
EXTENDS Naturals, FiniteSets

CONSTANTS
    Device,       \* push-managed devices, each running one agent
    Package,      \* rows of `packages`
    Deployment,   \* ids of rows of `deployments`
    Job,          \* ids of rows of `deployment_jobs`
    Checkin,      \* slots for POST /checkin requests in progress
    Admin,        \* slots for the multi-statement admin requests in progress
    Legacy,       \* the devices whose agent is older than 2.15.1
    None,         \* SQL NULL
    AdminOps,     \* which admin requests are issued (bounds a run)
    Approvers,    \* bound: slots that admins use to approve
    Deployers,    \* bound: slots that admins use to deploy
    Frozen,       \* bound: packages that no admin edits
    MaxContent,   \* bound: number of edits of a package
    MaxClaims,    \* bound: number of claim timestamps
    MaxFaults,    \* bound: number of failures of the environment
    BatchLimit,   \* LIMIT 10 of the selection
    MaxFollowUp   \* maxFollowUpCheckins

ASSUME DeploymentsAssumption ==
    /\ Legacy \subseteq Device /\ Frozen \subseteq Package
    /\ Approvers \cup Deployers \subseteq Admin
    /\ MaxContent \in Nat \ {0} /\ MaxClaims \in Nat /\ MaxFaults \in Nat
    /\ BatchLimit \in Nat \ {0} /\ MaxFollowUp \in Nat
    /\ None \notin Device \cup Package \cup Job \cup Checkin \cup Nat

VARIABLES
    pkg,       \* packages: status and content (a version number)
    dep,       \* deployments joined with their snapshot
    job,       \* deployment_jobs
    claims,    \* number of claim timestamps (started_at values) issued
    checkin,   \* checkin requests in progress in the API
    admin,     \* admin requests in progress in the API
    apc,       \* agent: where it is in its checkin cycle
    conn,      \* agent: the request whose reply it waits for
    mem,       \* agent: State.PendingDeployments in memory
    disk,      \* agent: State.PendingDeployments in state.json
    todo,      \* agent: deliveries of the last reply still to execute
    unsaved,   \* agent: the result just obtained, not yet in the queue
    follow,    \* agent: re-checkins made in this cycle
    faults,    \* failures so far
    approved,  \* history: contents an admin approved, per package
    ran,       \* history: what agents executed
    lost       \* history: attempts whose delivery or result was lost

serverVars == <<pkg, dep, job, claims>>
agentVars  == <<apc, conn, mem, disk, todo, unsaved, follow>>
vars == <<pkg, dep, job, claims, checkin, admin, apc, conn, mem, disk, todo,
          unsaved, follow, faults, approved, ran, lost>>

-----------------------------------------------------------------------------
\* Types.

Content == 1..MaxContent
Claim   == 0..MaxClaims        \* 0: started_at IS NULL
Exit    == {0, 1}              \* 0, and any other exit code

PackageRow == [status : {"absent", "draft", "approved", "deleted"},
               content : Content]
DeploymentRow ==
    [status : {"absent", "pending", "running", "success", "failed",
               "cancelled", "deleted"},
     pkg : Package \cup {None}, device : Device \cup {None},
     job : Job \cup {None},
     claim : Claim,            \* started_at, the claim token
     snap : Content \cup {0},  \* the snapshot's content, 0: no snapshot row
     exit : Exit \cup {None}]
JobRow == [status : {"absent", "active", "cancelled"},
           pkg : Package \cup {None}]

Attempt  == [dep : Deployment, claim : Claim]
Delivery == [dep : Deployment, claim : Claim, content : Content]
Result   == [dep : Deployment, claim : Claim, exit : Exit]
Run      == [dep : Deployment, claim : Claim, content : Content, exit : Exit]

CheckinRequest ==
    [pc : {"free", "results", "fanout", "select", "claim", "reply"},
     device : Device \cup {None},
     sent : SUBSET Result,         \* deployment_results of the body
     results : SUBSET Result,      \* those not yet processed
     follow : BOOLEAN,             \* the agent's post-deployment re-checkin
     offer : BOOLEAN,              \* agent_update is in the reply
     picked : SUBSET Deployment,   \* ids selected for this reply
     jobs : SUBSET Delivery]       \* `deployments` of the reply

AdminRequest ==
    [pc : {"free", "approve", "commit", "job", "rows", "cancelJobs", "delete",
           "conflict", "requeue"},
     pkg : Package \cup {None}, targets : SUBSET Device,
     job : Job \cup {None}, dep : SUBSET Deployment]

NoCheckin == [pc |-> "free", device |-> None, sent |-> {}, results |-> {},
              follow |-> FALSE, offer |-> FALSE, picked |-> {}, jobs |-> {}]
NoAdmin == [pc |-> "free", pkg |-> None, targets |-> {}, job |-> None,
            dep |-> {}]

\* The attempt a delivery, a result or an execution belongs to.
Key(x) == [dep |-> x.dep, claim |-> x.claim]
Keys(S) == {Key(x) : x \in S}

TypeOK ==
    /\ pkg \in [Package -> PackageRow]
    /\ dep \in [Deployment -> DeploymentRow]
    /\ job \in [Job -> JobRow]
    /\ claims \in Claim
    /\ checkin \in [Checkin -> CheckinRequest]
    /\ admin \in [Admin -> AdminRequest]
    /\ apc \in [Device -> {"idle", "waiting", "acked", "working", "recheck"}]
    /\ conn \in [Device -> Checkin \cup {None}]
    /\ mem \in [Device -> SUBSET Result]
    /\ disk \in [Device -> SUBSET Result]
    /\ todo \in [Device -> SUBSET Delivery]
    /\ unsaved \in [Device -> SUBSET Result]
    /\ follow \in [Device -> 0..MaxFollowUp]
    /\ faults \in 0..MaxFaults
    /\ approved \in [Package -> SUBSET Content]
    /\ ran \in SUBSET Run
    /\ lost \in SUBSET Attempt

Init ==
    /\ pkg = [p \in Package |-> [status |-> "absent", content |-> 1]]
    /\ dep = [i \in Deployment |->
                [status |-> "absent", pkg |-> None, device |-> None,
                 job |-> None, claim |-> 0, snap |-> 0, exit |-> None]]
    /\ job = [j \in Job |-> [status |-> "absent", pkg |-> None]]
    /\ claims = 0
    /\ checkin = [q \in Checkin |-> NoCheckin]
    /\ admin = [a \in Admin |-> NoAdmin]
    /\ apc = [d \in Device |-> "idle"]
    /\ conn = [d \in Device |-> None]
    /\ mem = [d \in Device |-> {}]
    /\ disk = [d \in Device |-> {}]
    /\ todo = [d \in Device |-> {}]
    /\ unsaved = [d \in Device |-> {}]
    /\ follow = [d \in Device |-> 0]
    /\ faults = 0
    /\ approved = [p \in Package |-> {}]
    /\ ran = {}
    /\ lost = {}

-----------------------------------------------------------------------------
\* Tables.

IsApproved(p) == pkg[p].status = "approved"
Exists(p) == pkg[p].status \in {"draft", "approved"}

\* The rows the partial unique index deployments_pending_unique covers.
Pending(p, d) ==
    {i \in Deployment : /\ dep[i].status = "pending"
                        /\ dep[i].pkg = p /\ dep[i].device = d}

\* The snapshot a statement writes: the package's content if it is approved
\* when the statement reads it, else none.
SnapshotOf(p) == IF IsApproved(p) THEN pkg[p].content ELSE 0

\* INSERT INTO deployments ... with the snapshot of the same statement.
NewRow(p, d, j) ==
    [status |-> "pending", pkg |-> p, device |-> d, job |-> j,
     claim |-> 0, snap |-> SnapshotOf(p), exit |-> None]

\* UPDATE of a retry: back in the queue with the approved content.
Requeued(i) ==
    [dep[i] EXCEPT !.status = "pending", !.exit = None, !.claim = 0,
                   !.snap = SnapshotOf(dep[i].pkg)]

\* A failure of the environment, within the bound.
Fault == faults < MaxFaults /\ faults' = faults + 1

FreeRow == {i \in Deployment : dep[i].status = "absent"}

-----------------------------------------------------------------------------
\* Packages (routes/packages.js).

CreatePackage(p) ==
    /\ pkg[p].status = "absent"
    /\ pkg' = [pkg EXCEPT ![p].status = "draft"]
    /\ UNCHANGED <<dep, job, claims, checkin, admin, agentVars, faults, approved,
                   ran, lost>>

\* Mutant: an edit leaves the approval in place.
EditedKeepsStatus(p) == [pkg[p] EXCEPT !.content = @ + 1]

Edited(p) == [status |-> "draft", content |-> pkg[p].content + 1]

\* The package's row is locked by an approval that has not committed.
Locked(p) == \E a \in Admin : admin[a].pc = "commit" /\ admin[a].pkg = p

\* PATCH /:id: new content, and an approved package is a draft again.
EditPackage(p) ==
    /\ Exists(p) /\ ~Locked(p) /\ pkg[p].content < MaxContent
    /\ pkg' = [pkg EXCEPT ![p] = Edited(p)]
    /\ UNCHANGED <<dep, job, claims, checkin, admin, agentVars, faults, approved,
                   ran, lost>>

\* POST /:id/approve: the SELECT; then a transaction that approves, and writes
\* the snapshots of the deployments it sees pending; then its COMMIT.
ApproveCheck(a, p) ==
    /\ admin[a].pc = "free" /\ pkg[p].status = "draft"
    /\ admin' = [admin EXCEPT ![a] = [NoAdmin EXCEPT !.pc = "approve", !.pkg = p]]
    /\ UNCHANGED <<serverVars, checkin, agentVars, faults, approved, ran, lost>>

ApproveRefresh(a) ==
    LET p == admin[a].pkg IN
    /\ admin[a].pc = "approve"
    /\ \/ /\ Exists(p) /\ ~Locked(p)
          /\ admin' = [admin EXCEPT
                         ![a].pc = "commit",
                         ![a].dep = {i \in Deployment : /\ dep[i].status = "pending"
                                                        /\ dep[i].pkg = p}]
       \/ /\ ~Exists(p)
          /\ admin' = [admin EXCEPT ![a] = NoAdmin]
    /\ UNCHANGED <<serverVars, checkin, agentVars, faults, approved, ran, lost>>

\* Mutant: the approval does not refresh the queue.
SnapshotsKept(a) == dep

RefreshedSnapshots(a) ==
    [i \in Deployment |->
        IF i \in admin[a].dep
        THEN [dep[i] EXCEPT !.snap = pkg[admin[a].pkg].content] ELSE dep[i]]

ApproveCommit(a) ==
    LET p == admin[a].pkg IN
    /\ admin[a].pc = "commit"
    /\ pkg' = [pkg EXCEPT ![p].status = "approved"]
    /\ dep' = RefreshedSnapshots(a)
    /\ approved' = [approved EXCEPT ![p] = @ \cup {pkg[p].content}]
    /\ admin' = [admin EXCEPT ![a] = NoAdmin]
    /\ UNCHANGED <<job, claims, checkin, agentVars, faults, ran, lost>>

\* POST /:id/deploy: the SELECT and the resolved targets; then, unless the
\* scope is `device`, the job; then one INSERT per target. A run without ids
\* of jobs has no other scope.
DeployCheck(a, p) ==
    /\ admin[a].pc = "free" /\ IsApproved(p)
    /\ \E T \in SUBSET Device, scoped \in BOOLEAN :
         /\ T # {} \/ scoped
         /\ scoped => Job # {}
         /\ admin' = [admin EXCEPT ![a] =
                        [NoAdmin EXCEPT !.pc = IF scoped THEN "job" ELSE "rows",
                                        !.pkg = p, !.targets = T]]
    /\ UNCHANGED <<serverVars, checkin, agentVars, faults, approved, ran, lost>>

DeployJob(a) ==
    LET p == admin[a].pkg IN
    /\ admin[a].pc = "job"
    /\ \/ \E j \in Job :
            /\ Exists(p) /\ job[j].status = "absent"
            /\ job' = [job EXCEPT ![j] = [status |-> "active", pkg |-> p]]
            /\ admin' = [admin EXCEPT ![a].pc = "rows", ![a].job = j]
       \/ \* foreign key: the package is gone (or the run has no job id left)
          /\ ~Exists(p) \/ \A j \in Job : job[j].status # "absent"
          /\ admin' = [admin EXCEPT ![a] = NoAdmin]
          /\ UNCHANGED job
    /\ UNCHANGED <<pkg, dep, claims, checkin, agentVars, faults, approved, ran, lost>>

DeployRow(a, d) ==
    LET p == admin[a].pkg IN
    /\ admin[a].pc = "rows" /\ d \in admin[a].targets
    /\ \/ \E i \in FreeRow :
            /\ Exists(p) /\ Pending(p, d) = {}
            /\ dep' = [dep EXCEPT ![i] = NewRow(p, d, admin[a].job)]
       \/ \* ON CONFLICT DO NOTHING, or an error the handler skips
          /\ ~Exists(p) \/ Pending(p, d) # {} \/ FreeRow = {}
          /\ UNCHANGED dep
    /\ admin' = [admin EXCEPT ![a].targets = @ \ {d}]
    /\ UNCHANGED <<pkg, job, claims, checkin, agentVars, faults, approved, ran, lost>>

DeployEnd(a) ==
    /\ admin[a].pc = "rows" /\ admin[a].targets = {}
    /\ admin' = [admin EXCEPT ![a] = NoAdmin]
    /\ UNCHANGED <<serverVars, checkin, agentVars, faults, approved, ran, lost>>

\* POST /:id/cancel-all: two separate statements.
CancelAllRows(a, p) ==
    /\ admin[a].pc = "free" /\ Exists(p)
    /\ dep' = [i \in Deployment |->
                 IF dep[i].status = "pending" /\ dep[i].pkg = p
                 THEN [dep[i] EXCEPT !.status = "cancelled"] ELSE dep[i]]
    /\ admin' = [admin EXCEPT ![a] = [NoAdmin EXCEPT !.pc = "cancelJobs", !.pkg = p]]
    /\ UNCHANGED <<pkg, job, claims, checkin, agentVars, faults, approved, ran, lost>>

CancelAllJobs(a) ==
    /\ admin[a].pc = "cancelJobs"
    /\ job' = [j \in Job |->
                 IF job[j].status = "active" /\ job[j].pkg = admin[a].pkg
                 THEN [job[j] EXCEPT !.status = "cancelled"] ELSE job[j]]
    /\ admin' = [admin EXCEPT ![a] = NoAdmin]
    /\ UNCHANGED <<pkg, dep, claims, checkin, agentVars, faults, approved, ran, lost>>

\* POST /jobs/:jobId/cancel
CancelJob(j) ==
    /\ job[j].status = "active"
    /\ job' = [job EXCEPT ![j].status = "cancelled"]
    /\ UNCHANGED <<pkg, dep, claims, checkin, admin, agentVars, faults, approved,
                   ran, lost>>

\* DELETE /:id: a check, then the DELETE and its cascades.
DeleteCheck(a, p) ==
    /\ admin[a].pc = "free" /\ Exists(p)
    /\ \A i \in Deployment :
         dep[i].pkg = p => dep[i].status \notin {"pending", "running"}
    /\ admin' = [admin EXCEPT ![a] = [NoAdmin EXCEPT !.pc = "delete", !.pkg = p]]
    /\ UNCHANGED <<serverVars, checkin, agentVars, faults, approved, ran, lost>>

DeleteCommit(a) ==
    LET p == admin[a].pkg IN
    /\ admin[a].pc = "delete" /\ ~Locked(p)
    /\ pkg' = [pkg EXCEPT ![p].status = "deleted"]
    /\ dep' = [i \in Deployment |->
                 IF dep[i].pkg = p
                 THEN [dep[i] EXCEPT !.status = "deleted", !.snap = 0]
                 ELSE dep[i]]
    /\ job' = [j \in Job |->
                 IF job[j].pkg = p THEN [job[j] EXCEPT !.status = "cancelled"]
                 ELSE job[j]]
    /\ admin' = [admin EXCEPT ![a] = NoAdmin]
    /\ UNCHANGED <<claims, checkin, agentVars, faults, approved, ran, lost>>

-----------------------------------------------------------------------------
\* Deployments (routes/deployments.js) and the periodic timeout.

\* PATCH /:id/cancel (one id) and POST /cancel-bulk: only what is pending.
CancelDeployments(S) ==
    /\ \E i \in S : dep[i].status = "pending"
    /\ dep' = [i \in Deployment |->
                 IF i \in S /\ dep[i].status = "pending"
                 THEN [dep[i] EXCEPT !.status = "cancelled"] ELSE dep[i]]
    /\ UNCHANGED <<pkg, job, claims, checkin, admin, agentVars, faults, approved,
                   ran, lost>>

\* POST /retry-bulk: one statement; two ids of the same (package, device)
\* violate the unique index, and the statement changes nothing.
Retryable(S) ==
    {i \in S : /\ dep[i].status \in {"failed", "cancelled"}
               /\ IsApproved(dep[i].pkg)
               /\ Pending(dep[i].pkg, dep[i].device) = {}}

RetryBulk(S) ==
    LET U == Retryable(S) IN
    /\ U # {}
    /\ \A i, k \in U :
         dep[i].pkg = dep[k].pkg /\ dep[i].device = dep[k].device => i = k
    /\ dep' = [i \in Deployment |-> IF i \in U THEN Requeued(i) ELSE dep[i]]
    /\ UNCHANGED <<pkg, job, claims, checkin, admin, agentVars, faults, approved,
                   ran, lost>>

\* POST /:id/retry: two SELECTs, then an UPDATE that does not look at the
\* status again.
RetryRead(a, i) ==
    /\ admin[a].pc = "free" /\ dep[i].status \in {"failed", "cancelled"}
    /\ admin' = [admin EXCEPT ![a] = [NoAdmin EXCEPT !.pc = "conflict", !.dep = {i}]]
    /\ UNCHANGED <<serverVars, checkin, agentVars, faults, approved, ran, lost>>

RetryConflict(a, i) ==
    /\ admin[a].pc = "conflict" /\ i \in admin[a].dep
    /\ admin' = [admin EXCEPT ![a] =
                   IF Pending(dep[i].pkg, dep[i].device) = {}
                   THEN [@ EXCEPT !.pc = "requeue"] ELSE NoAdmin]
    /\ UNCHANGED <<serverVars, checkin, agentVars, faults, approved, ran, lost>>

RetryUpdate(a, i) ==
    /\ admin[a].pc = "requeue" /\ i \in admin[a].dep
    /\ \/ /\ dep[i].status # "deleted" /\ IsApproved(dep[i].pkg)
          /\ Pending(dep[i].pkg, dep[i].device) \subseteq {i}
          /\ dep' = [dep EXCEPT ![i] = Requeued(i)]
       \/ \* 409, or the unique index refuses the UPDATE
          /\ \/ dep[i].status = "deleted"
             \/ ~IsApproved(dep[i].pkg)
             \/ ~(Pending(dep[i].pkg, dep[i].device) \subseteq {i})
          /\ UNCHANGED dep
    /\ admin' = [admin EXCEPT ![a] = NoAdmin]
    /\ UNCHANGED <<pkg, job, claims, checkin, agentVars, faults, approved, ran, lost>>

\* timeoutStuckDeployments: the claims older than 60 minutes, those up to c,
\* fail without an exit code. Ten installations may last longer than that.
TimeoutStuck(c) ==
    LET S == {i \in Deployment : dep[i].status = "running" /\ dep[i].claim <= c} IN
    /\ S # {}
    /\ dep' = [i \in Deployment |->
                 IF i \in S THEN [dep[i] EXCEPT !.status = "failed"] ELSE dep[i]]
    /\ UNCHANGED <<pkg, job, claims, checkin, admin, agentVars, faults, approved,
                   ran, lost>>

\* The request throws or the API stops: an open transaction is rolled back,
\* what was written before stays.
AdminFails(a) ==
    /\ admin[a].pc # "free"
    /\ Fault
    /\ admin' = [admin EXCEPT ![a] = NoAdmin]
    /\ UNCHANGED <<serverVars, checkin, agentVars, approved, ran, lost>>

-----------------------------------------------------------------------------
\* The checkin handler (routes/agent.js), statement by statement.

\* Mutant: a result settles whatever attempt is running.
TokenIgnored(r, d) == TRUE

\* Mutant: the token comparison never succeeds.
TokenRefused(r, d) == FALSE

\* The token the UPDATE compares: started_at, unless the agent sends none.
TokenMatches(r, d) == d \in Legacy \/ dep[r.dep].claim = r.claim

\* Mutant: the UPDATE does not require status = 'running'.
AppliesLate(r, d) == dep[r.dep].device = d /\ TokenMatches(r, d)

Applies(r, d) ==
    /\ dep[r.dep].status = "running" /\ dep[r.dep].device = d
    /\ TokenMatches(r, d)

ApplyResult(q, r) ==
    /\ checkin[q].pc = "results" /\ r \in checkin[q].results
    /\ dep' = IF Applies(r, checkin[q].device)
              THEN [dep EXCEPT
                      ![r.dep].status = IF r.exit = 0 THEN "success" ELSE "failed",
                      ![r.dep].exit = r.exit]
              ELSE dep
    /\ checkin' = [checkin EXCEPT ![q].results = @ \ {r}]
    /\ UNCHANGED <<pkg, job, claims, admin, agentVars, faults, approved, ran,
                   lost>>

\* The UPDATE throws: it is logged, and the checkin goes on.
ResultThrows(q, r) ==
    /\ checkin[q].pc = "results" /\ r \in checkin[q].results
    /\ Fault
    /\ lost' = lost \cup {Key(r)}
    /\ checkin' = [checkin EXCEPT ![q].results = @ \ {r}]
    /\ UNCHANGED <<serverVars, admin, agentVars, approved, ran>>

ResultsDone(q) ==
    /\ checkin[q].pc = "results" /\ checkin[q].results = {}
    /\ checkin' = [checkin EXCEPT ![q].pc = "fanout"]
    /\ UNCHANGED <<serverVars, admin, agentVars, faults, approved, ran, lost>>

\* The jobs of which the fan-out may insert the row of device d.
Missing(d) ==
    {j \in Job : /\ job[j].status = "active" /\ IsApproved(job[j].pkg)
                 /\ \A i \in Deployment : ~(dep[i].job = j /\ dep[i].device = d)
                 /\ Pending(job[j].pkg, d) = {}}

\* One statement for all the jobs J whose scope holds the device. Of two
\* jobs of the same package, ON CONFLICT DO NOTHING inserts one.
FanOut(q) ==
    LET d == checkin[q].device IN
    /\ checkin[q].pc = "fanout"
    /\ \E J \in SUBSET Missing(d) : \E row \in [J -> FreeRow] :
         /\ \A j, k \in J :
              row[j] = row[k] \/ job[j].pkg = job[k].pkg => j = k
         /\ dep' = [i \in Deployment |->
                      IF \E j \in J : row[j] = i
                      THEN LET j == CHOOSE k \in J : row[k] = i
                           IN  NewRow(job[j].pkg, d, j)
                      ELSE dep[i]]
    /\ checkin' = [checkin EXCEPT ![q].pc = "select"]
    /\ UNCHANGED <<pkg, job, claims, admin, agentVars, faults, approved, ran, lost>>

\* The selection: nothing outside the maintenance window; else the first
\* BatchLimit eligible rows, those with a snapshot first.
Eligible(d) ==
    {i \in Deployment : /\ dep[i].status = "pending" /\ dep[i].device = d
                        /\ IsApproved(dep[i].pkg)}

\* Mutant: the rows without a snapshot are not put last.
IsAnyBatch(B, d) ==
    /\ B \subseteq Eligible(d)
    /\ \/ Cardinality(B) = BatchLimit
       \/ Cardinality(B) < BatchLimit /\ B = Eligible(d)

IsBatch(B, d) ==
    /\ B \subseteq Eligible(d)
    /\ \/ Cardinality(B) = BatchLimit
       \/ Cardinality(B) < BatchLimit /\ B = Eligible(d)
    /\ (\E i \in B : dep[i].snap = 0)
         => \A k \in Eligible(d) : dep[k].snap # 0 => k \in B

Select(q, window, offer) ==
    LET d == checkin[q].device IN
    /\ checkin[q].pc = "select"
    /\ offer => d \in Legacy        \* matters to no other agent here
    /\ \E B \in SUBSET Eligible(d) :
         /\ IsBatch(B, d)
         /\ checkin' = [checkin EXCEPT
                          ![q].pc = "claim", ![q].offer = offer,
                          ![q].picked = IF window
                                        THEN {i \in B : dep[i].snap # 0}
                                        ELSE {}]
    /\ UNCHANGED <<serverVars, admin, agentVars, faults, approved, ran, lost>>

\* Mutant: work is claimed for a reply the agent will drop.
NeverIgnored(q) == FALSE

\* Agents older than 2.15.3 drop a reply that offers an update, and the
\* reply to the checkin that carries their results: claim nothing for it.
ResponseIgnored(q) ==
    /\ checkin[q].device \in Legacy
    /\ checkin[q].offer \/ checkin[q].sent # {}

\* Mutant: the claim trusts the selection that the row is still pending.
ClaimableUnqueued(q) ==
    {i \in checkin[q].picked : dep[i].snap # 0 /\ IsApproved(dep[i].pkg)}

\* Mutant: the claim trusts the selection that the package is approved.
ClaimableUnapproved(q) ==
    {i \in checkin[q].picked : dep[i].status = "pending" /\ dep[i].snap # 0}

Claimable(q) ==
    {i \in checkin[q].picked : /\ dep[i].status = "pending"
                               /\ dep[i].snap # 0
                               /\ IsApproved(dep[i].pkg)}

ClaimJobs(q) ==
    LET C == IF ResponseIgnored(q) THEN {} ELSE Claimable(q) IN
    /\ checkin[q].pc = "claim"
    /\ C # {} => claims < MaxClaims
    /\ claims' = IF C = {} THEN claims ELSE claims + 1
    /\ dep' = [i \in Deployment |->
                 IF i \in C THEN [dep[i] EXCEPT !.status = "running",
                                                !.claim = claims + 1]
                 ELSE dep[i]]
    /\ checkin' = [checkin EXCEPT
                     ![q].pc = "reply",
                     ![q].jobs = {[dep |-> i, claim |-> claims + 1,
                                   content |-> dep[i].snap] : i \in C}]
    /\ UNCHANGED <<pkg, job, admin, agentVars, faults, approved, ran, lost>>

\* The handler throws, the API stops, or the reply is lost on its way.
CheckinFails(q) ==
    /\ checkin[q].pc # "free"
    /\ Fault
    /\ checkin' = [checkin EXCEPT ![q] = NoCheckin]
    /\ lost' = lost \cup Keys(checkin[q].jobs)
    /\ UNCHANGED <<serverVars, admin, agentVars, approved, ran>>

\* The agent no longer waits for the reply.
ReplyUnread(q) ==
    /\ checkin[q].pc = "reply" /\ conn[checkin[q].device] # q
    /\ checkin' = [checkin EXCEPT ![q] = NoCheckin]
    /\ lost' = lost \cup Keys(checkin[q].jobs)
    /\ UNCHANGED <<serverVars, admin, agentVars, faults, approved, ran>>

-----------------------------------------------------------------------------
\* The agent (loop.go, checkin.go, exec_common.go).

\* Mutant: one re-checkin too many.
RecheckAllowedTwice(d) == follow[d] <= MaxFollowUp

RecheckAllowed(d) == follow[d] < MaxFollowUp

\* DoCheckin: the queue's first results travel without leaving it.
SendCheckin(d, q) ==
    /\ apc[d] = "idle" \/ (apc[d] = "recheck" /\ RecheckAllowed(d))
    /\ checkin[q].pc = "free" /\ \A e \in Device : conn[e] # q
    /\ \E S \in SUBSET mem[d] :
         /\ mem[d] # {} => S # {}
         /\ checkin' = [checkin EXCEPT ![q] =
                          [NoCheckin EXCEPT !.pc = "results", !.device = d,
                             !.sent = S, !.results = S,
                             !.follow = (apc[d] = "recheck" /\ d \in Legacy)]]
    /\ follow' = [follow EXCEPT ![d] = IF apc[d] = "recheck" THEN @ + 1 ELSE 0]
    /\ apc' = [apc EXCEPT ![d] = "waiting"]
    /\ conn' = [conn EXCEPT ![d] = q]
    /\ UNCHANGED <<serverVars, admin, mem, disk, todo, unsaved, faults,
                   approved, ran, lost>>

\* The 60 s timeout, a network error or a status other than 200.
GiveUp(d) ==
    /\ apc[d] = "waiting"
    /\ IF checkin[conn[d]].pc = "free" THEN UNCHANGED faults ELSE Fault
    /\ apc' = [apc EXCEPT ![d] = "idle"]
    /\ conn' = [conn EXCEPT ![d] = None]
    /\ UNCHANGED <<serverVars, checkin, admin, mem, disk, todo, unsaved,
                   follow, approved, ran, lost>>

\* An agent older than 2.15.3 forgets the work of some replies.
WorkOf(d, m) == IF d \in Legacy /\ (m.offer \/ m.follow) THEN {} ELSE m.jobs

\* ackPendingResults, in memory, and the work of the reply.
ReceiveReply(d, q) ==
    LET m == checkin[q] IN
    /\ apc[d] = "waiting" /\ conn[d] = q
    /\ m.pc = "reply" /\ m.device = d
    /\ mem' = [mem EXCEPT ![d] = @ \ m.sent]
    /\ todo' = [todo EXCEPT ![d] = WorkOf(d, m)]
    /\ apc' = [apc EXCEPT ![d] = "acked"]
    /\ conn' = [conn EXCEPT ![d] = None]
    /\ checkin' = [checkin EXCEPT ![q] = NoCheckin]
    /\ UNCHANGED <<serverVars, admin, disk, unsaved, follow, faults, approved,
                   ran, lost>>

\* st.Save() after an accepted checkin; a failed write is only logged.
SaveAcked(d) ==
    /\ apc[d] = "acked"
    /\ \/ disk' = [disk EXCEPT ![d] = mem[d]] /\ UNCHANGED faults
       \/ Fault /\ UNCHANGED disk
    /\ apc' = [apc EXCEPT ![d] = IF todo[d] = {} THEN "idle" ELSE "working"]
    /\ UNCHANGED <<serverVars, checkin, admin, conn, mem, todo, unsaved,
                   follow, approved, ran, lost>>

\* The installation itself.
Execute(d, w) ==
    /\ apc[d] = "working" /\ unsaved[d] = {} /\ w \in todo[d]
    /\ \E x \in Exit :
         /\ ran' = ran \cup {[dep |-> w.dep, claim |-> w.claim,
                              content |-> w.content, exit |-> x]}
         /\ unsaved' = [unsaved EXCEPT ![d] =
                          {[dep |-> w.dep, claim |-> w.claim, exit |-> x]}]
    /\ todo' = [todo EXCEPT ![d] = @ \ {w}]
    /\ UNCHANGED <<serverVars, checkin, admin, apc, conn, mem, disk, follow,
                   faults, approved, lost>>

\* resultSink: the result is queued and saved before the next installation;
\* after the last one, the agent checks in again to report.
QueueResult(d) ==
    /\ apc[d] = "working" /\ unsaved[d] # {}
    /\ mem' = [mem EXCEPT ![d] = @ \cup unsaved[d]]
    /\ \/ disk' = [disk EXCEPT ![d] = mem[d] \cup unsaved[d]] /\ UNCHANGED faults
       \/ Fault /\ UNCHANGED disk
    /\ unsaved' = [unsaved EXCEPT ![d] = {}]
    /\ apc' = [apc EXCEPT ![d] = IF todo[d] = {} THEN "recheck" ELSE "working"]
    /\ UNCHANGED <<serverVars, checkin, admin, conn, todo, follow, approved,
                   ran, lost>>

\* maxFollowUpCheckins is reached: the results wait for the next cycle.
EndCycle(d) ==
    /\ apc[d] = "recheck" /\ ~RecheckAllowed(d)
    /\ apc' = [apc EXCEPT ![d] = "idle"]
    /\ UNCHANGED <<serverVars, checkin, admin, conn, mem, disk, todo, unsaved,
                   follow, faults, approved, ran, lost>>

\* The agent or its machine stops: what is not in state.json is gone.
Crash(d) ==
    /\ Fault
    /\ lost' = lost \cup Keys(todo[d]) \cup Keys(unsaved[d])
                    \cup Keys(mem[d] \ disk[d])
    /\ mem' = [mem EXCEPT ![d] = disk[d]]
    /\ todo' = [todo EXCEPT ![d] = {}]
    /\ unsaved' = [unsaved EXCEPT ![d] = {}]
    /\ follow' = [follow EXCEPT ![d] = 0]
    /\ apc' = [apc EXCEPT ![d] = "idle"]
    /\ conn' = [conn EXCEPT ![d] = None]
    /\ UNCHANGED <<serverVars, checkin, admin, disk, approved, ran>>

-----------------------------------------------------------------------------
PackageStep ==
    \/ \E p \in Package :
         \/ CreatePackage(p)
         \/ "edit" \in AdminOps /\ p \notin Frozen /\ EditPackage(p)
         \/ \E a \in Admin :
              \/ a \in Approvers /\ ApproveCheck(a, p)
              \/ "deploy" \in AdminOps /\ a \in Deployers /\ DeployCheck(a, p)
              \/ "cancelAll" \in AdminOps /\ CancelAllRows(a, p)
              \/ "delete" \in AdminOps /\ DeleteCheck(a, p)
    \/ \E a \in Admin :
         \/ ApproveRefresh(a)
         \/ ApproveCommit(a)
         \/ DeployJob(a)
         \/ \E d \in Device : DeployRow(a, d)
         \/ DeployEnd(a)
         \/ CancelAllJobs(a)
         \/ DeleteCommit(a)
    \/ "cancelJob" \in AdminOps /\ \E j \in Job : CancelJob(j)

DeploymentStep ==
    \/ "cancel" \in AdminOps /\ \E S \in SUBSET Deployment : CancelDeployments(S)
    \/ "retryBulk" \in AdminOps /\ \E S \in SUBSET Deployment : RetryBulk(S)
    \/ \E a \in Admin, i \in Deployment :
         \/ "retry" \in AdminOps /\ RetryRead(a, i)
         \/ RetryConflict(a, i)
         \/ RetryUpdate(a, i)
    \/ \E c \in 1..claims : TimeoutStuck(c)
    \/ \E a \in Admin : AdminFails(a)

CheckinStep ==
    \E q \in Checkin :
      \/ \E r \in checkin[q].results : ApplyResult(q, r) \/ ResultThrows(q, r)
      \/ ResultsDone(q)
      \/ FanOut(q)
      \/ \E window, offer \in BOOLEAN : Select(q, window, offer)
      \/ ClaimJobs(q)
      \/ CheckinFails(q)
      \/ ReplyUnread(q)

AgentStep ==
    \E d \in Device :
      \/ \E q \in Checkin : SendCheckin(d, q) \/ ReceiveReply(d, q)
      \/ GiveUp(d)
      \/ SaveAcked(d)
      \/ \E w \in todo[d] : Execute(d, w)
      \/ QueueResult(d)
      \/ EndCycle(d)
      \/ Crash(d)

Next == PackageStep \/ DeploymentStep \/ CheckinStep \/ AgentStep

Spec == Init /\ [][Next]_vars

(***************************************************************************)
(* The API answers the requests it accepted, an agent that is up goes on    *)
(* with its cycle and checks in every 15 minutes, and the maintenance       *)
(* window opens again and again. Failures are bounded by MaxFaults; nothing *)
(* forces an admin to act, nor the timeout to strike.                       *)
(***************************************************************************)
Fairness ==
    /\ \A q \in Checkin :
         /\ WF_vars(\E r \in checkin[q].results : ApplyResult(q, r))
         /\ WF_vars(ResultsDone(q) \/ FanOut(q) \/ ClaimJobs(q) \/ ReplyUnread(q))
         /\ WF_vars(\E window, offer \in BOOLEAN : Select(q, window, offer))
    /\ \A d \in Device :
         /\ WF_vars(\E q \in Checkin : SendCheckin(d, q))
         /\ WF_vars(\E q \in Checkin : ReceiveReply(d, q))
         /\ WF_vars(GiveUp(d))
         /\ WF_vars(SaveAcked(d))
         /\ WF_vars((\E w \in todo[d] : Execute(d, w)) \/ QueueResult(d))
         /\ WF_vars(EndCycle(d))
         /\ SF_vars(\E q \in Checkin : /\ checkin[q].device = d
                                      /\ Select(q, TRUE, FALSE))

FairSpec == Spec /\ Fairness

-----------------------------------------------------------------------------
\* Properties.

\* The outcome an up-to-date agent's device shows is the outcome of the
\* attempt in progress, run with the very content of the row's snapshot: a
\* result of an earlier attempt, delivered late or twice, never settles a
\* later one (agent.js, claim token).
OutcomeIsTheAttempts ==
    \A i \in Deployment :
      /\ dep[i].status \in {"success", "failed"}
      /\ dep[i].exit # None
      /\ dep[i].device \notin Legacy
      => [dep |-> i, claim |-> dep[i].claim, content |-> dep[i].snap,
          exit |-> dep[i].exit] \in ran

\* Nothing runs on a device that an admin has not approved as it runs, for
\* every order of edits, approvals, queueings, retries and claims
\* (lib/deployment-snapshots.js).
OnlyApprovedRuns ==
    \A e \in ran : e.content \in approved[dep[e.dep].pkg]

\* While a package is approved, none of its pending deployments keeps the
\* snapshot of another content: what was approved in between replaced it
\* (packages.js, approve, deploy; agent.js, fan-out; deployments.js, retry).
NoStaleSnapshot ==
    \A i \in Deployment :
      dep[i].status = "pending" /\ IsApproved(dep[i].pkg)
        => dep[i].snap \in {0, pkg[dep[i].pkg].content}

\* A running deployment is in a reply on its way, in an agent's work list,
\* or executed with its result still queued; otherwise its delivery or its
\* result was lost, and only the timeout will end it (agent.js, claim;
\* loop.go, checkin.go, results leave the queue once accepted).
RunningIsAccountedFor ==
    \A i \in Deployment : dep[i].status = "running" =>
      LET k == [dep |-> i, claim |-> dep[i].claim] IN
      \/ k \in lost
      \/ \E q \in Checkin : k \in Keys(checkin[q].jobs)
      \/ \E d \in Device : k \in Keys(todo[d]) \cup Keys(unsaved[d])
                                 \cup Keys(mem[d])

\* A claim is never taken over while it is running: two simultaneous
\* checkins of a device do not both obtain a deployment (agent.js, claim).
ClaimedOnce ==
    [][\A i \in Deployment :
         dep[i].status = "running" /\ dep'[i].status = "running"
           => dep'[i].claim = dep[i].claim]_vars

\* What leaves the queue for a device is, at that instant, the approved
\* content of an approved package, although the selection was made earlier
\* (agent.js, claim).
ClaimsWhatIsApproved ==
    [][\A i \in Deployment :
         dep[i].status = "pending" /\ dep'[i].status = "running"
           => /\ IsApproved(dep[i].pkg)
              /\ dep[i].snap = pkg[dep[i].pkg].content]_vars

\* A deployment that has the snapshot of a package that stays approved is
\* claimed, unless an admin withdraws it: no row starves, although the batch is
\* bounded and rows that nothing will claim wait in it as well, those queued
\* between the refresh of an approval and its COMMIT (packages.js, approve and
\* deploy; agent.js, ORDER BY of the selection).
PendingIsClaimed ==
    \A i \in Deployment :
      LET waits == /\ dep[i].status = "pending" /\ dep[i].snap # 0
                   /\ IsApproved(dep[i].pkg)
      IN  waits ~> ~waits

\* Without any help of the timeout, a claim that was not lost ends: it is
\* executed, and its result reaches the row (loop.go, checkin.go, agent.js).
RunningEndsUnlessLost ==
    \A i \in Deployment :
      dep[i].status = "running"
        ~> \/ dep[i].status # "running"
           \/ [dep |-> i, claim |-> dep[i].claim] \in lost

-----------------------------------------------------------------------------
\* What a deployment promises to whoever reads its row.
Ledger ==
    INSTANCE Attempts WITH
        status <- [i \in Deployment |-> dep[i].status],
        claim  <- [i \in Deployment |-> dep[i].claim],
        clock  <- claims,
        done   <- {[dep |-> e.dep, claim |-> e.claim, exit |-> e.exit] : e \in ran}

KeepsTheLedger == Ledger!Spec
=============================================================================
