-------------------------- MODULE DeploymentsProofs --------------------------
(***************************************************************************)
(* Theorems about Deployments, for every value of its constants: its types, *)
(* then its safety properties, proved from the type invariant. RowSteps     *)
(* says what one step may do to one row of `deployments`, LockSteps what it *)
(* may do to an approval's transaction, WorkSteps and ResultSteps where     *)
(* deliveries and results come from; the invariants follow from these four  *)
(* lemmas alone.                                                            *)
(***************************************************************************)
EXTENDS Deployments, TLAPS

\* What the types alone do not say: the ids a job, a row or a request holds
\* are not NULL once it exists.
JobLinked == \A j \in Job : job[j].status = "active" => job[j].pkg \in Package
RowLinked ==
    \A i \in Deployment :
      IF dep[i].status = "absent" THEN dep[i].pkg = None
      ELSE dep[i].pkg \in Package /\ dep[i].device \in Device
AdminLinked ==
    \A a \in Admin :
      /\ admin[a].pc \in {"approve", "commit", "job", "rows", "cancelJobs",
                         "delete"}
           => admin[a].pkg \in Package
      /\ \A i \in admin[a].dep : dep[i].status # "absent"
CheckinLinked ==
    \A q \in Checkin : checkin[q].pc # "free" => checkin[q].device \in Device
Linked == JobLinked /\ RowLinked /\ AdminLinked /\ CheckinLinked

TypeInv == TypeOK /\ Linked

LEMMA InitTypeInv == Init => TypeInv
  BY DeploymentsAssumption
  DEF Init, TypeInv, TypeOK, Linked, JobLinked, RowLinked, AdminLinked,
      CheckinLinked, PackageRow, DeploymentRow, JobRow,
      CheckinRequest, AdminRequest, NoCheckin, NoAdmin, Content, Claim

LEMMA PackageStepTypeInv == TypeInv /\ PackageStep => TypeInv'
  <1> SUFFICES ASSUME TypeInv, PackageStep PROVE TypeInv'
    OBVIOUS
  <1>a. /\ pkg \in [Package -> PackageRow]
        /\ dep \in [Deployment -> DeploymentRow]
        /\ job \in [Job -> JobRow]
        /\ admin \in [Admin -> AdminRequest]
        /\ approved \in [Package -> SUBSET Content]
    BY DEF TypeInv, TypeOK
  <1>b. JobLinked /\ RowLinked /\ AdminLinked /\ CheckinLinked
    BY DEF TypeInv, Linked
  <1>1. ASSUME NEW p \in Package, CreatePackage(p)
       PROVE  TypeInv'
    <2>1. pkg' \in [Package -> PackageRow]
      BY <1>a, <1>1, DeploymentsAssumption
      DEF CreatePackage, PackageRow, Content
    <2>2. TypeOK'
      BY <1>1, <2>1 DEF CreatePackage, TypeInv, TypeOK, serverVars, agentVars
    <2>3. JobLinked' /\ RowLinked' /\ AdminLinked' /\ CheckinLinked'
      BY <1>b, <1>1
      DEF CreatePackage, JobLinked, RowLinked, AdminLinked, CheckinLinked,
          serverVars
    <2> QED
      BY <2>2, <2>3 DEF TypeInv, Linked
  <1>2. ASSUME NEW p \in Package, EditPackage(p)
       PROVE  TypeInv'
    <2>1. pkg' \in [Package -> PackageRow]
      BY <1>a, <1>2, DeploymentsAssumption
      DEF EditPackage, Edited, PackageRow, Content
    <2>2. TypeOK'
      BY <1>2, <2>1
      DEF EditPackage, Edited, TypeInv, TypeOK, serverVars, agentVars
    <2>3. JobLinked' /\ RowLinked' /\ AdminLinked' /\ CheckinLinked'
      BY <1>b, <1>2
      DEF EditPackage, Edited, JobLinked, RowLinked, AdminLinked,
          CheckinLinked, serverVars
    <2> QED
      BY <2>2, <2>3 DEF TypeInv, Linked
  <1>3. ASSUME NEW a \in Admin, NEW p \in Package, ApproveCheck(a, p)
       PROVE  TypeInv'
    <2>1. admin' \in [Admin -> AdminRequest]
      BY <1>a, <1>3 DEF ApproveCheck, AdminRequest, NoAdmin
    <2>2. TypeOK'
      BY <1>3, <2>1 DEF ApproveCheck, TypeInv, TypeOK, serverVars, agentVars
    <2>3. AdminLinked'
      BY <1>a, <1>b, <1>3
      DEF ApproveCheck, AdminLinked, AdminRequest, NoAdmin, serverVars
    <2>4. JobLinked' /\ RowLinked' /\ CheckinLinked'
      BY <1>b, <1>3
      DEF ApproveCheck, JobLinked, RowLinked, CheckinLinked, serverVars
    <2> QED
      BY <2>2, <2>3, <2>4 DEF TypeInv, Linked
  <1>4. ASSUME NEW a \in Admin, NEW p \in Package, DeployCheck(a, p)
       PROVE  TypeInv'
    <2>1. admin' \in [Admin -> AdminRequest]
      <3>1. PICK T \in SUBSET Device, scoped \in BOOLEAN :
              admin' = [admin EXCEPT ![a] =
                          [NoAdmin EXCEPT !.pc = IF scoped THEN "job" ELSE "rows",
                                          !.pkg = p, !.targets = T]]
        BY <1>4 DEF DeployCheck
      <3>2. [NoAdmin EXCEPT !.pc = IF scoped THEN "job" ELSE "rows",
                            !.pkg = p, !.targets = T] \in AdminRequest
        BY DEF NoAdmin, AdminRequest
      <3> QED
        BY <1>a, <3>1, <3>2
    <2>2. TypeOK'
      BY <1>4, <2>1 DEF DeployCheck, TypeInv, TypeOK, serverVars, agentVars
    <2>3. AdminLinked'
      BY <1>a, <1>b, <1>4
      DEF DeployCheck, AdminLinked, AdminRequest, NoAdmin, serverVars
    <2>4. JobLinked' /\ RowLinked' /\ CheckinLinked'
      BY <1>b, <1>4
      DEF DeployCheck, JobLinked, RowLinked, CheckinLinked, serverVars
    <2> QED
      BY <2>2, <2>3, <2>4 DEF TypeInv, Linked
  <1>5. ASSUME NEW a \in Admin, NEW p \in Package, CancelAllRows(a, p)
       PROVE  TypeInv'
    <2>1. dep' \in [Deployment -> DeploymentRow]
      BY <1>a, <1>5, DeploymentsAssumption
      DEF CancelAllRows, DeploymentRow, Claim
    <2>2. admin' \in [Admin -> AdminRequest]
      BY <1>a, <1>5 DEF CancelAllRows, AdminRequest, NoAdmin
    <2>3. TypeOK'
      BY <1>5, <2>1, <2>2
      DEF CancelAllRows, TypeInv, TypeOK, serverVars, agentVars
    <2>4. RowLinked'
      BY <1>a, <1>b, <1>5 DEF CancelAllRows, RowLinked, DeploymentRow
    <2>5. AdminLinked'
      BY <1>a, <1>b, <1>5
      DEF CancelAllRows, AdminLinked, AdminRequest, NoAdmin, DeploymentRow
    <2>6. JobLinked' /\ CheckinLinked'
      BY <1>b, <1>5 DEF CancelAllRows, JobLinked, CheckinLinked, serverVars
    <2> QED
      BY <2>3, <2>4, <2>5, <2>6 DEF TypeInv, Linked
  <1>6. ASSUME NEW a \in Admin, NEW p \in Package, DeleteCheck(a, p)
       PROVE  TypeInv'
    <2>1. admin' \in [Admin -> AdminRequest]
      BY <1>a, <1>6 DEF DeleteCheck, AdminRequest, NoAdmin
    <2>2. TypeOK'
      BY <1>6, <2>1 DEF DeleteCheck, TypeInv, TypeOK, serverVars, agentVars
    <2>3. AdminLinked'
      BY <1>a, <1>b, <1>6
      DEF DeleteCheck, AdminLinked, AdminRequest, NoAdmin, serverVars
    <2>4. JobLinked' /\ RowLinked' /\ CheckinLinked'
      BY <1>b, <1>6
      DEF DeleteCheck, JobLinked, RowLinked, CheckinLinked, serverVars
    <2> QED
      BY <2>2, <2>3, <2>4 DEF TypeInv, Linked
  <1>7. ASSUME NEW a \in Admin, ApproveCommit(a)
       PROVE  TypeInv'
    <2>0. admin[a].pkg \in Package
      BY <1>b, <1>7 DEF AdminLinked, ApproveCommit
    <2>1. pkg' \in [Package -> PackageRow]
      BY <1>a, <1>7, DeploymentsAssumption DEF ApproveCommit, PackageRow, Content
    <2>2. dep' \in [Deployment -> DeploymentRow]
      <3>1. pkg[admin[a].pkg].content \in Content
        BY <1>a, <2>0 DEF PackageRow
      <3>2. RefreshedSnapshots(a) \in [Deployment -> DeploymentRow]
        BY <1>a, <3>1 DEF RefreshedSnapshots, DeploymentRow
      <3> QED
        BY <1>7, <3>2 DEF ApproveCommit
    <2>3. admin' \in [Admin -> AdminRequest]
      BY <1>a, <1>7 DEF ApproveCommit, AdminRequest, NoAdmin
    <2>4. approved' \in [Package -> SUBSET Content]
      BY <1>a, <1>7, <2>0, DeploymentsAssumption DEF ApproveCommit, PackageRow
    <2>5. TypeOK'
      BY <1>7, <2>1, <2>2, <2>3, <2>4
      DEF ApproveCommit, TypeInv, TypeOK, serverVars, agentVars
    <2>6. RowLinked'
      BY <1>a, <1>b, <1>7
      DEF ApproveCommit, RefreshedSnapshots, RowLinked, DeploymentRow
    <2>7. AdminLinked'
      BY <1>a, <1>b, <1>7
      DEF ApproveCommit, RefreshedSnapshots, AdminLinked, AdminRequest, NoAdmin,
          DeploymentRow
    <2>8. JobLinked' /\ CheckinLinked'
      BY <1>b, <1>7 DEF ApproveCommit, JobLinked, CheckinLinked, serverVars
    <2> QED
      BY <2>5, <2>6, <2>7, <2>8 DEF TypeInv, Linked
  <1>8. ASSUME NEW a \in Admin, DeployJob(a)
       PROVE  TypeInv'
    <2>1. job' \in [Job -> JobRow]
      BY <1>a, <1>b, <1>8, DeploymentsAssumption
      DEF DeployJob, AdminLinked, JobRow
    <2>2. admin' \in [Admin -> AdminRequest]
      BY <1>a, <1>8 DEF DeployJob, AdminRequest, NoAdmin
    <2>3. TypeOK'
      BY <1>8, <2>1, <2>2 DEF DeployJob, TypeInv, TypeOK, serverVars, agentVars
    <2>4. JobLinked'
      BY <1>a, <1>b, <1>8 DEF DeployJob, JobLinked, JobRow, AdminLinked
    <2>5. AdminLinked'
      BY <1>a, <1>b, <1>8 DEF DeployJob, AdminLinked, AdminRequest, NoAdmin
    <2>6. RowLinked' /\ CheckinLinked'
      BY <1>b, <1>8 DEF DeployJob, RowLinked, CheckinLinked, serverVars
    <2> QED
      BY <2>3, <2>4, <2>5, <2>6 DEF TypeInv, Linked
  <1>9. ASSUME NEW a \in Admin, NEW d \in Device, DeployRow(a, d)
       PROVE  TypeInv'
    <2>1. dep' \in [Deployment -> DeploymentRow]
      BY <1>a, <1>b, <1>9, DeploymentsAssumption
      DEF DeployRow, NewRow, SnapshotOf, FreeRow, AdminLinked, DeploymentRow,
          Claim, PackageRow, AdminRequest
    <2>2. admin' \in [Admin -> AdminRequest]
      BY <1>a, <1>9
      DEF DeployRow, NewRow, SnapshotOf, FreeRow, AdminRequest, NoAdmin
    <2>3. TypeOK'
      BY <1>9, <2>1, <2>2
      DEF DeployRow, NewRow, SnapshotOf, FreeRow, TypeInv, TypeOK, serverVars,
          agentVars
    <2>4. RowLinked'
      BY <1>a, <1>b, <1>9
      DEF DeployRow, NewRow, SnapshotOf, FreeRow, RowLinked, DeploymentRow,
          AdminLinked
    <2>5. AdminLinked'
      <3>1. \/ dep' = dep
            \/ \E i \in FreeRow :
                 dep' = [dep EXCEPT ![i] = NewRow(admin[a].pkg, d, admin[a].job)]
        BY <1>9 DEF DeployRow
      <3>2. \A i \in Deployment :
              dep[i].status # "absent" => dep'[i].status # "absent"
        BY <1>a, <3>1 DEF NewRow
      <3>3. /\ \A e \in Admin : admin[e].dep \subseteq Deployment
            /\ admin' = [admin EXCEPT ![a].targets = @ \ {d}]
        BY <1>a, <1>9 DEF AdminRequest, DeployRow
      <3> QED
        BY <1>a, <1>b, <3>2, <3>3 DEF AdminLinked, AdminRequest
    <2>6. JobLinked' /\ CheckinLinked'
      BY <1>b, <1>9
      DEF DeployRow, NewRow, SnapshotOf, FreeRow, JobLinked, CheckinLinked,
          serverVars
    <2> QED
      BY <2>3, <2>4, <2>5, <2>6 DEF TypeInv, Linked
  <1>10. ASSUME NEW a \in Admin, DeployEnd(a)
       PROVE  TypeInv'
    <2>1. admin' \in [Admin -> AdminRequest]
      BY <1>a, <1>10 DEF DeployEnd, AdminRequest, NoAdmin
    <2>2. TypeOK'
      BY <1>10, <2>1 DEF DeployEnd, TypeInv, TypeOK, serverVars, agentVars
    <2>3. AdminLinked'
      BY <1>a, <1>b, <1>10
      DEF DeployEnd, AdminLinked, AdminRequest, NoAdmin, serverVars
    <2>4. JobLinked' /\ RowLinked' /\ CheckinLinked'
      BY <1>b, <1>10
      DEF DeployEnd, JobLinked, RowLinked, CheckinLinked, serverVars
    <2> QED
      BY <2>2, <2>3, <2>4 DEF TypeInv, Linked
  <1>11. ASSUME NEW a \in Admin, CancelAllJobs(a)
       PROVE  TypeInv'
    <2>1. job' \in [Job -> JobRow]
      BY <1>a, <1>11, DeploymentsAssumption DEF CancelAllJobs, JobRow
    <2>2. admin' \in [Admin -> AdminRequest]
      BY <1>a, <1>11 DEF CancelAllJobs, AdminRequest, NoAdmin
    <2>3. TypeOK'
      BY <1>11, <2>1, <2>2
      DEF CancelAllJobs, TypeInv, TypeOK, serverVars, agentVars
    <2>4. JobLinked'
      BY <1>a, <1>b, <1>11 DEF CancelAllJobs, JobLinked, JobRow, AdminLinked
    <2>5. AdminLinked'
      BY <1>a, <1>b, <1>11
      DEF CancelAllJobs, AdminLinked, AdminRequest, NoAdmin
    <2>6. RowLinked' /\ CheckinLinked'
      BY <1>b, <1>11 DEF CancelAllJobs, RowLinked, CheckinLinked, serverVars
    <2> QED
      BY <2>3, <2>4, <2>5, <2>6 DEF TypeInv, Linked
  <1>12. ASSUME NEW a \in Admin, DeleteCommit(a)
       PROVE  TypeInv'
    <2>1. pkg' \in [Package -> PackageRow]
      BY <1>a, <1>12, DeploymentsAssumption
      DEF DeleteCommit, PackageRow, Content
    <2>2. dep' \in [Deployment -> DeploymentRow]
      <3>1. \A i \in Deployment :
              [dep[i] EXCEPT !.status = "deleted", !.snap = 0] \in DeploymentRow
        BY <1>a DEF DeploymentRow
      <3> QED
        BY <1>a, <1>12, <3>1, ZenonT(30) DEF DeleteCommit
    <2>3. job' \in [Job -> JobRow]
      BY <1>a, <1>12, DeploymentsAssumption, ZenonT(30) DEF DeleteCommit, JobRow
    <2>4. admin' \in [Admin -> AdminRequest]
      BY <1>a, <1>12 DEF DeleteCommit, AdminRequest, NoAdmin
    <2>5. TypeOK'
      BY <1>12, <2>1, <2>2, <2>3, <2>4
      DEF DeleteCommit, TypeInv, TypeOK, serverVars, agentVars
    <2>6. JobLinked'
      BY <1>a, <1>b, <1>12 DEF DeleteCommit, JobLinked, JobRow, AdminLinked
    <2>7. RowLinked'
      <3>1. admin[a].pkg \in Package
        BY <1>b, <1>12 DEF AdminLinked, DeleteCommit
      <3>2. dep' = [i \in Deployment |->
                      IF dep[i].pkg = admin[a].pkg
                      THEN [dep[i] EXCEPT !.status = "deleted", !.snap = 0]
                      ELSE dep[i]]
        BY <1>12 DEF DeleteCommit
      <3>3. ASSUME NEW i \in Deployment
            PROVE  IF dep'[i].status = "absent" THEN dep'[i].pkg = None
                   ELSE dep'[i].pkg \in Package /\ dep'[i].device \in Device
        <4>1. dep[i] \in DeploymentRow
          BY <1>a
        <4>2. CASE dep[i].pkg = admin[a].pkg
          <5>1. dep'[i] = [dep[i] EXCEPT !.status = "deleted", !.snap = 0]
            BY <3>2, <4>2
          <5>2. /\ dep'[i].status = "deleted"
                /\ dep'[i].pkg = dep[i].pkg /\ dep'[i].device = dep[i].device
            BY <4>1, <5>1 DEF DeploymentRow
          <5>3. dep[i].status # "absent"
            BY <1>b, <3>1, <4>2, DeploymentsAssumption DEF RowLinked
          <5> QED
            BY <1>b, <5>2, <5>3 DEF RowLinked
        <4>3. CASE dep[i].pkg # admin[a].pkg
          BY <1>b, <3>2, <4>3 DEF RowLinked
        <4> QED
          BY <4>2, <4>3
      <3> QED
        BY <3>3 DEF RowLinked
    <2>8. AdminLinked'
      BY ZenonT(60), <1>a, <1>b, <1>12
      DEF DeleteCommit, AdminLinked, AdminRequest, NoAdmin, DeploymentRow
    <2>9. CheckinLinked'
      BY <1>b, <1>12 DEF DeleteCommit, CheckinLinked, serverVars
    <2> QED
      BY <2>5, <2>6, <2>7, <2>8, <2>9 DEF TypeInv, Linked
  <1>13. ASSUME NEW j \in Job, CancelJob(j)
       PROVE  TypeInv'
    <2>1. job' \in [Job -> JobRow]
      BY <1>a, <1>13, DeploymentsAssumption DEF CancelJob, JobRow
    <2>2. TypeOK'
      BY <1>13, <2>1 DEF CancelJob, TypeInv, TypeOK, serverVars, agentVars
    <2>3. JobLinked'
      BY <1>a, <1>b, <1>13 DEF CancelJob, JobLinked, JobRow, AdminLinked
    <2>4. RowLinked' /\ AdminLinked' /\ CheckinLinked'
      BY <1>b, <1>13
      DEF CancelJob, RowLinked, AdminLinked, CheckinLinked, serverVars
    <2> QED
      BY <2>2, <2>3, <2>4 DEF TypeInv, Linked
  <1>14. ASSUME NEW a \in Admin, ApproveRefresh(a)
       PROVE  TypeInv'
    <2>1. admin' \in [Admin -> AdminRequest]
      <3> DEFINE R == {i \in Deployment : /\ dep[i].status = "pending"
                                         /\ dep[i].pkg = admin[a].pkg}
      <3>1. R \in SUBSET Deployment
        OBVIOUS
      <3>2. \/ admin' = [admin EXCEPT ![a].pc = "commit", ![a].dep = R]
            \/ admin' = [admin EXCEPT ![a] = NoAdmin]
        BY <1>14 DEF ApproveRefresh
      <3> HIDE DEF R
      <3> QED
        BY <1>a, <3>1, <3>2 DEF AdminRequest, NoAdmin
    <2>2. TypeOK'
      BY <1>14, <2>1 DEF ApproveRefresh, TypeInv, TypeOK, serverVars, agentVars
    <2>3. AdminLinked'
      BY <1>a, <1>b, <1>14
      DEF ApproveRefresh, AdminLinked, AdminRequest, NoAdmin, serverVars
    <2>4. JobLinked' /\ RowLinked' /\ CheckinLinked'
      BY <1>b, <1>14
      DEF ApproveRefresh, JobLinked, RowLinked, CheckinLinked, serverVars
    <2> QED
      BY <2>2, <2>3, <2>4 DEF TypeInv, Linked
  <1> QED
    BY <1>1, <1>2, <1>3, <1>4, <1>5, <1>6, <1>7, <1>8, <1>9, <1>10, <1>11,
       <1>12, <1>13, <1>14
    DEF PackageStep

LEMMA RequeuedType ==
  ASSUME pkg \in [Package -> PackageRow], dep \in [Deployment -> DeploymentRow],
         NEW i \in Deployment, dep[i].pkg \in Package
  PROVE  Requeued(i) \in DeploymentRow
  <1>1. SnapshotOf(dep[i].pkg) \in Content \cup {0}
    BY DEF SnapshotOf, PackageRow
  <1>2. 0 \in Claim
    BY DeploymentsAssumption DEF Claim
  <1> QED
    BY <1>1, <1>2 DEF Requeued, DeploymentRow

LEMMA DeploymentStepTypeInv == TypeInv /\ DeploymentStep => TypeInv'
  <1> SUFFICES ASSUME TypeInv, DeploymentStep PROVE TypeInv'
    OBVIOUS
  <1>a. /\ pkg \in [Package -> PackageRow]
        /\ dep \in [Deployment -> DeploymentRow]
        /\ admin \in [Admin -> AdminRequest]
        /\ faults \in 0..MaxFaults
    BY DEF TypeInv, TypeOK
  <1>b. JobLinked /\ RowLinked /\ AdminLinked /\ CheckinLinked
    BY DEF TypeInv, Linked
  <1>1. ASSUME NEW S \in SUBSET Deployment, CancelDeployments(S)
       PROVE  TypeInv'
    <2>1. dep' \in [Deployment -> DeploymentRow]
      BY <1>a, <1>1 DEF CancelDeployments, DeploymentRow
    <2>2. TypeOK'
      BY <1>1, <2>1
      DEF CancelDeployments, TypeInv, TypeOK, serverVars, agentVars
    <2>3. RowLinked'
      BY <1>a, <1>b, <1>1 DEF CancelDeployments, RowLinked, DeploymentRow
    <2>4. AdminLinked'
      BY <1>a, <1>b, <1>1
      DEF CancelDeployments, AdminLinked, DeploymentRow, AdminRequest
    <2>5. JobLinked' /\ CheckinLinked'
      BY <1>b, <1>1 DEF CancelDeployments, JobLinked, CheckinLinked, serverVars
    <2> QED
      BY <2>2, <2>3, <2>4, <2>5 DEF TypeInv, Linked
  <1>2. ASSUME NEW S \in SUBSET Deployment, RetryBulk(S)
       PROVE  TypeInv'
    <2>1. dep' \in [Deployment -> DeploymentRow]
      <3>1. ASSUME NEW i \in Retryable(S) PROVE Requeued(i) \in DeploymentRow
        BY <1>a, <1>b, RequeuedType, <3>1 DEF Retryable, RowLinked
      <3> QED
        BY <1>a, <1>2, <3>1 DEF RetryBulk
    <2>2. TypeOK'
      BY <1>2, <2>1 DEF RetryBulk, TypeInv, TypeOK, serverVars, agentVars
    <2>3. RowLinked'
      BY ZenonT(60), <1>a, <1>b, <1>2
      DEF RetryBulk, Retryable, Requeued, RowLinked, DeploymentRow
    <2>4. AdminLinked'
      BY <1>a, <1>b, <1>2
      DEF RetryBulk, Requeued, AdminLinked, DeploymentRow, AdminRequest
    <2>5. JobLinked' /\ CheckinLinked'
      BY <1>b, <1>2 DEF RetryBulk, JobLinked, CheckinLinked, serverVars
    <2> QED
      BY <2>2, <2>3, <2>4, <2>5 DEF TypeInv, Linked
  <1>3. ASSUME NEW a \in Admin, NEW i \in Deployment, RetryRead(a, i)
       PROVE  TypeInv'
    <2>1. admin' \in [Admin -> AdminRequest]
      BY <1>a, <1>3 DEF RetryRead, AdminRequest, NoAdmin
    <2>2. TypeOK'
      BY <1>3, <2>1 DEF RetryRead, TypeInv, TypeOK, serverVars, agentVars
    <2>3. AdminLinked'
      BY <1>a, <1>b, <1>3
      DEF RetryRead, AdminLinked, AdminRequest, NoAdmin, serverVars
    <2>4. JobLinked' /\ RowLinked' /\ CheckinLinked'
      BY <1>b, <1>3
      DEF RetryRead, JobLinked, RowLinked, CheckinLinked, serverVars
    <2> QED
      BY <2>2, <2>3, <2>4 DEF TypeInv, Linked
  <1>4. ASSUME NEW a \in Admin, NEW i \in Deployment, RetryConflict(a, i)
       PROVE  TypeInv'
    <2>1. admin' \in [Admin -> AdminRequest]
      BY <1>a, <1>4 DEF RetryConflict, AdminRequest, NoAdmin
    <2>2. TypeOK'
      BY <1>4, <2>1 DEF RetryConflict, TypeInv, TypeOK, serverVars, agentVars
    <2>3. AdminLinked'
      BY <1>a, <1>b, <1>4
      DEF RetryConflict, AdminLinked, AdminRequest, NoAdmin, serverVars
    <2>4. JobLinked' /\ RowLinked' /\ CheckinLinked'
      BY <1>b, <1>4
      DEF RetryConflict, JobLinked, RowLinked, CheckinLinked, serverVars
    <2> QED
      BY <2>2, <2>3, <2>4 DEF TypeInv, Linked
  <1>5. ASSUME NEW a \in Admin, NEW i \in Deployment, RetryUpdate(a, i)
       PROVE  TypeInv'
    <2>1. dep' \in [Deployment -> DeploymentRow]
      <3>1. Requeued(i) \in DeploymentRow
        BY <1>a, <1>b, <1>5, RequeuedType
        DEF RetryUpdate, AdminLinked, RowLinked
      <3> QED
        BY <1>a, <1>5, <3>1 DEF RetryUpdate
    <2>2. admin' \in [Admin -> AdminRequest]
      BY <1>a, <1>5 DEF RetryUpdate, AdminRequest, NoAdmin
    <2>3. TypeOK'
      BY <1>5, <2>1, <2>2
      DEF RetryUpdate, TypeInv, TypeOK, serverVars, agentVars
    <2>4. RowLinked'
      <3>1. dep[i].pkg \in Package /\ dep[i].device \in Device
        BY <1>b, <1>5 DEF RetryUpdate, RowLinked, AdminLinked
      <3>2. /\ Requeued(i).pkg = dep[i].pkg
            /\ Requeued(i).device = dep[i].device
            /\ Requeued(i).status = "pending"
        BY <1>a DEF Requeued, DeploymentRow
      <3>3. dep' = [dep EXCEPT ![i] = Requeued(i)] \/ dep' = dep
        BY <1>5 DEF RetryUpdate
      <3> QED
        BY <1>a, <1>b, <3>1, <3>2, <3>3 DEF RowLinked
    <2>5. AdminLinked'
      BY ZenonT(60), <1>a, <1>b, <1>5
      DEF RetryUpdate, Requeued, AdminLinked, DeploymentRow, AdminRequest,
          NoAdmin
    <2>6. JobLinked' /\ CheckinLinked'
      BY <1>b, <1>5 DEF RetryUpdate, JobLinked, CheckinLinked, serverVars
    <2> QED
      BY <2>3, <2>4, <2>5, <2>6 DEF TypeInv, Linked
  <1>6. ASSUME NEW c \in 1..claims, TimeoutStuck(c)
       PROVE  TypeInv'
    <2>1. dep' \in [Deployment -> DeploymentRow]
      BY <1>a, <1>6 DEF TimeoutStuck, DeploymentRow
    <2>2. TypeOK'
      BY <1>6, <2>1 DEF TimeoutStuck, TypeInv, TypeOK, serverVars, agentVars
    <2>3. RowLinked'
      BY <1>a, <1>b, <1>6 DEF TimeoutStuck, RowLinked, DeploymentRow
    <2>4. AdminLinked'
      BY <1>a, <1>b, <1>6
      DEF TimeoutStuck, AdminLinked, DeploymentRow, AdminRequest
    <2>5. JobLinked' /\ CheckinLinked'
      BY <1>b, <1>6 DEF TimeoutStuck, JobLinked, CheckinLinked, serverVars
    <2> QED
      BY <2>2, <2>3, <2>4, <2>5 DEF TypeInv, Linked
  <1>7. ASSUME NEW a \in Admin, AdminFails(a)
       PROVE  TypeInv'
    <2>1. admin' \in [Admin -> AdminRequest]
      BY <1>a, <1>7 DEF AdminFails, AdminRequest, NoAdmin
    <2>2. faults' \in 0..MaxFaults
      BY <1>a, <1>7, DeploymentsAssumption DEF AdminFails, Fault
    <2>3. TypeOK'
      BY <1>7, <2>1, <2>2 DEF AdminFails, TypeInv, TypeOK, serverVars, agentVars
    <2>4. AdminLinked'
      BY <1>a, <1>b, <1>7 DEF AdminFails, AdminLinked, NoAdmin, serverVars
    <2>5. JobLinked' /\ RowLinked' /\ CheckinLinked'
      BY <1>b, <1>7 DEF AdminFails, JobLinked, RowLinked, CheckinLinked, serverVars
    <2> QED
      BY <2>3, <2>4, <2>5 DEF TypeInv, Linked
  <1> QED
    BY <1>1, <1>2, <1>3, <1>4, <1>5, <1>6, <1>7 DEF DeploymentStep

LEMMA CheckinStepTypeInv == TypeInv /\ CheckinStep => TypeInv'
  <1> SUFFICES ASSUME TypeInv, CheckinStep PROVE TypeInv'
    OBVIOUS
  <1>a. /\ pkg \in [Package -> PackageRow]
        /\ dep \in [Deployment -> DeploymentRow]
        /\ job \in [Job -> JobRow]
        /\ claims \in Claim
        /\ checkin \in [Checkin -> CheckinRequest]
        /\ faults \in 0..MaxFaults
        /\ lost \in SUBSET Attempt
    BY DEF TypeInv, TypeOK
  <1>b. JobLinked /\ RowLinked /\ AdminLinked /\ CheckinLinked
    BY DEF TypeInv, Linked
  <1>d. admin \in [Admin -> AdminRequest]
    BY DEF TypeInv, TypeOK
  <1>1. ASSUME NEW q \in Checkin, NEW r \in checkin[q].results, ApplyResult(q, r)
       PROVE  TypeInv'
    <2>1. dep' \in [Deployment -> DeploymentRow]
      <3>1. r \in Result
        BY <1>a DEF CheckinRequest
      <3> QED
        BY SMTT(30), <1>a, <1>1, <3>1 DEF ApplyResult, Result, Exit, DeploymentRow
    <2>2. checkin' \in [Checkin -> CheckinRequest]
      BY <1>a, <1>1 DEF ApplyResult, CheckinRequest
    <2>3. TypeOK'
      BY <1>1, <2>1, <2>2
      DEF ApplyResult, TypeInv, TypeOK, serverVars, agentVars
    <2>4. RowLinked'
      BY <1>a, <1>b, <1>1
      DEF ApplyResult, Applies, RowLinked, DeploymentRow, CheckinRequest,
          Result
    <2>5. AdminLinked'
      <3>1. \A i \in Deployment :
              dep[i].status # "absent" => dep'[i].status # "absent"
        BY <1>a, <1>1 DEF ApplyResult, DeploymentRow
      <3>2. \A e \in Admin : admin[e].dep \subseteq Deployment
        BY <1>d DEF AdminRequest
      <3> QED
        BY <1>b, <1>1, <3>1, <3>2 DEF ApplyResult, AdminLinked
    <2>6. CheckinLinked'
      BY <1>a, <1>b, <1>1 DEF ApplyResult, CheckinLinked, CheckinRequest
    <2>7. JobLinked'
      BY <1>b, <1>1 DEF ApplyResult, JobLinked, serverVars
    <2> QED
      BY <2>3, <2>4, <2>5, <2>6, <2>7 DEF TypeInv, Linked
  <1>2. ASSUME NEW q \in Checkin, NEW r \in checkin[q].results, ResultThrows(q, r)
       PROVE  TypeInv'
    <2>1. checkin' \in [Checkin -> CheckinRequest]
      BY <1>a, <1>2 DEF ResultThrows, CheckinRequest
    <2>2. lost' \in SUBSET Attempt
      BY <1>a, <1>2 DEF ResultThrows, CheckinRequest, Key, Result, Attempt
    <2>3. faults' \in 0..MaxFaults
      BY <1>a, <1>2, DeploymentsAssumption DEF ResultThrows, Fault
    <2>4. TypeOK'
      BY <1>2, <2>1, <2>2, <2>3
      DEF ResultThrows, TypeInv, TypeOK, serverVars, agentVars
    <2>5. CheckinLinked'
      BY <1>a, <1>b, <1>2 DEF ResultThrows, CheckinLinked, CheckinRequest
    <2>6. JobLinked' /\ RowLinked' /\ AdminLinked'
      BY <1>b, <1>2
      DEF ResultThrows, JobLinked, RowLinked, AdminLinked, serverVars
    <2> QED
      BY <2>4, <2>5, <2>6 DEF TypeInv, Linked
  <1>3. ASSUME NEW q \in Checkin, ResultsDone(q)
       PROVE  TypeInv'
    <2>1. checkin' \in [Checkin -> CheckinRequest]
      BY <1>a, <1>3 DEF ResultsDone, CheckinRequest
    <2>2. TypeOK'
      BY <1>3, <2>1 DEF ResultsDone, TypeInv, TypeOK, serverVars, agentVars
    <2>3. CheckinLinked'
      BY <1>a, <1>b, <1>3 DEF ResultsDone, CheckinLinked, CheckinRequest
    <2>4. JobLinked' /\ RowLinked' /\ AdminLinked'
      BY <1>b, <1>3
      DEF ResultsDone, JobLinked, RowLinked, AdminLinked, serverVars
    <2> QED
      BY <2>2, <2>3, <2>4 DEF TypeInv, Linked
  <1>4. ASSUME NEW q \in Checkin, FanOut(q)
       PROVE  TypeInv'
    <2>1. dep' \in [Deployment -> DeploymentRow]
      <3>1. PICK J \in SUBSET Missing(checkin[q].device) : \E row \in [J -> FreeRow] :
              dep' = [i \in Deployment |->
                       IF \E j \in J : row[j] = i
                       THEN NewRow(job[CHOOSE k \in J : row[k] = i].pkg,
                                   checkin[q].device, CHOOSE k \in J : row[k] = i)
                       ELSE dep[i]]
        BY <1>4 DEF FanOut
      <3>2. checkin[q].device \in Device
        BY <1>b, <1>4 DEF FanOut, CheckinLinked
      <3>3. \A j \in J : j \in Job /\ job[j].pkg \in Package
        BY <1>b DEF Missing, JobLinked
      <3>4. \A j \in J : NewRow(job[j].pkg, checkin[q].device, j) \in DeploymentRow
        BY <1>a, <3>2, <3>3, DeploymentsAssumption
        DEF NewRow, SnapshotOf, PackageRow, DeploymentRow, Claim
      <3> QED
        BY <1>a, <3>1, <3>4
    <2>2. checkin' \in [Checkin -> CheckinRequest]
      <3>1. checkin' = [checkin EXCEPT ![q].pc = "select"]
        BY <1>4 DEF FanOut
      <3> QED
        BY <1>a, <3>1 DEF CheckinRequest
    <2>3. TypeOK'
      BY <1>4, <2>1, <2>2 DEF FanOut, TypeInv, TypeOK, serverVars, agentVars
    <2>4. RowLinked'
      <3>1. PICK J \in SUBSET Missing(checkin[q].device) : \E row \in [J -> FreeRow] :
              dep' = [i \in Deployment |->
                       IF \E j \in J : row[j] = i
                       THEN NewRow(job[CHOOSE k \in J : row[k] = i].pkg,
                                   checkin[q].device, CHOOSE k \in J : row[k] = i)
                       ELSE dep[i]]
        BY <1>4 DEF FanOut
      <3>2. checkin[q].device \in Device
        BY <1>b, <1>4 DEF FanOut, CheckinLinked
      <3>3. \A j \in J : j \in Job /\ job[j].pkg \in Package
        BY <1>b DEF Missing, JobLinked
      <3> QED
        BY <1>a, <1>b, <3>1, <3>2, <3>3 DEF RowLinked, NewRow
    <2>5. AdminLinked'
      <3>1. PICK J \in SUBSET Missing(checkin[q].device) : \E row \in [J -> FreeRow] :
              dep' = [i \in Deployment |->
                       IF \E j \in J : row[j] = i
                       THEN NewRow(job[CHOOSE k \in J : row[k] = i].pkg,
                                   checkin[q].device, CHOOSE k \in J : row[k] = i)
                       ELSE dep[i]]
        BY <1>4 DEF FanOut
      <3>2. \A i \in Deployment :
              dep[i].status # "absent" => dep'[i].status # "absent"
        BY <3>1 DEF NewRow
      <3>3. \A e \in Admin : admin[e].dep \subseteq Deployment
        BY <1>d DEF AdminRequest
      <3> QED
        BY SMTT(30), <1>b, <1>4, <3>2, <3>3 DEF FanOut, AdminLinked
    <2>6. CheckinLinked'
      BY <1>a, <1>b, <1>4 DEF FanOut, CheckinLinked, CheckinRequest
    <2>7. JobLinked'
      BY <1>b, <1>4 DEF FanOut, JobLinked, serverVars
    <2> QED
      BY <2>3, <2>4, <2>5, <2>6, <2>7 DEF TypeInv, Linked
  <1>5. ASSUME NEW q \in Checkin, NEW window \in BOOLEAN, NEW offer \in BOOLEAN, Select(q,
  window, offer)
       PROVE  TypeInv'
    <2>1. checkin' \in [Checkin -> CheckinRequest]
      <3>1. PICK P \in SUBSET Deployment :
              checkin' = [checkin EXCEPT ![q].pc = "claim", ![q].offer = offer,
                                         ![q].picked = P]
        BY <1>5 DEF Select, Eligible
      <3>2. [checkin[q] EXCEPT !.pc = "claim", !.offer = offer, !.picked = P]
              \in CheckinRequest
        BY ZenonT(60), <1>a DEF CheckinRequest
      <3> QED
        BY <1>a, <3>1, <3>2
    <2>2. TypeOK'
      BY <1>5, <2>1 DEF Select, TypeInv, TypeOK, serverVars, agentVars
    <2>3. CheckinLinked'
      BY <1>a, <1>b, <1>5 DEF Select, CheckinLinked, CheckinRequest
    <2>4. JobLinked' /\ RowLinked' /\ AdminLinked'
      BY <1>b, <1>5 DEF Select, JobLinked, RowLinked, AdminLinked, serverVars
    <2> QED
      BY <2>2, <2>3, <2>4 DEF TypeInv, Linked
  <1>6. ASSUME NEW q \in Checkin, ClaimJobs(q)
       PROVE  TypeInv'
    <2>1. claims' \in Claim
      <3>1. claims' = claims \/ (claims < MaxClaims /\ claims' = claims + 1)
        BY <1>6 DEF ClaimJobs
      <3> QED
        BY <1>a, <3>1, DeploymentsAssumption DEF Claim
    <2>2. dep' \in [Deployment -> DeploymentRow]
      <3>1. PICK C \in SUBSET Deployment :
              /\ C # {} => claims < MaxClaims
              /\ dep' = [i \in Deployment |->
                           IF i \in C THEN [dep[i] EXCEPT !.status = "running",
                                                          !.claim = claims + 1]
                           ELSE dep[i]]
        BY <1>a, <1>6 DEF ClaimJobs, Claimable, CheckinRequest
      <3>2. ASSUME NEW i \in C
            PROVE  [dep[i] EXCEPT !.status = "running", !.claim = claims + 1]
                     \in DeploymentRow
        <4>1. claims < MaxClaims
          BY <3>1
        <4>2. claims + 1 \in Claim
          BY <1>a, <4>1, DeploymentsAssumption DEF Claim
        <4> QED
          BY ZenonT(60), <1>a, <4>2 DEF DeploymentRow
      <3> QED
        BY <1>a, <3>1, <3>2
    <2>3. checkin' \in [Checkin -> CheckinRequest]
      <3>1. PICK C \in SUBSET Deployment :
              /\ C # {} => claims < MaxClaims
              /\ C \subseteq Claimable(q)
              /\ checkin' = [checkin EXCEPT
                               ![q].pc = "reply",
                               ![q].jobs = {[dep |-> i, claim |-> claims + 1,
                                             content |-> dep[i].snap] : i \in C}]
        <4>1. Claimable(q) \subseteq Deployment
          BY <1>a DEF Claimable, CheckinRequest
        <4> DEFINE C == IF ResponseIgnored(q) THEN {} ELSE Claimable(q)
        <4>2. C \in SUBSET Deployment
          BY <4>1
        <4>3. /\ C # {} => claims < MaxClaims
              /\ checkin' = [checkin EXCEPT
                               ![q].pc = "reply",
                               ![q].jobs = {[dep |-> i, claim |-> claims + 1,
                                             content |-> dep[i].snap] : i \in C}]
          BY <1>6 DEF ClaimJobs
        <4>4. C \subseteq Claimable(q)
          OBVIOUS
        <4> HIDE DEF C
        <4> QED
          BY <4>2, <4>3, <4>4
      <3>2. ASSUME NEW i \in C
            PROVE  [dep |-> i, claim |-> claims + 1, content |-> dep[i].snap]
                     \in Delivery
        <4>1. claims < MaxClaims
          BY <3>1
        <4>2. claims + 1 \in Claim
          BY <1>a, <4>1, DeploymentsAssumption DEF Claim
        <4> QED
          BY <1>a, <3>1, <4>2 DEF DeploymentRow, Delivery, Claimable
      <3> DEFINE J == {[dep |-> i, claim |-> claims + 1,
                        content |-> dep[i].snap] : i \in C}
      <3>3. J \in SUBSET Delivery
        BY <3>2
      <3> HIDE DEF J
      <3>4. [checkin[q] EXCEPT !.pc = "reply", !.jobs = J] \in CheckinRequest
        BY ZenonT(60), <1>a, <3>3 DEF CheckinRequest
      <3> QED
        BY <1>a, <3>1, <3>4 DEF J
    <2>4. TypeOK'
      BY <1>6, <2>1, <2>2, <2>3
      DEF ClaimJobs, TypeInv, TypeOK, serverVars, agentVars
    <2>5. RowLinked'
      BY <1>a, <1>b, <1>6 DEF ClaimJobs, Claimable, RowLinked, DeploymentRow
    <2>6. AdminLinked'
      <3>1. \A i \in Deployment :
              dep[i].status # "absent" => dep'[i].status # "absent"
        BY <1>a, <1>6 DEF ClaimJobs, DeploymentRow
      <3>2. \A e \in Admin : admin[e].dep \subseteq Deployment
        BY <1>d DEF AdminRequest
      <3> QED
        BY <1>b, <1>6, <3>1, <3>2 DEF ClaimJobs, AdminLinked
    <2>7. CheckinLinked'
      BY <1>a, <1>b, <1>6 DEF ClaimJobs, CheckinLinked, CheckinRequest
    <2>8. JobLinked'
      BY <1>b, <1>6 DEF ClaimJobs, JobLinked, serverVars
    <2> QED
      BY <2>4, <2>5, <2>6, <2>7, <2>8 DEF TypeInv, Linked
  <1>7. ASSUME NEW q \in Checkin, CheckinFails(q)
       PROVE  TypeInv'
    <2>1. checkin' \in [Checkin -> CheckinRequest]
      BY <1>a, <1>7 DEF CheckinFails, CheckinRequest, NoCheckin
    <2>2. lost' \in SUBSET Attempt
      BY <1>a, <1>7
      DEF CheckinFails, CheckinRequest, Keys, Key, Delivery, Attempt
    <2>3. faults' \in 0..MaxFaults
      BY <1>a, <1>7, DeploymentsAssumption DEF CheckinFails, Fault
    <2>4. TypeOK'
      BY <1>7, <2>1, <2>2, <2>3
      DEF CheckinFails, TypeInv, TypeOK, serverVars, agentVars
    <2>5. CheckinLinked'
      BY <1>a, <1>b, <1>7 DEF CheckinFails, CheckinLinked, NoCheckin
    <2>6. JobLinked' /\ RowLinked' /\ AdminLinked'
      BY <1>b, <1>7
      DEF CheckinFails, JobLinked, RowLinked, AdminLinked, serverVars
    <2> QED
      BY <2>4, <2>5, <2>6 DEF TypeInv, Linked
  <1>8. ASSUME NEW q \in Checkin, ReplyUnread(q)
       PROVE  TypeInv'
    <2>1. checkin' \in [Checkin -> CheckinRequest]
      BY <1>a, <1>8 DEF ReplyUnread, CheckinRequest, NoCheckin
    <2>2. lost' \in SUBSET Attempt
      BY <1>a, <1>8
      DEF ReplyUnread, CheckinRequest, Keys, Key, Delivery, Attempt
    <2>3. TypeOK'
      BY <1>8, <2>1, <2>2
      DEF ReplyUnread, TypeInv, TypeOK, serverVars, agentVars
    <2>4. CheckinLinked'
      BY <1>a, <1>b, <1>8 DEF ReplyUnread, CheckinLinked, NoCheckin
    <2>5. JobLinked' /\ RowLinked' /\ AdminLinked'
      BY <1>b, <1>8
      DEF ReplyUnread, JobLinked, RowLinked, AdminLinked, serverVars
    <2> QED
      BY <2>3, <2>4, <2>5 DEF TypeInv, Linked
  <1> QED
    BY <1>1, <1>2, <1>3, <1>4, <1>5, <1>6, <1>7, <1>8 DEF CheckinStep

LEMMA AgentStepTypeInv == TypeInv /\ AgentStep => TypeInv'
  <1> SUFFICES ASSUME TypeInv, AgentStep PROVE TypeInv'
    OBVIOUS
  <1>a. /\ checkin \in [Checkin -> CheckinRequest]
        /\ apc \in [Device -> {"idle", "waiting", "acked", "working", "recheck"}]
        /\ conn \in [Device -> Checkin \cup {None}]
        /\ mem \in [Device -> SUBSET Result]
        /\ disk \in [Device -> SUBSET Result]
        /\ todo \in [Device -> SUBSET Delivery]
        /\ unsaved \in [Device -> SUBSET Result]
        /\ follow \in [Device -> 0..MaxFollowUp]
        /\ faults \in 0..MaxFaults
        /\ ran \in SUBSET Run
        /\ lost \in SUBSET Attempt
    BY DEF TypeInv, TypeOK
  <1>b. JobLinked /\ RowLinked /\ AdminLinked /\ CheckinLinked
    BY DEF TypeInv, Linked
  <1>1. ASSUME NEW d \in Device, NEW q \in Checkin, SendCheckin(d, q)
       PROVE  TypeInv'
    <2>1. checkin' \in [Checkin -> CheckinRequest]
      <3>1. PICK S \in SUBSET mem[d] :
              checkin' = [checkin EXCEPT ![q] =
                          [NoCheckin EXCEPT !.pc = "results", !.device = d,
                             !.sent = S, !.results = S,
                             !.follow = (apc[d] = "recheck" /\ d \in Legacy)]]
        BY <1>1 DEF SendCheckin
      <3> DEFINE f == apc[d] = "recheck" /\ d \in Legacy
      <3>2. f \in BOOLEAN
        OBVIOUS
      <3> HIDE DEF f
      <3>3. [NoCheckin EXCEPT !.pc = "results", !.device = d, !.sent = S,
                              !.results = S, !.follow = f] \in CheckinRequest
        BY <1>a, <3>2 DEF NoCheckin, CheckinRequest
      <3> QED
        BY <1>a, <3>1, <3>3 DEF f
    <2>2. apc' \in [Device -> {"idle", "waiting", "acked", "working", "recheck"}]
      BY <1>a, <1>1 DEF SendCheckin
    <2>3. conn' \in [Device -> Checkin \cup {None}]
      BY <1>a, <1>1 DEF SendCheckin
    <2>4. follow' \in [Device -> 0..MaxFollowUp]
      BY <1>a, <1>1, DeploymentsAssumption DEF SendCheckin, RecheckAllowed
    <2>5. TypeOK'
      BY <1>1, <2>1, <2>2, <2>3, <2>4
      DEF SendCheckin, TypeInv, TypeOK, serverVars, agentVars
    <2>6. CheckinLinked'
      <3>1. PICK S \in SUBSET mem[d] :
              checkin' = [checkin EXCEPT ![q] =
                          [NoCheckin EXCEPT !.pc = "results", !.device = d,
                             !.sent = S, !.results = S,
                             !.follow = (apc[d] = "recheck" /\ d \in Legacy)]]
        BY <1>1 DEF SendCheckin
      <3> QED
        BY <1>a, <1>b, <3>1 DEF CheckinLinked, NoCheckin
    <2>7. JobLinked' /\ RowLinked' /\ AdminLinked'
      BY <1>b, <1>1
      DEF SendCheckin, JobLinked, RowLinked, AdminLinked, serverVars
    <2> QED
      BY <2>5, <2>6, <2>7 DEF TypeInv, Linked
  <1>2. ASSUME NEW d \in Device, NEW q \in Checkin, ReceiveReply(d, q)
       PROVE  TypeInv'
    <2>1. checkin' \in [Checkin -> CheckinRequest]
      BY <1>a, <1>2 DEF ReceiveReply, NoCheckin, CheckinRequest
    <2>2. apc' \in [Device -> {"idle", "waiting", "acked", "working", "recheck"}]
      BY <1>a, <1>2 DEF ReceiveReply
    <2>3. conn' \in [Device -> Checkin \cup {None}]
      BY <1>a, <1>2 DEF ReceiveReply
    <2>4. mem' \in [Device -> SUBSET Result]
      BY <1>a, <1>2 DEF ReceiveReply
    <2>5. todo' \in [Device -> SUBSET Delivery]
      BY <1>a, <1>2 DEF ReceiveReply, WorkOf, CheckinRequest
    <2>6. TypeOK'
      BY <1>2, <2>1, <2>2, <2>3, <2>4, <2>5
      DEF ReceiveReply, TypeInv, TypeOK, serverVars, agentVars
    <2>7. CheckinLinked'
      BY <1>a, <1>b, <1>2 DEF ReceiveReply, CheckinLinked, NoCheckin
    <2>8. JobLinked' /\ RowLinked' /\ AdminLinked'
      BY <1>b, <1>2
      DEF ReceiveReply, JobLinked, RowLinked, AdminLinked, serverVars
    <2> QED
      BY <2>6, <2>7, <2>8 DEF TypeInv, Linked
  <1>3. ASSUME NEW d \in Device, GiveUp(d)
       PROVE  TypeInv'
    <2>1. apc' \in [Device -> {"idle", "waiting", "acked", "working", "recheck"}]
      BY <1>a, <1>3 DEF GiveUp
    <2>2. conn' \in [Device -> Checkin \cup {None}]
      BY <1>a, <1>3 DEF GiveUp
    <2>3. faults' \in 0..MaxFaults
      BY <1>a, <1>3, DeploymentsAssumption DEF GiveUp, Fault
    <2>4. TypeOK'
      BY <1>3, <2>1, <2>2, <2>3
      DEF GiveUp, TypeInv, TypeOK, serverVars, agentVars
    <2>5. JobLinked' /\ RowLinked' /\ AdminLinked' /\ CheckinLinked'
      BY <1>b, <1>3
      DEF GiveUp, JobLinked, RowLinked, AdminLinked, CheckinLinked, serverVars
    <2> QED
      BY <2>4, <2>5 DEF TypeInv, Linked
  <1>4. ASSUME NEW d \in Device, SaveAcked(d)
       PROVE  TypeInv'
    <2>1. apc' \in [Device -> {"idle", "waiting", "acked", "working", "recheck"}]
      BY <1>a, <1>4 DEF SaveAcked
    <2>2. disk' \in [Device -> SUBSET Result]
      BY <1>a, <1>4 DEF SaveAcked
    <2>3. faults' \in 0..MaxFaults
      BY <1>a, <1>4, DeploymentsAssumption DEF SaveAcked, Fault
    <2>4. TypeOK'
      BY <1>4, <2>1, <2>2, <2>3
      DEF SaveAcked, TypeInv, TypeOK, serverVars, agentVars
    <2>5. JobLinked' /\ RowLinked' /\ AdminLinked' /\ CheckinLinked'
      BY <1>b, <1>4
      DEF SaveAcked, JobLinked, RowLinked, AdminLinked, CheckinLinked,
          serverVars
    <2> QED
      BY <2>4, <2>5 DEF TypeInv, Linked
  <1>5. ASSUME NEW d \in Device, NEW w \in todo[d], Execute(d, w)
       PROVE  TypeInv'
    <2>1. todo' \in [Device -> SUBSET Delivery]
      BY <1>a, <1>5 DEF Execute
    <2>2. unsaved' \in [Device -> SUBSET Result]
      BY <1>a, <1>5 DEF Execute, Result, Delivery
    <2>3. ran' \in SUBSET Run
      BY <1>a, <1>5 DEF Execute, Run, Delivery
    <2>4. TypeOK'
      BY <1>5, <2>1, <2>2, <2>3
      DEF Execute, TypeInv, TypeOK, serverVars, agentVars
    <2>5. JobLinked' /\ RowLinked' /\ AdminLinked' /\ CheckinLinked'
      BY <1>b, <1>5
      DEF Execute, JobLinked, RowLinked, AdminLinked, CheckinLinked, serverVars
    <2> QED
      BY <2>4, <2>5 DEF TypeInv, Linked
  <1>6. ASSUME NEW d \in Device, QueueResult(d)
       PROVE  TypeInv'
    <2>1. apc' \in [Device -> {"idle", "waiting", "acked", "working", "recheck"}]
      BY <1>a, <1>6 DEF QueueResult
    <2>2. mem' \in [Device -> SUBSET Result]
      BY <1>a, <1>6 DEF QueueResult
    <2>3. disk' \in [Device -> SUBSET Result]
      BY <1>a, <1>6 DEF QueueResult
    <2>4. unsaved' \in [Device -> SUBSET Result]
      BY <1>a, <1>6 DEF QueueResult
    <2>5. faults' \in 0..MaxFaults
      BY <1>a, <1>6, DeploymentsAssumption DEF QueueResult, Fault
    <2>6. TypeOK'
      BY <1>6, <2>1, <2>2, <2>3, <2>4, <2>5
      DEF QueueResult, TypeInv, TypeOK, serverVars, agentVars
    <2>7. JobLinked' /\ RowLinked' /\ AdminLinked' /\ CheckinLinked'
      BY <1>b, <1>6
      DEF QueueResult, JobLinked, RowLinked, AdminLinked, CheckinLinked,
          serverVars
    <2> QED
      BY <2>6, <2>7 DEF TypeInv, Linked
  <1>7. ASSUME NEW d \in Device, EndCycle(d)
       PROVE  TypeInv'
    <2>1. apc' \in [Device -> {"idle", "waiting", "acked", "working", "recheck"}]
      BY <1>a, <1>7 DEF EndCycle
    <2>2. TypeOK'
      BY <1>7, <2>1 DEF EndCycle, TypeInv, TypeOK, serverVars, agentVars
    <2>3. JobLinked' /\ RowLinked' /\ AdminLinked' /\ CheckinLinked'
      BY <1>b, <1>7
      DEF EndCycle, JobLinked, RowLinked, AdminLinked, CheckinLinked,
          serverVars
    <2> QED
      BY <2>2, <2>3 DEF TypeInv, Linked
  <1>8. ASSUME NEW d \in Device, Crash(d)
       PROVE  TypeInv'
    <2>1. apc' \in [Device -> {"idle", "waiting", "acked", "working", "recheck"}]
      BY <1>a, <1>8 DEF Crash
    <2>2. conn' \in [Device -> Checkin \cup {None}]
      BY <1>a, <1>8 DEF Crash
    <2>3. mem' \in [Device -> SUBSET Result]
      BY <1>a, <1>8 DEF Crash
    <2>4. todo' \in [Device -> SUBSET Delivery]
      BY <1>a, <1>8 DEF Crash
    <2>5. unsaved' \in [Device -> SUBSET Result]
      BY <1>a, <1>8 DEF Crash
    <2>6. follow' \in [Device -> 0..MaxFollowUp]
      BY <1>a, <1>8, DeploymentsAssumption DEF Crash
    <2>7. faults' \in 0..MaxFaults
      BY <1>a, <1>8, DeploymentsAssumption DEF Crash, Fault
    <2>8. lost' \in SUBSET Attempt
      BY <1>a, <1>8 DEF Crash, Keys, Key, Delivery, Result, Attempt
    <2>9. TypeOK'
      BY <1>8, <2>1, <2>2, <2>3, <2>4, <2>5, <2>6, <2>7, <2>8
      DEF Crash, TypeInv, TypeOK, serverVars, agentVars
    <2>10. JobLinked' /\ RowLinked' /\ AdminLinked' /\ CheckinLinked'
      BY <1>b, <1>8
      DEF Crash, JobLinked, RowLinked, AdminLinked, CheckinLinked, serverVars
    <2> QED
      BY <2>9, <2>10 DEF TypeInv, Linked
  <1> QED
    BY <1>1, <1>2, <1>3, <1>4, <1>5, <1>6, <1>7, <1>8 DEF AgentStep

LEMMA StutterTypeInv == TypeInv /\ UNCHANGED vars => TypeInv'
  BY DEF TypeInv, TypeOK, Linked, JobLinked, RowLinked, AdminLinked,
         CheckinLinked, vars, agentVars

LEMMA TypeInvInductive == Spec => []TypeInv
  <1>1. TypeInv /\ [Next]_vars => TypeInv'
    BY PackageStepTypeInv, DeploymentStepTypeInv, CheckinStepTypeInv,
       AgentStepTypeInv, StutterTypeInv DEF Next
  <1> QED
    BY InitTypeInv, <1>1, PTL DEF Spec

\* Every variable stays in its type: no handler and no agent, in any order,
\* writes a row, a request or a queue the schema does not allow.
THEOREM TypeCorrect == Spec => []TypeOK
  <1>1. TypeInv => TypeOK
    BY DEF TypeInv
  <1> QED
    BY TypeInvInductive, <1>1, PTL

-----------------------------------------------------------------------------
\* A checkin's statements leave the packages and the admin requests
\* alone, and make at most one claim.
LEMMA CheckinsLeave ==
  CheckinStep => /\ UNCHANGED <<pkg, admin, approved, ran>>
                 /\ claims' = claims \/ claims' = claims + 1
  <1> DEFINE Left == /\ UNCHANGED <<pkg, admin, approved, ran>>
                     /\ claims' = claims \/ claims' = claims + 1
  <1> SUFFICES ASSUME NEW q \in Checkin,
                      \/ \E r \in checkin[q].results :
                           ApplyResult(q, r) \/ ResultThrows(q, r)
                      \/ ResultsDone(q) \/ FanOut(q)
                      \/ \E window, offer \in BOOLEAN : Select(q, window, offer)
                      \/ ClaimJobs(q) \/ CheckinFails(q) \/ ReplyUnread(q)
               PROVE  Left
    BY DEF CheckinStep
  <1>1. ASSUME NEW r \in checkin[q].results, ApplyResult(q, r) \/ ResultThrows(q, r)
        PROVE  Left
    BY <1>1 DEF ApplyResult, ResultThrows, serverVars
  <1>2. ResultsDone(q) \/ FanOut(q) => Left
    BY DEF ResultsDone, FanOut, serverVars
  <1>3. ASSUME NEW window \in BOOLEAN, NEW offer \in BOOLEAN,
               Select(q, window, offer)
        PROVE  Left
    BY <1>3 DEF Select, serverVars
  <1>4. ClaimJobs(q) => Left
    BY DEF ClaimJobs
  <1>5. CheckinFails(q) \/ ReplyUnread(q) => Left
    BY DEF CheckinFails, ReplyUnread, serverVars
  <1> QED
    BY <1>1, <1>2, <1>3, <1>4, <1>5

\* An agent's steps change no table and no admin request, and forget
\* no execution.
LEMMA AgentsLeave ==
  AgentStep => /\ UNCHANGED <<pkg, dep, job, claims, admin, approved>>
               /\ ran \subseteq ran'
  <1> DEFINE Left == /\ UNCHANGED <<pkg, dep, job, claims, admin, approved>>
                     /\ ran \subseteq ran'
  <1> SUFFICES ASSUME NEW d \in Device,
                      \/ \E q \in Checkin : SendCheckin(d, q) \/ ReceiveReply(d, q)
                      \/ GiveUp(d) \/ SaveAcked(d)
                      \/ \E w \in todo[d] : Execute(d, w)
                      \/ QueueResult(d) \/ EndCycle(d) \/ Crash(d)
               PROVE  Left
    BY DEF AgentStep
  <1>1. ASSUME NEW q \in Checkin, SendCheckin(d, q) PROVE Left
    BY <1>1 DEF SendCheckin, serverVars
  <1>2. ASSUME NEW q \in Checkin, ReceiveReply(d, q) PROVE Left
    BY <1>2 DEF ReceiveReply, serverVars
  <1>3. GiveUp(d) \/ SaveAcked(d) => Left
    BY DEF GiveUp, SaveAcked, serverVars
  <1>4. ASSUME NEW w \in todo[d], Execute(d, w) PROVE Left
    BY <1>4 DEF Execute, serverVars
  <1>5. QueueResult(d) \/ EndCycle(d) => Left
    BY DEF QueueResult, EndCycle, serverVars
  <1>6. Crash(d) => Left
    BY DEF Crash, serverVars
  <1> QED
    BY <1>1, <1>2, <1>3, <1>4, <1>5, <1>6

\* What the transaction of an approval keeps true from its first write to its
\* COMMIT, while others go on queueing, claiming and withdrawing rows: it is
\* alone on its package, whose content stays; a row it is refreshing carries
\* that content if it was claimed meanwhile, a row queued meanwhile carries
\* that content or none.
LockInv ==
    \A a \in Admin : admin[a].pc = "commit" =>
      LET p == admin[a].pkg IN
      /\ Exists(p)
      /\ \A b \in Admin : admin[b].pc = "commit" /\ admin[b].pkg = p => b = a
      /\ \A i \in admin[a].dep :
           /\ dep[i].pkg = p /\ dep[i].status \notin {"absent", "deleted"}
           /\ dep[i].status \in {"running", "success", "failed"}
                => dep[i].snap = pkg[p].content
      /\ \A i \in Deployment \ admin[a].dep :
           dep[i].status = "pending" /\ dep[i].pkg = p
             => dep[i].snap \in {0, pkg[p].content}

QueueInv == LockInv /\ NoStaleSnapshot

\* What one step does to row i.
Kept(i) ==
    /\ dep'[i] = dep[i]
    /\ dep[i].status = "pending" /\ pkg'[dep[i].pkg].status = "approved"
         => pkg'[dep[i].pkg] = pkg[dep[i].pkg]
Enqueued(i) ==
    /\ pkg' = pkg
    /\ dep'[i].status = "pending" /\ dep'[i].claim = 0 /\ dep'[i].exit = None
    /\ dep'[i].snap = SnapshotOf(dep'[i].pkg)
    /\ dep'[i].pkg \in Package
    /\ dep[i].status # "absent" => /\ dep'[i].pkg = dep[i].pkg
                                   /\ dep'[i].device = dep[i].device
\* An approval commits, and the row is not among those it refreshes; or it is.
Missed(i) ==
    /\ dep'[i] = dep[i]
    /\ dep[i].pkg \in Package /\ dep[i].snap \in {0, pkg[dep[i].pkg].content}
    /\ pkg'[dep[i].pkg].content = pkg[dep[i].pkg].content
Refreshed(i) ==
    /\ dep[i].status \in {"pending", "cancelled"}
    /\ dep[i].pkg \in Package
    /\ dep'[i] = [dep[i] EXCEPT !.snap = pkg[dep[i].pkg].content]
    /\ pkg'[dep[i].pkg].content = pkg[dep[i].pkg].content
    /\ pkg[dep[i].pkg].content \in approved'[dep[i].pkg]
Withdrawn(i) ==
    /\ dep[i].status = "pending"
    /\ dep'[i] = [dep[i] EXCEPT !.status = "cancelled"]
Removed(i) ==
    /\ dep[i].status # "absent" /\ pkg'[dep[i].pkg].status = "deleted"
    /\ dep'[i] = [dep[i] EXCEPT !.status = "deleted", !.snap = 0]
Claimed(i) ==
    /\ dep[i].status = "pending" /\ dep[i].snap # 0 /\ IsApproved(dep[i].pkg)
    /\ claims' = claims + 1
    /\ dep'[i] = [dep[i] EXCEPT !.status = "running", !.claim = claims + 1]
TimedOut(i) ==
    /\ dep[i].status = "running"
    /\ dep'[i] = [dep[i] EXCEPT !.status = "failed"]
Settled(i) ==
    /\ dep[i].status = "running"
    /\ \E q \in Checkin : \E r \in checkin[q].results :
         /\ r.dep = i /\ dep[i].device = checkin[q].device
         /\ dep[i].device \in Legacy \/ dep[i].claim = r.claim
         /\ dep'[i] = [dep[i] EXCEPT
                         !.status = IF r.exit = 0 THEN "success" ELSE "failed",
                         !.exit = r.exit]

RowStep(i) ==
    \/ Kept(i) \/ Enqueued(i) \/ Missed(i) \/ Refreshed(i) \/ Withdrawn(i)
    \/ Removed(i) \/ Claimed(i) \/ TimedOut(i) \/ Settled(i)

LEMMA PackageRowSteps ==
  TypeInv /\ LockInv /\ PackageStep => \A i \in Deployment : RowStep(i)
  <1> SUFFICES ASSUME TypeInv, LockInv, PackageStep, NEW i \in Deployment
               PROVE  RowStep(i)
    OBVIOUS
  <1>a. /\ pkg \in [Package -> PackageRow]
        /\ dep \in [Deployment -> DeploymentRow]
        /\ approved \in [Package -> SUBSET Content]
    BY DEF TypeInv, TypeOK
  <1>b. RowLinked /\ AdminLinked
    BY DEF TypeInv, Linked
  <1>c. UNCHANGED <<pkg, dep>> => Kept(i)
    BY DEF Kept
  <1>1. ASSUME NEW p \in Package, CreatePackage(p) PROVE RowStep(i)
    BY <1>a, <1>b, <1>1 DEF CreatePackage, PackageRow, Kept, RowStep
  <1>2. ASSUME NEW p \in Package, EditPackage(p) PROVE RowStep(i)
    BY <1>a, <1>b, <1>2 DEF EditPackage, Edited, PackageRow, Kept, RowStep
  <1>3. ASSUME NEW a \in Admin, NEW p \in Package,
               ApproveCheck(a, p) \/ DeployCheck(a, p) \/ DeleteCheck(a, p)
        PROVE  RowStep(i)
    BY <1>3, <1>c DEF ApproveCheck, DeployCheck, DeleteCheck, serverVars, RowStep
  <1>4. ASSUME NEW a \in Admin, NEW p \in Package, CancelAllRows(a, p)
        PROVE  RowStep(i)
    BY <1>a, <1>4 DEF CancelAllRows, Withdrawn, Kept, RowStep
  <1>5. ASSUME NEW a \in Admin, ApproveCommit(a) PROVE RowStep(i)
    <2> DEFINE p == admin[a].pkg
    <2>a. /\ p \in Package /\ admin[a].pc = "commit"
          /\ pkg' = [pkg EXCEPT ![p].status = "approved"]
          /\ dep' = RefreshedSnapshots(a)
          /\ approved' = [approved EXCEPT ![p] = @ \cup {pkg[p].content}]
      BY <1>b, <1>5 DEF AdminLinked, ApproveCommit
    <2>b. /\ pkg'[p].content = pkg[p].content
          /\ pkg[p].content \in approved'[p]
      BY <1>a, <2>a DEF PackageRow
    <2>1. CASE i \in admin[a].dep
      <3>1. /\ dep[i].pkg = p /\ dep[i].status \notin {"absent", "deleted"}
            /\ dep[i].status \in {"running", "success", "failed"}
                 => dep[i].snap = pkg[p].content
        BY <2>a, <2>1 DEF LockInv
      <3>2. dep'[i] = [dep[i] EXCEPT !.snap = pkg[p].content]
        BY <2>a, <2>1 DEF RefreshedSnapshots
      <3>3. CASE dep[i].status \in {"pending", "cancelled"}
        BY <2>a, <2>b, <3>1, <3>2, <3>3 DEF Refreshed, RowStep
      <3>4. CASE dep[i].status \in {"running", "success", "failed"}
        <4>1. dep'[i] = dep[i]
          BY <1>a, <3>1, <3>2, <3>4 DEF DeploymentRow
        <4> QED
          BY <3>4, <4>1 DEF Kept, RowStep
      <3> QED
        BY <1>a, <3>1, <3>3, <3>4 DEF DeploymentRow
    <2>2. CASE i \notin admin[a].dep
      <3>1. dep'[i] = dep[i]
        BY <2>a, <2>2 DEF RefreshedSnapshots
      <3>2. CASE dep[i].status = "pending" /\ dep[i].pkg = p
        <4>1. dep[i].snap \in {0, pkg[p].content}
          BY <2>a, <2>2, <3>2 DEF LockInv
        <4> QED
          BY <2>a, <2>b, <3>1, <3>2, <4>1 DEF Missed, RowStep
      <3>3. CASE ~(dep[i].status = "pending" /\ dep[i].pkg = p)
        BY <1>a, <1>b, <2>a, <3>1, <3>3 DEF Kept, RowStep, RowLinked
      <3> QED
        BY <3>2, <3>3
    <2> QED
      BY <2>1, <2>2
  <1>6. ASSUME NEW a \in Admin, DeployJob(a) PROVE RowStep(i)
    BY <1>6, <1>c DEF DeployJob, RowStep
  <1>7. ASSUME NEW a \in Admin, NEW d \in Device, DeployRow(a, d)
        PROVE  RowStep(i)
    <2>1. admin[a].pkg \in Package
      BY <1>b, <1>7 DEF AdminLinked, DeployRow
    <2>2. \/ UNCHANGED <<pkg, dep>>
          \/ /\ pkg' = pkg
             /\ \E k \in FreeRow : dep' = [dep EXCEPT ![k] =
                                  NewRow(admin[a].pkg, d, admin[a].job)]
      BY <1>7 DEF DeployRow
    <2> QED
      BY <1>a, <1>c, <2>1, <2>2
      DEF NewRow, FreeRow, Kept, Enqueued, RowStep, SnapshotOf, IsApproved
  <1>8. ASSUME NEW a \in Admin,
               ApproveRefresh(a) \/ DeployEnd(a) \/ CancelAllJobs(a)
        PROVE  RowStep(i)
    BY <1>8, <1>c
    DEF ApproveRefresh, DeployEnd, CancelAllJobs, serverVars, RowStep
  <1>9. ASSUME NEW a \in Admin, DeleteCommit(a) PROVE RowStep(i)
    <2>1. admin[a].pkg \in Package
      BY <1>b, <1>9 DEF AdminLinked, DeleteCommit
    <2>2. CASE dep[i].pkg = admin[a].pkg
      <3>1. dep[i].status # "absent"
        BY <1>b, <2>1, <2>2, DeploymentsAssumption DEF RowLinked
      <3>2. pkg'[admin[a].pkg].status = "deleted"
        BY <1>a, <1>9, <2>1 DEF DeleteCommit, PackageRow
      <3>3. dep'[i] = [dep[i] EXCEPT !.status = "deleted", !.snap = 0]
        BY <1>9, <2>2 DEF DeleteCommit
      <3> QED
        BY <2>2, <3>1, <3>2, <3>3 DEF Removed, RowStep
    <2>3. CASE dep[i].pkg # admin[a].pkg
      BY <1>a, <1>b, <1>9, <2>1, <2>3
      DEF DeleteCommit, Kept, RowStep, RowLinked
    <2> QED
      BY <2>2, <2>3
  <1>10. ASSUME NEW j \in Job, CancelJob(j) PROVE RowStep(i)
    BY <1>10, <1>c DEF CancelJob, RowStep
  <1> QED
    BY <1>1, <1>2, <1>3, <1>4, <1>5, <1>6, <1>7, <1>8, <1>9, <1>10 DEF PackageStep

LEMMA DeploymentRowSteps ==
  TypeInv /\ DeploymentStep => \A i \in Deployment : RowStep(i)
  <1> SUFFICES ASSUME TypeInv, DeploymentStep, NEW i \in Deployment
               PROVE  RowStep(i)
    OBVIOUS
  <1>a. /\ pkg \in [Package -> PackageRow]
        /\ dep \in [Deployment -> DeploymentRow]
    BY DEF TypeInv, TypeOK
  <1>b. RowLinked /\ AdminLinked
    BY DEF TypeInv, Linked
  <1>c. UNCHANGED <<pkg, dep>> => Kept(i)
    BY DEF Kept
  <1>d. ASSUME dep[i].status # "absent", dep'[i] = Requeued(i), pkg' = pkg
        PROVE  Enqueued(i)
    <2>1. dep[i].pkg \in Package
      BY <1>b, <1>d DEF RowLinked
    <2>2. /\ dep'[i].pkg = dep[i].pkg /\ dep'[i].device = dep[i].device
          /\ dep'[i].status = "pending" /\ dep'[i].claim = 0
          /\ dep'[i].exit = None /\ dep'[i].snap = SnapshotOf(dep[i].pkg)
      BY <1>a, <1>d DEF Requeued, DeploymentRow
    <2> QED
      BY <1>d, <2>1, <2>2 DEF Enqueued
  <1>1. ASSUME NEW S \in SUBSET Deployment, CancelDeployments(S) PROVE RowStep(i)
    BY <1>a, <1>1 DEF CancelDeployments, Withdrawn, Kept, RowStep
  <1>2. ASSUME NEW S \in SUBSET Deployment, RetryBulk(S) PROVE RowStep(i)
    <2>1. CASE i \in Retryable(S)
      <3>1. dep'[i] = Requeued(i) /\ pkg' = pkg
        BY <1>2, <2>1 DEF RetryBulk
      <3>2. dep[i].status # "absent"
        BY <2>1 DEF Retryable
      <3> QED
        BY <3>1, <3>2, <1>d DEF RowStep
    <2>2. CASE i \notin Retryable(S)
      BY <1>2, <2>2 DEF RetryBulk, Kept, RowStep
    <2> QED
      BY <2>1, <2>2
  <1>3. ASSUME NEW a \in Admin, NEW k \in Deployment,
               RetryRead(a, k) \/ RetryConflict(a, k)
        PROVE  RowStep(i)
    BY <1>3, <1>c DEF RetryRead, RetryConflict, serverVars, RowStep
  <1>4. ASSUME NEW a \in Admin, NEW k \in Deployment, RetryUpdate(a, k)
        PROVE  RowStep(i)
    <2>1. dep[k].status # "absent"
      BY <1>b, <1>4 DEF RetryUpdate, AdminLinked
    <2>2. pkg' = pkg /\ (dep' = dep \/ dep' = [dep EXCEPT ![k] = Requeued(k)])
      BY <1>4 DEF RetryUpdate
    <2>3. dep'[i] = dep[i] \/ (k = i /\ dep'[i] = Requeued(i))
      BY <1>a, <2>2
    <2> QED
      BY <1>d, <2>1, <2>2, <2>3 DEF Kept, RowStep
  <1>5. ASSUME NEW c \in 1..claims, TimeoutStuck(c) PROVE RowStep(i)
    BY <1>a, <1>5 DEF TimeoutStuck, TimedOut, Kept, RowStep
  <1>6. ASSUME NEW a \in Admin, AdminFails(a) PROVE RowStep(i)
    BY <1>6, <1>c DEF AdminFails, serverVars, RowStep
  <1> QED
    BY <1>1, <1>2, <1>3, <1>4, <1>5, <1>6 DEF DeploymentStep

LEMMA CheckinRowSteps ==
  TypeInv /\ CheckinStep => \A i \in Deployment : RowStep(i)
  <1> SUFFICES ASSUME TypeInv, CheckinStep, NEW i \in Deployment
               PROVE  RowStep(i)
    OBVIOUS
  <1>a. /\ pkg \in [Package -> PackageRow]
        /\ dep \in [Deployment -> DeploymentRow]
        /\ job \in [Job -> JobRow]
        /\ checkin \in [Checkin -> CheckinRequest]
        /\ claims \in Claim
    BY DEF TypeInv, TypeOK
  <1>b. JobLinked /\ RowLinked /\ CheckinLinked
    BY DEF TypeInv, Linked
  <1>c. UNCHANGED <<pkg, dep>> => Kept(i)
    BY DEF Kept
  <1>1. ASSUME NEW q \in Checkin, NEW r \in checkin[q].results, ApplyResult(q, r)
        PROVE  RowStep(i)
    <2>1. r.dep \in Deployment
      BY <1>a DEF CheckinRequest, Result
    <2>2. CASE Applies(r, checkin[q].device) /\ r.dep = i
      <3>1. dep'[i] = [dep[i] EXCEPT
                         !.status = IF r.exit = 0 THEN "success" ELSE "failed",
                         !.exit = r.exit]
        BY <1>a, <1>1, <2>2 DEF ApplyResult
      <3> QED
        BY <2>2, <3>1 DEF Applies, TokenMatches, Settled, RowStep
    <2>3. CASE ~(Applies(r, checkin[q].device) /\ r.dep = i)
      BY <1>a, <1>1, <2>1, <2>3 DEF ApplyResult, Kept, RowStep
    <2> QED
      BY <2>2, <2>3
  <1>2. ASSUME NEW q \in Checkin, FanOut(q) PROVE RowStep(i)
    <2> DEFINE d == checkin[q].device
    <2>1. PICK J \in SUBSET Missing(d) : \E row \in [J -> FreeRow] :
            dep' = [k \in Deployment |->
                     IF \E j \in J : row[j] = k
                     THEN NewRow(job[CHOOSE j \in J : row[j] = k].pkg, d,
                                 CHOOSE j \in J : row[j] = k)
                     ELSE dep[k]]
      BY <1>2 DEF FanOut
    <2>2. pkg' = pkg
      BY <1>2 DEF FanOut
    <2>3. \A j \in J : job[j].pkg \in Package
      BY <1>b DEF Missing, JobLinked
    <2>4. \/ dep'[i] = dep[i]
          \/ dep[i].status = "absent" /\ \E j \in J : dep'[i] = NewRow(job[j].pkg, d, j)
      BY <2>1 DEF FreeRow
    <2>5. CASE dep'[i] = dep[i]
      BY <2>2, <2>5 DEF Kept, RowStep
    <2>6. ASSUME dep[i].status = "absent", NEW j \in J,
                 dep'[i] = NewRow(job[j].pkg, d, j)
          PROVE  Enqueued(i)
      BY <2>2, <2>3, <2>6 DEF NewRow, Enqueued
    <2> QED
      BY <2>4, <2>5, <2>6 DEF RowStep
  <1>3. ASSUME NEW q \in Checkin, ClaimJobs(q) PROVE RowStep(i)
    <2> DEFINE C == IF ResponseIgnored(q) THEN {} ELSE Claimable(q)
    <2>1. CASE i \in C
      <3>1. /\ claims' = claims + 1
            /\ dep'[i] = [dep[i] EXCEPT !.status = "running", !.claim = claims + 1]
        BY <1>3, <2>1 DEF ClaimJobs
      <3>2. dep[i].status = "pending" /\ dep[i].snap # 0 /\ IsApproved(dep[i].pkg)
        BY <2>1 DEF Claimable
      <3> QED
        BY <3>1, <3>2 DEF Claimed, RowStep
    <2>2. CASE i \notin C
      <3>1. dep'[i] = dep[i] /\ pkg' = pkg
        BY <1>3, <2>2 DEF ClaimJobs
      <3> QED
        BY <3>1 DEF Kept, RowStep
    <2> QED
      BY <2>1, <2>2
  <1>4. ASSUME NEW q \in Checkin, NEW r \in checkin[q].results, ResultThrows(q, r)
        PROVE  RowStep(i)
    BY <1>4, <1>c DEF ResultThrows, serverVars, RowStep
  <1>5. ASSUME NEW q \in Checkin,
               \/ ResultsDone(q) \/ CheckinFails(q) \/ ReplyUnread(q)
               \/ \E window, offer \in BOOLEAN : Select(q, window, offer)
        PROVE  RowStep(i)
    BY <1>5, <1>c
    DEF ResultsDone, CheckinFails, ReplyUnread, Select, serverVars, RowStep
  <1> QED
    BY <1>1, <1>2, <1>3, <1>4, <1>5 DEF CheckinStep

LEMMA RowSteps ==
  TypeInv /\ LockInv /\ [Next]_vars => \A i \in Deployment : RowStep(i)
  <1>1. TypeInv /\ AgentStep => UNCHANGED <<pkg, dep>>
    BY AgentsLeave
  <1>2. UNCHANGED <<pkg, dep>> => \A i \in Deployment : RowStep(i)
    BY DEF Kept, RowStep
  <1> QED
    BY PackageRowSteps, DeploymentRowSteps, CheckinRowSteps, <1>1, <1>2
    DEF Next, vars

-----------------------------------------------------------------------------
\* What one step does to the transaction of an approval in slot a.
Begun(a) ==
    /\ admin[a].pc = "approve" /\ Exists(admin[a].pkg) /\ ~Locked(admin[a].pkg)
    /\ UNCHANGED <<pkg, dep>>
    /\ admin' = [admin EXCEPT
                    ![a].pc = "commit",
                    ![a].dep = {i \in Deployment : /\ dep[i].status = "pending"
                                                   /\ dep[i].pkg = admin[a].pkg}]
Held(a) ==
    /\ admin[a].pc = "commit" /\ admin'[a] = admin[a]
    /\ pkg'[admin[a].pkg] = pkg[admin[a].pkg]
    /\ \A b \in Admin :
         /\ admin'[b].pc = "commit" /\ admin'[b].pkg = admin[a].pkg
         => admin[b].pc = "commit" /\ admin[b].pkg = admin[a].pkg

\* The transaction of another approval never begins on a locked package.
LEMMA OthersBegin ==
  ASSUME TypeInv, NEW a \in Admin, admin[a].pc = "commit",
         NEW b \in Admin, Begun(b)
  PROVE  Held(a)
  <1>1. admin \in [Admin -> AdminRequest]
    BY DEF TypeInv, TypeOK
  <1>2. b # a /\ admin[b].pkg # admin[a].pkg
    BY DEF Begun, Locked
  <1> QED
    BY <1>1, <1>2 DEF Begun, Held, AdminRequest

\* A step of admin slot b that begins no transaction and leaves `packages`.
LEMMA OthersMove ==
  ASSUME TypeInv, NEW b \in Admin, NEW r, admin' = [admin EXCEPT ![b] = r],
         r.pc # "commit", NEW a \in Admin, admin'[a].pc = "commit",
         pkg'[admin[a].pkg] = pkg[admin[a].pkg]
  PROVE  Held(a)
  <1>1. admin \in [Admin -> AdminRequest]
    BY DEF TypeInv, TypeOK
  <1> QED
    BY <1>1 DEF Held

LEMMA LockSteps ==
  TypeInv /\ LockInv /\ [Next]_vars =>
    \A a \in Admin : admin'[a].pc = "commit" => Begun(a) \/ Held(a)
  <1> SUFFICES ASSUME TypeInv, LockInv, [Next]_vars,
                      NEW a \in Admin, admin'[a].pc = "commit"
               PROVE  Begun(a) \/ Held(a)
    OBVIOUS
  <1>a. /\ admin \in [Admin -> AdminRequest]
        /\ pkg \in [Package -> PackageRow]
    BY DEF TypeInv, TypeOK
  <1>b. AdminLinked
    BY DEF TypeInv, Linked
  <1>1. UNCHANGED <<pkg, admin>> => Held(a)
    BY DEF Held
  <1>2. ASSUME NEW p \in Package, CreatePackage(p) \/ EditPackage(p)
        PROVE  Held(a)
    <2>1. admin' = admin /\ admin[a].pc = "commit"
      BY <1>2 DEF CreatePackage, EditPackage
    <2>2. p # admin[a].pkg
      BY <1>2, <2>1 DEF CreatePackage, EditPackage, LockInv, Exists, Locked
    <2>3. pkg'[admin[a].pkg] = pkg[admin[a].pkg]
      <3>1. admin[a].pkg \in Package
        BY <1>b, <2>1 DEF AdminLinked
      <3> QED
        BY <1>a, <1>2, <2>2, <3>1 DEF CreatePackage, EditPackage
    <2> QED
      BY <2>1, <2>3 DEF Held
  <1>3. ASSUME NEW b \in Admin, NEW p \in Package,
               \/ ApproveCheck(b, p) \/ DeployCheck(b, p)
               \/ CancelAllRows(b, p) \/ DeleteCheck(b, p)
        PROVE  Held(a)
    <2>1. /\ pkg' = pkg
          /\ \E r : r.pc # "commit" /\ admin' = [admin EXCEPT ![b] = r]
      <3>1. CASE ApproveCheck(b, p) \/ CancelAllRows(b, p) \/ DeleteCheck(b, p)
        BY <3>1 DEF ApproveCheck, CancelAllRows, DeleteCheck, NoAdmin, serverVars
      <3>2. CASE DeployCheck(b, p)
        <4>1. PICK T \in SUBSET Device, scoped \in BOOLEAN :
                admin' = [admin EXCEPT ![b] =
                            [NoAdmin EXCEPT !.pc = IF scoped THEN "job" ELSE "rows",
                                            !.pkg = p, !.targets = T]]
          BY <3>2 DEF DeployCheck
        <4>2. [NoAdmin EXCEPT !.pc = IF scoped THEN "job" ELSE "rows",
                              !.pkg = p, !.targets = T].pc # "commit"
          BY DEF NoAdmin
        <4> QED
          BY <3>2, <4>1, <4>2 DEF DeployCheck, serverVars
      <3> QED
        BY <1>3, <3>1, <3>2
    <2> QED
      BY <2>1, OthersMove
  <1>4. ASSUME NEW b \in Admin, ApproveRefresh(b)
        PROVE  Begun(a) \/ Held(a)
    <2>1. Begun(b) \/ admin' = [admin EXCEPT ![b] = NoAdmin]
      BY <1>4 DEF ApproveRefresh, Begun, serverVars
    <2>2. CASE Begun(b)
      <3>1. b = a \/ admin[a].pc = "commit"
        BY <1>a, <2>2 DEF Begun
      <3> QED
        BY <2>2, <3>1, OthersBegin
    <2>3. CASE admin' = [admin EXCEPT ![b] = NoAdmin]
      <3>1. NoAdmin.pc # "commit" /\ pkg' = pkg
        BY <1>4 DEF NoAdmin, ApproveRefresh, serverVars
      <3> QED
        BY <2>3, <3>1, OthersMove
    <2> QED
      BY <2>1, <2>2, <2>3
  <1>5. ASSUME NEW b \in Admin, ApproveCommit(b) \/ DeleteCommit(b)
        PROVE  Held(a)
    <2>1. admin' = [admin EXCEPT ![b] = NoAdmin] /\ NoAdmin.pc # "commit"
      BY <1>5 DEF ApproveCommit, DeleteCommit, NoAdmin
    <2>2. b # a /\ admin[a].pc = "commit"
      BY <1>a, <2>1
    <2>3. admin[b].pkg # admin[a].pkg
      BY <1>5, <2>2 DEF ApproveCommit, DeleteCommit, LockInv, Locked
    <2>4. pkg'[admin[a].pkg] = pkg[admin[a].pkg]
      <3>1. admin[a].pkg \in Package
        BY <1>b, <2>2 DEF AdminLinked
      <3> QED
        BY <1>a, <1>5, <2>3, <3>1 DEF ApproveCommit, DeleteCommit
    <2> QED
      BY <2>1, <2>4, OthersMove
  <1>6. ASSUME NEW b \in Admin,
               \/ DeployJob(b) \/ DeployEnd(b) \/ CancelAllJobs(b)
               \/ \E d \in Device : DeployRow(b, d)
               \/ \E i \in Deployment : RetryRead(b, i) \/ RetryConflict(b, i)
                                        \/ RetryUpdate(b, i)
               \/ AdminFails(b)
        PROVE  Held(a)
    <2>1. pkg' = pkg
      BY <1>6
      DEF DeployJob, DeployEnd, CancelAllJobs, DeployRow, RetryRead,
          RetryConflict, RetryUpdate, AdminFails, serverVars
    <2>2. \E r : r.pc # "commit" /\ admin' = [admin EXCEPT ![b] = r]
      <3>1. admin[b] \in AdminRequest
        BY <1>a
      <3>2. CASE \/ DeployEnd(b) \/ CancelAllJobs(b) \/ AdminFails(b)
                 \/ \E i \in Deployment : RetryRead(b, i) \/ RetryUpdate(b, i)
        BY <3>2
        DEF DeployEnd, CancelAllJobs, AdminFails, RetryRead, RetryUpdate, NoAdmin
      <3>3. CASE DeployJob(b)
        <4>1. \/ admin' = [admin EXCEPT ![b] = NoAdmin]
              \/ \E j \in Job : admin' = [admin EXCEPT ![b].pc = "rows", ![b].job = j]
          BY <3>3 DEF DeployJob
        <4>2. CASE admin' = [admin EXCEPT ![b] = NoAdmin]
          BY <4>2 DEF NoAdmin
        <4>3. ASSUME NEW j \in Job,
                     admin' = [admin EXCEPT ![b].pc = "rows", ![b].job = j]
              PROVE  \E r : r.pc # "commit" /\ admin' = [admin EXCEPT ![b] = r]
          <5> DEFINE r == [admin[b] EXCEPT !.pc = "rows", !.job = j]
          <5>1. r.pc # "commit"
            BY <3>1 DEF AdminRequest
          <5>2. admin' = [admin EXCEPT ![b] = r]
            BY <4>3
          <5> QED
            BY <5>1, <5>2
        <4> QED
          BY <4>1, <4>2, <4>3
      <3>4. CASE \E d \in Device : DeployRow(b, d)
        <4>1. PICK d \in Device : admin' = [admin EXCEPT ![b].targets = @ \ {d}]
          BY <3>4 DEF DeployRow
        <4>2. [admin[b] EXCEPT !.targets = @ \ {d}].pc # "commit"
          BY <3>1, <3>4 DEF DeployRow, AdminRequest
        <4> QED
          BY <1>a, <4>1, <4>2
      <3>5. CASE \E i \in Deployment : RetryConflict(b, i)
        <4>1. PICK r : /\ admin' = [admin EXCEPT ![b] = r]
                       /\ r = NoAdmin \/ r = [admin[b] EXCEPT !.pc = "requeue"]
          BY <1>a, <3>5 DEF RetryConflict
        <4>2. r.pc # "commit"
          BY <3>1, <4>1 DEF NoAdmin, AdminRequest
        <4> QED
          BY <4>1, <4>2
      <3> QED
        BY <1>6, <3>2, <3>3, <3>4, <3>5
    <2> QED
      BY <2>1, <2>2, OthersMove
  <1>7. CASE PackageStep
    <2>1. ASSUME NEW j \in Job, CancelJob(j) PROVE Held(a)
      BY <1>1, <2>1 DEF CancelJob
    <2> QED
      BY <1>2, <1>3, <1>4, <1>5, <1>6, <1>7, <2>1 DEF PackageStep
  <1>8. CASE DeploymentStep
    <2>1. ASSUME \/ \E S \in SUBSET Deployment : CancelDeployments(S) \/ RetryBulk(S)
                 \/ \E c \in 1..claims : TimeoutStuck(c)
          PROVE  Held(a)
      BY <1>1, <2>1 DEF CancelDeployments, RetryBulk, TimeoutStuck
    <2> QED
      BY <1>6, <1>8, <2>1 DEF DeploymentStep
  <1>9. CASE CheckinStep \/ AgentStep \/ UNCHANGED vars
    <2>1. UNCHANGED <<pkg, admin>>
      BY <1>9, CheckinsLeave, AgentsLeave DEF serverVars, vars
    <2> QED
      BY <1>1, <2>1
  <1> QED
    BY <1>7, <1>8, <1>9 DEF Next

\* A row an approval is refreshing keeps its place: it stays a row of the
\* package, and if it is claimed, it is claimed with the locked content.
LEMMA RefreshedRowsStay ==
  ASSUME TypeInv, QueueInv, [Next]_vars, NEW a \in Admin, Held(a),
         NEW i \in admin[a].dep
  PROVE  /\ dep'[i].pkg = admin[a].pkg
         /\ dep'[i].status \notin {"absent", "deleted"}
         /\ dep'[i].status \in {"running", "success", "failed"}
              => dep'[i].snap = pkg[admin[a].pkg].content
  <1>a. /\ dep \in [Deployment -> DeploymentRow]
        /\ i \in Deployment
    BY DEF TypeInv, TypeOK, AdminRequest
  <1>b. /\ dep[i].pkg = admin[a].pkg /\ dep[i].status \notin {"absent", "deleted"}
        /\ dep[i].status \in {"running", "success", "failed"}
             => dep[i].snap = pkg[admin[a].pkg].content
    BY DEF QueueInv, LockInv, Held
  <1>1. CASE Kept(i) \/ Missed(i)
    BY <1>b, <1>1 DEF Kept, Missed
  <1>2. CASE Enqueued(i)
    BY <1>b, <1>2 DEF Enqueued
  <1>3. CASE Refreshed(i) \/ Withdrawn(i) \/ TimedOut(i)
    BY <1>a, <1>b, <1>3 DEF Refreshed, Withdrawn, TimedOut, DeploymentRow
  <1>4. CASE Claimed(i)
    <2>1. dep[i].snap = pkg[admin[a].pkg].content
      BY <1>a, <1>b, <1>4 DEF Claimed, QueueInv, NoStaleSnapshot
    <2> QED
      BY <1>a, <1>b, <1>4, <2>1 DEF Claimed, DeploymentRow
  <1>5. CASE Settled(i)
    BY <1>a, <1>b, <1>5 DEF Settled, DeploymentRow
  <1>6. CASE Removed(i)
    BY <1>b, <1>6 DEF Removed, Held, QueueInv, LockInv, Exists
  <1> QED
    BY <1>a, RowSteps, <1>1, <1>2, <1>3, <1>4, <1>5, <1>6 DEF RowStep, QueueInv

LEMMA QueueInvStep == TypeInv /\ QueueInv /\ [Next]_vars => QueueInv'
  <1> SUFFICES ASSUME TypeInv, QueueInv, [Next]_vars PROVE QueueInv'
    OBVIOUS
  <1>a. /\ dep \in [Deployment -> DeploymentRow]
        /\ pkg \in [Package -> PackageRow]
        /\ admin \in [Admin -> AdminRequest]
    BY DEF TypeInv, TypeOK
  <1>b. LockInv /\ NoStaleSnapshot
    BY DEF QueueInv
  <1>1. NoStaleSnapshot'
    <2> SUFFICES ASSUME NEW i \in Deployment, dep'[i].status = "pending",
                        pkg'[dep'[i].pkg].status = "approved"
                 PROVE  dep'[i].snap \in {0, pkg'[dep'[i].pkg].content}
      BY DEF NoStaleSnapshot, IsApproved
    <2>1. CASE Kept(i)
      BY <1>b, <2>1 DEF Kept, NoStaleSnapshot, IsApproved
    <2>2. CASE Enqueued(i)
      BY <2>2 DEF Enqueued, SnapshotOf
    <2>3. CASE Missed(i)
      BY <2>3 DEF Missed
    <2>4. CASE Refreshed(i)
      BY <1>a, <2>4 DEF Refreshed, DeploymentRow
    <2>5. CASE Withdrawn(i) \/ Removed(i) \/ Claimed(i) \/ TimedOut(i)
      BY <1>a, <2>5 DEF Withdrawn, Removed, Claimed, TimedOut, DeploymentRow
    <2>6. CASE Settled(i)
      BY <1>a, <2>6 DEF Settled, DeploymentRow
    <2> QED
      BY <1>b, RowSteps, <2>1, <2>2, <2>3, <2>4, <2>5, <2>6 DEF RowStep
  <1>2. LockInv'
    <2> SUFFICES ASSUME NEW a \in Admin, admin'[a].pc = "commit"
                 PROVE  LET p == admin'[a].pkg IN
                        /\ pkg'[p].status \in {"draft", "approved"}
                        /\ \A b \in Admin : admin'[b].pc = "commit" /\ admin'[b].pkg = p
                                              => b = a
                        /\ \A i \in admin'[a].dep :
                             /\ dep'[i].pkg = p
                             /\ dep'[i].status \notin {"absent", "deleted"}
                             /\ dep'[i].status \in {"running", "success", "failed"}
                                  => dep'[i].snap = pkg'[p].content
                        /\ \A i \in Deployment \ admin'[a].dep :
                             dep'[i].status = "pending" /\ dep'[i].pkg = p
                               => dep'[i].snap \in {0, pkg'[p].content}
      BY DEF LockInv, Exists
    <2> DEFINE p == admin[a].pkg
    <2>1. CASE Begun(a)
      <3>1. /\ admin'[a].pkg = p
            /\ admin'[a].dep = {i \in Deployment : /\ dep[i].status = "pending"
                                                   /\ dep[i].pkg = p}
            /\ \A b \in Admin : b # a => admin'[b] = admin[b]
        BY <1>a, <2>1 DEF Begun, AdminRequest
      <3> QED
        BY <2>1, <3>1 DEF Begun, Exists, Locked
    <2>2. CASE Held(a)
      <3>1. /\ admin'[a] = admin[a] /\ pkg'[p] = pkg[p]
            /\ \A b \in Admin : admin'[b].pc = "commit" /\ admin'[b].pkg = p => b = a
            /\ pkg[p].status \in {"draft", "approved"}
        BY <1>b, <2>2 DEF Held, LockInv, Exists
      <3>2. ASSUME NEW i \in admin[a].dep
            PROVE  /\ dep'[i].pkg = p
                   /\ dep'[i].status \notin {"absent", "deleted"}
                   /\ dep'[i].status \in {"running", "success", "failed"}
                        => dep'[i].snap = pkg[p].content
        BY <2>2, RefreshedRowsStay
      <3>3. ASSUME NEW i \in Deployment, i \notin admin[a].dep,
                   dep'[i].status = "pending", dep'[i].pkg = p
            PROVE  dep'[i].snap \in {0, pkg[p].content}
        <4>1. CASE Kept(i)
          BY <1>b, <2>2, <3>3, <4>1 DEF Kept, LockInv, Held
        <4>2. CASE Enqueued(i)
          BY <3>3, <4>2 DEF Enqueued, SnapshotOf
        <4>3. CASE Missed(i)
          BY <3>3, <4>3 DEF Missed
        <4>4. CASE Refreshed(i)
          BY <1>a, <3>3, <4>4 DEF Refreshed, DeploymentRow
        <4>5. CASE Withdrawn(i) \/ Removed(i) \/ Claimed(i) \/ TimedOut(i)
          BY <1>a, <3>3, <4>5
          DEF Withdrawn, Removed, Claimed, TimedOut, DeploymentRow
        <4>6. CASE Settled(i)
          BY <1>a, <3>3, <4>6 DEF Settled, DeploymentRow
        <4> QED
          BY <1>b, RowSteps, <4>1, <4>2, <4>3, <4>4, <4>5, <4>6 DEF RowStep
      <3> QED
        BY <3>1, <3>2, <3>3
    <2> QED
      BY <1>b, LockSteps, <2>1, <2>2
  <1> QED
    BY <1>1, <1>2 DEF QueueInv

LEMMA QueueInvInductive == Spec => []QueueInv
  <1>1. Init => QueueInv
    BY DEF Init, QueueInv, LockInv, NoStaleSnapshot, NoAdmin
  <1> QED
    BY <1>1, QueueInvStep, TypeInvInductive, PTL DEF Spec

\* While a package is approved, no pending deployment keeps the snapshot of
\* another content (packages.js, approve and deploy): whatever queues a row
\* reads the package in the same statement, an approval refreshes the queue in
\* its transaction, and no edit passes its lock. A row queued meanwhile may
\* have no snapshot at all, never another one.
THEOREM NoStaleSnapshotAlways == Spec => []NoStaleSnapshot
  <1>1. QueueInv => NoStaleSnapshot
    BY DEF QueueInv
  <1> QED
    BY <1>1, QueueInvInductive, PTL

\* A claim is never taken over while it is running (agent.js, claim).
THEOREM ClaimedOnceAlways == Spec => ClaimedOnce
  <1>1. ASSUME TypeInv, QueueInv, [Next]_vars
        PROVE  \A i \in Deployment :
                 dep[i].status = "running" /\ dep'[i].status = "running"
                   => dep'[i].claim = dep[i].claim
    <2> SUFFICES ASSUME NEW i \in Deployment, dep[i].status = "running",
                        dep'[i].status = "running"
                 PROVE  dep'[i].claim = dep[i].claim
      OBVIOUS
    <2>a. dep \in [Deployment -> DeploymentRow]
      BY <1>1 DEF TypeInv, TypeOK
    <2>1. CASE Kept(i) \/ Missed(i)
      BY <2>1 DEF Kept, Missed
    <2>2. CASE Enqueued(i) \/ Refreshed(i) \/ Withdrawn(i) \/ Claimed(i)
      BY <2>2 DEF Enqueued, Refreshed, Withdrawn, Claimed
    <2>3. CASE Removed(i) \/ TimedOut(i)
      BY <2>a, <2>3 DEF Removed, TimedOut, DeploymentRow
    <2>4. CASE Settled(i)
      BY <2>a, <2>4 DEF Settled, DeploymentRow
    <2> QED
      BY <1>1, RowSteps, <2>1, <2>2, <2>3, <2>4 DEF RowStep, QueueInv
  <1> QED
    BY <1>1, TypeInvInductive, QueueInvInductive, PTL DEF Spec, ClaimedOnce

\* What leaves the queue is, at that instant, the approved content of an
\* approved package, although the selection was made earlier (agent.js).
THEOREM ClaimsWhatIsApprovedAlways == Spec => ClaimsWhatIsApproved
  <1>1. ASSUME TypeInv, QueueInv, [Next]_vars
        PROVE  \A i \in Deployment :
                 dep[i].status = "pending" /\ dep'[i].status = "running"
                   => /\ IsApproved(dep[i].pkg)
                      /\ dep[i].snap = pkg[dep[i].pkg].content
    <2> SUFFICES ASSUME NEW i \in Deployment, dep[i].status = "pending",
                        dep'[i].status = "running"
                 PROVE  IsApproved(dep[i].pkg) /\ dep[i].snap # 0
      BY <1>1 DEF QueueInv, NoStaleSnapshot
    <2>a. dep \in [Deployment -> DeploymentRow]
      BY <1>1 DEF TypeInv, TypeOK
    <2>1. CASE Kept(i) \/ Enqueued(i) \/ Missed(i)
      BY <2>1 DEF Kept, Enqueued, Missed
    <2>2. CASE Refreshed(i) \/ Withdrawn(i) \/ Removed(i)
      BY <2>a, <2>2 DEF Refreshed, Withdrawn, Removed, DeploymentRow
    <2>3. CASE Claimed(i)
      BY <2>3 DEF Claimed
    <2>4. CASE TimedOut(i) \/ Settled(i)
      BY <2>4 DEF TimedOut, Settled
    <2> QED
      BY <1>1, RowSteps, <2>1, <2>2, <2>3, <2>4 DEF RowStep, QueueInv
  <1> QED
    BY <1>1, TypeInvInductive, QueueInvInductive, PTL
    DEF Spec, ClaimsWhatIsApproved

-----------------------------------------------------------------------------
\* Where deliveries and results come from.

\* A delivery that was handed out and perhaps executed.
InWork(w) ==
    \/ \E q \in Checkin : w \in checkin[q].jobs
    \/ \E d \in Device : w \in todo[d]
    \/ \E e \in ran : w = [dep |-> e.dep, claim |-> e.claim, content |-> e.content]

\* A result an agent keeps or a request carries.
HasResult(r) ==
    \/ \E q \in Checkin : r \in checkin[q].sent \/ r \in checkin[q].results
    \/ \E d \in Device : r \in mem[d] \/ r \in disk[d] \/ r \in unsaved[d]

Executed(r) ==
    \E e \in ran : e.dep = r.dep /\ e.claim = r.claim /\ e.exit = r.exit

NewWork(w) ==
    /\ w.dep \in Deployment /\ Claimed(w.dep)
    /\ w.claim = claims + 1 /\ w.content = dep[w.dep].snap

ServerStep == PackageStep \/ DeploymentStep

LEMMA ServerSteps == ServerStep => UNCHANGED <<checkin, agentVars, ran>>
  BY DEF ServerStep, PackageStep, DeploymentStep, CreatePackage, EditPackage,
     ApproveCheck, ApproveRefresh, ApproveCommit, DeployCheck, DeployJob,
     DeployRow, DeployEnd, CancelAllRows, CancelAllJobs, CancelJob, DeleteCheck, DeleteCommit,
     CancelDeployments, RetryBulk, RetryRead, RetryConflict, RetryUpdate,
     TimeoutStuck, AdminFails

LEMMA HistoryGrows ==
  TypeInv /\ [Next]_vars =>
    /\ \A p \in Package : approved[p] \subseteq approved'[p]
    /\ claims' = claims \/ claims' = claims + 1
    /\ ran \subseteq ran'
  <1> SUFFICES ASSUME TypeInv, [Next]_vars
               PROVE  /\ \A p \in Package : approved[p] \subseteq approved'[p]
                      /\ claims' = claims \/ claims' = claims + 1
                      /\ ran \subseteq ran'
    OBVIOUS
  <1>1. CASE PackageStep
    <2>1. claims' = claims /\ ran' = ran
      BY <1>1
      DEF PackageStep, CreatePackage, EditPackage, ApproveCheck,
          ApproveRefresh, ApproveCommit, DeployCheck, DeployJob, DeployRow, DeployEnd,
          CancelAllRows,
          CancelAllJobs, CancelJob, DeleteCheck, DeleteCommit, serverVars
    <2>2. \/ approved' = approved
          \/ \E a \in Admin : ApproveCommit(a)
      BY <1>1
      DEF PackageStep, CreatePackage, EditPackage, ApproveCheck, ApproveRefresh,
          DeployCheck, DeployJob, DeployRow, DeployEnd, CancelAllRows,
          CancelAllJobs, CancelJob, DeleteCheck, DeleteCommit, serverVars
    <2>3. ASSUME NEW a \in Admin, ApproveCommit(a), NEW p \in Package
          PROVE  approved[p] \subseteq approved'[p]
      <3>1. \/ approved' = approved
            \/ approved' = [approved EXCEPT ![admin[a].pkg] =
                              @ \cup {pkg[admin[a].pkg].content}]
        BY <2>3 DEF ApproveCommit
      <3> QED
        BY <3>1 DEF TypeInv, TypeOK
    <2> QED
      BY <2>1, <2>2, <2>3
  <1>2. CASE DeploymentStep
    BY <1>2
    DEF DeploymentStep, CancelDeployments, RetryBulk, RetryRead, RetryConflict,
        RetryUpdate, TimeoutStuck, AdminFails, serverVars
  <1>3. CASE CheckinStep
    BY <1>3, CheckinsLeave
  <1>4. CASE AgentStep
    BY <1>4, AgentsLeave
  <1> QED
    BY <1>1, <1>2, <1>3, <1>4 DEF Next, vars

LEMMA WorkSteps ==
  ASSUME TypeInv, [Next]_vars, NEW w, InWork(w)'
  PROVE  InWork(w) \/ NewWork(w)
  <1>a. /\ checkin \in [Checkin -> CheckinRequest]
        /\ todo \in [Device -> SUBSET Delivery]
        /\ dep \in [Deployment -> DeploymentRow]
    BY DEF TypeInv, TypeOK
  <1>1. CASE ServerStep \/ UNCHANGED vars
    BY <1>1, ServerSteps DEF vars, agentVars, InWork
  <1>2. ASSUME NEW q \in Checkin, ClaimJobs(q) PROVE InWork(w) \/ NewWork(w)
    <2> DEFINE C == IF ResponseIgnored(q) THEN {} ELSE Claimable(q)
               J == {[dep |-> i, claim |-> claims + 1,
                      content |-> dep[i].snap] : i \in C}
    <2>1. /\ checkin' = [checkin EXCEPT ![q].pc = "reply", ![q].jobs = J]
          /\ UNCHANGED <<todo, ran>>
      BY <1>2 DEF ClaimJobs, agentVars
    <2>2. InWork(w) \/ w \in J
      <3> HIDE DEF J
      <3> QED
        BY <1>a, <2>1 DEF InWork, CheckinRequest
    <2>3. ASSUME NEW i \in C, w = [dep |-> i, claim |-> claims + 1,
                                    content |-> dep[i].snap]
          PROVE  NewWork(w)
      <3>1. i \in Deployment
        BY <1>a DEF Claimable, CheckinRequest
      <3>2. /\ claims' = claims + 1
            /\ dep'[i] = [dep[i] EXCEPT !.status = "running", !.claim = claims + 1]
        BY <1>2, <3>1 DEF ClaimJobs
      <3>3. dep[i].status = "pending" /\ dep[i].snap # 0 /\ IsApproved(dep[i].pkg)
        BY DEF Claimable
      <3> QED
        BY <2>3, <3>1, <3>2, <3>3 DEF NewWork, Claimed
    <2> QED
      BY <2>2, <2>3
  <1>3. ASSUME NEW q \in Checkin,
               \/ \E r \in checkin[q].results : ApplyResult(q, r) \/ ResultThrows(q, r)
               \/ ResultsDone(q)
        PROVE  InWork(w)
    <2>1. \/ \E R : checkin' = [checkin EXCEPT ![q].results = R]
          \/ checkin' = [checkin EXCEPT ![q].pc = "fanout"]
      BY <1>3 DEF ApplyResult, ResultThrows, ResultsDone
    <2>2. UNCHANGED <<todo, ran>>
      BY <1>3 DEF ApplyResult, ResultThrows, ResultsDone, agentVars
    <2> QED
      BY <1>a, <2>1, <2>2 DEF InWork, CheckinRequest
  <1>4. ASSUME NEW q \in Checkin, FanOut(q) PROVE InWork(w)
    <2>1. /\ checkin' = [checkin EXCEPT ![q].pc = "select"]
          /\ UNCHANGED <<todo, ran>>
      BY <1>4 DEF FanOut, agentVars
    <2> QED
      BY <1>a, <2>1 DEF InWork, CheckinRequest
  <1>5. ASSUME NEW q \in Checkin, NEW window \in BOOLEAN, NEW offer \in BOOLEAN,
               Select(q, window, offer)
        PROVE  InWork(w)
    <2>1. PICK P : checkin' = [checkin EXCEPT ![q].pc = "claim",
                                 ![q].offer = offer, ![q].picked = P]
      BY <1>5 DEF Select
    <2>2. UNCHANGED <<todo, ran>>
      BY <1>5 DEF Select, agentVars
    <2> QED
      BY <1>a, <2>1, <2>2 DEF InWork, CheckinRequest
  <1>6. ASSUME NEW q \in Checkin, CheckinFails(q) \/ ReplyUnread(q)
        PROVE  InWork(w)
    BY <1>a, <1>6
    DEF CheckinFails, ReplyUnread, agentVars, InWork, NoCheckin
  <1>7. ASSUME NEW d \in Device, NEW q \in Checkin, SendCheckin(d, q)
        PROVE  InWork(w)
    <2>1. \E r : r.jobs = {} /\ checkin' = [checkin EXCEPT ![q] = r]
      BY <1>7 DEF SendCheckin, NoCheckin
    <2>2. UNCHANGED <<todo, ran>>
      BY <1>7 DEF SendCheckin
    <2> QED
      BY <1>a, <2>1, <2>2 DEF InWork
  <1>8. ASSUME NEW d \in Device, NEW q \in Checkin, ReceiveReply(d, q)
        PROVE  InWork(w)
    BY <1>a, <1>8 DEF ReceiveReply, WorkOf, InWork, NoCheckin
  <1>9. ASSUME NEW d \in Device, NEW x \in todo[d], Execute(d, x)
        PROVE  InWork(w)
    <2>1. PICK e : /\ ran' = ran \cup {[dep |-> x.dep, claim |-> x.claim,
                                         content |-> x.content, exit |-> e]}
                   /\ todo' = [todo EXCEPT ![d] = @ \ {x}]
                   /\ checkin' = checkin
      BY <1>9 DEF Execute
    <2>2. x = [dep |-> x.dep, claim |-> x.claim, content |-> x.content]
      BY <1>a DEF Delivery
    <2> QED
      BY <1>a, <2>1, <2>2 DEF InWork
  <1>10. ASSUME NEW d \in Device,
                GiveUp(d) \/ SaveAcked(d) \/ QueueResult(d) \/ EndCycle(d)
         PROVE  InWork(w)
    BY <1>10 DEF GiveUp, SaveAcked, QueueResult, EndCycle, InWork
  <1>11. ASSUME NEW d \in Device, Crash(d) PROVE InWork(w)
    BY <1>a, <1>11 DEF Crash, InWork
  <1>12. CASE CheckinStep
    BY <1>12, <1>2, <1>3, <1>4, <1>5, <1>6 DEF CheckinStep
  <1>13. CASE AgentStep
    BY <1>13, <1>7, <1>8, <1>9, <1>10, <1>11 DEF AgentStep
  <1> QED
    BY <1>1, <1>12, <1>13 DEF Next, ServerStep

\* No agent moves, and no request gains a result.
NoNewResult ==
    /\ UNCHANGED agentVars
    /\ \A q \in Checkin : /\ checkin'[q].sent \subseteq checkin[q].sent
                           /\ checkin'[q].results \subseteq checkin[q].results

LEMMA CheckinResultSteps == TypeInv /\ CheckinStep => NoNewResult
  <1> SUFFICES ASSUME TypeInv, CheckinStep PROVE NoNewResult
    OBVIOUS
  <1>a. checkin \in [Checkin -> CheckinRequest]
    BY DEF TypeInv, TypeOK
  <1>1. ASSUME NEW q \in Checkin, NEW r \in checkin[q].results,
               ApplyResult(q, r) \/ ResultThrows(q, r)
        PROVE  NoNewResult
    <2>1. /\ UNCHANGED agentVars
          /\ checkin' = [checkin EXCEPT ![q].results = @ \ {r}]
      BY <1>1 DEF ApplyResult, ResultThrows
    <2> QED
      BY <1>a, <2>1 DEF NoNewResult, CheckinRequest
  <1>2. ASSUME NEW q \in Checkin, ResultsDone(q) \/ FanOut(q)
        PROVE  NoNewResult
    <2>1. /\ UNCHANGED agentVars
          /\ \E s : checkin' = [checkin EXCEPT ![q].pc = s]
      BY <1>2 DEF ResultsDone, FanOut
    <2> QED
      BY <1>a, <2>1 DEF NoNewResult, CheckinRequest
  <1>3. ASSUME NEW q \in Checkin, NEW window \in BOOLEAN, NEW offer \in BOOLEAN,
               Select(q, window, offer)
        PROVE  NoNewResult
    <2>1. PICK P : checkin' = [checkin EXCEPT ![q].pc = "claim",
                                 ![q].offer = offer, ![q].picked = P]
      BY <1>3 DEF Select
    <2>2. UNCHANGED agentVars
      BY <1>3 DEF Select
    <2> QED
      BY <1>a, <2>1, <2>2 DEF NoNewResult, CheckinRequest
  <1>4. ASSUME NEW q \in Checkin, ClaimJobs(q) PROVE NoNewResult
    <2>1. PICK J : checkin' = [checkin EXCEPT ![q].pc = "reply", ![q].jobs = J]
      BY <1>4 DEF ClaimJobs
    <2>2. UNCHANGED agentVars
      BY <1>4 DEF ClaimJobs
    <2> QED
      BY <1>a, <2>1, <2>2 DEF NoNewResult, CheckinRequest
  <1>5. ASSUME NEW q \in Checkin, CheckinFails(q) \/ ReplyUnread(q)
        PROVE  NoNewResult
    BY <1>a, <1>5 DEF CheckinFails, ReplyUnread, NoNewResult, NoCheckin
  <1> QED
    BY <1>1, <1>2, <1>3, <1>4, <1>5 DEF CheckinStep

LEMMA ResultSteps ==
  ASSUME TypeInv, [Next]_vars, NEW r, HasResult(r)'
  PROVE  HasResult(r) \/ Executed(r)'
  <1>a. /\ checkin \in [Checkin -> CheckinRequest]
        /\ mem \in [Device -> SUBSET Result]
        /\ disk \in [Device -> SUBSET Result]
        /\ unsaved \in [Device -> SUBSET Result]
    BY DEF TypeInv, TypeOK
  <1>1. CASE ServerStep \/ UNCHANGED vars
    BY <1>1, ServerSteps DEF vars, agentVars, HasResult
  <1>2. CASE CheckinStep
    BY <1>2, CheckinResultSteps DEF NoNewResult, HasResult, agentVars
  <1>3. ASSUME NEW d \in Device, NEW q \in Checkin, SendCheckin(d, q)
        PROVE  HasResult(r)
    <2>1. PICK S \in SUBSET mem[d] :
            checkin' = [checkin EXCEPT ![q] =
                          [NoCheckin EXCEPT !.pc = "results", !.device = d,
                             !.sent = S, !.results = S,
                             !.follow = (apc[d] = "recheck" /\ d \in Legacy)]]
      BY <1>3 DEF SendCheckin
    <2>2. checkin'[q].sent = S /\ checkin'[q].results = S
      BY <1>a, <2>1 DEF NoCheckin
    <2>3. \A k \in Checkin : k # q => checkin'[k] = checkin[k]
      BY <1>a, <2>1
    <2>4. UNCHANGED <<mem, disk, unsaved>>
      BY <1>3 DEF SendCheckin
    <2> QED
      BY <2>2, <2>3, <2>4 DEF HasResult
  <1>4. ASSUME NEW d \in Device, NEW q \in Checkin, ReceiveReply(d, q)
        PROVE  HasResult(r)
    BY <1>a, <1>4 DEF ReceiveReply, HasResult, NoCheckin
  <1>5. ASSUME NEW d \in Device, NEW w \in todo[d], Execute(d, w)
        PROVE  HasResult(r) \/ Executed(r)'
    <2>1. PICK x : /\ ran' = ran \cup {[dep |-> w.dep, claim |-> w.claim,
                                         content |-> w.content, exit |-> x]}
                   /\ unsaved' = [unsaved EXCEPT ![d] =
                          {[dep |-> w.dep, claim |-> w.claim, exit |-> x]}]
      BY <1>5 DEF Execute
    <2>2. UNCHANGED <<checkin, mem, disk>>
      BY <1>5 DEF Execute
    <2>3. HasResult(r) \/ r = [dep |-> w.dep, claim |-> w.claim, exit |-> x]
      BY <1>a, <2>1, <2>2 DEF HasResult
    <2> DEFINE e == [dep |-> w.dep, claim |-> w.claim, content |-> w.content,
                     exit |-> x]
    <2>4. e \in ran'
      BY <2>1
    <2>5. r = [dep |-> w.dep, claim |-> w.claim, exit |-> x]
            => e.dep = r.dep /\ e.claim = r.claim /\ e.exit = r.exit
      OBVIOUS
    <2> HIDE DEF e
    <2> QED
      BY <2>3, <2>4, <2>5 DEF Executed
  <1>6. ASSUME NEW d \in Device, QueueResult(d) PROVE HasResult(r)
    BY <1>a, <1>6 DEF QueueResult, HasResult
  <1>7. ASSUME NEW d \in Device, Crash(d) PROVE HasResult(r)
    BY <1>a, <1>7 DEF Crash, HasResult
  <1>8. ASSUME NEW d \in Device, GiveUp(d) \/ SaveAcked(d) \/ EndCycle(d)
        PROVE  HasResult(r)
    BY <1>a, <1>8 DEF GiveUp, SaveAcked, EndCycle, HasResult
  <1>9. CASE AgentStep
    BY <1>9, <1>3, <1>4, <1>5, <1>6, <1>7, <1>8 DEF AgentStep
  <1> QED
    BY <1>1, <1>2, <1>9 DEF Next, ServerStep

-----------------------------------------------------------------------------
\* Nothing that an admin has not approved runs.

\* The approved content of a package is in its history; so is the content of
\* every snapshot, and of all the work handed out.
ApprovedInHistory ==
    \A p \in Package : IsApproved(p) => pkg[p].content \in approved[p]
SnapshotInHistory ==
    \A i \in Deployment : dep[i].snap # 0 =>
      dep[i].pkg \in Package /\ dep[i].snap \in approved[dep[i].pkg]
WorkInHistory ==
    \A w \in Delivery : InWork(w) =>
      /\ dep[w.dep].status # "absent"
      /\ w.content \in approved[dep[w.dep].pkg]
ApprovalInv == ApprovedInHistory /\ SnapshotInHistory /\ WorkInHistory

\* A row that exists keeps its package and its device.
LEMMA RowsKeepTheirPackage ==
  TypeInv /\ QueueInv /\ [Next]_vars =>
    \A i \in Deployment : dep[i].status # "absent" =>
      /\ dep'[i].status # "absent"
      /\ dep'[i].pkg = dep[i].pkg /\ dep'[i].device = dep[i].device
  <1> SUFFICES ASSUME TypeInv, QueueInv, [Next]_vars,
                      NEW i \in Deployment, dep[i].status # "absent"
               PROVE  /\ dep'[i].status # "absent"
                      /\ dep'[i].pkg = dep[i].pkg /\ dep'[i].device = dep[i].device
    OBVIOUS
  <1>a. dep \in [Deployment -> DeploymentRow]
    BY DEF TypeInv, TypeOK
  <1>1. CASE Kept(i) \/ Enqueued(i) \/ Missed(i)
    BY <1>1 DEF Kept, Enqueued, Missed
  <1>2. CASE Refreshed(i) \/ Withdrawn(i) \/ Removed(i)
    BY <1>a, <1>2 DEF Refreshed, Withdrawn, Removed, DeploymentRow
  <1>3. CASE Claimed(i) \/ TimedOut(i)
    BY <1>a, <1>3 DEF Claimed, TimedOut, DeploymentRow
  <1>4. CASE Settled(i)
    BY <1>a, <1>4 DEF Settled, DeploymentRow
  <1> QED
    BY RowSteps, <1>1, <1>2, <1>3, <1>4 DEF RowStep, QueueInv

\* What becomes or stays approved is in the history.
LEMMA PackageSteps ==
  TypeInv /\ [Next]_vars =>
    \A p \in Package : \/ pkg'[p] = pkg[p]
                       \/ pkg'[p].status # "approved"
                       \/ pkg'[p].content \in approved'[p]
  <1> SUFFICES ASSUME TypeInv, [Next]_vars, NEW p \in Package
               PROVE  \/ pkg'[p] = pkg[p]
                      \/ pkg'[p].status # "approved"
                      \/ pkg'[p].content \in approved'[p]
    OBVIOUS
  <1>a. /\ pkg \in [Package -> PackageRow]
        /\ approved \in [Package -> SUBSET Content]
    BY DEF TypeInv, TypeOK
  <1>1. ASSUME NEW k \in Package, CreatePackage(k) \/ EditPackage(k)
        PROVE  pkg'[p] = pkg[p] \/ pkg'[p].status # "approved"
    BY <1>a, <1>1 DEF CreatePackage, EditPackage, Edited, PackageRow
  <1>2. ASSUME NEW a \in Admin, ApproveCommit(a)
        PROVE  pkg'[p] = pkg[p] \/ pkg'[p].content \in approved'[p]
    <2>1. \/ pkg' = pkg
          \/ /\ pkg' = [pkg EXCEPT ![admin[a].pkg].status = "approved"]
             /\ approved' = [approved EXCEPT ![admin[a].pkg] =
                               @ \cup {pkg[admin[a].pkg].content}]
      BY <1>2 DEF ApproveCommit
    <2> QED
      BY <1>a, <2>1 DEF PackageRow
  <1>3. ASSUME NEW a \in Admin, DeleteCommit(a)
        PROVE  pkg'[p] = pkg[p] \/ pkg'[p].status # "approved"
    BY <1>a, <1>3 DEF DeleteCommit, PackageRow
  <1>4. \/ pkg' = pkg
        \/ \E k \in Package : CreatePackage(k) \/ EditPackage(k)
        \/ \E a \in Admin : ApproveCommit(a) \/ DeleteCommit(a)
    <2>1. CASE PackageStep
      BY <2>1
      DEF PackageStep, ApproveCheck, ApproveRefresh, DeployCheck, DeployJob,
          DeployRow, DeployEnd, CancelAllRows, CancelAllJobs, CancelJob, DeleteCheck,
          serverVars
    <2>2. CASE DeploymentStep
      BY <2>2
      DEF DeploymentStep, CancelDeployments, RetryBulk, RetryRead,
          RetryConflict, RetryUpdate, TimeoutStuck, AdminFails, serverVars
    <2>3. CASE CheckinStep
      BY <2>3, CheckinsLeave
    <2>4. CASE AgentStep
      BY <2>4, AgentsLeave
    <2> QED
      BY <2>1, <2>2, <2>3, <2>4 DEF Next, vars
  <1> QED
    BY <1>1, <1>2, <1>3, <1>4

LEMMA ApprovalInvInit == Init => ApprovalInv
  BY DEF Init, ApprovalInv, ApprovedInHistory, SnapshotInHistory, WorkInHistory,
         InWork, NoCheckin, IsApproved

LEMMA ApprovalInvStep ==
  TypeInv /\ QueueInv /\ ApprovalInv /\ [Next]_vars => ApprovalInv'
  <1> SUFFICES ASSUME TypeInv, QueueInv, ApprovalInv, [Next]_vars PROVE ApprovalInv'
    OBVIOUS
  <1>a. /\ dep \in [Deployment -> DeploymentRow]
        /\ pkg \in [Package -> PackageRow]
    BY DEF TypeInv, TypeOK
  <1>b. ApprovedInHistory /\ SnapshotInHistory /\ WorkInHistory
    BY DEF ApprovalInv
  <1>c. RowLinked
    BY DEF TypeInv, Linked
  <1>d. \A p \in Package : approved[p] \subseteq approved'[p]
    BY HistoryGrows
  <1>1. ApprovedInHistory'
    BY <1>b, <1>d, PackageSteps DEF ApprovedInHistory, IsApproved
  <1>2. SnapshotInHistory'
    <2> SUFFICES ASSUME NEW i \in Deployment, dep'[i].snap # 0
                 PROVE  /\ dep'[i].pkg \in Package
                        /\ dep'[i].snap \in approved'[dep'[i].pkg]
      BY DEF SnapshotInHistory
    <2>1. CASE dep'[i].snap = dep[i].snap /\ dep'[i].pkg = dep[i].pkg
      BY <1>b, <1>d, <2>1 DEF SnapshotInHistory
    <2>2. CASE Enqueued(i)
      <3>1. /\ dep'[i].pkg \in Package /\ IsApproved(dep'[i].pkg)
            /\ dep'[i].snap = pkg[dep'[i].pkg].content
        BY <2>2 DEF Enqueued, SnapshotOf
      <3> QED
        BY <1>b, <1>d, <3>1 DEF ApprovedInHistory
    <2>3. CASE Refreshed(i)
      <3>1. dep[i].pkg \in Package
        BY <1>c, <2>3 DEF Refreshed, RowLinked
      <3>2. /\ dep'[i].snap = pkg[dep[i].pkg].content
            /\ dep'[i].pkg = dep[i].pkg
        BY <1>a, <2>3 DEF Refreshed, DeploymentRow
      <3> QED
        BY <2>3, <3>1, <3>2 DEF Refreshed
    <2>4. CASE Removed(i)
      BY <1>a, <2>4 DEF Removed, DeploymentRow
    <2>5. CASE Kept(i) \/ Missed(i) \/ Withdrawn(i) \/ Claimed(i) \/ TimedOut(i)
      BY <1>a, <2>1, <2>5
      DEF Kept, Missed, Withdrawn, Claimed, TimedOut, DeploymentRow
    <2>6. CASE Settled(i)
      BY <1>a, <2>1, <2>6 DEF Settled, DeploymentRow
    <2> QED
      BY RowSteps, <2>2, <2>3, <2>4, <2>5, <2>6 DEF RowStep, QueueInv
  <1>3. WorkInHistory'
    <2> SUFFICES ASSUME NEW w \in Delivery, InWork(w)'
                 PROVE  /\ dep'[w.dep].status # "absent"
                        /\ w.content \in approved'[dep'[w.dep].pkg]
      BY DEF WorkInHistory
    <2>a. w.dep \in Deployment /\ w.content \in Content
      BY DEF Delivery
    <2>1. /\ dep[w.dep].status # "absent"
          /\ w.content \in approved[dep[w.dep].pkg]
      <3>1. CASE InWork(w)
        BY <1>b, <3>1 DEF WorkInHistory
      <3>2. CASE NewWork(w)
        BY <1>b, <2>a, <3>2 DEF NewWork, Claimed, SnapshotInHistory
      <3> QED
        BY WorkSteps, <3>1, <3>2
    <2>2. dep[w.dep].pkg \in Package
      BY <1>c, <2>a, <2>1 DEF RowLinked
    <2> QED
      BY <1>d, <2>a, <2>1, <2>2, RowsKeepTheirPackage
  <1> QED
    BY <1>1, <1>2, <1>3 DEF ApprovalInv

\* Nothing runs on a device that an admin has not approved as it runs
\* (lib/deployment-snapshots.js).
THEOREM OnlyApprovedRunsAlways == Spec => []OnlyApprovedRuns
  <1>1. TypeInv /\ ApprovalInv => OnlyApprovedRuns
    <2> SUFFICES ASSUME TypeInv, ApprovalInv, NEW e \in ran
                 PROVE  e.content \in approved[dep[e.dep].pkg]
      BY DEF OnlyApprovedRuns
    <2> DEFINE w == [dep |-> e.dep, claim |-> e.claim, content |-> e.content]
    <2>1. e \in Run
      BY DEF TypeInv, TypeOK
    <2>2. w \in Delivery /\ w.dep = e.dep /\ w.content = e.content
      BY <2>1 DEF Run, Delivery
    <2>3. InWork(w)
      BY DEF InWork
    <2> HIDE DEF w
    <2> QED
      BY <2>2, <2>3 DEF ApprovalInv, WorkInHistory
  <1> QED
    BY <1>1, TypeInvInductive, QueueInvInductive, ApprovalInvInit, ApprovalInvStep, PTL DEF Spec

-----------------------------------------------------------------------------
\* The outcome of a row is the outcome of its attempt.

\* A row without an attempt has no claim token, and only an attempt that
\* ended has an exit code; tokens are never ahead of the clock.
TokensInv ==
    \A i \in Deployment :
      /\ dep[i].status \in {"absent", "pending", "cancelled"} => dep[i].claim = 0
      /\ dep[i].status \notin {"success", "failed", "deleted"} => dep[i].exit = None
      /\ dep[i].claim <= claims

\* The work handed out under a row's current token is the row's snapshot.
WorkInv ==
    \A w \in Delivery : InWork(w) =>
      /\ 0 < w.claim /\ w.claim <= claims
      /\ /\ dep[w.dep].status \in {"running", "success", "failed"}
         /\ dep[w.dep].claim = w.claim
         => w.content = dep[w.dep].snap

\* No result without an execution.
ResultInv == \A r \in Result : HasResult(r) => Executed(r)

OutcomeInv == TokensInv /\ WorkInv /\ ResultInv /\ OutcomeIsTheAttempts

LEMMA OutcomeInvInit == Init => OutcomeInv
  BY DEF Init, OutcomeInv, TokensInv, WorkInv, ResultInv, InWork, HasResult,
         NoCheckin, OutcomeIsTheAttempts

LEMMA OutcomeInvStep ==
  TypeInv /\ QueueInv /\ OutcomeInv /\ [Next]_vars => OutcomeInv'
  <1> SUFFICES ASSUME TypeInv, QueueInv, OutcomeInv, [Next]_vars PROVE OutcomeInv'
    OBVIOUS
  <1>a. /\ dep \in [Deployment -> DeploymentRow]
        /\ claims \in Nat
    BY DeploymentsAssumption DEF TypeInv, TypeOK, Claim
  <1>b. TokensInv /\ WorkInv /\ ResultInv /\ OutcomeIsTheAttempts
    BY DEF OutcomeInv
  <1>c. /\ claims' = claims \/ claims' = claims + 1
        /\ ran \subseteq ran'
    BY HistoryGrows
  <1>d. \A i \in Deployment : dep[i].claim \in Nat
    BY <1>a, DeploymentsAssumption DEF DeploymentRow, Claim
  <1>e. \A r \in Result : Executed(r) => Executed(r)'
    BY <1>c DEF Executed
  <1>1. TokensInv'
    <2> SUFFICES ASSUME NEW i \in Deployment
                 PROVE  /\ dep'[i].status \in {"absent", "pending", "cancelled"}
                              => dep'[i].claim = 0
                        /\ dep'[i].status \notin {"success", "failed", "deleted"}
                              => dep'[i].exit = None
                        /\ dep'[i].claim <= claims'
      BY DEF TokensInv
    <2>a. /\ dep[i].status \in {"absent", "pending", "cancelled"}
               => dep[i].claim = 0
          /\ dep[i].status \notin {"success", "failed", "deleted"}
               => dep[i].exit = None
          /\ dep[i].claim <= claims
      BY <1>b DEF TokensInv
    <2>1. CASE Kept(i) \/ Missed(i) \/ Enqueued(i)
      BY <1>a, <1>c, <1>d, <2>a, <2>1 DEF Kept, Missed, Enqueued
    <2>2. CASE Refreshed(i) \/ Withdrawn(i) \/ Removed(i)
      <3>1. /\ dep'[i].claim = dep[i].claim /\ dep'[i].exit = dep[i].exit
            /\ \/ dep'[i].status = "deleted"
               \/ /\ dep[i].status \in {"pending", "cancelled"}
                  /\ dep'[i].status \in {"pending", "cancelled"}
        BY <1>a, <2>2 DEF Refreshed, Withdrawn, Removed, DeploymentRow
      <3> QED
        BY <1>a, <1>c, <1>d, <2>a, <3>1
    <2>3. CASE Claimed(i)
      <3>1. /\ dep'[i].claim = claims' /\ claims' = claims + 1
            /\ dep'[i].exit = dep[i].exit
            /\ dep[i].status = "pending" /\ dep'[i].status = "running"
        BY <1>a, <2>3 DEF Claimed, DeploymentRow
      <3> QED
        BY <1>a, <2>a, <3>1
    <2>4. CASE TimedOut(i)
      <3>1. /\ dep'[i].claim = dep[i].claim
            /\ dep'[i].status = "failed"
        BY <1>a, <2>4 DEF TimedOut, DeploymentRow
      <3> QED
        BY <1>a, <1>c, <1>d, <2>a, <3>1
    <2>5. CASE Settled(i)
      BY <1>a, <1>c, <1>d, <2>a, <2>5 DEF Settled, DeploymentRow
    <2> QED
      BY RowSteps, <2>1, <2>2, <2>3, <2>4, <2>5 DEF RowStep, QueueInv
  <1>2. WorkInv'
    <2> SUFFICES ASSUME NEW w \in Delivery, InWork(w)'
                 PROVE  /\ 0 < w.claim /\ w.claim <= claims'
                        /\ /\ dep'[w.dep].status \in {"running", "success", "failed"}
                           /\ dep'[w.dep].claim = w.claim
                           => w.content = dep'[w.dep].snap
      BY DEF WorkInv
    <2> DEFINE i == w.dep
    <2>a. i \in Deployment /\ w.claim \in Nat
      BY DeploymentsAssumption DEF Delivery, Claim
    <2>1. CASE NewWork(w)
      <3>1. /\ dep'[i].snap = dep[i].snap
            /\ claims' = claims + 1
        BY <1>a, <2>a, <2>1 DEF NewWork, Claimed, DeploymentRow
      <3> QED
        BY <1>a, <2>1, <3>1 DEF NewWork
    <2>2. CASE InWork(w)
      <3>a. /\ 0 < w.claim /\ w.claim <= claims
            /\ /\ dep[i].status \in {"running", "success", "failed"}
               /\ dep[i].claim = w.claim
               => w.content = dep[i].snap
        BY <1>b, <2>2 DEF WorkInv
      <3>b. w.claim <= claims'
        BY <1>a, <1>c, <2>a, <3>a
      <3>1. CASE dep'[i].claim # w.claim
        BY <3>a, <3>b, <3>1
      <3>2. CASE dep'[i].status \notin {"running", "success", "failed"}
        BY <3>a, <3>b, <3>2
      <3>3. CASE Kept(i) \/ Missed(i)
        BY <3>a, <3>b, <3>3 DEF Kept, Missed
      <3>4. CASE Enqueued(i)
        BY <3>2, <3>4 DEF Enqueued
      <3>5. CASE Refreshed(i) \/ Withdrawn(i) \/ Removed(i)
        BY <1>a, <2>a, <3>2, <3>5
        DEF Refreshed, Withdrawn, Removed, DeploymentRow
      <3>6. CASE Claimed(i)
        <4>1. dep'[i].claim = claims + 1
          BY <1>a, <2>a, <3>6 DEF Claimed, DeploymentRow
        <4> QED
          BY <1>a, <2>a, <3>a, <3>1, <4>1
      <3>7. CASE TimedOut(i)
        BY <1>a, <2>a, <3>a, <3>b, <3>7 DEF TimedOut, DeploymentRow
      <3>8. CASE Settled(i)
        <4>1. /\ dep[i].status = "running"
              /\ dep'[i].snap = dep[i].snap /\ dep'[i].claim = dep[i].claim
          BY <1>a, <2>a, <3>8 DEF Settled, DeploymentRow
        <4> QED
          BY <3>a, <3>b, <4>1
      <3> QED
        BY RowSteps, <2>a, <3>3, <3>4, <3>5, <3>6, <3>7, <3>8
        DEF RowStep, QueueInv
    <2> QED
      BY WorkSteps, <2>1, <2>2
  <1>3. ResultInv'
    <2> SUFFICES ASSUME NEW r \in Result, HasResult(r)' PROVE Executed(r)'
      BY DEF ResultInv
    <2>1. HasResult(r) \/ Executed(r)'
      BY ResultSteps
    <2> QED
      BY <1>b, <1>e, <2>1 DEF ResultInv
  <1>4. OutcomeIsTheAttempts'
    <2> SUFFICES ASSUME NEW i \in Deployment,
                        dep'[i].status \in {"success", "failed"},
                        dep'[i].exit # None, dep'[i].device \notin Legacy
                 PROVE  [dep |-> i, claim |-> dep'[i].claim,
                         content |-> dep'[i].snap, exit |-> dep'[i].exit] \in ran'
      BY DEF OutcomeIsTheAttempts
    <2>1. CASE Kept(i) \/ Missed(i)
      <3>1. dep'[i] = dep[i]
        BY <2>1 DEF Kept, Missed
      <3> QED
        BY <1>b, <1>c, <3>1 DEF OutcomeIsTheAttempts
    <2>2. CASE Enqueued(i) \/ Refreshed(i) \/ Withdrawn(i) \/ Removed(i) \/ Claimed(i)
      <3>1. dep'[i].status \notin {"success", "failed"}
        BY <1>a, <2>2
        DEF Enqueued, Refreshed, Withdrawn, Removed, Claimed, DeploymentRow
      <3> QED
        BY <3>1
    <2>3. CASE TimedOut(i)
      <3>1. dep[i].status = "running" /\ dep'[i].exit = dep[i].exit
        BY <1>a, <2>3 DEF TimedOut, DeploymentRow
      <3> QED
        BY <1>b, <3>1 DEF TokensInv
    <2>4. CASE Settled(i)
      <3>0. PICK q \in Checkin : \E r \in checkin[q].results :
              /\ r.dep = i
              /\ dep[i].device \in Legacy \/ dep[i].claim = r.claim
              /\ dep'[i] = [dep[i] EXCEPT
                             !.status = IF r.exit = 0 THEN "success" ELSE "failed",
                             !.exit = r.exit]
        BY <2>4 DEF Settled
      <3>1. PICK r \in checkin[q].results :
              /\ r.dep = i
              /\ dep[i].device \in Legacy \/ dep[i].claim = r.claim
              /\ dep'[i] = [dep[i] EXCEPT
                             !.status = IF r.exit = 0 THEN "success" ELSE "failed",
                             !.exit = r.exit]
        BY <3>0
      <3>2. /\ dep'[i].claim = dep[i].claim /\ dep'[i].snap = dep[i].snap
            /\ dep'[i].exit = r.exit /\ dep'[i].device = dep[i].device
            /\ dep[i].status = "running"
        BY <1>a, <2>4, <3>1 DEF Settled, DeploymentRow
      <3>3. r \in Result
        BY DEF TypeInv, TypeOK, CheckinRequest
      <3>4. PICK e \in ran : e.dep = i /\ e.claim = dep[i].claim /\ e.exit = r.exit
        BY <1>b, <3>1, <3>2, <3>3 DEF ResultInv, HasResult, Executed
      <3>5. e \in Run
        BY DEF TypeInv, TypeOK
      <3> DEFINE w == [dep |-> e.dep, claim |-> e.claim, content |-> e.content]
      <3>6. /\ w \in Delivery
            /\ w.dep = i /\ w.claim = dep[i].claim /\ w.content = e.content
        BY <3>4, <3>5 DEF Run, Delivery
      <3>7. InWork(w)
        BY DEF InWork
      <3>8. e.content = dep[i].snap
        <4> HIDE DEF w
        <4> QED
          BY <1>b, <3>2, <3>6, <3>7 DEF WorkInv
      <3>9. e = [dep |-> i, claim |-> dep'[i].claim, content |-> dep'[i].snap,
                 exit |-> dep'[i].exit]
        BY <3>2, <3>4, <3>5, <3>8 DEF Run
      <3> QED
        BY <1>c, <3>9
    <2> QED
      BY RowSteps, <2>1, <2>2, <2>3, <2>4 DEF RowStep, QueueInv
  <1> QED
    BY <1>1, <1>2, <1>3, <1>4 DEF OutcomeInv

\* The outcome an up-to-date agent's device shows is the outcome of the
\* attempt in progress, run with the content of the row's snapshot (agent.js,
\* claim token): a token is new when it is issued, no result exists without
\* an execution, and an execution under the current token ran the snapshot.
THEOREM OutcomeIsTheAttemptsAlways == Spec => []OutcomeIsTheAttempts
  <1>1. OutcomeInv => OutcomeIsTheAttempts
    BY DEF OutcomeInv
  <1> QED
    BY <1>1, TypeInvInductive, QueueInvInductive, OutcomeInvInit, OutcomeInvStep, PTL DEF Spec
=============================================================================
