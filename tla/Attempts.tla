------------------------------ MODULE Attempts ------------------------------
(***************************************************************************)
(* What the API promises of the rows of `deployments`, without packages,    *)
(* snapshots, requests, messages or agents: a row moves from the queue to   *)
(* an attempt, an attempt is executed at most once, and a row shows a       *)
(* result only if its current attempt was executed with that result.        *)
(***************************************************************************)
EXTENDS Naturals

CONSTANT Deployment

VARIABLES
    status,   \* the status an admin reads
    claim,    \* the current attempt of each row, 0 before the first
    clock,    \* attempts are numbered by the claims that made them
    done      \* executions: [dep, claim, exit]

vars == <<status, claim, clock, done>>

Init ==
    /\ status = [i \in Deployment |-> "absent"]
    /\ claim = [i \in Deployment |-> 0]
    /\ clock = 0
    /\ done = {}

\* The rows of S, all in one of the statuses From, move to To.
Move(S, From, To) ==
    /\ \A i \in S : status[i] \in From
    /\ status' = [i \in Deployment |-> IF i \in S THEN To ELSE status[i]]

Queue(S)  == Move(S, {"absent"}, "pending") /\ UNCHANGED <<claim, clock, done>>

Cancel(S) == Move(S, {"pending"}, "cancelled") /\ UNCHANGED <<claim, clock, done>>

Remove(S) ==
    /\ Move(S, {"pending", "running", "success", "failed", "cancelled",
                "deleted"}, "deleted")
    /\ UNCHANGED <<claim, clock, done>>

\* A retry forgets the attempt that ended.
Retry(S) ==
    /\ Move(S, {"failed", "cancelled"}, "pending")
    /\ claim' = [i \in Deployment |-> IF i \in S THEN 0 ELSE claim[i]]
    /\ UNCHANGED <<clock, done>>

Start(S) ==
    /\ Move(S, {"pending"}, "running")
    /\ clock' = clock + 1
    /\ claim' = [i \in Deployment |-> IF i \in S THEN clock' ELSE claim[i]]
    /\ UNCHANGED done

\* The device executes an attempt, perhaps long after the row gave it up,
\* and never twice.
Execute(i, c, x) ==
    /\ c \in 1..clock
    /\ \A e \in done : ~(e.dep = i /\ e.claim = c)
    /\ done' = done \cup {[dep |-> i, claim |-> c, exit |-> x]}
    /\ UNCHANGED <<status, claim, clock>>

Settle(i, x) ==
    /\ [dep |-> i, claim |-> claim[i], exit |-> x] \in done
    /\ Move({i}, {"running"}, IF x = 0 THEN "success" ELSE "failed")
    /\ UNCHANGED <<claim, clock, done>>

Expire(S) == Move(S, {"running"}, "failed") /\ UNCHANGED <<claim, clock, done>>

Next ==
    \/ \E S \in SUBSET Deployment :
         Queue(S) \/ Cancel(S) \/ Remove(S) \/ Retry(S) \/ Start(S) \/ Expire(S)
    \/ \E i \in Deployment, c \in 1..clock, x \in {0, 1} : Execute(i, c, x)
    \/ \E i \in Deployment, x \in {0, 1} : Settle(i, x)

Spec == Init /\ [][Next]_vars
=============================================================================
