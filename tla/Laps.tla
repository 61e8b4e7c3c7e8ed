-------------------------------- MODULE Laps --------------------------------
(***************************************************************************)
(* The rotation of the local administrator's password: the state machine   *)
(* of agent-go/laps.go, the part of state.json it keeps (agent-go/state.go), *)
(* the local account (laps_windows.go, laps_script.go) and the single row   *)
(* of `device_admin_credentials` that each POST overwrites                  *)
(* (inventory/routes/agent.js).                                             *)
(*                                                                         *)
(* The agent keeps ciphertexts and the account has a password: both are     *)
(* named by a number. A password that is in use nowhere is as good as a new *)
(* one. The backoff is time: a run it turns away is no step.                *)
(***************************************************************************)
EXTENDS Naturals, FiniteSets

CONSTANTS
    Password,     \* names of passwords, more than a state holds
    None,
    MaxFaults     \* bound: crashes, lost requests and answers, failed saves...

VARIABLES
    local,      \* password of the local account, None before it is created
    server,     \* escrowed password, None without a row
    mem,        \* State in memory
    disk,       \* state.json
    pc,         \* step of run(); "idle" between runs, "off" without a process
    next,       \* where run() goes on after a save: "lookup" or "idle"
    flight,     \* POST given up by the agent, not yet executed by the server
    faults,
    late,       \* history: the escrow in place comes from a belated POST
    replaced,   \* history: the local password is that of a replaced stash
    abandoned   \* history: a stash was given up or not read, no rotation since

history == <<late, replaced, abandoned>>
vars == <<local, server, mem, disk, pc, next, flight, faults, history>>

\* PendingAdminCred. "legacy" is the empty phase; "stale" is the same with
\* StashedAt before LastAdminRotation.
Stash == [pw : Password, phase : {"legacy", "stale", "prepared", "escrowed"}]

ASSUME LapsAssumption ==
    /\ {0, 1} \subseteq Password /\ None \notin Password \cup Stash /\ MaxFaults \in Nat
    /\ IsFiniteSet(Password) => Cardinality(Password) >= 8

State ==
    [pending : Stash \cup {None},        \* PendingAdminCred
     current : Password \cup {None},     \* CurrentAdminCred
     due : BOOLEAN]                      \* LastAdminRotation zero or 30 days old

\* The last conjuncts: run() never follows a nil pointer.
TypeOK ==
    /\ local \in Password \cup {None}
    /\ server \in Password \cup {None}
    /\ mem \in State /\ disk \in State
    /\ pc \in {"off", "idle", "flush", "restore", "lookup", "stash", "post",
               "mark", "apply", "save"}
    /\ next \in {"lookup", "idle"}
    /\ flight \in Password \cup {None}
    /\ faults \in 0..MaxFaults
    /\ late \in BOOLEAN /\ replaced \in BOOLEAN /\ abandoned \in BOOLEAN
    /\ pc \in {"flush", "post", "mark", "apply"} => mem.pending # None
    /\ pc = "restore" => mem.current # None

\* A new agent, or one that an agent <= 2.14 left: without a stash, with a
\* stash that is in place and was never escrowed, or with an outdated one.
Init ==
    /\ \/ /\ local = None /\ server = None
          /\ disk = [pending |-> None, current |-> None, due |-> TRUE]
       \/ /\ local = 0 /\ server = 0
          /\ \E d \in BOOLEAN : disk = [pending |-> None, current |-> None, due |-> d]
       \/ /\ local = 1 /\ server \in {None, 0}
          /\ disk = [pending |-> [pw |-> 1, phase |-> "legacy"],
                     current |-> None, due |-> TRUE]
       \/ /\ local = 1 /\ server = 1
          /\ \E d \in BOOLEAN :
               disk = [pending |-> [pw |-> 0, phase |-> "stale"],
                       current |-> None, due |-> d]
    /\ mem = disk
    /\ pc = "off" /\ next = "idle"
    /\ flight = None
    /\ faults = 0
    /\ late = FALSE /\ replaced = FALSE /\ abandoned = FALSE

Fault == faults < MaxFaults /\ faults' = faults + 1

Held(s) == IF s.pending = None THEN {} ELSE {s.pending.pw}

InUse == {local, server, flight, mem.current, disk.current} \cup Held(mem) \cup Held(disk)

\* generateAdminPassword
Fresh == CHOOSE p \in Password : p \notin InUse

-----------------------------------------------------------------------------
\* State.Save, and the POST of /api/agent/admin-credential.

\* state.json takes the value s, or keeps the one it had.
Saves(s) == disk' = s /\ UNCHANGED faults
SaveFails == Fault /\ UNCHANGED disk

\* The POST of p is answered.
Posted(p) ==
    /\ server' = p /\ late' = FALSE
    /\ UNCHANGED <<flight, faults>>

\* The request of p ends without an answer: it was lost or refused, its
\* answer was lost, or the server executes it later.
MayHaveReached(p) ==
    \/ UNCHANGED <<server, late, flight>>
    \/ server' = p /\ late' = FALSE /\ UNCHANGED flight
    \/ flight = None /\ flight' = p /\ UNCHANGED <<server, late>>

PostFails(p) == Fault /\ MayHaveReached(p)

\* The belated request is executed.
Lands ==
    /\ flight # None
    /\ server' = flight /\ flight' = None /\ late' = TRUE
    /\ UNCHANGED <<local, mem, disk, pc, next, faults, replaced, abandoned>>

-----------------------------------------------------------------------------
\* A run of lapsRotator.

GoTo(step) == pc' = step /\ UNCHANGED next

\* A last save, best effort, then `step`.
SaveAndThen(step) == pc' = "save" /\ next' = step

\* Mutant: no rotation as long as another one is pending.
WaitsForPending(s) == s.pending = None /\ s.due

MustRotate(s) == s.pending # None \/ s.due

RunStarts ==
    /\ pc = "idle" /\ MustRotate(mem)
    /\ IF mem.pending = None THEN GoTo("lookup") /\ UNCHANGED mem
       ELSE CASE mem.pending.phase = "legacy" -> GoTo("flush") /\ UNCHANGED mem
              [] mem.pending.phase = "stale" ->
                   mem' = [mem EXCEPT !.pending = None] /\ SaveAndThen("idle")
              [] mem.pending.phase = "prepared" /\ mem.current # None ->
                   pc' = "restore" /\ next' = "lookup" /\ UNCHANGED mem
              [] OTHER -> GoTo("lookup") /\ UNCHANGED mem
    /\ UNCHANGED <<local, server, disk, flight, faults, history>>

\* flushLegacyStash: the stash is escrowed, kept for the next cycle, or given
\* up (refused for good, or unreadable).
FlushLegacyStash ==
    LET p == mem.pending.pw IN
    /\ pc = "flush"
    /\ \/ /\ Posted(p)
          /\ mem' = [pending |-> None, current |-> p, due |-> FALSE]
          /\ SaveAndThen("idle")
          /\ UNCHANGED abandoned
       \/ /\ PostFails(p)
          /\ SaveAndThen("idle")
          /\ UNCHANGED <<mem, abandoned>>
       \/ /\ Fault
          /\ mem' = [mem EXCEPT !.pending = None]
          /\ abandoned' = TRUE
          /\ SaveAndThen("lookup")
          /\ UNCHANGED <<server, flight, late>>
    /\ UNCHANGED <<local, disk, replaced>>

\* restoreCurrentEscrow, before a rotation or at the end of a failed one.
RestoreCurrentEscrow ==
    /\ pc = "restore"
    /\ \/ /\ Posted(mem.current)
          /\ mem' = [mem EXCEPT !.pending = None]
          /\ pc' = "save"
       \/ /\ PostFails(mem.current)
          /\ pc' = IF next = "lookup" THEN "lookup" ELSE "save"
          /\ UNCHANGED mem
    /\ UNCHANGED <<local, disk, next, replaced, abandoned>>

\* The account is looked up and checked, the password drawn and encrypted.
LookUp ==
    /\ pc = "lookup"
    /\ \/ GoTo("stash") /\ UNCHANGED faults
       \/ Fault /\ SaveAndThen("idle")
    /\ UNCHANGED <<local, server, mem, disk, flight, history>>

\* Mutant: the POST goes although the stash was not saved.
StashBestEffort ==
    LET s == [mem EXCEPT !.pending = [pw |-> Fresh, phase |-> "prepared"]] IN
    /\ pc = "stash" /\ mem' = s /\ GoTo("post")
    /\ Saves(s) \/ SaveFails
    /\ UNCHANGED <<local, server, flight, history>>

\* Step 2: the trace on disk, before any POST.
SaveStash ==
    LET s == [mem EXCEPT !.pending = [pw |-> Fresh, phase |-> "prepared"]] IN
    /\ pc = "stash"
    /\ \/ /\ Saves(s) /\ mem' = s /\ GoTo("post")
          /\ replaced' = \/ replaced
                         \/ /\ mem.pending # None /\ mem.current # local
                            /\ mem.pending = [pw |-> local, phase |-> "escrowed"]
       \/ SaveFails /\ GoTo("idle") /\ UNCHANGED <<mem, replaced>>
    /\ UNCHANGED <<local, server, flight, late, abandoned>>

\* Mutant: a failed POST does not stop the rotation.
PostBestEffort ==
    /\ pc = "post" /\ GoTo("mark")
    /\ Posted(mem.pending.pw) \/ PostFails(mem.pending.pw)
    /\ UNCHANGED <<local, mem, disk, replaced, abandoned>>

\* Step 3: the escrow.
PostEscrow ==
    /\ pc = "post"
    /\ \/ Posted(mem.pending.pw) /\ GoTo("mark")
       \/ PostFails(mem.pending.pw) /\ SaveAndThen("idle")
    /\ UNCHANGED <<local, mem, disk, replaced, abandoned>>

\* Mutant: the known password is not tested.
AlwaysRestores == pc' = "restore" /\ next' = "idle"

\* What follows a failure that left the local password as it was.
RestoreIfKnown ==
    IF mem.current # None THEN pc' = "restore" /\ next' = "idle"
    ELSE SaveAndThen("idle")

\* Mutant: the phase is saved best effort.
MarkBestEffort ==
    LET s == [mem EXCEPT !.pending.phase = "escrowed"] IN
    /\ pc = "mark" /\ mem' = s /\ GoTo("apply")
    /\ Saves(s) \/ SaveFails
    /\ UNCHANGED <<local, server, flight, history>>

\* Step 4: the phase "escrowed" on disk, or back to "prepared" in memory.
MarkEscrowed ==
    LET s == [mem EXCEPT !.pending.phase = "escrowed"] IN
    /\ pc = "mark"
    /\ \/ Saves(s) /\ mem' = s /\ GoTo("apply")
       \/ SaveFails /\ UNCHANGED mem /\ RestoreIfKnown
    /\ UNCHANGED <<local, server, flight, history>>

Applied(p) == local' = p /\ replaced' = FALSE

\* Step 5: the outcomes ok, changed-partial, unchanged and uncertain.
Apply ==
    LET p == mem.pending.pw IN
    /\ pc = "apply"
    /\ \/ /\ Applied(p)
          /\ mem' = [pending |-> None, current |-> p, due |-> FALSE]
          /\ abandoned' = FALSE
          /\ SaveAndThen("idle") /\ UNCHANGED faults
       \/ /\ Fault /\ Applied(p)
          /\ mem' = [mem EXCEPT !.pending = None, !.current = p]
          /\ abandoned' = FALSE
          /\ SaveAndThen("idle")
       \/ /\ Fault /\ RestoreIfKnown
          /\ UNCHANGED <<local, mem, replaced, abandoned>>
       \/ /\ Fault
          /\ Applied(p) \/ UNCHANGED <<local, replaced>>
          /\ SaveAndThen("idle")
          /\ UNCHANGED <<mem, abandoned>>
    /\ UNCHANGED <<server, disk, flight, late>>

\* A save whose failure is only logged.
BestEffortSave ==
    /\ pc = "save"
    /\ Saves(mem) \/ SaveFails
    /\ pc' = next
    /\ UNCHANGED <<local, server, mem, next, flight, history>>

-----------------------------------------------------------------------------
\* The process, and time.

\* LoadState: of a file that it cannot read, an empty State.
Unread == [pending |-> None, current |-> None, due |-> TRUE]

Start ==
    /\ pc = "off" /\ pc' = "idle"
    /\ \/ mem' = disk /\ UNCHANGED <<faults, abandoned>>
       \/ Fault /\ mem' = Unread /\ abandoned' = TRUE
    /\ UNCHANGED <<local, server, disk, next, flight, late, replaced>>

\* The other parts of the agent save the whole State.
OtherSave ==
    /\ pc = "idle" /\ disk # mem
    /\ disk' = mem
    /\ UNCHANGED <<local, server, mem, pc, next, flight, faults, history>>

\* A crash or a power cut, perhaps during a request or the script.
Crash ==
    /\ pc # "off" /\ Fault
    /\ pc' = "off"
    /\ \/ UNCHANGED <<local, server, flight, late, replaced>>
       \/ /\ pc \in {"flush", "post", "restore"}
          /\ MayHaveReached(IF pc = "restore" THEN mem.current ELSE mem.pending.pw)
          /\ UNCHANGED <<local, replaced>>
       \/ /\ pc = "apply"
          /\ Applied(mem.pending.pw)
          /\ UNCHANGED <<server, flight, late>>
    /\ UNCHANGED <<mem, disk, next, abandoned>>

\* 30 days have passed.
RotationDue ==
    /\ pc = "idle" /\ ~mem.due
    /\ mem' = [mem EXCEPT !.due = TRUE]
    /\ disk' = [disk EXCEPT !.due = TRUE]
    /\ UNCHANGED <<local, server, pc, next, flight, faults, history>>

-----------------------------------------------------------------------------
RunStep ==
    \/ RunStarts \/ FlushLegacyStash \/ RestoreCurrentEscrow \/ LookUp
    \/ SaveStash \/ PostEscrow \/ MarkEscrowed \/ Apply \/ BestEffortSave

Next == RunStep \/ Start \/ OtherSave \/ Crash \/ RotationDue \/ Lands

Spec == Init /\ [][Next]_vars

\* A checkin every 15 minutes runs the machine, the service is restarted when
\* it dies, time passes, and a request ends.
Fairness ==
    /\ WF_vars(RunStep) /\ WF_vars(Start)
    /\ WF_vars(RotationDue) /\ WF_vars(Lands)

FairSpec == Spec /\ Fairness

-----------------------------------------------------------------------------
\* Properties.

\* The states a run would start from: the file, and the memory between runs.
Resumable == {disk} \cup IF pc = "idle" THEN {mem} ELSE {}

\* Without a stash the escrow is the local password, whatever failed: after
\* any crash, failed save or lost answer a stash remains for as long as the
\* two may differ. Exceptions: a POST executed after a later one, a stash given
\* up or in a state.json that could not be read (a rotation is then due), a
\* stash that was in place and was replaced (laps.go, header, rotate and run;
\* state.go, LoadState).
SettledIsAligned ==
    \A s \in Resumable :
      s.pending = None => \/ server = local
                          \/ late \/ replaced
                          \/ abandoned /\ s.due

\* "prepared" on disk means that its password was never applied, although the
\* phase is only saved afterwards (laps.go, rotate, step 4).
PreparedIsNotApplied ==
    \A s \in Resumable :
      s.pending # None /\ s.pending.phase = "prepared" => s.pending.pw # local

\* A password is applied only once the server holds it, and with a stash on
\* disk that tells it may be in place, unless a belated POST has overwritten
\* the escrow (laps.go, rotate, steps 3 to 5).
AppliesWhatIsEscrowed ==
    [][local' # local =>
         /\ server = local' \/ late
         /\ disk.pending = [pw |-> local', phase |-> "escrowed"]]_vars

\* The server and the device end up aligned again, from whatever state
\* (laps.go, header: "serveur et poste sont de nouveau alignés").
Realigns == (server # local) ~> (server = local)

-----------------------------------------------------------------------------
\* What the code announces, and does not do.

\* "Mot de passe jamais appliqué : le poste a toujours celui de
\* CurrentAdminCred" (laps.go, run): the password that restoreCurrentEscrow
\* puts back on the server is the one in place.
RestoresWhatIsInPlace == pc = "restore" => mem.current = local
=============================================================================
