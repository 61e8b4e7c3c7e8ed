---------------------------- MODULE AgentUpdate ----------------------------
(***************************************************************************)
(* The self-update of the Windows agent and its rollback: the three         *)
(* binaries on disk (agent-go/update.go), the surveillance window and the   *)
(* integrity baseline in state.json (agent-go/state.go, tamper.go), the     *)
(* restart of the service (service_loop.go, restart_windows.go) and the     *)
(* offer in the checkin's reply (inventory/routes/agent.js).                *)
(*                                                                         *)
(* A step ends with one operation on the disk: a rename or a save. A        *)
(* version stands for its binary and its hash. Some versions are mute:      *)
(* they run, and no checkin of theirs succeeds.                             *)
(***************************************************************************)
EXTENDS Naturals, FiniteSets

CONSTANTS
    Version,      \* released versions, in the order of semverGT
    First,        \* the one that was installed
    Mute,         \* those whose checkins fail
    None,
    MaxFailed,    \* MaxFailedSinceUpdate
    MaxFaults     \* bound: crashes, failed requests, renames and saves

ASSUME UpdateAssumption ==
    /\ Version \subseteq Nat /\ First \in Version \ Mute /\ Mute \subseteq Version
    /\ None \notin Version
    /\ MaxFailed \in Nat \ {0} /\ MaxFaults \in Nat

VARIABLES
    cur, bak, failed,  \* the binaries at binaryPath, backupPath and .failed
    image,      \* version the process runs, None without a process
    mem,        \* State in memory
    disk,       \* state.json
    swapped,    \* swappedVersion
    restart,    \* restartRequests holds a request
    tamper,     \* runtimeTamper
    pc,         \* step of runCheckin
    offer,      \* agent_update of the last reply
    latest,     \* version the server distributes
    faults,
    proven,     \* history: versions of which a checkin succeeded here
    undone,     \* history: versions rolled back in the last 24 hours
    last,       \* history: the last of them
    withdrawn,  \* history: a version was replaced by an older one in dist/
    unhashed,   \* history: the restored binary could not be hashed, and no
                \* replacement has recorded another hash since
    torn        \* history: a crash or a failed operation between the first
                \* rename of a replacement and its record in state.json, or
                \* a state.json that could not be read

files == <<cur, bak, failed>>
process == <<image, swapped, restart, tamper>>
history == <<proven, undone, last, withdrawn, unhashed, torn>>
vars == <<files, process, mem, disk, pc, offer, latest, faults, history>>

State ==
    [window : Version \cup {None},     \* LastUpdateVersion, LastUpdateAt set
     count : 0..MaxFailed,             \* FailedSinceUpdate, or that many
     rolled : Version \cup {None},     \* RolledBackVersion
     recent : BOOLEAN,                 \* RolledBackAt less than 24 h ago
     baseline : Version \cup {None}]   \* BinarySHA256

TypeOK ==
    /\ \A f \in {cur, bak, failed, image, swapped, offer, last} : f \in Version \cup {None}
    /\ mem \in State /\ disk \in State
    /\ restart \in BOOLEAN /\ tamper \in BOOLEAN
    /\ withdrawn \in BOOLEAN /\ unhashed \in BOOLEAN /\ torn \in BOOLEAN
    /\ pc \in {"idle", "update", "replace", "promote", "record",
               "rollback", "restore", "forget"}
    /\ latest \in Version
    /\ faults \in 0..MaxFaults
    /\ proven \subseteq Version /\ undone \subseteq Version
    /\ image = None => pc = "idle"
    /\ pc # "idle" => restart = FALSE
    /\ mem.window = None => mem.count = 0

Fresh == [window |-> None, count |-> 0, rolled |-> None, recent |-> FALSE,
          baseline |-> None]

\* As install.ps1 leaves the device.
Init ==
    /\ cur = First /\ bak = None /\ failed = None
    /\ image = None /\ swapped = None /\ restart = FALSE /\ tamper = FALSE
    /\ mem = Fresh /\ disk = Fresh
    /\ pc = "idle" /\ offer = None
    /\ latest = First
    /\ faults = 0
    /\ proven = {First} /\ undone = {} /\ last = None
    /\ withdrawn = FALSE /\ unhashed = FALSE /\ torn = FALSE

Fault == faults < MaxFaults /\ faults' = faults + 1

\* State.Save: logged and ignored when it fails.
Save(s) ==
    \/ disk' = s /\ UNCHANGED faults
    \/ Fault /\ UNCHANGED disk

\* The same, after a replacement of the binary.
SaveReplacement(s) ==
    \/ disk' = s /\ UNCHANGED <<faults, torn>>
    \/ Fault /\ torn' = TRUE /\ UNCHANGED disk

-----------------------------------------------------------------------------
\* A checkin and CheckRollback.

Ready == pc = "idle" /\ image # None /\ ~restart

\* Mutant: the image that was replaced judges its successor.
WatchesAnyway == mem.window # None

\* The process is the one to be watched.
Watched == mem.window # None /\ swapped = None

\* Mutant: the next window starts with the failures of this one.
ClosedKeepsCount(s) == [s EXCEPT !.window = None]

Closed(s) == [s EXCEPT !.window = None, !.count = 0]

\* The checkin succeeds. The reply offers a version inside the maintenance
\* window only (`offered`).
CheckinSucceeds(offered) ==
    LET s == IF Watched THEN Closed(mem) ELSE mem IN
    /\ Ready /\ image \notin Mute
    /\ mem' = s /\ Save(s)
    /\ proven' = proven \cup {image}
    /\ \/ offered /\ latest > image /\ pc' = "update" /\ offer' = latest
       \/ ~offered /\ UNCHANGED <<pc, offer>>
    /\ UNCHANGED <<files, process, latest, undone, last, withdrawn, unhashed, torn>>

GivesUp(n) == n >= MaxFailed

\* Mutant: the failures are counted in memory only.
CheckinFailsUnsaved ==
    LET n == IF mem.count < MaxFailed THEN mem.count + 1 ELSE mem.count IN
    /\ Ready
    /\ IF image \in Mute THEN UNCHANGED faults ELSE Fault
    /\ mem' = IF Watched THEN [mem EXCEPT !.count = n] ELSE mem
    /\ pc' = IF Watched /\ GivesUp(n) THEN "rollback" ELSE "idle"
    /\ UNCHANGED <<files, process, disk, offer, latest, history>>

\* It fails: a mute version, the server, the network, or a stop that cancels
\* it.
CheckinFails ==
    LET n == IF mem.count < MaxFailed THEN mem.count + 1 ELSE mem.count
        s == [mem EXCEPT !.count = n] IN
    /\ Ready
    /\ \/ /\ image \in Mute
          /\ IF Watched THEN mem' = s /\ Save(s) ELSE UNCHANGED <<mem, disk, faults>>
       \/ /\ image \notin Mute /\ Fault
          /\ IF Watched THEN mem' = s /\ disk' = s ELSE UNCHANGED <<mem, disk>>
    /\ pc' = IF Watched /\ GivesUp(n) THEN "rollback" ELSE "idle"
    /\ UNCHANGED <<files, process, offer, latest, history>>

-----------------------------------------------------------------------------
\* HandleAgentUpdate.

\* Mutant: a version that was rolled back is installed again at once.
AcceptsAnything(u) == u > image

\* Mutant: a version that was rolled back is never installed again.
NeverAgain(u) == u > image /\ mem.rolled # u

\* Newer, and not rolled back in the last 24 hours.
Accepts(u) == u > image /\ ~(mem.rolled = u /\ mem.recent)

\* Mutant: the update does not know that it is already on disk.
NeverSwapped == FALSE

AlreadySwapped == swapped # None

\* Download, verification and writing of the new binary, unless nothing has
\* to be done or one of them fails. What is downloaded is the binary that dist/
\* holds now: if it is no longer the one of the offer, its hash is refused.
StartUpdate ==
    /\ pc = "update"
    /\ \/ AlreadySwapped /\ restart' = TRUE /\ pc' = "idle" /\ UNCHANGED faults
       \/ /\ ~AlreadySwapped
          /\ \/ ~Accepts(offer) /\ pc' = "idle" /\ UNCHANGED faults
             \/ Accepts(offer) /\ latest = offer /\ pc' = "replace" /\ UNCHANGED faults
             \/ Accepts(offer) /\ latest # offer /\ pc' = "idle" /\ UNCHANGED faults
             \/ Accepts(offer) /\ Fault /\ pc' = "idle"
          /\ UNCHANGED restart
    /\ UNCHANGED <<files, image, swapped, tamper, mem, disk, offer, latest, history>>

\* atomicReplace: the old backup goes, the current binary becomes the backup.
MoveToBackup ==
    /\ pc = "replace"
    /\ failed' = failed
    /\ \/ cur # None /\ bak' = cur /\ cur' = None /\ pc' = "promote" /\ UNCHANGED faults
       \/ cur # None /\ Fault /\ bak' = None /\ pc' = "idle" /\ UNCHANGED cur
       \/ cur = None /\ bak' = None /\ pc' = "idle" /\ UNCHANGED <<cur, faults>>
    /\ UNCHANGED <<process, mem, disk, offer, latest, history>>

\* The new binary becomes the current one; else the backup comes back.
Promote ==
    /\ pc = "promote"
    /\ \/ cur' = offer /\ pc' = "record" /\ UNCHANGED <<bak, faults, torn>>
       \/ /\ Fault /\ pc' = "idle"
          /\ \/ cur' = bak /\ bak' = None /\ UNCHANGED torn
             \/ torn' = TRUE /\ UNCHANGED <<cur, bak>>
    /\ UNCHANGED <<failed, process, mem, disk, offer, latest, proven, undone, last,
                   withdrawn, unhashed>>

\* Mutant: the baseline stays that of the replaced binary.
RecordNoBaseline(s) == [s EXCEPT !.window = offer, !.count = 0]

Record(s) == [s EXCEPT !.window = offer, !.count = 0, !.baseline = offer]

\* The window opens, and the restart is requested.
RecordUpdate ==
    /\ pc = "record"
    /\ mem' = Record(mem) /\ SaveReplacement(Record(mem))
    /\ swapped' = offer /\ restart' = TRUE
    /\ pc' = "idle" /\ unhashed' = FALSE
    /\ UNCHANGED <<files, image, tamper, offer, latest, proven, undone, last, withdrawn>>

-----------------------------------------------------------------------------
\* rollback

\* Without a backup nothing can be done; without a current binary the .failed
\* file is only removed.
MoveToFailed ==
    /\ pc = "rollback"
    /\ \/ /\ bak # None /\ cur # None
          /\ failed' = cur /\ cur' = None /\ pc' = "restore" /\ UNCHANGED faults
       \/ /\ bak # None
          /\ IF cur = None THEN UNCHANGED faults ELSE Fault
          /\ failed' = None /\ pc' = "idle" /\ UNCHANGED cur
       \/ bak = None /\ pc' = "idle" /\ UNCHANGED <<cur, failed, faults>>
    /\ UNCHANGED <<bak, process, mem, disk, offer, latest, history>>

\* The backup becomes the current binary, or the failed one comes back.
RestoreBackup ==
    /\ pc = "restore"
    /\ \/ cur' = bak /\ bak' = None /\ pc' = "forget" /\ UNCHANGED <<failed, faults, torn>>
       \/ /\ Fault /\ pc' = "idle" /\ UNCHANGED bak
          /\ \/ cur' = failed /\ failed' = None /\ UNCHANGED torn
             \/ torn' = TRUE /\ UNCHANGED <<cur, failed>>
    /\ UNCHANGED <<process, mem, disk, offer, latest, proven, undone, last, withdrawn,
                   unhashed>>

\* The state after a rollback, with the hash `base`.
Forgotten(base) ==
    [Closed(mem) EXCEPT !.rolled = mem.window, !.recent = TRUE, !.baseline = base]

\* The version is remembered, the window closes and the restart is requested.
\* The baseline is the restored binary's, or stays that of the version rolled
\* back when the hash cannot be computed.
ForgetUpdate ==
    /\ pc = "forget"
    /\ \/ /\ mem' = Forgotten(cur) /\ SaveReplacement(mem')
          /\ unhashed' = FALSE
       \/ /\ mem' = Forgotten(mem.baseline) /\ Fault
          /\ \/ disk' = mem' /\ UNCHANGED torn
             \/ torn' = TRUE /\ UNCHANGED disk
          /\ unhashed' = TRUE
    /\ undone' = undone \cup {mem.window} /\ last' = mem.window
    /\ restart' = TRUE
    /\ pc' = "idle"
    /\ UNCHANGED <<files, image, swapped, tamper, offer, latest, proven, withdrawn>>

-----------------------------------------------------------------------------
\* The service.

\* Where a process that ends leaves the device.
Down ==
    /\ image' = None /\ swapped' = None /\ restart' = FALSE /\ tamper' = FALSE
    /\ pc' = "idle" /\ offer' = None

\* The request is served: the process exits, or goes on if the service would
\* not be started again.
HandleRestart ==
    /\ restart /\ pc = "idle"
    /\ \/ Down /\ UNCHANGED faults
       \/ Fault /\ restart' = FALSE /\ UNCHANGED <<image, swapped, tamper, pc, offer>>
    /\ UNCHANGED <<files, mem, disk, latest, history>>

\* The device is restarted between two checkins.
Reboot ==
    /\ image # None /\ pc = "idle"
    /\ Down
    /\ UNCHANGED <<files, mem, disk, latest, faults, history>>

\* A crash, a power cut, or a stop whose grace runs out.
Crash ==
    /\ pc # "idle" /\ Fault
    /\ Down
    /\ torn' = (torn \/ pc \in {"promote", "record", "restore", "forget"})
    /\ UNCHANGED <<files, mem, disk, latest, proven, undone, last, withdrawn, unhashed>>

\* The first hash becomes the baseline.
Baselined(s) == IF s.baseline = None THEN [s EXCEPT !.baseline = cur] ELSE s

\* LoadState and CheckBinaryIntegrity. The binary may be impossible to hash; of
\* a file that cannot be read or parsed nothing is kept, and the next save
\* replaces it.
Start ==
    /\ image = None /\ cur # None
    /\ image' = cur
    /\ \/ /\ mem' = Baselined(disk) /\ Save(mem')
          /\ tamper' = (mem'.baseline # cur) /\ UNCHANGED torn
       \/ /\ Fault
          /\ mem' = disk /\ tamper' = FALSE /\ UNCHANGED <<disk, torn>>
       \/ /\ Fault
          /\ \/ mem' = Baselined(Fresh) /\ disk' \in {disk, mem'}
             \/ mem' = Fresh /\ UNCHANGED disk
          /\ tamper' = FALSE /\ torn' = TRUE
    /\ UNCHANGED <<files, swapped, restart, pc, offer, latest, proven, undone, last,
                   withdrawn, unhashed>>

\* The other parts of the agent save the whole State.
OtherSave ==
    /\ Ready /\ disk # mem
    /\ disk' = mem
    /\ UNCHANGED <<files, process, mem, pc, offer, latest, faults, history>>

\* An admin puts another version in dist/, newer or older than the present one:
\* the server offers what it finds there.
Publish(v) ==
    /\ v # latest
    /\ latest' = v /\ withdrawn' = (withdrawn \/ v < latest)
    /\ UNCHANGED <<files, process, mem, disk, pc, offer, faults, proven, undone, last,
                   unhashed, torn>>

\* 24 hours pass since the last rollback.
DayPasses ==
    /\ pc = "idle" /\ undone # {}
    /\ mem' = [mem EXCEPT !.recent = FALSE]
    /\ disk' = [disk EXCEPT !.recent = FALSE]
    /\ undone' = {} /\ last' = None
    /\ UNCHANGED <<files, process, pc, offer, latest, faults, proven, withdrawn,
                   unhashed, torn>>

-----------------------------------------------------------------------------
AgentStep ==
    \/ \E offered \in BOOLEAN : CheckinSucceeds(offered)
    \/ CheckinFails
    \/ StartUpdate \/ MoveToBackup \/ Promote \/ RecordUpdate
    \/ MoveToFailed \/ RestoreBackup \/ ForgetUpdate

Next ==
    \/ AgentStep \/ HandleRestart \/ Reboot \/ Crash \/ Start \/ OtherSave
    \/ \E v \in Version : Publish(v)
    \/ DayPasses

Spec == Init /\ [][Next]_vars

\* A process makes a checkin when it starts and every 15 minutes, some of them
\* inside the maintenance window; the service control manager starts the
\* service, devices are rebooted some day, time passes. Nothing forces an admin
\* to publish.
Fairness ==
    /\ SF_vars(AgentStep) /\ SF_vars(CheckinSucceeds(TRUE))
    /\ WF_vars(HandleRestart) /\ SF_vars(Reboot) /\ WF_vars(Start)
    /\ SF_vars(DayPasses)

FairSpec == Spec /\ Fairness

-----------------------------------------------------------------------------
\* Properties.

\* A rollback restores a binary that worked on this device: whatever the
\* order of updates, restarts and rollbacks, the backup is one of which a
\* checkin succeeded (update.go, atomicReplace, HandleAgentUpdate).
BackupWorked == bak # None => bak \in proven

AtRest == pc = "idle" /\ cur # None /\ ~torn

\* A binary that has not yet reported from this device is under surveillance
\* in the file its process will load (update.go, HandleAgentUpdate 6).
UnprovenIsWatched == AtRest /\ cur \notin proven => disk.window = cur

\* The baseline is the hash of the binary on disk, after an update and after
\* a rollback: a process raises a false alarm only after a rollback that could
\* not hash the binary it had restored, and only until a replacement records
\* another hash (update.go, CheckRollback; tamper.go, CheckBinaryIntegrity).
NoFalseTamper ==
    /\ AtRest => disk.baseline \in {None, cur} \/ unhashed
    /\ tamper => torn \/ unhashed \/ swapped # None

\* The last version that was rolled back is not installed again within 24
\* hours, not even by another process. Only the last one is remembered: the
\* others of that time stay away as long as no version is withdrawn for an
\* older one, because they are then older than the last (update.go,
\* HandleAgentUpdate, RolledBackVersion).
NoUpdateLoop ==
    [][pc = "promote" /\ cur' = offer =>
         torn \/ (offer # last /\ (offer \in undone => withdrawn))]_vars

\* A version that cannot report gives way to one that can: the device does not
\* stay mute, whatever restarts, reboots and failures come between its
\* checkins, unless an operation was cut in the middle (update.go,
\* CheckRollback).
MuteIsLeft == (cur \in Mute /\ ~torn) ~> (image \in Version \ Mute \/ torn)

\* A working version that stays published gets installed, although it may be
\* rolled back first because the server was down, unless the device comes to
\* run a newer one that works: an agent never goes back to an older version on
\* its own (update.go, semverGT, rolledBackRetryAfter).
PublishedIsInstalled ==
    \A v \in Version \ Mute :
      (latest = v /\ ~torn) ~>
        (\/ image \in Version \ Mute /\ image >= v
         \/ latest # v \/ torn)
=============================================================================
