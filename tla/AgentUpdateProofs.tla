-------------------------- MODULE AgentUpdateProofs --------------------------
(***************************************************************************)
(* The safety properties of AgentUpdate, for any versions, any number of    *)
(* failures and any bound on the faults.                                    *)
(***************************************************************************)
EXTENDS AgentUpdate, TLAPS

\* The parts of TypeOK.
TypedFiles ==
    /\ cur \in Version \cup {None} /\ bak \in Version \cup {None}
    /\ failed \in Version \cup {None}

TypedProcess ==
    /\ image \in Version \cup {None} /\ swapped \in Version \cup {None}
    /\ offer \in Version \cup {None}
    /\ restart \in BOOLEAN /\ tamper \in BOOLEAN
    /\ pc \in {"idle", "update", "replace", "promote", "record",
               "rollback", "restore", "forget"}
    /\ image = None => pc = "idle"
    /\ pc # "idle" => restart = FALSE

\* A closed window counts nothing, in the file either.
TypedStates ==
    /\ mem \in State /\ disk \in State
    /\ mem.window = None => mem.count = 0
    /\ disk.window = None => disk.count = 0

TypedRest ==
    /\ latest \in Version /\ faults \in 0..MaxFaults
    /\ proven \subseteq Version /\ undone \subseteq Version
    /\ last \in Version \cup {None}
    /\ withdrawn \in BOOLEAN /\ unhashed \in BOOLEAN /\ torn \in BOOLEAN

Typed == TypedFiles /\ TypedProcess /\ TypedStates /\ TypedRest

\* What the place in a checkin says of the files and of the process. The
\* current binary is the one that runs, or one that worked, unless the process
\* knows that it has been replaced.
Files ==
    /\ bak # None => bak \in proven
    /\ pc \in {"update", "replace", "promote", "record"} =>
         /\ image \in proven /\ offer \in Version
         /\ ~torn /\ ~withdrawn => offer <= latest /\ \A u \in undone : u <= offer
    /\ pc \notin {"idle", "update"} => swapped = None
    /\ pc \in {"promote", "restore"} => cur = None
    /\ pc = "promote" => bak # None
    /\ pc = "record" => cur = offer
    /\ pc \in {"rollback", "restore", "forget"} => mem.window # None
    /\ pc = "restore" => /\ bak # None /\ failed # None
                         /\ failed = image \/ failed \in proven
    /\ pc = "forget" => cur \in proven
    /\ image # None /\ swapped = None /\ pc # "record" =>
         cur \in proven \cup {image, None}

\* The binary that a cut or a failed rename leaves or puts back.
Resting == IF pc = "promote" THEN bak ELSE IF pc = "restore" THEN failed ELSE cur

\* A state s, of the process or of the file, describes that binary.
Describes(s) ==
    Resting # None =>
      /\ s.baseline \in {None, Resting} \/ unhashed
      /\ Resting \notin proven => s.window = Resting

\* The last version rolled back is remembered.
Remembers(s) == last # None => s.recent /\ s.rolled = last

\* As long as none is withdrawn, versions are offered, and so watched and rolled
\* back, in their order.
Ordered ==
    /\ \A s \in {mem, disk} :
         s.window # None => s.window <= latest /\ \A u \in undone : u <= s.window
    /\ \A u \in undone : u <= latest /\ u <= last

Records ==
    /\ undone # {} => last \in undone
    /\ tamper => torn \/ unhashed \/ swapped # None
    /\ ~torn =>
         /\ unhashed => mem.window = None /\ disk.window = None
         /\ ~withdrawn => Ordered
         /\ \A s \in {mem, disk} : Remembers(s)
         /\ pc \notin {"record", "forget"} => \A s \in {mem, disk} : Describes(s)
         /\ pc \in {"replace", "promote"} =>
              offer # last /\ (offer \in undone => withdrawn)

IInv == Typed /\ Files /\ Records

-----------------------------------------------------------------------------
LEMMA TypedIsTypeOK == Typed => TypeOK
  BY DEF Typed, TypeOK, TypedFiles, TypedProcess, TypedStates, TypedRest

\* What the fields of a state are.
LEMMA StateFields ==
  ASSUME NEW s \in State
  PROVE  /\ s.window \in Version \cup {None} /\ s.count \in 0..MaxFailed
         /\ s.rolled \in Version \cup {None} /\ s.recent \in BOOLEAN
         /\ s.baseline \in Version \cup {None}
  BY DEF State

\* Steps build their state from fields.
LEMMA StateOf ==
  ASSUME NEW w \in Version \cup {None}, NEW n \in 0..MaxFailed,
         NEW r \in Version \cup {None}, NEW e \in BOOLEAN, NEW b \in Version \cup {None}
  PROVE  [window |-> w, count |-> n, rolled |-> r, recent |-> e, baseline |-> b] \in State
  BY DEF State

LEMMA StateClosed ==
  ASSUME NEW s \in State
  PROVE  /\ Closed(s) \in State
         /\ Closed(s) = [window |-> None, count |-> 0, rolled |-> s.rolled,
                         recent |-> s.recent, baseline |-> s.baseline]
  <1>1. Closed(s) = [window |-> None, count |-> 0, rolled |-> s.rolled,
                     recent |-> s.recent, baseline |-> s.baseline]
    <2> DEFINE t == [s EXCEPT !.window = None]
    <2>1. t = [window |-> None, count |-> s.count, rolled |-> s.rolled,
               recent |-> s.recent, baseline |-> s.baseline]
      BY DEF State
    <2>2. Closed(s) = [t EXCEPT !.count = 0]
      BY DEF State, Closed
    <2> QED
      BY <2>1, <2>2
  <1>2. 0 \in 0..MaxFailed
    BY UpdateAssumption
  <1> QED
    BY <1>1, <1>2, StateFields, StateOf

LEMMA FaultsCount == ASSUME Typed, Fault PROVE faults' \in 0..MaxFaults
  BY UpdateAssumption DEF Fault, Typed, TypedRest

LEMMA Saved ==
  ASSUME Typed, NEW s, Save(s)
  PROVE  disk' \in {s, disk} /\ faults' \in 0..MaxFaults
  BY FaultsCount DEF Save, Typed, TypedRest

\* A save that records a replacement fails only with `torn`.
LEMMA ReplacementSaved ==
  ASSUME Typed, NEW s, SaveReplacement(s)
  PROVE  /\ disk' \in {s, disk} /\ faults' \in 0..MaxFaults
         /\ torn' \in BOOLEAN /\ (torn => torn') /\ (~torn' => disk' = s)
  BY FaultsCount DEF SaveReplacement, Typed, TypedRest

LEMMA InitInv == Init => IInv
  <1> SUFFICES ASSUME Init PROVE IInv
    OBVIOUS
  <1> USE UpdateAssumption
  <1>1. Fresh \in State
    BY DEF Fresh, State
  <1>2. 0 \in 0..MaxFaults /\ First \in Version
    OBVIOUS
  <1>3. Typed
    BY <1>1, <1>2 DEF Init, Typed, TypedFiles, TypedProcess, TypedStates, TypedRest, Fresh
  <1>4. Files
    BY DEF Init, Files, Fresh
  <1>5. Records
    BY DEF Init, Records, Ordered, Remembers, Describes, Resting, Fresh
  <1> QED
    BY <1>3, <1>4, <1>5 DEF IInv

\* A successful checkin proves the binary that runs, and closes the window of
\* the current one only.
LEMMA CheckinSucceedsInv ==
  ASSUME IInv, NEW offered \in BOOLEAN, CheckinSucceeds(offered)
  PROVE  IInv'
  <1> USE UpdateAssumption
  <1> DEFINE s == IF Watched THEN Closed(mem) ELSE mem
  <1>1. /\ Ready /\ image \notin Mute /\ mem' = s /\ Save(s)
        /\ proven' = proven \cup {image}
        /\ UNCHANGED <<files, process, latest, undone, last, withdrawn, unhashed, torn>>
        /\ \/ latest > image /\ pc' = "update" /\ offer' = latest
           \/ UNCHANGED <<pc, offer>>
    BY DEF CheckinSucceeds
  <1>2. disk' \in {s, disk} /\ faults' \in 0..MaxFaults
    BY <1>1, Saved DEF IInv
  <1>3. /\ s \in State /\ s.window \in {mem.window, None}
        /\ s.window = None => s.count = 0
        /\ s.window # mem.window => swapped = None
        /\ s.rolled = mem.rolled /\ s.recent = mem.recent /\ s.baseline = mem.baseline
    BY StateClosed DEF Watched, IInv, Typed, TypedStates
  <1> HIDE DEF s
  <1>4. pc = "idle" /\ image \in Version /\ restart = FALSE
    BY <1>1 DEF Ready, IInv, Typed, TypedProcess
  <1>5. Typed'
    <2>1. TypedFiles' /\ TypedRest'
      BY <1>1, <1>2, <1>4 DEF IInv, Typed, TypedFiles, TypedRest, files
    <2>2. TypedProcess'
      BY <1>1, <1>4 DEF IInv, Typed, TypedProcess, TypedRest, process
    <2>3. TypedStates'
      BY <1>1, <1>2, <1>3 DEF IInv, Typed, TypedStates
    <2> QED
      BY <2>1, <2>2, <2>3 DEF Typed
  <1>6. Files'
    <2>1. latest \in Nat /\ latest \in Version
      BY DEF IInv, Typed, TypedRest
    <2>2. latest <= latest
      BY <2>1
    <2>3. ~torn /\ ~withdrawn => \A u \in undone : u <= latest
      BY DEF IInv, Records, Ordered
    <2> QED
      BY <1>1, <1>4, <2>1, <2>2, <2>3 DEF IInv, Files, files, process
  <1>7. Resting' = cur /\ Resting = cur
    BY <1>1, <1>4 DEF Resting, files
  <1>8. Records'
    <2>1. ~torn' /\ ~withdrawn' => Ordered'
      BY <1>1, <1>2, <1>3 DEF IInv, Records, Ordered
    <2>2. ~torn' /\ unhashed' => mem'.window = None /\ disk'.window = None
      BY <1>1, <1>2, <1>3 DEF IInv, Records
    <2>3. ~torn' => \A x \in {mem', disk'} : Remembers(x)'
      BY <1>1, <1>2, <1>3 DEF IInv, Records, Remembers
    <2>4. ASSUME ~torn', NEW x \in {s, disk}, cur # None, cur \notin proven'
          PROVE  x.window = cur
      <3>1. mem.window = cur /\ disk.window = cur /\ swapped # None
        BY <1>1, <1>4, <1>7, <2>4 DEF IInv, Records, Describes, Files
      <3> QED
        BY <1>3, <2>4, <3>1
    <2>5. ~torn' => \A x \in {s, disk} :
                      cur # None => x.baseline \in {None, cur} \/ unhashed
      BY <1>1, <1>3, <1>4, <1>7 DEF IInv, Records, Describes
    <2>6. ~torn' => \A x \in {mem', disk'} : Describes(x)'
      BY <1>1, <1>2, <1>7, <2>4, <2>5 DEF Describes
    <2> QED
      BY <1>1, <1>4, <2>1, <2>2, <2>3, <2>6 DEF IInv, Records, process
  <1> QED
    BY <1>5, <1>6, <1>8 DEF IInv

\* A failed one counts, and may decide to roll back.
LEMMA CheckinFailsInv ==
  ASSUME IInv, CheckinFails
  PROVE  IInv'
  <1> USE UpdateAssumption
  <1> DEFINE n == IF mem.count < MaxFailed THEN mem.count + 1 ELSE mem.count
             s == [mem EXCEPT !.count = n]
  <1>1. /\ Ready /\ mem' \in {mem, s} /\ disk' \in {disk, s}
        /\ (mem' = mem /\ disk' = disk) \/ Watched
        /\ UNCHANGED <<files, process, offer, latest, history>>
        /\ faults' \in 0..MaxFaults
        /\ pc' \in {"rollback", "idle"} /\ (pc' = "rollback" => Watched)
    <2>1. CASE image \in Mute
      <3>1. faults \in 0..MaxFaults
        BY DEF IInv, Typed, TypedRest
      <3>2. Watched => disk' \in {s, disk} /\ faults' \in 0..MaxFaults
        BY <2>1, Saved DEF CheckinFails, IInv
      <3> QED
        BY <2>1, <3>1, <3>2 DEF CheckinFails
    <2>2. CASE image \notin Mute
      BY <2>2, FaultsCount DEF CheckinFails, IInv
    <2> QED
      BY <2>1, <2>2
  <1>2. /\ s \in State /\ s.window = mem.window
        /\ s.rolled = mem.rolled /\ s.recent = mem.recent /\ s.baseline = mem.baseline
    <2>1. n \in 0..MaxFailed /\ mem \in State
      BY StateFields DEF IInv, Typed, TypedStates
    <2> QED
      BY <2>1 DEF State
  <1> HIDE DEF s
  <1>3. pc = "idle" /\ image \in Version /\ restart = FALSE
    BY <1>1 DEF Ready, IInv, Typed, TypedProcess
  <1>4. Typed'
    <2>1. TypedFiles' /\ TypedRest'
      BY <1>1 DEF IInv, Typed, TypedFiles, TypedRest, files, history
    <2>2. TypedProcess'
      BY <1>1, <1>3 DEF IInv, Typed, TypedProcess, process
    <2>3. TypedStates'
      BY <1>1, <1>2 DEF IInv, Typed, TypedStates, Watched
    <2> QED
      BY <2>1, <2>2, <2>3 DEF Typed
  <1>5. Files'
    BY <1>1, <1>2, <1>3 DEF IInv, Files, files, process, history, Watched
  <1>6. Resting' = cur /\ Resting = cur
    BY <1>1, <1>3 DEF Resting, files
  <1>7. Records'
    <2>1. \A x \in {mem', disk'} : \E y \in {mem, disk} :
            /\ x.window = y.window /\ x.rolled = y.rolled /\ x.recent = y.recent
            /\ x.baseline = y.baseline
      BY <1>1, <1>2
    <2>2. ~torn /\ ~withdrawn => Ordered'
      BY <1>1, <2>1 DEF IInv, Records, Ordered, history
    <2>3. ~torn => \A x \in {mem', disk'} : Remembers(x)'
      BY <1>1, <2>1 DEF IInv, Records, Remembers, history
    <2>4. ~torn => \A x \in {mem', disk'} : Describes(x)'
      BY <1>1, <1>3, <1>6, <2>1 DEF IInv, Records, Describes, history
    <2>5. ~torn /\ unhashed => mem'.window = None /\ disk'.window = None
      BY <1>1, <1>2 DEF IInv, Records
    <2> QED
      BY <1>1, <2>2, <2>3, <2>4, <2>5 DEF IInv, Records, process, history
  <1> QED
    BY <1>4, <1>5, <1>7 DEF IInv

\* HandleAgentUpdate goes on with a version that is not the last one rolled
\* back, nor another one of the day if no version was withdrawn: they are older
\* than the last, and the offer is not.
LEMMA StartUpdateInv ==
  ASSUME IInv, StartUpdate
  PROVE  IInv'
  <1> USE UpdateAssumption
  <1>1. /\ pc = "update"
        /\ \/ swapped # None /\ pc' = "idle" /\ restart' = TRUE /\ UNCHANGED faults
           \/ swapped = None /\ pc' = "idle" /\ UNCHANGED restart /\ faults' \in 0..MaxFaults
           \/ /\ swapped = None /\ pc' = "replace" /\ UNCHANGED <<restart, faults>>
              /\ Accepts(offer)
        /\ UNCHANGED <<files, image, swapped, tamper, mem, disk, offer, latest, history>>
    BY FaultsCount DEF StartUpdate, AlreadySwapped, IInv, Typed, TypedRest
  <1>2. Typed'
    <2>1. TypedFiles' /\ TypedRest' /\ TypedStates'
      BY <1>1 DEF IInv, Typed, TypedFiles, TypedRest, TypedStates, files, history
    <2>2. TypedProcess'
      <3>1. restart' \in BOOLEAN /\ (pc' # "idle" => restart' = FALSE)
        BY <1>1 DEF IInv, Typed, TypedProcess
      <3> QED
        BY <1>1, <3>1 DEF IInv, Typed, TypedProcess
    <2> QED
      BY <2>1, <2>2 DEF Typed
  <1>3. Files'
    BY <1>1 DEF IInv, Files, files, history
  <1>4. Resting' = cur /\ Resting = cur
    BY <1>1 DEF Resting, files
  <1>5. ASSUME ~torn, Accepts(offer)
        PROVE  offer # last /\ (offer \in undone => withdrawn)
    <2>1. last # None => mem.recent /\ mem.rolled = last
      BY <1>5 DEF IInv, Records, Remembers
    <2>2. offer # last
      BY <1>1, <1>5, <2>1 DEF Accepts, IInv, Files
    <2>3. ASSUME offer \in undone, ~withdrawn PROVE FALSE
      <3>1. last # None /\ last \in undone
        BY <1>5, <2>3 DEF IInv, Records, Typed, TypedRest
      <3>2. offer <= last /\ last <= offer
        BY <1>1, <1>5, <2>3, <3>1 DEF IInv, Records, Ordered, Files
      <3>3. last \in Nat /\ offer \in Nat
        BY <2>3, <3>1 DEF IInv, Typed, TypedRest
      <3> QED
        BY <2>2, <3>2, <3>3
    <2> QED
      BY <2>2, <2>3
  <1>6. Records'
    <2>1. \A x \in {mem, disk} : Remembers(x)' = Remembers(x)
      BY <1>1 DEF Remembers, history
    <2>2. \A x \in {mem, disk} : Describes(x)' = Describes(x)
      BY <1>1, <1>4 DEF Describes, history
    <2>3. Ordered' = Ordered
      BY <1>1 DEF Ordered, history
    <2> QED
      BY <1>1, <1>5, <2>1, <2>2, <2>3 DEF IInv, Records, history
  <1> QED
    BY <1>2, <1>3, <1>6 DEF IInv

\* The current binary is proven: the one that runs, which has just reported,
\* or one that had worked.
LEMMA MoveToBackupInv ==
  ASSUME IInv, MoveToBackup
  PROVE  IInv'
  <1> USE UpdateAssumption
  <1>1. /\ pc = "replace" /\ failed' = failed
        /\ \/ cur # None /\ bak' = cur /\ cur' = None /\ pc' = "promote" /\ UNCHANGED faults
           \/ bak' = None /\ pc' = "idle" /\ cur' = cur /\ faults' \in 0..MaxFaults
        /\ UNCHANGED <<process, mem, disk, offer, latest, history>>
    BY FaultsCount DEF MoveToBackup, IInv, Typed, TypedRest
  <1>2. Typed'
    <2>1. TypedFiles' /\ TypedRest' /\ TypedStates'
      BY <1>1 DEF IInv, Typed, TypedFiles, TypedRest, TypedStates, history
    <2>2. TypedProcess'
      BY <1>1 DEF IInv, Typed, TypedProcess, process
    <2> QED
      BY <2>1, <2>2 DEF Typed
  <1>3. Files'
    BY <1>1 DEF IInv, Files, Typed, TypedProcess, process, history
  <1>4. Resting' = cur /\ Resting = cur
    BY <1>1 DEF Resting
  <1>5. Records'
    <2>1. \A x \in {mem, disk} : Remembers(x)' = Remembers(x)
      BY <1>1 DEF Remembers, history
    <2>2. \A x \in {mem, disk} : Describes(x)' = Describes(x)
      BY <1>1, <1>4 DEF Describes, history
    <2>3. Ordered' = Ordered
      BY <1>1 DEF Ordered, history
    <2> QED
      BY <1>1, <2>1, <2>2, <2>3 DEF IInv, Records, process, history
  <1> QED
    BY <1>2, <1>3, <1>5 DEF IInv

LEMMA PromoteInv ==
  ASSUME IInv, Promote
  PROVE  IInv'
  <1> USE UpdateAssumption
  <1>1. /\ pc = "promote"
        /\ \/ cur' = offer /\ pc' = "record" /\ UNCHANGED <<bak, faults, torn>>
           \/ /\ faults' \in 0..MaxFaults /\ pc' = "idle"
              /\ \/ cur' = bak /\ bak' = None /\ UNCHANGED torn
                 \/ torn' = TRUE /\ UNCHANGED <<cur, bak>>
        /\ UNCHANGED <<failed, process, mem, disk, offer, latest, proven, undone, last,
                       withdrawn, unhashed>>
    BY FaultsCount DEF Promote, IInv
  <1>2. Typed'
    <2>1. TypedFiles' /\ TypedRest' /\ TypedStates'
      BY <1>1 DEF IInv, Typed, TypedFiles, TypedRest, TypedStates, TypedProcess
    <2>2. TypedProcess'
      BY <1>1 DEF IInv, Typed, TypedProcess, process
    <2> QED
      BY <2>1, <2>2 DEF Typed
  <1>3. Files'
    BY <1>1 DEF IInv, Files, Typed, TypedProcess, process
  <1>4. Records'
    <2>1. \A x \in {mem, disk} : Remembers(x)' = Remembers(x)
      BY <1>1 DEF Remembers
    <2>2. Resting = bak /\ (pc' = "idle" /\ ~torn' => Resting' = bak)
      BY <1>1 DEF Resting
    <2>3. pc' = "idle" /\ ~torn' => \A x \in {mem, disk} : Describes(x)' = Describes(x)
      BY <1>1, <2>2 DEF Describes
    <2>4. ~torn' => ~torn
      BY <1>1
    <2>5. Ordered' = Ordered
      BY <1>1 DEF Ordered
    <2> QED
      BY <1>1, <2>1, <2>3, <2>4, <2>5 DEF IInv, Records, process
  <1> QED
    BY <1>2, <1>3, <1>4 DEF IInv

\* The window opens on the new binary, with its hash.
LEMMA RecordUpdateInv ==
  ASSUME IInv, RecordUpdate
  PROVE  IInv'
  <1> USE UpdateAssumption
  <1> DEFINE s == Record(mem)
  <1>1. /\ pc = "record" /\ mem' = s /\ SaveReplacement(s)
        /\ swapped' = offer /\ restart' = TRUE /\ pc' = "idle" /\ unhashed' = FALSE
        /\ UNCHANGED <<files, image, tamper, offer, latest, proven, undone, last, withdrawn>>
    BY DEF RecordUpdate
  <1>2. /\ disk' \in {s, disk} /\ faults' \in 0..MaxFaults
        /\ torn' \in BOOLEAN /\ (torn => torn') /\ (~torn' => disk' = s)
    BY <1>1, ReplacementSaved DEF IInv
  <1>3. offer \in Version /\ cur = offer
    BY <1>1 DEF IInv, Files
  <1>4. /\ s \in State
        /\ s.window = offer /\ s.count = 0 /\ s.rolled = mem.rolled
        /\ s.recent = mem.recent /\ s.baseline = offer
    <2> DEFINE t == [mem EXCEPT !.window = offer]
    <2>1. t = [window |-> offer, count |-> mem.count, rolled |-> mem.rolled,
               recent |-> mem.recent, baseline |-> mem.baseline]
      BY DEF IInv, Typed, TypedStates, State
    <2>2. s = [[t EXCEPT !.count = 0] EXCEPT !.baseline = offer]
      BY DEF IInv, Typed, TypedStates, State, Record
    <2>3. s = [window |-> offer, count |-> 0, rolled |-> mem.rolled,
               recent |-> mem.recent, baseline |-> offer]
      BY <2>1, <2>2
    <2>4. 0 \in 0..MaxFailed
      OBVIOUS
    <2>5. mem \in State
      BY DEF IInv, Typed, TypedStates
    <2> QED
      BY <1>3, <2>3, <2>4, <2>5, StateFields, StateOf
  <1> HIDE DEF s
  <1>5. Typed'
    <2>1. TypedFiles' /\ TypedRest'
      BY <1>1, <1>2 DEF IInv, Typed, TypedFiles, TypedRest, files
    <2>2. TypedStates'
      BY <1>1, <1>2, <1>3, <1>4 DEF IInv, Typed, TypedStates
    <2>3. TypedProcess'
      BY <1>1, <1>3 DEF IInv, Typed, TypedProcess
    <2> QED
      BY <2>1, <2>2, <2>3 DEF Typed
  <1>6. Files'
    BY <1>1, <1>3 DEF IInv, Files, files
  <1>7. Records'
    <2>1. ASSUME ~torn', ~withdrawn' PROVE Ordered'
      <3>1. ~torn /\ ~withdrawn /\ mem' = s /\ disk' = s
        BY <1>1, <1>2, <2>1
      <3>2. offer <= latest /\ \A u \in undone : u <= offer
        BY <1>1, <3>1 DEF IInv, Files
      <3>3. Ordered
        BY <3>1 DEF IInv, Records
      <3> QED
        BY <1>1, <1>4, <3>1, <3>2, <3>3 DEF Ordered
    <2>2. ASSUME ~torn', NEW x \in {mem', disk'}
          PROVE  Remembers(x)' /\ Describes(x)'
      <3>1. x = s /\ ~torn
        BY <1>1, <1>2, <2>2
      <3>2. Remembers(mem)
        BY <3>1 DEF IInv, Records
      <3>3. Remembers(x)'
        BY <1>1, <1>4, <3>1, <3>2 DEF Remembers
      <3>4. Resting' = offer
        BY <1>1, <1>3 DEF Resting, files
      <3> QED
        BY <1>4, <3>1, <3>3, <3>4 DEF Describes
    <2>3. swapped' # None
      BY <1>1, <1>3 DEF IInv, Typed
    <2> QED
      BY <1>1, <1>2, <2>1, <2>2, <2>3 DEF IInv, Records
  <1> QED
    BY <1>5, <1>6, <1>7 DEF IInv

-----------------------------------------------------------------------------
LEMMA MoveToFailedInv ==
  ASSUME IInv, MoveToFailed
  PROVE  IInv'
  <1> USE UpdateAssumption
  <1>1. /\ pc = "rollback"
        /\ \/ /\ bak # None /\ cur # None
              /\ failed' = cur /\ cur' = None /\ pc' = "restore" /\ UNCHANGED faults
           \/ /\ pc' = "idle" /\ failed' \in {None, failed} /\ cur' = cur
              /\ faults' \in 0..MaxFaults
        /\ UNCHANGED <<bak, process, mem, disk, offer, latest, history>>
    BY FaultsCount DEF MoveToFailed, IInv, Typed, TypedRest
  <1>2. Typed'
    <2>1. TypedFiles' /\ TypedRest' /\ TypedStates'
      BY <1>1 DEF IInv, Typed, TypedFiles, TypedRest, TypedStates, history
    <2>2. TypedProcess'
      BY <1>1 DEF IInv, Typed, TypedProcess, process
    <2> QED
      BY <2>1, <2>2 DEF Typed
  <1>3. Files'
    BY <1>1 DEF IInv, Files, Typed, TypedProcess, process, history
  <1>4. Resting' = cur /\ Resting = cur
    BY <1>1 DEF Resting
  <1>5. Records'
    <2>1. \A x \in {mem, disk} : Remembers(x)' = Remembers(x)
      BY <1>1 DEF Remembers, history
    <2>2. \A x \in {mem, disk} : Describes(x)' = Describes(x)
      BY <1>1, <1>4 DEF Describes, history
    <2>3. Ordered' = Ordered
      BY <1>1 DEF Ordered, history
    <2> QED
      BY <1>1, <2>1, <2>2, <2>3 DEF IInv, Records, process, history
  <1> QED
    BY <1>2, <1>3, <1>5 DEF IInv

LEMMA RestoreBackupInv ==
  ASSUME IInv, RestoreBackup
  PROVE  IInv'
  <1> USE UpdateAssumption
  <1>1. /\ pc = "restore"
        /\ \/ cur' = bak /\ bak' = None /\ pc' = "forget" /\ UNCHANGED <<failed, faults, torn>>
           \/ /\ faults' \in 0..MaxFaults /\ pc' = "idle" /\ bak' = bak
              /\ \/ cur' = failed /\ failed' = None /\ UNCHANGED torn
                 \/ torn' = TRUE /\ UNCHANGED <<cur, failed>>
        /\ UNCHANGED <<process, mem, disk, offer, latest, proven, undone, last,
                       withdrawn, unhashed>>
    BY FaultsCount DEF RestoreBackup, IInv
  <1>2. Typed'
    <2>1. TypedFiles' /\ TypedRest' /\ TypedStates'
      BY <1>1 DEF IInv, Typed, TypedFiles, TypedRest, TypedStates
    <2>2. TypedProcess'
      BY <1>1 DEF IInv, Typed, TypedProcess, process
    <2> QED
      BY <2>1, <2>2 DEF Typed
  <1>3. Files'
    BY <1>1 DEF IInv, Files, Typed, TypedProcess, process
  <1>4. Records'
    <2>1. \A x \in {mem, disk} : Remembers(x)' = Remembers(x)
      BY <1>1 DEF Remembers
    <2>2. Resting = failed /\ (pc' = "idle" /\ ~torn' => Resting' = failed)
      BY <1>1 DEF Resting, IInv, Typed, TypedRest
    <2>3. pc' = "idle" /\ ~torn' => \A x \in {mem, disk} : Describes(x)' = Describes(x)
      BY <1>1, <2>2 DEF Describes
    <2>4. ~torn' => ~torn
      BY <1>1
    <2>5. Ordered' = Ordered
      BY <1>1 DEF Ordered
    <2> QED
      BY <1>1, <2>1, <2>3, <2>4, <2>5 DEF IInv, Records, process
  <1> QED
    BY <1>2, <1>3, <1>4 DEF IInv

\* The window closes on the restored binary, which had worked; the version of
\* the window is the last that was rolled back.
LEMMA ForgetUpdateInv ==
  ASSUME IInv, ForgetUpdate
  PROVE  IInv'
  <1> USE UpdateAssumption
  <1>1. PICK b \in {cur, mem.baseline} :
          /\ pc = "forget" /\ mem' = Forgotten(b)
          /\ disk' \in {mem', disk} /\ faults' \in 0..MaxFaults
          /\ torn' \in BOOLEAN /\ (torn => torn') /\ (~torn' => disk' = mem')
          /\ unhashed' \in BOOLEAN /\ (unhashed' = FALSE => b = cur)
          /\ undone' = undone \cup {mem.window} /\ last' = mem.window
          /\ restart' = TRUE /\ pc' = "idle"
          /\ UNCHANGED <<files, image, swapped, tamper, offer, latest, proven, withdrawn>>
    <2>1. CASE /\ mem' = Forgotten(cur) /\ SaveReplacement(mem')
               /\ unhashed' = FALSE
      BY <2>1, ReplacementSaved DEF ForgetUpdate, IInv
    <2>2. CASE /\ mem' = Forgotten(mem.baseline) /\ Fault
               /\ \/ disk' = mem' /\ UNCHANGED torn
                  \/ torn' = TRUE /\ UNCHANGED disk
               /\ unhashed' = TRUE
      <3>1. faults' \in 0..MaxFaults
        BY <2>2, FaultsCount DEF IInv
      <3>2. torn' \in BOOLEAN /\ (torn => torn') /\ (~torn' => disk' = mem')
        <4>1. torn \in BOOLEAN
          BY DEF IInv, Typed, TypedRest
        <4>2. CASE disk' = mem' /\ UNCHANGED torn
          BY <4>1, <4>2
        <4>3. CASE torn' = TRUE /\ UNCHANGED disk
          BY <4>3
        <4> QED
          BY <2>2, <4>2, <4>3
      <3>3. mem.baseline \in {cur, mem.baseline}
        OBVIOUS
      <3> QED
        BY <2>2, <3>1, <3>2, <3>3 DEF ForgetUpdate
    <2> QED
      BY <2>1, <2>2 DEF ForgetUpdate
  <1>2. /\ mem \in State /\ mem.window \in Version
        /\ swapped = None /\ cur \in proven /\ cur \in Version
        /\ b \in Version \cup {None}
    BY <1>1, StateFields DEF IInv, Files, Typed, TypedStates, TypedRest
  <1>3. /\ mem' \in State
        /\ mem'.window = None /\ mem'.count = 0 /\ mem'.rolled = mem.window
        /\ mem'.recent = TRUE /\ mem'.baseline = b
    <2>1. Closed(mem) = [window |-> None, count |-> 0, rolled |-> mem.rolled,
                         recent |-> mem.recent, baseline |-> mem.baseline]
      BY <1>2, StateClosed
    <2> DEFINE r == [Closed(mem) EXCEPT !.rolled = mem.window]
               e == [r EXCEPT !.recent = TRUE]
    <2>2. /\ r \in State /\ r.window = None /\ r.count = 0 /\ r.rolled = mem.window
      BY <1>2, <2>1, StateClosed DEF State
    <2>3. mem' = [[r EXCEPT !.recent = TRUE] EXCEPT !.baseline = b]
      BY <1>1, <1>2, StateClosed DEF Forgotten
    <2> HIDE DEF r
    <2>4. /\ e \in State /\ e.window = None /\ e.count = 0 /\ e.rolled = mem.window
          /\ e.recent = TRUE
      BY <2>2 DEF State
    <2>5. mem' = [e EXCEPT !.baseline = b]
      BY <2>3
    <2> HIDE DEF e
    <2> QED
      BY <1>2, <2>4, <2>5 DEF State
  <1>4. Typed'
    <2>1. TypedFiles' /\ TypedRest'
      BY <1>1, <1>2 DEF IInv, Typed, TypedFiles, TypedRest, files
    <2>2. TypedStates'
      BY <1>1, <1>3 DEF IInv, Typed, TypedStates
    <2>3. TypedProcess'
      BY <1>1 DEF IInv, Typed, TypedProcess
    <2> QED
      BY <2>1, <2>2, <2>3 DEF Typed
  <1>5. Files'
    BY <1>1, <1>2 DEF IInv, Files, files
  <1>6. Records'
    <2>1. ASSUME ~torn', ~withdrawn' PROVE Ordered'
      <3>1. Ordered /\ disk' = mem'
        BY <1>1, <2>1 DEF IInv, Records
      <3>2. mem.window <= latest /\ \A u \in undone : u <= mem.window
        BY <1>2, <3>1 DEF Ordered
      <3>3. mem.window \in Nat
        BY <1>2
      <3> QED
        BY <1>1, <1>3, <3>1, <3>2, <3>3 DEF Ordered
    <2>2. ASSUME ~torn', NEW x \in {mem', disk'}
          PROVE  Remembers(x)' /\ Describes(x)'
      <3>1. x = mem'
        BY <1>1, <2>2
      <3>2. Remembers(x)'
        BY <1>1, <1>3, <3>1 DEF Remembers
      <3>3. Resting' = cur
        BY <1>1 DEF Resting, files
      <3>4. unhashed' \/ b = cur
        BY <1>1
      <3> QED
        BY <1>1, <1>2, <1>3, <3>1, <3>2, <3>3, <3>4 DEF Describes
    <2>3. tamper' => torn' \/ unhashed'
      BY <1>1, <1>2 DEF IInv, Records
    <2>4. ~torn' => mem'.window = None /\ disk'.window = None
      BY <1>1, <1>3
    <2> QED
      BY <1>1, <2>1, <2>2, <2>3, <2>4 DEF IInv, Records
  <1> QED
    BY <1>4, <1>5, <1>6 DEF IInv

-----------------------------------------------------------------------------
\* A process that ends leaves the disk alone; when it is cut, `torn` says so.
LEMMA DownInv ==
  ASSUME IInv, Down,
         UNCHANGED <<files, mem, disk, latest, proven, undone, last, withdrawn, unhashed>>,
         faults' \in 0..MaxFaults, torn' \in BOOLEAN, torn => torn',
         ~torn' => pc \notin {"promote", "record", "restore", "forget"}
  PROVE  IInv'
  <1> USE UpdateAssumption
  <1>1. /\ image' = None /\ swapped' = None /\ restart' = FALSE /\ tamper' = FALSE
        /\ pc' = "idle" /\ offer' = None
    BY DEF Down
  <1>2. Typed'
    BY <1>1 DEF IInv, Typed, TypedFiles, TypedProcess, TypedStates, TypedRest, files
  <1>3. Files'
    BY <1>1 DEF IInv, Files, files
  <1>4. Records'
    <2>1. ~torn' => Resting' = cur /\ Resting = cur
      BY <1>1 DEF Resting, files
    <2>2. \A x \in {mem, disk} : Remembers(x)' = Remembers(x)
      BY DEF Remembers
    <2>3. ~torn' => \A x \in {mem, disk} : Describes(x)' = Describes(x)
      BY <2>1 DEF Describes
    <2>4. Ordered' = Ordered
      BY DEF Ordered
    <2> QED
      BY <1>1, <2>2, <2>3, <2>4 DEF IInv, Records
  <1> QED
    BY <1>2, <1>3, <1>4 DEF IInv

LEMMA HandleRestartInv ==
  ASSUME IInv, HandleRestart
  PROVE  IInv'
  <1> USE UpdateAssumption
  <1>1. /\ pc = "idle"
        /\ UNCHANGED <<files, mem, disk, latest, history>>
        /\ \/ Down /\ UNCHANGED faults
           \/ Fault /\ restart' = FALSE /\ UNCHANGED <<image, swapped, tamper, pc, offer>>
    BY DEF HandleRestart
  <1>2. CASE Down /\ UNCHANGED faults
    BY <1>1, <1>2, DownInv DEF history, IInv, Typed, TypedRest
  <1>3. CASE Fault /\ restart' = FALSE /\ UNCHANGED <<image, swapped, tamper, pc, offer>>
    <2>1. Typed'
      <3>1. TypedFiles' /\ TypedStates' /\ TypedRest'
        BY <1>1, <1>3, FaultsCount
        DEF IInv, Typed, TypedFiles, TypedStates, TypedRest, files, history
      <3>2. TypedProcess'
        BY <1>1, <1>3 DEF IInv, Typed, TypedProcess
      <3> QED
        BY <3>1, <3>2 DEF Typed
    <2>2. Files'
      BY <1>1, <1>3 DEF IInv, Files, files, history
    <2>3. \A x \in {mem, disk} : /\ Remembers(x)' = Remembers(x)
                                 /\ Describes(x)' = Describes(x)
      BY <1>1, <1>3 DEF Remembers, Describes, Resting, files, history
    <2>4. Ordered' = Ordered
      BY <1>1 DEF Ordered, history
    <2>5. Records'
      BY <1>1, <1>3, <2>3, <2>4 DEF IInv, Records, history
    <2> QED
      BY <2>1, <2>2, <2>5 DEF IInv
  <1> QED
    BY <1>1, <1>2, <1>3

\* LoadState takes what the file says, and a missing baseline from the binary;
\* an unreadable file is `torn`.
LEMMA StartInv ==
  ASSUME IInv, Start
  PROVE  IInv'
  <1> USE UpdateAssumption
  <1>1. Fresh \in State /\ Fresh.window = None /\ Fresh.count = 0
    BY DEF Fresh, State
  <1>2. ASSUME NEW d \in State
        PROVE  /\ Baselined(d) \in State
               /\ Baselined(d).window = d.window /\ Baselined(d).count = d.count
               /\ Baselined(d).rolled = d.rolled /\ Baselined(d).recent = d.recent
               /\ Baselined(d).baseline = IF d.baseline = None THEN cur ELSE d.baseline
    BY DEF Baselined, State, IInv, Typed, TypedFiles
  <1>3. PICK d \in {disk, Fresh} :
          /\ image = None /\ cur # None /\ image' = cur
          /\ mem' \in {d, Baselined(d)} /\ disk' \in {disk, mem'}
          /\ faults' \in 0..MaxFaults
          /\ tamper' \in BOOLEAN /\ (tamper' => d = disk /\ mem'.baseline # cur)
          /\ torn' \in BOOLEAN /\ (torn => torn') /\ (~torn' => d = disk)
          /\ tamper' => mem' = Baselined(d)
          /\ UNCHANGED <<files, swapped, restart, pc, offer, latest, proven, undone, last,
                         withdrawn, unhashed>>
    <2>1. CASE /\ mem' = Baselined(disk) /\ Save(mem')
               /\ tamper' = (mem'.baseline # cur) /\ UNCHANGED torn
      BY <2>1, Saved DEF Start, IInv, Typed, TypedRest
    <2>2. CASE /\ Fault
               /\ mem' = disk /\ tamper' = FALSE /\ UNCHANGED <<disk, torn>>
      BY <2>2, FaultsCount DEF Start, IInv, Typed, TypedRest
    <2>3. CASE /\ Fault
               /\ \/ mem' = Baselined(Fresh) /\ disk' \in {disk, mem'}
                  \/ mem' = Fresh /\ UNCHANGED disk
               /\ tamper' = FALSE /\ torn' = TRUE
      BY <2>3, FaultsCount DEF Start, IInv
    <2> QED
      BY <2>1, <2>2, <2>3 DEF Start
  <1>4. pc = "idle"
    BY <1>3 DEF IInv, Typed, TypedProcess
  <1>5. /\ mem' \in State /\ mem'.window = d.window /\ mem'.count = d.count
        /\ mem'.rolled = d.rolled /\ mem'.recent = d.recent
        /\ mem'.baseline \in {d.baseline, cur}
        /\ mem'.baseline # d.baseline => d.baseline = None
        /\ disk \in State /\ disk' \in State
    BY <1>1, <1>2, <1>3 DEF IInv, Typed, TypedStates
  <1>6. Typed'
    <2>1. TypedFiles' /\ TypedRest'
      BY <1>3 DEF IInv, Typed, TypedFiles, TypedRest, files
    <2>2. TypedStates'
      BY <1>1, <1>3, <1>5 DEF IInv, Typed, TypedStates
    <2>3. TypedProcess'
      BY <1>3, <1>4 DEF IInv, Typed, TypedProcess, TypedFiles
    <2> QED
      BY <2>1, <2>2, <2>3 DEF Typed
  <1>7. Files'
    BY <1>3, <1>4 DEF IInv, Files, files
  <1>8. Resting' = cur /\ Resting = cur
    BY <1>3, <1>4 DEF Resting, files
  <1>9. Records'
    <2>1. ASSUME ~torn', NEW x \in {mem', disk'}
          PROVE  /\ x.window = disk.window /\ x.rolled = disk.rolled
                 /\ x.recent = disk.recent /\ x.baseline \in {disk.baseline, cur}
      BY <1>3, <1>5, <2>1
    <2>2. ASSUME ~torn' PROVE ~torn /\ d = disk
      BY <1>3, <2>2
    <2>3. ~torn' /\ ~withdrawn' => Ordered'
      BY <1>3, <2>1, <2>2 DEF IInv, Records, Ordered
    <2>4. ~torn' => \A x \in {mem', disk'} : Remembers(x)'
      BY <1>3, <2>1, <2>2 DEF IInv, Records, Remembers
    <2>5. ~torn' => /\ disk.baseline \in {None, cur} \/ unhashed
                    /\ cur \notin proven => disk.window = cur
      BY <1>3, <1>4, <1>8, <2>2 DEF IInv, Records, Describes
    <2>6. ~torn' => \A x \in {mem', disk'} : Describes(x)'
      BY <1>3, <1>8, <2>1, <2>5 DEF Describes
    <2>7. ASSUME tamper' PROVE torn' \/ unhashed'
      <3>1. mem' = Baselined(disk) /\ mem'.baseline # cur /\ disk \in State
        BY <1>3, <1>5, <2>7
      <3>2. disk.baseline # None /\ disk.baseline # cur
        BY <1>2, <3>1
      <3> QED
        BY <1>3, <2>5, <3>2
    <2>8. ~torn' /\ unhashed' => mem'.window = None /\ disk'.window = None
      BY <1>3, <2>1, <2>2 DEF IInv, Records
    <2> QED
      BY <1>3, <1>4, <2>3, <2>4, <2>6, <2>7, <2>8 DEF IInv, Records
  <1> QED
    BY <1>6, <1>7, <1>9 DEF IInv

LEMMA OtherSaveInv ==
  ASSUME IInv, OtherSave
  PROVE  IInv'
  <1>1. /\ disk' = mem /\ mem' = mem
        /\ UNCHANGED <<files, process, pc, offer, latest, faults, history>>
    BY DEF OtherSave
  <1>2. Typed'
    BY <1>1
    DEF IInv, Typed, TypedFiles, TypedProcess, TypedStates, TypedRest, files, process, history
  <1>3. Files'
    BY <1>1 DEF IInv, Files, files, process, history
  <1>4. Remembers(mem)' = Remembers(mem) /\ Describes(mem)' = Describes(mem)
    BY <1>1 DEF Remembers, Describes, Resting, files, history
  <1>5. Records'
    BY <1>1, <1>4
    DEF IInv, Records, Ordered, Remembers, Describes, Resting, process, history
  <1> QED
    BY <1>2, <1>3, <1>5 DEF IInv

LEMMA PublishInv ==
  ASSUME IInv, NEW v \in Version, Publish(v)
  PROVE  IInv'
  <1> USE UpdateAssumption
  <1>1. /\ latest' = v /\ withdrawn' = (withdrawn \/ v < latest)
        /\ UNCHANGED <<files, process, mem, disk, pc, offer, faults, proven, undone, last,
                       unhashed, torn>>
    BY DEF Publish
  <1>2. withdrawn \in BOOLEAN /\ latest \in Nat /\ v \in Nat
    BY DEF IInv, Typed, TypedRest
  <1>3. Typed'
    <2>1. TypedFiles' /\ TypedStates'
      BY <1>1 DEF IInv, Typed, TypedFiles, TypedStates, files
    <2>2. TypedProcess'
      BY <1>1 DEF IInv, Typed, TypedProcess, process
    <2>3. TypedRest'
      BY <1>1, <1>2 DEF IInv, Typed, TypedRest
    <2> QED
      BY <2>1, <2>2, <2>3 DEF Typed
  <1>4. ~withdrawn' => ~withdrawn /\ latest <= latest'
    <2> SUFFICES ASSUME ~withdrawn' PROVE ~withdrawn /\ latest <= latest'
      OBVIOUS
    <2>1. ~withdrawn /\ ~(v < latest)
      BY <1>1
    <2> QED
      BY <1>1, <1>2, <2>1
  <1>5. ~withdrawn' => \A u \in Version : u <= latest => u <= latest'
    <2> SUFFICES ASSUME ~withdrawn', NEW u \in Version, u <= latest
                 PROVE  u <= latest'
      OBVIOUS
    <2>1. u \in Nat /\ latest' \in Nat /\ latest <= latest'
      BY <1>1, <1>2, <1>4
    <2> QED
      BY <1>2, <2>1
  <1>6. Files'
    BY <1>1, <1>4, <1>5 DEF IInv, Files, files, process
  <1>7. \A x \in {mem, disk} : /\ Remembers(x)' = Remembers(x)
                               /\ Describes(x)' = Describes(x)
    BY <1>1 DEF Remembers, Describes, Resting, files
  <1>8. ~torn /\ ~withdrawn' => Ordered'
    <2>1. \A u \in undone : u \in Version
      BY DEF IInv, Typed, TypedRest
    <2>2. \A x \in {mem, disk} : x.window \in Version \cup {None}
      BY StateFields DEF IInv, Typed, TypedStates
    <2> QED
      BY <1>1, <1>4, <1>5, <2>1, <2>2 DEF IInv, Records, Ordered
  <1>9. Records'
    BY <1>1, <1>4, <1>7, <1>8 DEF IInv, Records, process
  <1> QED
    BY <1>3, <1>6, <1>9 DEF IInv

LEMMA DayPassesInv ==
  ASSUME IInv, DayPasses
  PROVE  IInv'
  <1> USE UpdateAssumption
  <1>1. /\ pc = "idle" /\ undone' = {} /\ last' = None
        /\ mem' = [mem EXCEPT !.recent = FALSE] /\ disk' = [disk EXCEPT !.recent = FALSE]
        /\ UNCHANGED <<files, process, pc, offer, latest, faults, proven, withdrawn,
                       unhashed, torn>>
    BY DEF DayPasses
  <1>2. ASSUME NEW s \in State
        PROVE  /\ [s EXCEPT !.recent = FALSE] \in State
               /\ [s EXCEPT !.recent = FALSE].window = s.window
               /\ [s EXCEPT !.recent = FALSE].count = s.count
               /\ [s EXCEPT !.recent = FALSE].baseline = s.baseline
    BY DEF State
  <1>3. mem \in State /\ disk \in State
    BY DEF IInv, Typed, TypedStates
  <1>4. /\ mem' \in State /\ mem'.window = mem.window /\ mem'.count = mem.count
        /\ mem'.baseline = mem.baseline
        /\ disk' \in State /\ disk'.window = disk.window /\ disk'.count = disk.count
        /\ disk'.baseline = disk.baseline
    BY <1>1, <1>2, <1>3
  <1>5. Typed'
    BY <1>1, <1>4
    DEF IInv, Typed, TypedFiles, TypedProcess, TypedStates, TypedRest, files, process
  <1>6. Files'
    BY <1>1, <1>4 DEF IInv, Files, files, process
  <1>7. Resting' = cur /\ Resting = cur
    BY <1>1 DEF Resting, files
  <1>8. Records'
    <2>1. ~torn /\ ~withdrawn => Ordered'
      BY <1>1, <1>4 DEF IInv, Records, Ordered
    <2>2. \A x \in {mem', disk'} : Remembers(x)'
      BY <1>1 DEF Remembers
    <2>3. ~torn /\ pc \notin {"record", "forget"} => \A x \in {mem', disk'} : Describes(x)'
      BY <1>1, <1>4, <1>7 DEF IInv, Records, Describes
    <2> QED
      BY <1>1, <1>4, <2>1, <2>2, <2>3 DEF IInv, Records, process
  <1> QED
    BY <1>5, <1>6, <1>8 DEF IInv

-----------------------------------------------------------------------------
LEMMA NextInv == IInv /\ [Next]_vars => IInv'
  <1> SUFFICES ASSUME IInv, [Next]_vars PROVE IInv'
    OBVIOUS
  <1>1. ASSUME NEW offered \in BOOLEAN, CheckinSucceeds(offered) PROVE IInv'
    BY <1>1, CheckinSucceedsInv
  <1>2. CASE CheckinFails
    BY <1>2, CheckinFailsInv
  <1>3. CASE StartUpdate
    BY <1>3, StartUpdateInv
  <1>4. CASE MoveToBackup
    BY <1>4, MoveToBackupInv
  <1>5. CASE Promote
    BY <1>5, PromoteInv
  <1>6. CASE RecordUpdate
    BY <1>6, RecordUpdateInv
  <1>7. CASE MoveToFailed
    BY <1>7, MoveToFailedInv
  <1>8. CASE RestoreBackup
    BY <1>8, RestoreBackupInv
  <1>9. CASE ForgetUpdate
    BY <1>9, ForgetUpdateInv
  <1>10. CASE HandleRestart
    BY <1>10, HandleRestartInv
  <1>11. CASE Reboot
    BY <1>11, DownInv DEF Reboot, history, IInv, Typed, TypedRest
  <1>12. CASE Crash
    <2>1. faults' \in 0..MaxFaults
      BY <1>12, FaultsCount DEF Crash, IInv
    <2>2. /\ torn' = (torn \/ pc \in {"promote", "record", "restore", "forget"})
          /\ Down
          /\ UNCHANGED <<files, mem, disk, latest, proven, undone, last, withdrawn, unhashed>>
      BY <1>12 DEF Crash
    <2>3. torn' \in BOOLEAN /\ (torn => torn')
      BY <2>2
    <2> QED
      BY <2>1, <2>2, <2>3, DownInv
  <1>13. CASE Start
    BY <1>13, StartInv
  <1>14. CASE OtherSave
    BY <1>14, OtherSaveInv
  <1>15. ASSUME NEW v \in Version, Publish(v) PROVE IInv'
    BY <1>15, PublishInv
  <1>16. CASE DayPasses
    BY <1>16, DayPassesInv
  <1>17. CASE UNCHANGED vars
    <2>1. Typed'
      BY <1>17 DEF IInv, vars, files, process, history, Typed, TypedFiles, TypedProcess,
                   TypedStates, TypedRest
    <2>2. Files'
      BY <1>17 DEF IInv, vars, files, process, history, Files
    <2>3. Records'
      BY <1>17 DEF IInv, vars, files, process, history, Records, Ordered, Remembers,
                   Describes, Resting
    <2> QED
      BY <2>1, <2>2, <2>3 DEF IInv
  <1> QED
    BY <1>1, <1>2, <1>3, <1>4, <1>5, <1>6, <1>7, <1>8, <1>9, <1>10, <1>11, <1>12,
       <1>13, <1>14, <1>15, <1>16, <1>17 DEF Next, AgentStep

THEOREM Inductive == Spec => []IInv
  BY InitInv, NextInv, PTL DEF Spec

\* The agent's state, in memory and on disk, keeps its type (agent-go/state.go).
THEOREM TypeCorrect == Spec => []TypeOK
  <1>1. IInv => TypeOK
    BY TypedIsTypeOK DEF IInv
  <1> QED
    BY <1>1, Inductive, PTL

\* Whatever the order of updates, restarts, crashes and rollbacks, the backup
\* is a binary that had reported from this device (update.go, atomicReplace).
THEOREM BackupWorkedAlways == Spec => []BackupWorked
  <1>1. IInv => BackupWorked
    BY DEF IInv, Files, BackupWorked
  <1> QED
    BY <1>1, Inductive, PTL

\* Unless a replacement was cut in the middle, state.json watches a binary that
\* has not reported yet (update.go, HandleAgentUpdate).
THEOREM UnprovenIsWatchedAlways == Spec => []UnprovenIsWatched
  <1>1. IInv => UnprovenIsWatched
    BY DEF IInv, Records, Describes, Resting, UnprovenIsWatched, AtRest
  <1> QED
    BY <1>1, Inductive, PTL

\* Unless a replacement was cut in the middle, the baseline is the hash of the
\* binary on disk and no process has raised an alarm, but after a rollback that
\* could not hash what it restored (update.go, CheckRollback; tamper.go,
\* CheckBinaryIntegrity).
THEOREM NoFalseTamperAlways == Spec => []NoFalseTamper
  <1>1. IInv => NoFalseTamper
    BY DEF IInv, Records, Describes, Resting, NoFalseTamper, AtRest
  <1> QED
    BY <1>1, Inductive, PTL

\* No replacement installs the last version rolled back in the last 24 hours,
\* nor, as long as no version was withdrawn for an older one, any version rolled
\* back in that time (update.go, RolledBackVersion).
THEOREM NoUpdateLoopAlways == Spec => NoUpdateLoop
  <1>1. IInv => (pc = "promote" /\ cur' = offer =>
                   torn \/ (offer # last /\ (offer \in undone => withdrawn)))
    BY DEF IInv, Records
  <1> QED
    BY <1>1, Inductive, PTL DEF NoUpdateLoop

=============================================================================
