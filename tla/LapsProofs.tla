----------------------------- MODULE LapsProofs -----------------------------
(***************************************************************************)
(* Theorems about Laps, for any set of passwords and any number of faults:  *)
(* whatever crashes, lost requests and failed saves, the escrow, the local  *)
(* account and the stash agree as laps.go says they do.                     *)
(***************************************************************************)
EXTENDS Laps, FiniteSetTheorems, TLAPS

\* Where run() is tells the phase of the stash; during the POST, the mark and
\* the application its password is not in place, and during the last two the
\* server has it.
Steps ==
    /\ pc = "flush" => mem.pending # None /\ mem.pending.phase = "legacy"
    /\ pc = "restore" => /\ mem.pending # None
                         /\ mem.pending.phase \in {"prepared", "escrowed"}
                         /\ mem.current = local \/ replaced
    /\ pc \in {"post", "mark"} => mem.pending # None /\ mem.pending.phase = "prepared"
    /\ pc = "apply" => /\ mem.pending # None /\ mem.pending.phase = "escrowed"
                       /\ mem.pending.pw # local
    /\ pc \in {"mark", "apply"} => server = mem.pending.pw \/ late

\* A stash in memory is the one on disk: it is saved before it is used.
Copied == mem.pending # None => disk.pending = mem.pending

\* The parts of TypeOK.
Typed ==
    /\ local \in Password \cup {None}
    /\ server \in Password \cup {None}
    /\ flight \in Password \cup {None}
    /\ mem \in State /\ disk \in State

Placed ==
    /\ pc \in {"off", "idle", "flush", "restore", "lookup", "stash", "post",
               "mark", "apply", "save"}
    /\ next \in {"lookup", "idle"}
    /\ pc \in {"flush", "post", "mark", "apply"} => mem.pending # None
    /\ pc = "restore" => mem.current # None

Counted == faults \in 0..MaxFaults

Marked == late \in BOOLEAN /\ replaced \in BOOLEAN /\ abandoned \in BOOLEAN

Settled(s) == server = local \/ late \/ replaced \/ (abandoned /\ s.due)

\* What a stash, or its absence, says about the device and the server.
Told(s) ==
    /\ s.pending = None => Settled(s)
    /\ s.pending # None =>
         /\ s.pending.phase = "prepared" => s.pending.pw # local
         /\ s.pending.phase = "legacy" => s.pending.pw = local /\ s.due
         /\ s.pending.phase = "stale" => server = local \/ late
    /\ s.current # None => \/ s.current = local \/ replaced
                           \/ s.pending # None /\ s.pending = [pw |-> local, phase |-> "escrowed"]

IInv == TypeOK /\ Steps /\ Copied /\ Told(mem) /\ Told(disk)

-----------------------------------------------------------------------------
\* One element more.
LEMMA AddOne ==
  ASSUME NEW S, NEW x, NEW n \in Nat, IsFiniteSet(S), Cardinality(S) <= n
  PROVE  /\ IsFiniteSet(S \cup {x})
         /\ Cardinality(S \cup {x}) <= n + 1
  <1>1. IsFiniteSet(S \cup {x}) /\ Cardinality(S) \in Nat
    BY FS_AddElement, FS_CardinalityType
  <1>2. \/ Cardinality(S \cup {x}) = Cardinality(S)
        \/ Cardinality(S \cup {x}) = Cardinality(S) + 1
    BY FS_AddElement
  <1> QED
    BY <1>1, <1>2

\* A state names seven passwords at most, so one is free.
LEMMA AtMostSeven ==
  ASSUME NEW a, NEW b, NEW c, NEW d, NEW e, NEW f, NEW g
  PROVE  IsFiniteSet({a, b, c, d, e, f, g}) /\ Cardinality({a, b, c, d, e, f, g}) <= 7
  <1> DEFINE One == {} \cup {a}
             Two == One \cup {b}
             Three == Two \cup {c}
             Four == Three \cup {d}
             Five == Four \cup {e}
             Six == Five \cup {f}
             Seven == Six \cup {g}
  <1> HIDE DEF One, Two, Three, Four, Five, Six, Seven
  <1>0. IsFiniteSet({}) /\ Cardinality({}) <= 0
    BY FS_EmptySet
  <1>1. IsFiniteSet(One) /\ Cardinality(One) <= 1
    <2>1. IsFiniteSet(One) /\ Cardinality(One) <= 0 + 1
      BY <1>0, AddOne DEF One
    <2> QED
      BY <2>1
  <1>2. IsFiniteSet(Two) /\ Cardinality(Two) <= 2
    <2>1. IsFiniteSet(Two) /\ Cardinality(Two) <= 1 + 1
      BY <1>1, AddOne DEF Two
    <2> QED
      BY <2>1
  <1>3. IsFiniteSet(Three) /\ Cardinality(Three) <= 3
    <2>1. IsFiniteSet(Three) /\ Cardinality(Three) <= 2 + 1
      BY <1>2, AddOne DEF Three
    <2> QED
      BY <2>1
  <1>4. IsFiniteSet(Four) /\ Cardinality(Four) <= 4
    <2>1. IsFiniteSet(Four) /\ Cardinality(Four) <= 3 + 1
      BY <1>3, AddOne DEF Four
    <2> QED
      BY <2>1
  <1>5. IsFiniteSet(Five) /\ Cardinality(Five) <= 5
    <2>1. IsFiniteSet(Five) /\ Cardinality(Five) <= 4 + 1
      BY <1>4, AddOne DEF Five
    <2> QED
      BY <2>1
  <1>6. IsFiniteSet(Six) /\ Cardinality(Six) <= 6
    <2>1. IsFiniteSet(Six) /\ Cardinality(Six) <= 5 + 1
      BY <1>5, AddOne DEF Six
    <2> QED
      BY <2>1
  <1>7. IsFiniteSet(Seven) /\ Cardinality(Seven) <= 7
    <2>1. IsFiniteSet(Seven) /\ Cardinality(Seven) <= 6 + 1
      BY <1>6, AddOne DEF Seven
    <2> QED
      BY <2>1
  <1>8. Seven = {a, b, c, d, e, f, g}
    BY DEF One, Two, Three, Four, Five, Six, Seven
  <1> QED
    BY <1>7, <1>8

\* The password that a rotation draws is in use nowhere.
LEMMA FreshIsFree == TypeOK => Fresh \in Password /\ Fresh \notin InUse
  <1> DEFINE Named == {local, server, flight, mem.current, disk.current,
                       mem.pending.pw, disk.pending.pw}
  <1>1. InUse \subseteq Named
    BY DEF InUse, Held
  <1>2. IsFiniteSet(Named) /\ Cardinality(Named) <= 7 /\ Cardinality(Named) \in Nat
    BY AtMostSeven, FS_CardinalityType
  <1>3. ~(Password \subseteq Named)
    <2> SUFFICES ASSUME Password \subseteq Named PROVE FALSE
      OBVIOUS
    <2> HIDE DEF Named
    <2>1. IsFiniteSet(Password) /\ Cardinality(Password) <= Cardinality(Named)
      BY <1>2, FS_Subset
    <2>2. Cardinality(Password) \in Nat
      BY <2>1, FS_CardinalityType
    <2> QED
      BY <1>2, <2>1, <2>2, LapsAssumption
  <1>4. \E p \in Password : p \notin InUse
    BY <1>1, <1>3
  <1> QED
    BY <1>4 DEF Fresh

LEMMA Parts == Typed /\ Placed /\ Counted /\ Marked <=> TypeOK
  BY DEF Typed, Placed, Counted, Marked, TypeOK

LEMMA PartsNext == (Typed /\ Placed /\ Counted /\ Marked)' => TypeOK'
  BY DEF Typed, Placed, Counted, Marked, TypeOK

-----------------------------------------------------------------------------
LEMMA InitInv == Init => IInv
  <1> SUFFICES ASSUME Init PROVE IInv
    OBVIOUS
  <1> USE LapsAssumption DEF Init, Stash
  <1>1. \A d \in BOOLEAN :
          /\ [pending |-> None, current |-> None, due |-> d] \in State
          /\ \A q \in Stash : [pending |-> q, current |-> None, due |-> d] \in State
    BY DEF State
  <1>2. TypeOK
    <2>1. /\ [pw |-> 1, phase |-> "legacy"] \in Stash
          /\ [pw |-> 0, phase |-> "stale"] \in Stash
      OBVIOUS
    <2>2. disk \in State
      BY <1>1, <2>1
    <2>3. Typed
      BY <2>2 DEF Typed
    <2>4. Placed
      BY DEF Placed
    <2>5. Counted
      BY DEF Counted
    <2>6. Marked
      BY DEF Marked
    <2> QED
      BY <2>3, <2>4, <2>5, <2>6, Parts
  <1>3. Steps /\ Copied
    BY DEF Steps, Copied
  <1>4. Told(mem) /\ Told(disk)
    BY DEF Told, Settled
  <1> QED
    BY <1>2, <1>3, <1>4 DEF IInv

\* Each step of the machine and of its environment keeps the invariant.
LEMMA RunStartsInv == IInv /\ RunStarts => IInv'
  <1> SUFFICES ASSUME IInv, RunStarts PROVE IInv'
    OBVIOUS
  <1> USE LapsAssumption DEF IInv, TypeOK, State, Stash, history
  <1>1. TypeOK'
    BY DEF RunStarts, MustRotate, GoTo, SaveAndThen, Steps
  <1>2. Steps'
    BY DEF RunStarts, MustRotate, GoTo, SaveAndThen, Steps, Told
  <1>3. Copied'
    BY DEF RunStarts, MustRotate, GoTo, SaveAndThen, Copied
  <1>4. Told(mem)'
    BY DEF RunStarts, MustRotate, GoTo, SaveAndThen, Steps, Copied, Told, Settled
  <1>5. Told(disk)'
    BY DEF RunStarts, MustRotate, GoTo, SaveAndThen, Steps, Copied, Told, Settled
  <1> QED
    BY <1>1, <1>2, <1>3, <1>4, <1>5 DEF IInv

LEMMA FlushLegacyStashInv == IInv /\ FlushLegacyStash => IInv'
  <1> SUFFICES ASSUME IInv, FlushLegacyStash PROVE IInv'
    OBVIOUS
  <1> USE LapsAssumption DEF IInv, TypeOK, State, Stash, history
  <1>1. TypeOK'
    <2>1. Typed'
      <3>1. mem.pending.pw \in Password
        BY DEF FlushLegacyStash
      <3>2. /\ [pending |-> None, current |-> mem.pending.pw, due |-> FALSE] \in State
            /\ [mem EXCEPT !.pending = None] \in State
        BY <3>1
      <3> HIDE DEF State, Stash
      <3> QED
        BY <3>1, <3>2 DEF FlushLegacyStash, Posted, PostFails, MayHaveReached, Fault,
           SaveAndThen, Typed
    <2>2. Placed'
      BY DEF FlushLegacyStash, Posted, PostFails, MayHaveReached, Fault, SaveAndThen, Placed,
         Steps
    <2>3. Counted'
      BY DEF FlushLegacyStash, Posted, PostFails, MayHaveReached, Fault, SaveAndThen, Counted
    <2>4. Marked'
      BY DEF FlushLegacyStash, Posted, PostFails, MayHaveReached, Fault, SaveAndThen, Marked
    <2> QED
      BY <2>1, <2>2, <2>3, <2>4, PartsNext
  <1>2. Steps'
    BY DEF FlushLegacyStash, Posted, PostFails, MayHaveReached, Fault, SaveAndThen, Steps, Told
  <1>3. Copied'
    BY DEF FlushLegacyStash, Posted, PostFails, MayHaveReached, Fault, SaveAndThen, Copied
  <1>4. Told(mem)'
    BY DEF FlushLegacyStash, Posted, PostFails, MayHaveReached, Fault, SaveAndThen, Steps,
       Copied, Told, Settled
  <1>5. Told(disk)'
    BY DEF FlushLegacyStash, Posted, PostFails, MayHaveReached, Fault, SaveAndThen, Steps,
       Copied, Told, Settled
  <1> QED
    BY <1>1, <1>2, <1>3, <1>4, <1>5 DEF IInv

LEMMA RestoreCurrentEscrowInv == IInv /\ RestoreCurrentEscrow => IInv'
  <1> SUFFICES ASSUME IInv, RestoreCurrentEscrow PROVE IInv'
    OBVIOUS
  <1> USE LapsAssumption DEF IInv, TypeOK, State, Stash, history
  <1>1. TypeOK'
    <2>1. Typed'
      BY DEF RestoreCurrentEscrow, Posted, PostFails, MayHaveReached, Fault, Typed, Steps
    <2>2. Placed'
      BY DEF RestoreCurrentEscrow, Posted, PostFails, MayHaveReached, Fault, Placed, Steps
    <2>3. Counted'
      BY DEF RestoreCurrentEscrow, Posted, PostFails, MayHaveReached, Fault, Counted
    <2>4. Marked'
      BY DEF RestoreCurrentEscrow, Posted, PostFails, MayHaveReached, Fault, Marked
    <2> QED
      BY <2>1, <2>2, <2>3, <2>4, PartsNext
  <1>2. Steps'
    BY DEF RestoreCurrentEscrow, Posted, PostFails, MayHaveReached, Fault, Steps, Told
  <1>3. Copied'
    BY DEF RestoreCurrentEscrow, Posted, PostFails, MayHaveReached, Fault, Copied
  <1>4. Told(mem)'
    BY DEF RestoreCurrentEscrow, Posted, PostFails, MayHaveReached, Fault, Steps, Copied, Told,
       Settled
  <1>5. Told(disk)'
    BY DEF RestoreCurrentEscrow, Posted, PostFails, MayHaveReached, Fault, Steps, Copied, Told,
       Settled
  <1> QED
    BY <1>1, <1>2, <1>3, <1>4, <1>5 DEF IInv

LEMMA LookUpInv == IInv /\ LookUp => IInv'
  <1> SUFFICES ASSUME IInv, LookUp PROVE IInv'
    OBVIOUS
  <1> USE LapsAssumption DEF IInv, TypeOK, State, Stash, history
  <1>1. TypeOK'
    BY DEF LookUp, GoTo, Fault, SaveAndThen, Steps
  <1>2. Steps'
    BY DEF LookUp, GoTo, Fault, SaveAndThen, Steps, Told
  <1>3. Copied'
    BY DEF LookUp, GoTo, Fault, SaveAndThen, Copied
  <1>4. Told(mem)'
    BY DEF LookUp, GoTo, Fault, SaveAndThen, Steps, Copied, Told, Settled
  <1>5. Told(disk)'
    BY DEF LookUp, GoTo, Fault, SaveAndThen, Steps, Copied, Told, Settled
  <1> QED
    BY <1>1, <1>2, <1>3, <1>4, <1>5 DEF IInv

LEMMA SaveStashInv == IInv /\ SaveStash => IInv'
  <1> SUFFICES ASSUME IInv, SaveStash PROVE IInv'
    OBVIOUS
  <1> USE LapsAssumption DEF IInv, TypeOK, State, Stash, history
  <1> DEFINE p == [pw |-> Fresh, phase |-> "prepared"]
             s == [mem EXCEPT !.pending = p]
  <1>1. Fresh \in Password /\ Fresh # local
    BY FreshIsFree DEF InUse
  <1>2. p \in Stash /\ p # None /\ p.pw # local /\ p.phase = "prepared"
    BY <1>1
  <1>3. s \in State /\ s.pending = p /\ s.current = mem.current /\ s.due = mem.due
    BY <1>2
  <1> HIDE DEF p, State, Stash
  <1>4. CASE disk' = s /\ mem' = s /\ pc' = "post"
    <2>1. /\ replaced' = \/ replaced
                         \/ /\ mem.pending # None /\ mem.current # local
                            /\ mem.pending = [pw |-> local, phase |-> "escrowed"]
          /\ UNCHANGED <<local, server, flight, late, abandoned, next, faults>>
      BY <1>4 DEF SaveStash, Saves, SaveFails, GoTo
    <2> HIDE DEF s
    <2>2. TypeOK'
      BY <1>2, <1>3, <1>4, <2>1
    <2>3. Steps'
      BY <1>2, <1>3, <1>4, <2>1 DEF Steps
    <2>4. Told(mem)'
      <3>1. mem.current # None => \/ mem.current = local \/ replaced'
        BY <2>1 DEF Told
      <3> QED
        BY <1>2, <1>3, <1>4, <2>1, <3>1 DEF Told
    <2> QED
      BY <1>4, <2>2, <2>3, <2>4 DEF Copied, Told, Settled
  <1>5. CASE UNCHANGED <<mem, disk, replaced>> /\ pc' = "idle" /\ SaveFails
    <2>1. UNCHANGED <<local, server, flight, late, abandoned, next>>
      BY <1>5 DEF SaveStash, GoTo
    <2> QED
      BY <1>5, <2>1 DEF SaveFails, Fault, Steps, Copied, Told, Settled
  <1> QED
    BY <1>4, <1>5 DEF SaveStash, Saves, SaveFails, GoTo, p

LEMMA PostEscrowInv == IInv /\ PostEscrow => IInv'
  <1> SUFFICES ASSUME IInv, PostEscrow PROVE IInv'
    OBVIOUS
  <1> USE LapsAssumption DEF IInv, TypeOK, State, Stash, history
  <1>1. TypeOK'
    <2>1. Typed'
      BY DEF PostEscrow, Posted, PostFails, MayHaveReached, Fault, GoTo, SaveAndThen, Typed, Steps
    <2>2. Placed'
      BY DEF PostEscrow, Posted, PostFails, MayHaveReached, Fault, GoTo, SaveAndThen, Placed,
         Steps
    <2>3. Counted'
      BY DEF PostEscrow, Posted, PostFails, MayHaveReached, Fault, GoTo, SaveAndThen, Counted
    <2>4. Marked'
      BY DEF PostEscrow, Posted, PostFails, MayHaveReached, Fault, GoTo, SaveAndThen, Marked
    <2> QED
      BY <2>1, <2>2, <2>3, <2>4, PartsNext
  <1>2. Steps'
    BY DEF PostEscrow, Posted, PostFails, MayHaveReached, Fault, GoTo, SaveAndThen, Steps, Told
  <1>3. Copied'
    BY DEF PostEscrow, Posted, PostFails, MayHaveReached, Fault, GoTo, SaveAndThen, Copied
  <1>4. Told(mem)'
    BY DEF PostEscrow, Posted, PostFails, MayHaveReached, Fault, GoTo, SaveAndThen, Steps,
       Copied, Told, Settled
  <1>5. Told(disk)'
    BY DEF PostEscrow, Posted, PostFails, MayHaveReached, Fault, GoTo, SaveAndThen, Steps,
       Copied, Told, Settled
  <1> QED
    BY <1>1, <1>2, <1>3, <1>4, <1>5 DEF IInv

LEMMA MarkEscrowedInv == IInv /\ MarkEscrowed => IInv'
  <1> SUFFICES ASSUME IInv, MarkEscrowed PROVE IInv'
    OBVIOUS
  <1> USE LapsAssumption DEF IInv, TypeOK, State, Stash, history
  <1>1. TypeOK'
    BY DEF MarkEscrowed, Saves, SaveFails, Fault, GoTo, RestoreIfKnown, SaveAndThen, Steps
  <1>2. Steps'
    BY DEF MarkEscrowed, Saves, SaveFails, Fault, GoTo, RestoreIfKnown, SaveAndThen, Steps, Told
  <1>3. Copied'
    BY DEF MarkEscrowed, Saves, SaveFails, Fault, GoTo, RestoreIfKnown, SaveAndThen, Copied
  <1>4. Told(mem)'
    BY DEF MarkEscrowed, Saves, SaveFails, Fault, GoTo, RestoreIfKnown, SaveAndThen, Steps,
       Copied, Told, Settled
  <1>5. Told(disk)'
    BY DEF MarkEscrowed, Saves, SaveFails, Fault, GoTo, RestoreIfKnown, SaveAndThen, Steps,
       Copied, Told, Settled
  <1> QED
    BY <1>1, <1>2, <1>3, <1>4, <1>5 DEF IInv

LEMMA ApplyInv == IInv /\ Apply => IInv'
  <1> SUFFICES ASSUME IInv, Apply PROVE IInv'
    OBVIOUS
  <1> USE LapsAssumption DEF IInv, TypeOK, State, Stash, history
  <1> DEFINE p == mem.pending.pw
  <1>1. /\ pc = "apply" /\ p \in Password /\ p # local /\ disk.pending = mem.pending
        /\ mem.pending = [pw |-> p, phase |-> "escrowed"] /\ (server = p \/ late)
        /\ UNCHANGED <<server, disk, flight, late>>
    BY DEF Apply, Steps, Copied
  <1>2. Counted'
    BY DEF Apply, Fault, Counted
  <1>3. CASE /\ mem' = [pending |-> None, current |-> p, due |-> FALSE] /\ local' = p
             /\ replaced' = FALSE /\ abandoned' = FALSE /\ pc' = "save" /\ next' = "idle"
    <2>1. TypeOK'
      BY <1>1, <1>2, <1>3, PartsNext DEF Typed, Placed, Marked
    <2> QED
      BY <1>1, <1>3, <2>1 DEF Steps, Copied, Told, Settled
  <1>4. CASE /\ mem' = [mem EXCEPT !.pending = None, !.current = p] /\ local' = p
             /\ replaced' = FALSE /\ abandoned' = FALSE /\ pc' = "save" /\ next' = "idle"
    <2>1. TypeOK'
      BY <1>1, <1>2, <1>4, PartsNext DEF Typed, Placed, Marked
    <2> QED
      BY <1>1, <1>4, <2>1 DEF Steps, Copied, Told, Settled
  <1>5. CASE RestoreIfKnown /\ UNCHANGED <<local, mem, replaced, abandoned>>
    <2>1. TypeOK'
      BY <1>1, <1>2, <1>5, PartsNext DEF Typed, Placed, Marked, RestoreIfKnown, SaveAndThen
    <2> QED
      BY <1>1, <1>5, <2>1 DEF Steps, Copied, Told, Settled, RestoreIfKnown, SaveAndThen
  <1>6. CASE /\ (local' = p /\ replaced' = FALSE) \/ UNCHANGED <<local, replaced>>
             /\ pc' = "save" /\ next' = "idle" /\ UNCHANGED <<mem, abandoned>>
    <2>1. Typed' /\ Placed'
      BY <1>1, <1>6 DEF Typed, Placed
    <2>2. Marked'
      BY <1>1, <1>6 DEF Marked
    <2>3. TypeOK'
      BY <1>2, <2>1, <2>2, PartsNext
    <2> QED
      BY <1>1, <1>6, <2>3 DEF Steps, Copied, Told, Settled
  <1> QED
    BY <1>3, <1>4, <1>5, <1>6 DEF Apply, Applied, SaveAndThen

LEMMA BestEffortSaveInv == IInv /\ BestEffortSave => IInv'
  <1> SUFFICES ASSUME IInv, BestEffortSave PROVE IInv'
    OBVIOUS
  <1> USE LapsAssumption DEF IInv, TypeOK, State, Stash, history
  <1>1. TypeOK'
    BY DEF BestEffortSave, Saves, SaveFails, Fault, Steps
  <1>2. Steps'
    BY DEF BestEffortSave, Saves, SaveFails, Fault, Steps, Told
  <1>3. Copied'
    BY DEF BestEffortSave, Saves, SaveFails, Fault, Copied
  <1>4. Told(mem)'
    BY DEF BestEffortSave, Saves, SaveFails, Fault, Steps, Copied, Told, Settled
  <1>5. Told(disk)'
    BY DEF BestEffortSave, Saves, SaveFails, Fault, Steps, Copied, Told, Settled
  <1> QED
    BY <1>1, <1>2, <1>3, <1>4, <1>5 DEF IInv

LEMMA StartInv == IInv /\ Start => IInv'
  <1> SUFFICES ASSUME IInv, Start PROVE IInv'
    OBVIOUS
  <1> USE LapsAssumption DEF IInv, TypeOK, State, Stash, history
  <1>1. TypeOK'
    <2>1. Typed'
      <3>1. Unread \in State
        BY DEF Unread
      <3> HIDE DEF State
      <3> QED
        BY <3>1 DEF Start, Typed
    <2>2. Placed'
      BY DEF Start, Placed
    <2>3. Counted'
      BY DEF Start, Fault, Counted
    <2>4. Marked'
      BY DEF Start, Marked
    <2> QED
      BY <2>1, <2>2, <2>3, <2>4, PartsNext
  <1>2. Steps'
    BY DEF Start, Unread, Fault, Steps, Told
  <1>3. Copied'
    BY DEF Start, Unread, Fault, Copied
  <1>4. Told(mem)'
    BY DEF Start, Unread, Fault, Steps, Copied, Told, Settled
  <1>5. Told(disk)'
    BY DEF Start, Unread, Fault, Steps, Copied, Told, Settled
  <1> QED
    BY <1>1, <1>2, <1>3, <1>4, <1>5 DEF IInv

LEMMA OtherSaveInv == IInv /\ OtherSave => IInv'
  <1> SUFFICES ASSUME IInv, OtherSave PROVE IInv'
    OBVIOUS
  <1> USE LapsAssumption DEF IInv, TypeOK, State, Stash, history
  <1>1. TypeOK'
    BY DEF OtherSave, Steps
  <1>2. Steps'
    BY DEF OtherSave, Steps, Told
  <1>3. Copied'
    BY DEF OtherSave, Copied
  <1>4. Told(mem)'
    BY DEF OtherSave, Steps, Copied, Told, Settled
  <1>5. Told(disk)'
    BY DEF OtherSave, Steps, Copied, Told, Settled
  <1> QED
    BY <1>1, <1>2, <1>3, <1>4, <1>5 DEF IInv

LEMMA CrashInv == IInv /\ Crash => IInv'
  <1> SUFFICES ASSUME IInv, Crash PROVE IInv'
    OBVIOUS
  <1> USE LapsAssumption DEF IInv, TypeOK, State, Stash, history
  <1>1. TypeOK'
    <2>1. Typed'
      BY DEF Crash, Fault, MayHaveReached, Applied, Typed, Steps
    <2>2. Placed'
      BY DEF Crash, Fault, MayHaveReached, Applied, Placed, Steps
    <2>3. Counted'
      BY DEF Crash, Fault, MayHaveReached, Applied, Counted
    <2>4. Marked'
      BY DEF Crash, Fault, MayHaveReached, Applied, Marked
    <2> QED
      BY <2>1, <2>2, <2>3, <2>4, PartsNext
  <1>2. Steps'
    BY DEF Crash, Fault, MayHaveReached, Applied, Steps, Told
  <1>3. Copied'
    BY DEF Crash, Fault, MayHaveReached, Applied, Copied
  <1>4. Told(mem)'
    BY DEF Crash, Fault, MayHaveReached, Applied, Steps, Copied, Told, Settled
  <1>5. Told(disk)'
    BY DEF Crash, Fault, MayHaveReached, Applied, Steps, Copied, Told, Settled
  <1> QED
    BY <1>1, <1>2, <1>3, <1>4, <1>5 DEF IInv

LEMMA RotationDueInv == IInv /\ RotationDue => IInv'
  <1> SUFFICES ASSUME IInv, RotationDue PROVE IInv'
    OBVIOUS
  <1> USE LapsAssumption DEF IInv, TypeOK, State, Stash, history
  <1>1. TypeOK'
    BY ZenonT(30) DEF RotationDue, Steps
  <1>2. Steps'
    BY DEF RotationDue, Steps, Told
  <1>3. Copied'
    BY DEF RotationDue, Copied
  <1>4. Told(mem)'
    BY DEF RotationDue, Steps, Copied, Told, Settled
  <1>5. Told(disk)'
    BY DEF RotationDue, Steps, Copied, Told, Settled
  <1> QED
    BY <1>1, <1>2, <1>3, <1>4, <1>5 DEF IInv

LEMMA LandsInv == IInv /\ Lands => IInv'
  <1> SUFFICES ASSUME IInv, Lands PROVE IInv'
    OBVIOUS
  <1> USE LapsAssumption DEF IInv, TypeOK, State, Stash, history
  <1>1. TypeOK'
    BY DEF Lands, Steps
  <1>2. Steps'
    BY DEF Lands, Steps, Told
  <1>3. Copied'
    BY DEF Lands, Copied
  <1>4. Told(mem)'
    BY DEF Lands, Steps, Copied, Told, Settled
  <1>5. Told(disk)'
    BY DEF Lands, Steps, Copied, Told, Settled
  <1> QED
    BY <1>1, <1>2, <1>3, <1>4, <1>5 DEF IInv

LEMMA NextInv == IInv /\ [Next]_vars => IInv'
  <1>1. IInv /\ UNCHANGED vars => IInv'
    BY DEF IInv, TypeOK, Steps, Copied, Told, Settled, vars, history
  <1> QED
    BY <1>1, RunStartsInv, FlushLegacyStashInv, RestoreCurrentEscrowInv, LookUpInv, SaveStashInv,
       PostEscrowInv, MarkEscrowedInv, ApplyInv, BestEffortSaveInv, StartInv, OtherSaveInv,
       CrashInv, RotationDueInv, LandsInv DEF Next, RunStep

LEMMA Invariance == Spec => []IInv
  BY InitInv, NextInv, PTL DEF Spec

-----------------------------------------------------------------------------
\* Without a stash the escrowed password is the one in place, whatever failed,
\* with the exceptions that the property names (laps.go, rotate and run).
THEOREM SettledIsAlignedAlways == Spec => []SettledIsAligned
  <1>1. IInv => SettledIsAligned
    BY DEF IInv, Told, Settled, SettledIsAligned, Resumable
  <1> QED
    BY <1>1, Invariance, PTL

\* A stash that says "prepared", in memory or on disk, was never applied
\* (laps.go, rotate, step 4).
THEOREM PreparedIsNotAppliedAlways == Spec => []PreparedIsNotApplied
  <1>1. IInv => PreparedIsNotApplied
    BY DEF IInv, Told, PreparedIsNotApplied, Resumable
  <1> QED
    BY <1>1, Invariance, PTL

\* The account changes only to a password that the server holds and that the
\* disk says may be in place (laps.go, rotate, steps 3 to 5).
THEOREM AppliesWhatIsEscrowedAlways == Spec => AppliesWhatIsEscrowed
  <1> DEFINE Safe == local' # local =>
                       /\ server = local' \/ late
                       /\ disk.pending = [pw |-> local', phase |-> "escrowed"]
  <1>1. IInv /\ [Next]_vars => [Safe]_vars
    <2> SUFFICES ASSUME IInv, Next, local' # local PROVE Safe
      BY DEF vars
    <2>1. pc = "apply" /\ local' = mem.pending.pw
      BY DEF Next, RunStep, RunStarts, FlushLegacyStash, RestoreCurrentEscrow, LookUp,
             SaveStash, PostEscrow, MarkEscrowed, Apply, Applied, BestEffortSave, Start,
             OtherSave, Crash, RotationDue, Lands
    <2>2. mem.pending \in Stash
      BY <2>1 DEF IInv, TypeOK, State
    <2>3. mem.pending = [pw |-> local', phase |-> "escrowed"]
      BY <2>1, <2>2 DEF IInv, Steps, Stash
    <2>4. server = local' \/ late
      BY <2>1 DEF IInv, Steps
    <2>5. disk.pending = mem.pending
      BY <2>1 DEF IInv, Steps, Copied
    <2> QED
      BY <2>3, <2>4, <2>5
  <1> QED
    BY <1>1, Invariance, PTL DEF Spec, AppliesWhatIsEscrowed

\* What the agent and the server keep stays well formed: the stash that laps.go
\* saves, in memory and on disk, whatever is lost or restored in between.
THEOREM TypeCorrect == Spec => []TypeOK
  <1>1. IInv => TypeOK
    BY DEF IInv
  <1> QED
    BY <1>1, Invariance, PTL
=============================================================================
