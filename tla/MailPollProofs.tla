--------------------------- MODULE MailPollProofs ---------------------------
(***************************************************************************)
(* The safety properties of MailPoll, for any mailbox, any limits and any   *)
(* number of faults: no mail is left behind unseen, and none is abandoned   *)
(* for the failures of others. LoopInv says what the pages of a tick have   *)
(* seen, SoundInv which positions leave nothing behind.                     *)
(***************************************************************************)
EXTENDS MailPoll, FiniteSetTheorems, TLAPS

Saved == [at : Nat, done : SUBSET Mail, retry : Failure \cup {None},
          scan : Place \cup {None}]

TypeOK ==
    /\ maxSkipPages \in Nat /\ date \in [Mail -> Nat]
    /\ \A m, e \in Mail : e <= m => date[e] <= date[m]
    /\ writer \subseteq Mail \ Excluded
    /\ box \subseteq Mail /\ cursor \in Nat
    /\ state \in Saved /\ tick \in Tick \cup {None}
    /\ failures \in [Mail -> 0..MaxAttempts]

-----------------------------------------------------------------------------
\* Failures are counted.

Counted(r) == r # None => r.attempts <= failures[r.id]

CountInv ==
    /\ \A m \in abandoned : m \in Mail /\ failures[m] >= MaxAttempts
    /\ Counted(state.retry)
    /\ tick # None =>
         /\ Counted(tick.retry)
         /\ tick.suspect # None => /\ failures[tick.suspect.id] >= MaxAttempts
                                   /\ Counted(tick.suspect.retry)

-----------------------------------------------------------------------------
\* The loop of a tick.

\* The position once the page is over.
Ahd(t) == IF t.jump # None THEN t.jump ELSE t.pos

\* The pages listed so far begin at `from`, and count.
Counts(t) ==
    \/ t.page # {} /\ ~t.blocked /\ t.jump = None
    \/ t.page = {} /\ ~t.blocked /\ t.jump = None /\ Skips(t)

Reached(t, m) == date[m] >= t.from /\ Rank(m, t.from) < t.skip + PageSize

Places(t) ==
    /\ t.scan # None => date[t.scan.id] <= t.scan.at
    /\ t.keep # None => date[t.keep.id] <= t.keep.at
    /\ t.suspect # None =>
         /\ t.suspect.back.at <= date[t.suspect.id]
         /\ date[t.suspect.id] <= Ahd(t).at

Page(t) ==
    /\ t.from <= t.pos.at
    /\ \A m \in t.page : ~Passed(t.pos, m) /\ Reached(t, m)

Loop(t) == Places(t) /\ (Counts(t) => Page(t))

LoopInv ==
    /\ state.scan # None => date[state.scan.id] <= state.scan.at
    /\ tick # None => Loop(tick)

-----------------------------------------------------------------------------
\* Positions that leave no mail behind.

Seen == ingested \cup abandoned \cup excused \cup shifted

\* What a position has behind it is in V: done at its second, or listed
\* and before it.
Sound(pos, V) ==
    /\ \A m \in writer \cap pos.done : date[m] = pos.at => m \in V
    /\ \A m \in writer \cap box : date[m] < pos.at => m \in V

\* The pages listed so far left nothing out.
Read(t) ==
    \A m \in writer \cap box :
      Reached(t, m) /\ m \notin t.page => Passed(t.pos, m) \/ m \in Seen

SoundTick(t) ==
    /\ t.suspect = None => Sound(Ahd(t), Seen)
    /\ t.suspect # None =>
         /\ Sound(t.suspect.back, Seen)
         /\ Sound(After(t.suspect.back, t.suspect.id), Seen \cup {t.suspect.id})
         /\ ~t.suspect.jumped => Sound(Ahd(t), Seen \cup {t.suspect.id})
    /\ Counts(t) => Read(t)

SoundInv ==
    /\ Sound([at |-> cursor, done |-> Parsed.done], Seen)
    /\ tick # None /\ cursor = tick.expected => SoundTick(tick)

-----------------------------------------------------------------------------
\* Sets of mails are finite, and a mail is listed after those before it.

LEMMA MailFacts ==
    /\ Mail \subseteq Nat
    /\ \A S \in SUBSET Mail : IsFiniteSet(S) /\ Cardinality(S) \in Nat
<1>1. IsFiniteSet(Mail) /\ Mail = 1..Cardinality(Mail)
  BY MailPollAssumption
<1>2. Cardinality(Mail) \in Nat
  BY <1>1, FS_CardinalityType
<1>3. Mail \subseteq Nat
  BY <1>1, <1>2, SMT
<1>4. ASSUME NEW S \in SUBSET Mail
      PROVE  IsFiniteSet(S) /\ Cardinality(S) \in Nat
  BY <1>1, FS_Subset, FS_CardinalityType
<1> QED
  BY <1>3, <1>4

LEMMA Limits ==
    /\ PageSize \in Nat \ {0} /\ MaxPages \in Nat \ {0} /\ MaxAttempts \in Nat \ {0}
    /\ SkipLimits \subseteq Nat \ {0}
BY MailPollAssumption

LEMMA RankType ==
    ASSUME TypeOK, NEW m \in Mail, NEW at
    PROVE  Rank(m, at) \in Nat
<1>1. {e \in ListedFrom(at) : e < m} \in SUBSET Mail
  BY DEF TypeOK, ListedFrom
<1> QED
  BY <1>1, MailFacts DEF Rank

LEMMA RankMonotone ==
    ASSUME TypeOK, NEW m \in Mail, NEW e \in Mail, NEW at, e <= m
    PROVE  Rank(e, at) <= Rank(m, at)
<1> DEFINE E == {b \in ListedFrom(at) : b < e}
<1> DEFINE M == {b \in ListedFrom(at) : b < m}
<1>1. M \in SUBSET Mail
  BY DEF TypeOK, ListedFrom
<1>2. E \subseteq M
  <2>1. box \subseteq Nat /\ m \in Nat /\ e \in Nat
    BY MailFacts DEF TypeOK
  <2>2. \A b \in box : b < e => b < m
    BY <2>1, SMT
  <2> QED
    BY <2>2 DEF ListedFrom
<1> HIDE DEF E, M
<1>3. Cardinality(E) <= Cardinality(M)
  BY <1>1, <1>2, MailFacts, FS_Subset
<1> QED
  BY <1>3 DEF Rank, E, M

LEMMA RankStrict ==
    ASSUME TypeOK, NEW m \in Mail, NEW e \in box, NEW at, e < m, date[e] >= at
    PROVE  Rank(e, at) < Rank(m, at)
<1> DEFINE E == {b \in ListedFrom(at) : b < e}
<1> DEFINE M == {b \in ListedFrom(at) : b < m}
<1>1. M \in SUBSET Mail /\ E \in SUBSET Mail
  BY DEF TypeOK, ListedFrom
<1>2. E \subseteq M /\ e \in M /\ e \notin E
  <2>1. box \subseteq Nat /\ m \in Nat /\ e \in Nat
    BY MailFacts DEF TypeOK
  <2>2. (\A b \in box : b < e => b < m) /\ ~(e < e)
    BY <2>1, SMT
  <2> QED
    BY <2>2 DEF ListedFrom
<1> HIDE DEF E, M
<1>3. Cardinality(E) <= Cardinality(M) /\ (Cardinality(E) = Cardinality(M) => E = M)
  BY <1>1, <1>2, MailFacts, FS_Subset
<1>4. Cardinality(E) < Cardinality(M)
  BY <1>1, <1>2, <1>3, MailFacts
<1> QED
  BY <1>4 DEF Rank, E, M

\* A mail that appears puts none forward in the listing.
LEMMA RankGrows ==
    ASSUME TypeOK, TypeOK', date' = date, box \subseteq box', NEW m \in Mail, NEW at
    PROVE  Rank(m, at) <= Rank(m, at)' /\ Rank(m, at)' \in Nat
<1> DEFINE E == {b \in ListedFrom(at) : b < m}
<1> DEFINE M == {b \in ListedFrom(at)' : b < m}
<1>1. M \in SUBSET Mail
  BY DEF TypeOK, ListedFrom
<1>2. E \subseteq M
  BY DEF TypeOK, ListedFrom
<1>3. Rank(m, at) = Cardinality(E) /\ Rank(m, at)' = Cardinality(M)
  BY DEF Rank
<1> HIDE DEF E, M
<1>4. Cardinality(E) <= Cardinality(M) /\ Cardinality(M) \in Nat
  BY <1>1, <1>2, MailFacts, FS_Subset
<1> QED
  BY <1>3, <1>4

\* One that vanishes puts those after it one forward.
LEMMA RankShrinks ==
    ASSUME TypeOK, TypeOK', date' = date, NEW v \in box, box' = box \ {v},
           NEW m \in Mail, NEW at
    PROVE  /\ Rank(m, at) <= Rank(m, at)' + 1 /\ Rank(m, at)' \in Nat
           /\ ~(v < m /\ date[v] >= at) => Rank(m, at) = Rank(m, at)'
<1> DEFINE E == {b \in ListedFrom(at) : b < m}
<1> DEFINE M == {b \in ListedFrom(at)' : b < m}
<1>1. M \in SUBSET Mail /\ E \in SUBSET Mail
  BY DEF TypeOK, ListedFrom
<1>2. M = E \ {v}
  BY DEF TypeOK, ListedFrom
<1>3. ~(v < m /\ date[v] >= at) => v \notin E
  BY DEF ListedFrom
<1>4. Rank(m, at) = Cardinality(E) /\ Rank(m, at)' = Cardinality(M)
  BY DEF Rank
<1> HIDE DEF E, M
<1>5. v \in E => Cardinality(M) = Cardinality(E) - 1
  BY <1>1, <1>2, MailFacts, FS_RemoveElement
<1>6. v \notin E => M = E
  BY <1>2
<1>7. Cardinality(E) \in Nat /\ Cardinality(M) \in Nat
  BY <1>1, MailFacts
<1> QED
  BY <1>3, <1>4, <1>5, <1>6, <1>7

-----------------------------------------------------------------------------
\* What the steps do to the fields of a tick that the invariants read.

Kept(t, u) == /\ u.expected = t.expected /\ u.from = t.from /\ u.skip = t.skip
              /\ u.before = t.before

\* Mail m of the page is behind.
Behind(t, u, m) ==
    /\ Kept(t, u)
    /\ u.pos = After(t.pos, m) /\ u.page = t.page \ {m}
    /\ u.jump = t.jump /\ u.blocked = t.blocked /\ u.keep = t.keep
    /\ u.retry \in {t.retry, None}

\* Back before the suspect, with a place.
RolledBack(t, u) ==
    /\ Kept(t, u)
    /\ u.pos = t.suspect.back /\ u.retry = t.suspect.retry
    /\ u.suspect = None /\ u.blocked
    /\ u.jump = t.jump /\ u.scan = t.scan
    /\ u.keep = [id |-> t.suspect.id, at |-> t.pos.at, done |-> t.pos.done]

LEMMA Nones ==
    /\ None \notin Position /\ None \notin Failure /\ None \notin Place
    /\ None \notin Suspect /\ None \notin Tick
BY MailPollAssumption

LEMMA AfterIs ==
    ASSUME TypeOK, NEW pos \in Position, NEW m \in Mail
    PROVE  /\ After(pos, m) \in Position
           /\ pos.at <= After(pos, m).at
           /\ date[m] <= After(pos, m).at
           /\ After(pos, m).at \in {pos.at, date[m]}
<1>1. date[m] \in Nat
  BY DEF TypeOK
<1>2. CASE date[m] > pos.at
  BY <1>1, <1>2 DEF After, Position
<1>3. CASE ~(date[m] > pos.at)
  BY <1>1, <1>3 DEF After, Position
<1> QED
  BY <1>2, <1>3

\* A mail that was ahead is the latest once it is behind.
LEMMA PassedAfter ==
    ASSUME TypeOK, NEW pos \in Position, NEW m \in Mail, NEW e \in Mail, ~Passed(pos, m)
    PROVE  /\ After(pos, m).at = date[m] /\ pos.at <= date[m]
           /\ Passed(After(pos, m), e)
                <=> e = m \/ Passed(pos, e) \/ date[e] < date[m]
<1>1. date[m] \in Nat /\ date[e] \in Nat
  BY DEF TypeOK
<1>2. CASE date[m] > pos.at
  BY <1>1, <1>2 DEF After, Position, Passed
<1>3. CASE ~(date[m] > pos.at)
  BY <1>1, <1>3 DEF After, Position, Passed
<1> QED
  BY <1>2, <1>3

LEMMA PastIs ==
    ASSUME TypeOK, NEW t \in Tick, NEW m \in Mail
    PROVE  /\ Past(t, m) \in Tick
           /\ Behind(t, Past(t, m), m)
           /\ Past(t, m).scan = t.scan /\ Past(t, m).suspect = t.suspect
<1> DEFINE p == After(t.pos, m)
<1>1. p \in Position
  BY AfterIs DEF Tick
<1> HIDE DEF p
<1>2. Past(t, m) = [t EXCEPT !.pos = p, !.page = @ \ {m}, !.progressed = TRUE,
                             !.retry = IF @ # None /\ @.id = m THEN None ELSE @]
  BY DEF Past, p, Tick
<1>3. Past(t, m) \in Tick
  BY <1>1, <1>2, ZenonT(30) DEF Tick
<1>4. /\ Past(t, m).pos = p /\ Past(t, m).page = t.page \ {m}
      /\ Past(t, m).retry \in {t.retry, None}
      /\ Past(t, m).jump = t.jump /\ Past(t, m).blocked = t.blocked
      /\ Past(t, m).keep = t.keep
      /\ Past(t, m).scan = t.scan /\ Past(t, m).suspect = t.suspect
      /\ Kept(t, Past(t, m))
  BY <1>2 DEF Tick, Kept
<1> QED
  BY <1>3, <1>4 DEF Behind, p

LEMMA RollbackIs ==
    ASSUME NEW t \in Tick, t.suspect # None
    PROVE  Rollback(t) \in Tick /\ RolledBack(t, Rollback(t))
<1>1. t.suspect \in Suspect /\ t.pos \in Position
  BY DEF Tick
<1>2. /\ t.suspect.back \in Position /\ t.suspect.retry \in Failure
      /\ [id |-> t.suspect.id, at |-> t.pos.at, done |-> t.pos.done] \in Place
  BY <1>1 DEF Suspect, Position, Place
<1> DEFINE k == [id |-> t.suspect.id, at |-> t.pos.at, done |-> t.pos.done]
<1>3. k \in Place
  BY <1>2
<1> HIDE DEF k
<1>4. Rollback(t) = [t EXCEPT !.keep = k, !.pos = t.suspect.back,
                       !.retry = t.suspect.retry, !.suspect = None, !.blocked = TRUE]
  BY DEF Rollback, k
<1>5. Rollback(t) \in Tick
  BY <1>2, <1>3, <1>4 DEF Tick
<1>6. RolledBack(t, Rollback(t))
  BY <1>4 DEF Tick, RolledBack, Kept, k
<1> QED
  BY <1>5, <1>6

LEMMA EndedIs ==
    ASSUME tick \in Tick
    PROVE  /\ Ended \in Tick
           /\ Ended.pos = Ahd(tick) /\ Ended.page = {} /\ Ended.jump = None
           /\ Ended.expected = tick.expected /\ Ended.before = tick.before
           /\ Ended.retry = tick.retry /\ Ended.scan = tick.scan
           /\ Ended.suspect = tick.suspect /\ Ended.keep = tick.keep
           /\ Ended.blocked = tick.blocked
           /\ \/ Ended.skip = 0 /\ Ended.from = Ahd(tick).at
              \/ /\ tick.jump = None /\ Skips(tick)
                 /\ Ended.skip = tick.skip + PageSize /\ Ended.from = tick.from
           /\ tick.jump = None /\ Skips(tick) => Ended.skip = tick.skip + PageSize
                                                 /\ Ended.from = tick.from
<1> DEFINE t == [tick EXCEPT
                   !.page = {}, !.jump = None,
                   !.pages = IF tick.idle THEN @ ELSE @ + 1,
                   !.skipped = IF tick.idle THEN @ + 1 ELSE @]
<1>1. /\ t \in Tick
      /\ t.pos = tick.pos /\ t.page = {} /\ t.jump = None
      /\ t.expected = tick.expected /\ t.before = tick.before
      /\ t.retry = tick.retry /\ t.scan = tick.scan
      /\ t.suspect = tick.suspect /\ t.keep = tick.keep
      /\ t.blocked = tick.blocked /\ t.skip = tick.skip /\ t.from = tick.from
  <2> DEFINE n == IF tick.idle THEN tick.pages ELSE tick.pages + 1
  <2> DEFINE k == IF tick.idle THEN tick.skipped + 1 ELSE tick.skipped
  <2>1. n \in Nat /\ k \in Nat
    BY DEF Tick
  <2>2. t = [tick EXCEPT !.page = {}, !.jump = None, !.pages = n, !.skipped = k]
    BY DEF Tick
  <2> HIDE DEF n, k, t
  <2>3. t \in Tick
    BY <2>1, <2>2 DEF Tick
  <2> QED
    BY <2>2, <2>3 DEF Tick
<1>2. Ended = IF tick.jump # None
              THEN [t EXCEPT !.pos = tick.jump, !.from = tick.jump.at, !.skip = 0,
                             !.more = TRUE]
              ELSE IF Skips(t) THEN [t EXCEPT !.skip = @ + PageSize]
                               ELSE [t EXCEPT !.from = t.pos.at, !.skip = 0]
  BY DEF Ended
<1> HIDE DEF t
<1>3. CASE tick.jump # None
  <2>1. tick.jump \in Position /\ tick.jump.at \in Nat
    BY <1>3 DEF Tick, Position
  <2>2. Ended = [t EXCEPT !.pos = tick.jump, !.from = tick.jump.at, !.skip = 0,
                          !.more = TRUE]
    BY <1>2, <1>3
  <2>3. Ended \in Tick
    BY <1>1, <2>1, <2>2, ZenonT(30) DEF Tick
  <2>4. /\ Ended.pos = tick.jump /\ Ended.from = tick.jump.at /\ Ended.skip = 0
        /\ \A x \in {"page", "jump", "expected", "before", "retry", "scan", "suspect",
                     "keep", "blocked"} : Ended[x] = t[x]
    BY <1>1, <2>2, SMTT(30) DEF Tick
  <2> QED
    BY <1>1, <1>3, <2>3, <2>4, SMTT(30) DEF Ahd
<1>4. CASE tick.jump = None /\ Skips(t)
  <2>1. Ended = [t EXCEPT !.skip = @ + PageSize]
    BY <1>2, <1>4
  <2>2. Ended \in Tick
    BY <1>1, <2>1, Limits DEF Tick
  <2>3. Skips(tick)
    BY <1>1, <1>4 DEF Skips
  <2> QED
    BY <1>1, <1>4, <2>1, <2>2, <2>3 DEF Tick, Ahd
<1>5. CASE tick.jump = None /\ ~Skips(t)
  <2>1. Ended = [t EXCEPT !.from = t.pos.at, !.skip = 0]
    BY <1>2, <1>5
  <2>2. t.pos.at \in Nat
    BY <1>1 DEF Tick, Position
  <2>3. Ended \in Tick
    BY <1>1, <2>1, <2>2, ZenonT(30) DEF Tick
  <2>4. ~Skips(tick)
    BY <1>1, <1>5 DEF Skips
  <2> QED
    BY <1>1, <1>5, <2>1, <2>3, <2>4 DEF Tick, Ahd
<1> QED
  BY <1>3, <1>4, <1>5

LEMMA ListingIs ==
    ASSUME TypeOK, NEW t \in Tick
    PROVE  /\ Listing(t) \in Tick
           /\ Listing(t).page =
                {m \in ListedFrom(t.from) :
                   /\ Rank(m, t.from) \in t.skip..t.skip + PageSize - 1
                   /\ ~Passed(t.pos, m)}
           /\ Listing(t).before = t.pos.at /\ Listing(t).pos = t.pos
           /\ Listing(t).from = t.from /\ Listing(t).skip = t.skip
           /\ Listing(t).expected = t.expected /\ Listing(t).jump = t.jump
           /\ Listing(t).retry = t.retry /\ Listing(t).scan = t.scan
           /\ Listing(t).suspect = t.suspect /\ Listing(t).keep = t.keep
           /\ Listing(t).blocked = t.blocked
<1> DEFINE P == {m \in ListedFrom(t.from) :
                   /\ Rank(m, t.from) \in t.skip..t.skip + PageSize - 1
                   /\ ~Passed(t.pos, m)}
<1> DEFINE x == Cardinality(ListedFrom(t.from)) > t.skip + PageSize
<1>1. P \in SUBSET Mail
  BY DEF TypeOK, ListedFrom
<1>2. t.pos.at \in Nat
  BY DEF Tick, Position
<1>3. Listing(t) = [t EXCEPT !.page = P, !.idle = (P = {}), !.before = t.pos.at, !.more = x]
  BY DEF Listing
<1>4. x \in BOOLEAN
  OBVIOUS
<1> HIDE DEF P, x
<1>5. Listing(t) \in Tick
  BY <1>1, <1>2, <1>3, <1>4 DEF Tick
<1>6. Listing(t).page = P
  BY <1>3 DEF Tick
<1> QED
  BY <1>3, <1>5, <1>6 DEF Tick, P

\* All the fields that the invariants read are the same.
Alike(t, u) ==
    /\ Kept(t, u)
    /\ u.pos = t.pos /\ u.page = t.page /\ u.jump = t.jump
    /\ u.retry = t.retry /\ u.scan = t.scan /\ u.suspect = t.suspect
    /\ u.keep = t.keep /\ u.blocked = t.blocked

LEMMA Processed ==
    ASSUME NEW t \in Tick
    PROVE  /\ [t EXCEPT !.processed = @ + 1] \in Tick
           /\ Alike(t, [t EXCEPT !.processed = @ + 1])
BY DEF Tick, Alike, Kept

LEMMA Underway ==
    ASSUME TypeOK, NEW m \in Mail, IsNext(m)
    PROVE  /\ tick \in Tick /\ Counts(tick) /\ tick.jump = None /\ ~tick.blocked
           /\ m \in tick.page /\ \A e \in tick.page : m <= e
           /\ tick.pos \in Position /\ tick.page \in SUBSET Mail
BY DEF TypeOK, IsNext, InPage, PageDone, Counts, Tick

\* What a step that handles a mail leaves alone.
Around == UNCHANGED <<mails, box, cursor, state, excused, shifted>>

\* The mails that write nothing.
LEMMA SilentStep ==
    ASSUME TypeOK, NEW m \in Mail, PassOver(m) \/ HandleSilent(m)
    PROVE  /\ IsNext(m) /\ Around /\ UNCHANGED <<ingested, abandoned, failures>>
           /\ m \in writer => m \in ingested
           /\ tick' \in Tick /\ Behind(tick, tick', m)
           /\ tick'.suspect = tick.suspect /\ tick'.scan = tick.scan
<1>1. IsNext(m) /\ tick \in Tick
  BY Underway DEF PassOver, HandleSilent, Handled
<1>2. CASE PassOver(m)
  BY <1>1, <1>2, PastIs DEF PassOver, TypeOK, Around, history, mails
<1>3. CASE HandleSilent(m)
  <2> DEFINE p == Past(tick, m)
  <2> DEFINE n == IF tick.suspect = None THEN p.processed + 1 ELSE p.processed
  <2>1. p \in Tick /\ Behind(tick, p, m) /\ p.scan = tick.scan /\ p.suspect = tick.suspect
    BY <1>1, PastIs
  <2>2. tick' = [p EXCEPT !.processed = IF tick.suspect = None THEN @ + 1 ELSE @]
    BY <1>3 DEF HandleSilent
  <2> HIDE DEF p
  <2>3. tick' \in Tick
    BY <2>1, <2>2 DEF Tick
  <2>4. Behind(tick, tick', m) /\ tick'.scan = tick.scan /\ tick'.suspect = tick.suspect
    BY <2>1, <2>2 DEF Tick, Behind, Kept
  <2>5. (m \in writer => m \in ingested) /\ Around /\ UNCHANGED <<ingested, abandoned, failures>>
    BY <1>3 DEF HandleSilent, Around, history, mails
  <2> QED
    BY <1>1, <2>3, <2>4, <2>5
<1> QED
  BY <1>2, <1>3

\* The mail that is written.
LEMMA WritesStep ==
    ASSUME TypeOK, NEW m \in Mail, HandleWrites(m)
    PROVE  /\ IsNext(m) /\ Around /\ failures' = failures
           /\ ingested' = ingested \cup {m}
           /\ tick' \in Tick /\ tick'.suspect = None /\ tick'.scan = tick.scan
           /\ \/ tick.suspect = None /\ abandoned' = abandoned
              \/ tick.suspect # None /\ abandoned' = abandoned \cup {tick.suspect.id}
           /\ \/ /\ tick.suspect = None \/ ~tick.suspect.jumped
                 /\ Behind(tick, tick', m)
              \/ /\ tick.suspect # None /\ tick.suspect.jumped
                 /\ Kept(tick, tick') /\ tick'.keep = tick.keep
                 /\ tick'.retry = None
                 /\ tick'.jump = After(tick.suspect.back, tick.suspect.id)
                 /\ tick'.jump # None
<1> DEFINE t == [tick EXCEPT !.processed = @ + 1]
<1> DEFINE s == tick.suspect
<1>1. IsNext(m) /\ tick \in Tick
  BY Underway DEF HandleWrites, Handled
<1>2. t \in Tick /\ Alike(tick, t)
  BY <1>1, Processed
<1>3. Around /\ failures' = failures /\ ingested' = ingested \cup {m}
  BY DEF HandleWrites, Around, mails
<1>4. \/ s = None /\ tick' = Past(t, m) /\ abandoned' = abandoned
      \/ /\ s # None /\ abandoned' = abandoned \cup {s.id}
         /\ tick' = IF s.jumped THEN Back(t) ELSE Past([t EXCEPT !.suspect = None], m)
  BY DEF HandleWrites
<1> HIDE DEF t
<1>5. CASE s = None
  <2>1. tick' \in Tick /\ Behind(t, tick', m) /\ tick'.scan = t.scan
        /\ tick'.suspect = t.suspect
    BY <1>2, <1>4, <1>5, PastIs
  <2>2. Behind(tick, tick', m) /\ tick'.scan = tick.scan /\ tick'.suspect = None
    BY <1>2, <1>5, <2>1 DEF Behind, Alike, Kept
  <2> QED
    BY <1>1, <1>3, <1>4, <1>5, <2>1, <2>2
<1>6. CASE s # None /\ ~s.jumped
  <2> DEFINE u == [t EXCEPT !.suspect = None]
  <2>1. u \in Tick
    BY <1>2 DEF Tick
  <2>2. Kept(tick, u) /\ u.pos = tick.pos /\ u.page = tick.page /\ u.jump = tick.jump
        /\ u.retry = tick.retry /\ u.scan = tick.scan /\ u.suspect = None
        /\ u.keep = tick.keep /\ u.blocked = tick.blocked
    BY <1>2 DEF Tick, Alike, Kept
  <2>3. tick' = Past(u, m)
    BY <1>4, <1>6
  <2> HIDE DEF u
  <2>4. tick' \in Tick /\ Behind(u, tick', m) /\ tick'.scan = u.scan
        /\ tick'.suspect = u.suspect
    BY <2>1, <2>3, PastIs
  <2>5. Behind(tick, tick', m)
    BY <2>2, <2>4 DEF Behind, Kept
  <2> QED
    BY <1>1, <1>3, <1>4, <1>6, <2>2, <2>4, <2>5
<1>7. CASE s # None /\ s.jumped
  <2> DEFINE j == After(t.suspect.back, t.suspect.id)
  <2>1. t.suspect = s /\ s \in Suspect
    BY <1>1, <1>2, <1>7 DEF Alike, Tick
  <2>2. j \in Position /\ j # None
    BY <2>1, AfterIs, Nones DEF Suspect
  <2>3. tick' = [t EXCEPT !.suspect = None, !.retry = None, !.jump = j]
    BY <1>4, <1>7 DEF Back
  <2>4. j = After(tick.suspect.back, tick.suspect.id)
    BY <2>1
  <2> HIDE DEF j
  <2>5. tick' \in Tick
    BY <1>2, <2>2, <2>3 DEF Tick
  <2>6. Kept(t, tick') /\ tick'.keep = t.keep /\ tick'.retry = None /\ tick'.jump = j
        /\ tick'.suspect = None /\ tick'.scan = t.scan
    BY <1>2, <2>3 DEF Tick, Kept
  <2>7. Kept(tick, tick') /\ tick'.keep = tick.keep /\ tick'.scan = tick.scan
    BY <1>2, <2>6 DEF Kept, Alike
  <2> QED
    BY <1>1, <1>3, <1>4, <1>7, <2>2, <2>4, <2>5, <2>6, <2>7
<1> QED
  BY <1>5, <1>6, <1>7

\* The mail that fails: `r` is its record.
FailsTo(m, r) ==
    \/ tick.suspect # None /\ RolledBack(tick, tick')
    \/ /\ tick.suspect = None
       /\ Kept(tick, tick')
       /\ tick'.pos = tick.pos /\ tick'.jump = tick.jump /\ tick'.blocked
       /\ tick'.suspect = None /\ tick'.scan = tick.scan /\ tick'.keep = tick.keep
       /\ tick'.retry = r
    \/ /\ tick.suspect = None /\ r.attempts >= MaxAttempts
       /\ tick'.suspect = [id |-> m, back |-> tick.pos, retry |-> r, jumped |-> FALSE]
       /\ tick'.scan = None
       /\ Behind(tick, tick', m)
    \/ /\ tick.suspect = None /\ r.attempts >= MaxAttempts
       /\ tick'.suspect = [id |-> m, back |-> tick.pos, retry |-> r, jumped |-> TRUE]
       /\ tick.scan # None /\ tick.scan.id = m
       /\ tick'.jump = [at |-> tick.scan.at, done |-> tick.scan.done] /\ tick'.jump # None
       /\ Kept(tick, tick') /\ tick'.keep = tick.keep /\ tick'.scan = None
       /\ tick'.retry = tick.retry

LEMMA FailsStep ==
    ASSUME TypeOK, NEW m \in Mail, IsNext(m), Failed(m)
    PROVE  /\ tick' \in Tick
           /\ failures' = [failures EXCEPT ![m] = IF @ < MaxAttempts THEN @ + 1 ELSE @]
           /\ \E r \in Failure :
                /\ r.id = m
                /\ \/ r.attempts = 1
                   \/ /\ tick.retry # None /\ tick.retry.id = m
                      /\ r.attempts <= tick.retry.attempts + 1
                /\ FailsTo(m, r)
<1> DEFINE same == tick.retry # None /\ tick.retry.id = m
           n == IF same THEN tick.retry.attempts + 1 ELSE 1
           record == [id |-> m, attempts |-> IF n > MaxAttempts THEN MaxAttempts ELSE n]
           jumps == tick.scan # None /\ tick.scan.id = m
           t == [tick EXCEPT !.processed = @ + 1]
           suspects == [t EXCEPT !.suspect = [id |-> m, back |-> t.pos, retry |-> record,
                                              jumped |-> jumps],
                                 !.scan = None]
           s == [id |-> m, back |-> tick.pos, retry |-> record, jumped |-> jumps]
<1>1. tick \in Tick /\ tick.pos \in Position /\ tick.jump = None
  BY Underway
<1>2. t \in Tick /\ Alike(tick, t)
  BY <1>1, Processed
<1>3. /\ record \in Failure /\ record.id = m
      /\ \/ record.attempts = 1
         \/ same /\ record.attempts <= tick.retry.attempts + 1
  <2>1. same => tick.retry \in Failure
    BY <1>1 DEF Tick
  <2>2. same => tick.retry.attempts \in Nat
    BY <2>1 DEF Failure
  <2>3. n \in Nat \ {0}
    BY <2>2
  <2> HIDE DEF n
  <2>4. record.attempts \in 1..MaxAttempts /\ record.attempts <= n
    BY <2>3, Limits
  <2> QED
    BY <2>2, <2>4 DEF Failure, n
<1>4. /\ failures' = [failures EXCEPT ![m] = IF @ < MaxAttempts THEN @ + 1 ELSE @]
      /\ \/ tick.suspect # None /\ tick' = Rollback(t)
         \/ tick.suspect = None /\ tick' = [t EXCEPT !.retry = record, !.blocked = TRUE]
         \/ /\ tick.suspect = None /\ record.attempts >= MaxAttempts
            /\ tick' = IF jumps
                       THEN [suspects EXCEPT !.jump = [at |-> t.scan.at, done |-> t.scan.done]]
                       ELSE Past(suspects, m)
  BY DEF Failed, Lasting
<1> HIDE DEF t, record
<1>5. t.pos = tick.pos
  BY <1>2 DEF Alike
<1>6. suspects = [t EXCEPT !.suspect = s, !.scan = None]
  BY <1>5
<1>7. s \in Suspect
  BY <1>1, <1>3 DEF Suspect
<1> HIDE DEF s, suspects
<1>8. suspects \in Tick /\ suspects.suspect = s /\ suspects.scan = None
      /\ Kept(t, suspects) /\ suspects.pos = t.pos /\ suspects.page = t.page
      /\ suspects.jump = t.jump /\ suspects.keep = t.keep /\ suspects.blocked = t.blocked
      /\ suspects.retry = t.retry
  BY <1>2, <1>6, <1>7 DEF Tick, Kept
<1>9. CASE tick.suspect # None /\ tick' = Rollback(t)
  <2>1. t.suspect = tick.suspect
    BY <1>2 DEF Alike
  <2>2. tick' \in Tick /\ RolledBack(t, tick')
    BY <1>2, <1>9, <2>1, RollbackIs
  <2>3. RolledBack(tick, tick')
    BY <1>2, <2>2 DEF RolledBack, Alike, Kept
  <2> QED
    BY <1>3, <1>4, <1>9, <2>2, <2>3 DEF FailsTo
<1>10. CASE tick.suspect = None /\ tick' = [t EXCEPT !.retry = record, !.blocked = TRUE]
  <2>1. tick' \in Tick
    BY <1>2, <1>3, <1>10 DEF Tick
  <2>2. /\ Kept(t, tick') /\ tick'.pos = t.pos /\ tick'.jump = t.jump /\ tick'.blocked
        /\ tick'.suspect = t.suspect /\ tick'.scan = t.scan /\ tick'.keep = t.keep
        /\ tick'.retry = record
    BY <1>2, <1>10 DEF Tick, Kept
  <2>3. /\ Kept(tick, tick') /\ tick'.pos = tick.pos /\ tick'.jump = tick.jump
        /\ tick'.suspect = None /\ tick'.scan = tick.scan /\ tick'.keep = tick.keep
    BY <1>2, <1>10, <2>2 DEF Alike, Kept
  <2> QED
    BY <1>3, <1>4, <1>10, <2>1, <2>2, <2>3 DEF FailsTo
<1>11. CASE /\ tick.suspect = None /\ record.attempts >= MaxAttempts
            /\ ~jumps /\ tick' = Past(suspects, m)
  <2>1. /\ tick' \in Tick /\ Behind(suspects, tick', m)
        /\ tick'.scan = None /\ tick'.suspect = s
    BY <1>8, <1>11, PastIs
  <2>2. Behind(tick, tick', m)
    BY <1>2, <1>8, <2>1 DEF Behind, Alike, Kept
  <2>3. s = [id |-> m, back |-> tick.pos, retry |-> record, jumped |-> FALSE]
    <3>1. jumps = FALSE
      BY <1>11
    <3> QED
      BY <3>1 DEF s
  <2> QED
    BY <1>3, <1>4, <1>11, <2>1, <2>2, <2>3 DEF FailsTo
<1>12. CASE /\ tick.suspect = None /\ record.attempts >= MaxAttempts
            /\ jumps
            /\ tick' = [suspects EXCEPT !.jump = [at |-> t.scan.at, done |-> t.scan.done]]
  <2> DEFINE j == [at |-> tick.scan.at, done |-> tick.scan.done]
  <2>1. t.scan = tick.scan
    BY <1>2 DEF Alike
  <2>2. tick.scan \in Place
    BY <1>1, <1>12 DEF Tick
  <2>3. j \in Position /\ j # None
    BY <2>2, Nones DEF Place, Position
  <2>4. tick' = [suspects EXCEPT !.jump = j]
    BY <1>12, <2>1
  <2> HIDE DEF j
  <2>5. tick' \in Tick
    BY <1>8, <2>3, <2>4 DEF Tick
  <2>6. /\ Kept(suspects, tick') /\ tick'.keep = suspects.keep /\ tick'.scan = None
        /\ tick'.retry = suspects.retry /\ tick'.suspect = s /\ tick'.jump = j
    BY <1>8, <2>4 DEF Tick, Kept
  <2>7. Kept(tick, tick') /\ tick'.keep = tick.keep /\ tick'.retry = tick.retry
    BY <1>2, <1>8, <2>6 DEF Kept, Alike
  <2>8. s = [id |-> m, back |-> tick.pos, retry |-> record, jumped |-> TRUE]
    <3>1. jumps = TRUE
      BY <1>12
    <3> QED
      BY <3>1 DEF s
  <2> QED
    BY <1>3, <1>4, <1>12, <2>3, <2>5, <2>6, <2>7, <2>8 DEF FailsTo, j
<1> QED
  BY <1>4, <1>9, <1>10, <1>11, <1>12

\* Both steps in which a mail fails.
LEMMA FailureSteps ==
    ASSUME TypeOK, NEW m \in Mail, HandleFails(m) \/ HandleUnknown(m)
    PROVE  /\ IsNext(m) /\ Failed(m) /\ Around /\ abandoned' = abandoned
           /\ ingested \subseteq ingested'
BY DEF HandleFails, HandleUnknown, Handled, Around, mails, history

LEMMA ParsedIs ==
    ASSUME TypeOK
    PROVE  /\ Parsed \in Saved /\ Parsed.at = cursor
           /\ Parsed.done = IF state.at = cursor THEN state.done ELSE {}
           /\ Parsed.retry \in {state.retry, None} /\ Parsed.scan \in {state.scan, None}
<1>1. state \in Saved /\ cursor \in Nat
  BY DEF TypeOK
<1>2. CASE state.at = cursor
  BY <1>1, <1>2 DEF Parsed, Saved
<1>3. CASE state.at # cursor
  BY <1>1, <1>3 DEF Parsed, Saved
<1> QED
  BY <1>2, <1>3

\* The tick that begins, before its listing.
LEMMA BeginsStep ==
    ASSUME TypeOK, TickBegins
    PROVE  /\ UNCHANGED <<mails, box, ingested, cursor, state, failures, history>>
           /\ \E t \in Tick :
                /\ tick' = Listing(t)
                /\ t.expected = cursor /\ t.pos = [at |-> cursor, done |-> Parsed.done]
                /\ t.retry = Parsed.retry /\ t.scan = Parsed.scan
                /\ t.suspect = None /\ t.keep = None /\ t.jump = None
                /\ t.from = cursor /\ t.skip = 0
<1> DEFINE p == [at |-> cursor, done |-> Parsed.done]
<1> DEFINE t == [expected |-> cursor, pos |-> p,
                 retry |-> Parsed.retry, scan |-> Parsed.scan,
                 suspect |-> None, keep |-> None, jump |-> None,
                 from |-> cursor, skip |-> 0, page |-> {}, more |-> FALSE,
                 before |-> cursor, idle |-> TRUE,
                 pages |-> 0, skipped |-> 0, processed |-> 0,
                 progressed |-> FALSE, blocked |-> FALSE]
<1>1. Parsed \in Saved /\ cursor \in Nat
  BY ParsedIs DEF TypeOK
<1>2. /\ p \in Position /\ Parsed.retry \in Failure \cup {None}
      /\ Parsed.scan \in Place \cup {None}
  BY <1>1 DEF Saved, Position
<1>3. tick' = Listing(t)
  BY DEF TickBegins
<1> HIDE DEF p
<1>4. t \in Tick
  BY <1>1, <1>2 DEF Tick
<1>5. UNCHANGED <<mails, box, ingested, cursor, state, failures, history>>
  BY DEF TickBegins
<1> QED
  BY <1>3, <1>4, <1>5 DEF p

\* The tick as it ends, with or without a verdict.
LEMMA VerdictlessIs ==
    ASSUME NEW t \in Tick
    PROVE  /\ Verdictless(t) \in Tick
           /\ t.suspect = None => Verdictless(t) = t
           /\ t.suspect # None => RolledBack(t, Verdictless(t))
BY RollbackIs DEF Verdictless

\* What is saved: position p, failure r, place c.
Saves(t, p, r, c) ==
    /\ r \in {t.retry, None} /\ c \in {t.keep, None}
    /\ \/ p = t.pos /\ excused' = excused
       \/ /\ ~t.blocked /\ p = [at |-> t.pos.at + 1, done |-> {}]
          /\ excused' = excused \cup {m \in box : date[m] = t.pos.at /\ m \notin t.pos.done}
    /\ cursor' = p.at
    /\ state' = [at |-> p.at, done |-> p.done, retry |-> r, scan |-> c]

LEMMA SaveStep ==
    ASSUME TypeOK, Save
    PROVE  /\ tick # None /\ tick' = None
           /\ UNCHANGED <<mails, box, ingested, failures, abandoned, shifted>>
           /\ \/ /\ cursor = tick.expected
                 /\ \E p \in Position, r \in Failure \cup {None}, c \in Place \cup {None} :
                      Saves(Verdictless(Ended), p, r, c)
              \/ cursor # tick.expected /\ UNCHANGED <<cursor, state, excused>>
<1> DEFINE t == Verdictless(Ended)
           r == IF t.blocked THEN t.retry ELSE None
           valve == ~t.progressed /\ ~t.blocked /\ t.more /\ t.skipped >= maxSkipPages
           p == IF valve THEN [at |-> t.pos.at + 1, done |-> {}] ELSE t.pos
           c == IF r # None /\ t.keep # None /\ t.keep.id = r.id THEN t.keep ELSE None
<1>1. tick \in Tick /\ tick # None
  BY DEF Save, TypeOK
<1>2. t \in Tick
  BY <1>1, EndedIs, VerdictlessIs
<1>3. /\ tick' = None
      /\ UNCHANGED <<mails, box, ingested, failures, abandoned, shifted>>
      /\ IF cursor = tick.expected
         THEN /\ cursor' = p.at
              /\ state' = [at |-> p.at, done |-> p.done, retry |-> r, scan |-> c]
              /\ excused' = IF valve
                 THEN excused \cup {m \in box : date[m] = t.pos.at /\ m \notin t.pos.done}
                 ELSE excused
         ELSE UNCHANGED <<cursor, state, excused>>
  BY DEF Save
<1> HIDE DEF t
<1>4. t.pos \in Position /\ t.retry \in Failure \cup {None} /\ t.keep \in Place \cup {None}
  BY <1>2 DEF Tick
<1>5. r \in {t.retry, None} /\ c \in {t.keep, None}
  OBVIOUS
<1>6. valve => ~t.blocked
  OBVIOUS
<1>7. p \in Position
  <2>1. t.pos.at + 1 \in Nat
    BY <1>4 DEF Position
  <2> QED
    BY <1>4, <2>1 DEF Position
<1>8. (p = t.pos /\ ~valve) \/ (p = [at |-> t.pos.at + 1, done |-> {}] /\ valve)
  OBVIOUS
<1> HIDE DEF valve, p, r, c
<1>9. CASE cursor = tick.expected
  <2>1. Saves(t, p, r, c)
    BY <1>3, <1>5, <1>6, <1>8, <1>9 DEF Saves
  <2>2. r \in Failure \cup {None} /\ c \in Place \cup {None}
    BY <1>4, <1>5
  <2> QED
    BY <1>1, <1>3, <1>7, <1>9, <2>1, <2>2 DEF t
<1>10. CASE cursor # tick.expected
  BY <1>1, <1>3, <1>10
<1> QED
  BY <1>9, <1>10

-----------------------------------------------------------------------------
\* Types.

LEMMA InitType == Init => TypeOK
<1> SUFFICES ASSUME Init PROVE TypeOK
  OBVIOUS
<1>1. Mail \subseteq Nat
  BY MailFacts
<1>2. maxSkipPages \in Nat
  BY Limits DEF Init
<1>3. date \in [Mail -> Nat] /\ \A m, e \in Mail : e <= m => date[e] <= date[m]
  BY <1>1 DEF Init
<1>4. box \subseteq Mail /\ cursor \in Nat /\ writer \subseteq Mail \ Excluded
  BY DEF Init
<1>5. state \in Saved /\ tick = None
  BY DEF Init, Saved
<1>6. failures \in [Mail -> 0..MaxAttempts]
  BY Limits DEF Init
<1> QED
  BY <1>2, <1>3, <1>4, <1>5, <1>6 DEF TypeOK

LEMMA FailuresGrow ==
    ASSUME failures \in [Mail -> 0..MaxAttempts], NEW m \in Mail,
           failures' = [failures EXCEPT ![m] = IF @ < MaxAttempts THEN @ + 1 ELSE @]
    PROVE  /\ failures' \in [Mail -> 0..MaxAttempts]
           /\ \A x \in Mail : failures[x] <= failures'[x]
           /\ failures'[m] = IF failures[m] < MaxAttempts THEN failures[m] + 1
                             ELSE MaxAttempts
BY Limits

LEMMA HandleType ==
    ASSUME TypeOK, Handle
    PROVE  TypeOK'
<1>1. PICK m \in Mail : \/ PassOver(m) \/ HandleSilent(m)
                        \/ HandleWrites(m)
                        \/ HandleFails(m) \/ HandleUnknown(m)
  BY DEF Handle
<1>2. CASE PassOver(m) \/ HandleSilent(m)
  BY <1>2, SilentStep DEF TypeOK, Around, mails
<1>3. CASE HandleWrites(m)
  BY <1>3, WritesStep DEF TypeOK, Around, mails
<1>4. CASE HandleFails(m) \/ HandleUnknown(m)
  <2>1. IsNext(m) /\ Failed(m) /\ Around
    BY <1>4, FailureSteps
  <2>2. /\ tick' \in Tick
        /\ failures' = [failures EXCEPT ![m] = IF @ < MaxAttempts THEN @ + 1 ELSE @]
    BY <2>1, FailsStep
  <2>3. failures' \in [Mail -> 0..MaxAttempts]
    BY <2>2, FailuresGrow DEF TypeOK
  <2> QED
    BY <2>1, <2>2, <2>3 DEF TypeOK, Around, mails
<1> QED
  BY <1>1, <1>2, <1>3, <1>4

LEMMA StepType ==
    ASSUME TypeOK, [Next]_vars
    PROVE  TypeOK'
<1>1. CASE UNCHANGED vars
  BY <1>1 DEF TypeOK, vars, mails
<1>2. CASE TickBegins
  BY <1>2, BeginsStep, ListingIs DEF TypeOK, mails, TickBegins
<1>3. CASE Handle
  BY <1>3, HandleType
<1>4. CASE NextPage
  <2>1. tick \in Tick
    BY <1>4 DEF NextPage, TypeOK
  <2>2. tick' \in Tick
    BY <1>4, <2>1, EndedIs, ListingIs DEF NextPage
  <2> QED
    BY <1>4, <2>2 DEF NextPage, TypeOK, mails
<1>5. CASE Save
  <2>1. UNCHANGED <<mails, box, failures>> /\ tick' = None
    BY <1>5, SaveStep
  <2>2. cursor' \in Nat /\ state' \in Saved
    <3>1. CASE cursor # tick.expected
      BY <1>5, <3>1, SaveStep DEF TypeOK
    <3>2. CASE cursor = tick.expected
      <4>1. PICK p \in Position, r \in Failure \cup {None}, c \in Place \cup {None} :
              Saves(Verdictless(Ended), p, r, c)
        BY <1>5, <3>2, SaveStep
      <4>2. cursor' = p.at /\ state' = [at |-> p.at, done |-> p.done, retry |-> r, scan |-> c]
        BY <4>1 DEF Saves
      <4> QED
        BY <4>2 DEF Position, Saved
    <3> QED
      BY <3>1, <3>2
  <2> QED
    BY <2>1, <2>2 DEF TypeOK, mails
<1>6. CASE ListingFails
  <2>1. state' = [Parsed EXCEPT !.scan = None]
    BY <1>6 DEF ListingFails
  <2>2. state' \in Saved
    BY <2>1, ParsedIs DEF Saved
  <2> QED
    BY <1>6, <2>2 DEF ListingFails, TypeOK, mails
<1>7. CASE TickDies \/ Ages \/ Breaks \/ Recovers
  BY <1>7 DEF TickDies, Ages, Breaks, Recovers, TypeOK, mails
<1>8. CASE \E m \in Mail : Appears(m) \/ Vanishes(m)
  BY <1>8 DEF Appears, Vanishes, TypeOK, mails
<1>9. CASE \E c \in {1, cursor + 1} : AdminMoves(c)
  <2>1. cursor' \in Nat
    BY <1>9 DEF AdminMoves, TypeOK
  <2> QED
    BY <1>9, <2>1 DEF AdminMoves, TypeOK, mails
<1> QED
  BY <1>1, <1>2, <1>3, <1>4, <1>5, <1>6, <1>7, <1>8, <1>9 DEF Next, TickStep

-----------------------------------------------------------------------------
\* The failures are counted.

\* A failure that is kept, or one less.
LEMMA CountedStays ==
    ASSUME NEW r \in Failure \cup {None}, NEW u \in {r, None}, Counted(r),
           failures' \in [Mail -> 0..MaxAttempts], failures \in [Mail -> 0..MaxAttempts],
           \A x \in Mail : failures[x] <= failures'[x]
    PROVE  Counted(u)'
<1>1. CASE u = None
  BY <1>1 DEF Counted
<1>2. CASE u # None
  <2>1. u = r /\ r \in Failure
    BY <1>2
  <2>2. r.id \in Mail /\ r.attempts \in Nat
    BY <2>1 DEF Failure
  <2>3. r.attempts <= failures[r.id] /\ failures[r.id] <= failures'[r.id]
    BY <1>2, <2>1, <2>2 DEF Counted
  <2>4. failures[r.id] \in Nat /\ failures'[r.id] \in Nat
    BY <2>2, Limits
  <2> QED
    BY <2>1, <2>2, <2>3, <2>4 DEF Counted
<1> QED
  BY <1>1, <1>2

LEMMA HandleCounts ==
    ASSUME TypeOK, TypeOK', CountInv, Handle
    PROVE  CountInv'
<1>1. PICK m \in Mail : \/ PassOver(m) \/ HandleSilent(m)
                        \/ HandleWrites(m)
                        \/ HandleFails(m) \/ HandleUnknown(m)
  BY DEF Handle
<1>2. IsNext(m)
  BY <1>1 DEF PassOver, HandleSilent, HandleWrites, HandleFails, HandleUnknown, Handled
<1>3. tick \in Tick /\ tick # None
  BY <1>2, Underway, Nones
<1>4. /\ Counted(state.retry) /\ Counted(tick.retry)
      /\ \A x \in abandoned : x \in Mail /\ failures[x] >= MaxAttempts
      /\ tick.suspect # None => /\ failures[tick.suspect.id] >= MaxAttempts
                                /\ Counted(tick.suspect.retry)
  BY <1>3 DEF CountInv
<1>5. /\ state.retry \in Failure \cup {None} /\ tick.retry \in Failure \cup {None}
      /\ tick.suspect \in Suspect \cup {None}
      /\ failures \in [Mail -> 0..MaxAttempts] /\ failures' \in [Mail -> 0..MaxAttempts]
  BY <1>3 DEF TypeOK, Tick, Saved
<1>6. tick.suspect # None => tick.suspect.id \in Mail /\ tick.suspect.retry \in Failure
  BY <1>5 DEF Suspect
<1>7. CASE PassOver(m) \/ HandleSilent(m)
  <2>1. /\ Around /\ UNCHANGED <<abandoned, failures>>
        /\ tick'.retry \in {tick.retry, None} /\ tick'.suspect = tick.suspect
    BY <1>7, SilentStep DEF Behind
  <2> QED
    BY <1>4, <2>1 DEF CountInv, Around, Counted
<1>8. CASE HandleWrites(m)
  <2>1. /\ Around /\ failures' = failures
        /\ tick'.suspect = None /\ tick'.retry \in {tick.retry, None}
        /\ \/ abandoned' = abandoned
           \/ tick.suspect # None /\ abandoned' = abandoned \cup {tick.suspect.id}
    BY <1>8, WritesStep DEF Behind
  <2> QED
    BY <1>4, <1>6, <2>1 DEF CountInv, Around, Counted
<1>9. CASE HandleFails(m) \/ HandleUnknown(m)
  <2>1. Failed(m) /\ Around /\ abandoned' = abandoned
    BY <1>9, FailureSteps
  <2>2. failures' = [failures EXCEPT ![m] = IF @ < MaxAttempts THEN @ + 1 ELSE @]
    BY <1>2, <2>1, FailsStep
  <2>3. /\ \A x \in Mail : failures[x] <= failures'[x]
        /\ failures'[m] = IF failures[m] < MaxAttempts THEN failures[m] + 1 ELSE MaxAttempts
    BY <1>5, <2>2, FailuresGrow
  <2>4. \A x \in Mail : failures[x] >= MaxAttempts => failures'[x] >= MaxAttempts
    BY <1>5, <2>3, Limits
  <2>5. Counted(state.retry)'
    BY <1>4, <1>5, <2>1, <2>3, CountedStays DEF Around
  <2>6. \A x \in abandoned' : x \in Mail /\ failures'[x] >= MaxAttempts
    BY <1>4, <2>1, <2>4
  <2>7. PICK r \in Failure :
          /\ r.id = m
          /\ \/ r.attempts = 1
             \/ /\ tick.retry # None /\ tick.retry.id = m
                /\ r.attempts <= tick.retry.attempts + 1
          /\ FailsTo(m, r)
    BY <1>2, <2>1, FailsStep
  <2>8. r.attempts <= failures'[m]
    <3>1. r.attempts \in 1..MaxAttempts
      BY DEF Failure
    <3>2. tick.retry # None /\ tick.retry.id = m
            => tick.retry.attempts \in Nat /\ tick.retry.attempts <= failures[m]
      BY <1>4, <1>5 DEF Counted, Failure
    <3>3. failures[m] \in 0..MaxAttempts
      BY <1>5
    <3> QED
      BY <2>3, <2>7, <3>1, <3>2, <3>3, Limits
  <2>9. Counted(r)'
    BY <2>7, <2>8 DEF Counted
  <2>10. r.attempts >= MaxAttempts => failures'[m] >= MaxAttempts
    BY <1>5, <2>8, Limits DEF Failure
  <2>12. \A u \in {tick.retry, None} : Counted(u)'
    BY <1>4, <1>5, <2>3, CountedStays
  <2>13. CASE tick.suspect # None /\ RolledBack(tick, tick')
    <3>1. tick'.suspect = None /\ tick'.retry = tick.suspect.retry
      BY <2>13 DEF RolledBack
    <3>2. Counted(tick.suspect.retry) /\ tick.suspect.retry \in Failure
      BY <1>4, <1>6, <2>13
    <3>3. \A u \in {tick.suspect.retry, None} : Counted(u)'
      BY <1>5, <2>3, <3>2, CountedStays
    <3> QED
      BY <2>5, <2>6, <3>1, <3>3 DEF CountInv, Counted
  <2>14. CASE tick'.suspect = None /\ tick'.retry = r
    BY <2>5, <2>6, <2>9, <2>14 DEF CountInv
  <2>15. CASE /\ tick'.retry \in {tick.retry, None}
              /\ r.attempts >= MaxAttempts
              /\ \E j \in BOOLEAN :
                   tick'.suspect = [id |-> m, back |-> tick.pos, retry |-> r, jumped |-> j]
    <3>1. tick'.suspect.id = m /\ tick'.suspect.retry = r
      BY <2>15
    <3> QED
      BY <2>5, <2>6, <2>9, <2>10, <2>12, <2>15, <3>1 DEF CountInv
  <2> QED
    BY <2>7, <2>13, <2>14, <2>15 DEF FailsTo, Behind
<1> QED
  BY <1>1, <1>7, <1>8, <1>9

LEMMA StepCounts ==
    ASSUME TypeOK, TypeOK', CountInv, [Next]_vars
    PROVE  CountInv'
<1>1. CASE UNCHANGED vars
  BY <1>1 DEF CountInv, Counted, vars
<1>2. CASE Handle
  BY <1>2, HandleCounts
<1>3. Counted(Parsed.retry)
  BY ParsedIs DEF CountInv, Counted
<1>4. CASE TickBegins
  <2>1. PICK t \in Tick : tick' = Listing(t) /\ t.retry = Parsed.retry /\ t.suspect = None
    BY <1>4, BeginsStep
  <2>2. tick'.retry = Parsed.retry /\ tick'.suspect = None
    BY <2>1, ListingIs
  <2>3. UNCHANGED <<state, failures, abandoned>>
    BY <1>4, BeginsStep DEF history
  <2> QED
    BY <1>3, <2>2, <2>3 DEF CountInv, Counted
<1>5. CASE NextPage
  <2>1. tick \in Tick /\ tick # None
    BY <1>5 DEF NextPage, TypeOK
  <2>2. tick'.retry = tick.retry /\ tick'.suspect = tick.suspect
    BY <1>5, <2>1, EndedIs, ListingIs DEF NextPage
  <2>3. UNCHANGED <<state, failures, abandoned>>
    BY <1>5 DEF NextPage, history
  <2> QED
    BY <2>1, <2>2, <2>3 DEF CountInv, Counted
<1>6. CASE Save
  <2>1. tick # None /\ tick' = None /\ UNCHANGED <<failures, abandoned>>
    BY <1>6, SaveStep
  <2>2. Counted(state.retry)'
    <3>1. CASE cursor # tick.expected
      BY <1>6, <2>1, <3>1, SaveStep DEF CountInv, Counted
    <3>2. CASE cursor = tick.expected
      <4>1. PICK p \in Position, r \in Failure \cup {None}, c \in Place \cup {None} :
              Saves(Verdictless(Ended), p, r, c)
        BY <1>6, <3>2, SaveStep
      <4>2. state'.retry = r /\ r \in {Verdictless(Ended).retry, None}
        BY <4>1 DEF Saves
      <4>3. Counted(Verdictless(Ended).retry)
        <5>1. tick \in Tick
          BY <2>1 DEF TypeOK
        <5>2. Ended \in Tick /\ Ended.retry = tick.retry /\ Ended.suspect = tick.suspect
          BY <5>1, EndedIs
        <5>3. CASE tick.suspect = None
          BY <2>1, <5>2, <5>3, VerdictlessIs DEF CountInv
        <5>4. CASE tick.suspect # None
          BY <2>1, <5>2, <5>4, VerdictlessIs DEF CountInv, RolledBack
        <5> QED
          BY <5>3, <5>4
      <4>4. Counted(r)
        BY <4>2, <4>3 DEF Counted
      <4> QED
        BY <2>1, <4>2, <4>4 DEF Counted
    <3> QED
      BY <3>1, <3>2
  <2> QED
    BY <2>1, <2>2 DEF CountInv
<1>7. CASE ListingFails
  <2>1. state'.retry = Parsed.retry
    BY <1>7, ParsedIs DEF ListingFails, Saved
  <2>2. UNCHANGED <<tick, failures, abandoned>>
    BY <1>7 DEF ListingFails, history
  <2> QED
    BY <1>3, <2>1, <2>2 DEF CountInv, Counted
<1>8. CASE TickDies \/ Ages \/ Breaks \/ Recovers
  <2>1. UNCHANGED <<state, failures, abandoned>> /\ (tick' = tick \/ tick' = None)
    BY <1>8 DEF TickDies, Ages, Breaks, Recovers, history
  <2> QED
    BY <2>1 DEF CountInv, Counted
<1>9. CASE \E m \in Mail : Appears(m) \/ Vanishes(m)
  <2>1. UNCHANGED <<state, failures, abandoned, tick>>
    BY <1>9 DEF Appears, Vanishes
  <2> QED
    BY <2>1 DEF CountInv, Counted
<1>10. CASE \E c \in {1, cursor + 1} : AdminMoves(c)
  <2>1. UNCHANGED <<state, failures, tick>> /\ abandoned' \subseteq abandoned
    BY <1>10 DEF AdminMoves
  <2> QED
    BY <2>1 DEF CountInv, Counted
<1> QED
  BY <1>1, <1>2, <1>4, <1>5, <1>6, <1>7, <1>8, <1>9, <1>10 DEF Next, TickStep

-----------------------------------------------------------------------------
\* The loop of a tick.

\* What is left of a page once its first mail is behind.
LEMMA PageAfter ==
    ASSUME TypeOK, NEW t \in Tick, Page(t), NEW m \in t.page, \A e \in t.page : m <= e,
           NEW u, u.from = t.from, u.skip = t.skip, u.pos = After(t.pos, m),
           u.page = t.page \ {m}
    PROVE  Page(u)
<1>1. t.pos \in Position /\ t.page \in SUBSET Mail /\ m \in Mail /\ t.from \in Nat
  BY DEF Tick
<1>2. t.from <= t.pos.at /\ ~Passed(t.pos, m)
  BY DEF Page
<1>3. After(t.pos, m).at = date[m] /\ t.pos.at <= date[m] /\ date[m] \in Nat
  BY <1>1, <1>2, PassedAfter DEF TypeOK
<1>4. u.from <= u.pos.at
  BY <1>1, <1>2, <1>3 DEF Position
<1>5. ASSUME NEW e \in u.page
      PROVE  ~Passed(u.pos, e) /\ Reached(u, e)
  <2>1. e \in t.page /\ e # m /\ e \in Mail /\ ~Passed(t.pos, e) /\ Reached(t, e)
    BY <1>1, <1>5 DEF Page
  <2>2. m <= e /\ date[m] <= date[e] /\ date[e] \in Nat
    BY <1>1, <2>1 DEF TypeOK
  <2>3. ~Passed(u.pos, e)
    BY <1>1, <1>2, <1>3, <2>1, <2>2, PassedAfter
  <2>4. Reached(u, e)
    BY <2>1 DEF Reached
  <2> QED
    BY <2>3, <2>4
<1> QED
  BY <1>4, <1>5 DEF Page

\* The page that a tick lists, at an offset or from its position.
LEMMA PageListed ==
    ASSUME TypeOK, NEW t \in Tick, t.from <= t.pos.at
    PROVE  Page(Listing(t))
<1>1. /\ Listing(t).page = {m \in ListedFrom(t.from) :
                              /\ Rank(m, t.from) \in t.skip..t.skip + PageSize - 1
                              /\ ~Passed(t.pos, m)}
      /\ Listing(t).from = t.from /\ Listing(t).skip = t.skip /\ Listing(t).pos = t.pos
  BY ListingIs
<1>2. ASSUME NEW m \in Listing(t).page
      PROVE  ~Passed(t.pos, m) /\ date[m] >= t.from /\ Rank(m, t.from) < t.skip + PageSize
  <2>1. m \in ListedFrom(t.from) /\ ~Passed(t.pos, m)
        /\ Rank(m, t.from) \in t.skip..t.skip + PageSize - 1
    BY <1>1, <1>2
  <2>2. m \in Mail /\ date[m] >= t.from
    BY <2>1 DEF ListedFrom, TypeOK
  <2>3. Rank(m, t.from) \in Nat /\ t.skip \in Nat
    BY <2>2, RankType DEF Tick
  <2> QED
    BY <2>1, <2>2, <2>3, Limits
<1> QED
  BY <1>1, <1>2 DEF Page, Reached

\* Where the tick ends or lists its next page.
LEMMA PageEnds ==
    ASSUME TypeOK, tick \in Tick, Loop(tick), PageDone, ~tick.blocked
    PROVE  Ended.from <= Ended.pos.at
<1>1. Ahd(tick) \in Position
  BY DEF Ahd, Tick
<1>2. CASE Ended.from = Ahd(tick).at
  BY <1>1, <1>2, EndedIs DEF Position
<1>3. CASE tick.jump = None /\ Skips(tick) /\ Ended.from = tick.from
  <2>1. tick.page = {}
    BY <1>3 DEF PageDone
  <2>2. Counts(tick)
    BY <1>3, <2>1 DEF Counts
  <2> QED
    BY <1>3, <2>2, EndedIs DEF Loop, Page, Ahd
<1> QED
  BY <1>2, <1>3, EndedIs

LEMMA PageKept ==
    ASSUME UNCHANGED <<date, box>>, NEW u, Page(u)
    PROVE  Page(u)'
BY DEF Page, Passed, Reached, Rank, ListedFrom

LEMMA HandleLoops ==
    ASSUME TypeOK, TypeOK', LoopInv, Handle
    PROVE  LoopInv'
<1>1. PICK m \in Mail : \/ PassOver(m) \/ HandleSilent(m)
                        \/ HandleWrites(m)
                        \/ HandleFails(m) \/ HandleUnknown(m)
  BY DEF Handle
<1>2. IsNext(m)
  BY <1>1 DEF PassOver, HandleSilent, HandleWrites, HandleFails, HandleUnknown, Handled
<1>3. Around /\ tick' \in Tick
  BY <1>1, <1>2, SilentStep, WritesStep, FailureSteps, FailsStep
<1>4. date' = date /\ box' = box /\ state' = state
  BY <1>3 DEF Around, mails
<1>5. /\ tick \in Tick /\ Counts(tick) /\ tick.jump = None /\ ~tick.blocked
      /\ m \in tick.page /\ \A e \in tick.page : m <= e
      /\ tick.pos \in Position /\ tick.page \in SUBSET Mail /\ tick # None
  BY <1>2, Underway, Nones
<1>6. Places(tick) /\ Page(tick)
  BY <1>5 DEF LoopInv, Loop
<1>7. /\ After(tick.pos, m).at = date[m] /\ tick.pos.at <= date[m]
      /\ After(tick.pos, m) \in Position
  BY <1>5, <1>6, PassedAfter, AfterIs DEF Page
<1>8. /\ tick.suspect # None => /\ tick.suspect \in Suspect /\ tick.suspect.id \in Mail
                                /\ tick.suspect.back.at \in Nat
      /\ tick.scan # None => tick.scan.id \in Mail /\ tick.scan.at \in Nat
      /\ date \in [Mail -> Nat] /\ tick.pos.at \in Nat
  BY <1>5 DEF Tick, Suspect, Place, Position, TypeOK
<1>9. /\ tick.scan # None => date[tick.scan.id] <= tick.scan.at
      /\ tick.keep # None => date[tick.keep.id] <= tick.keep.at
      /\ tick.suspect # None => /\ tick.suspect.back.at <= date[tick.suspect.id]
                                /\ date[tick.suspect.id] <= tick.pos.at
  BY <1>5, <1>6 DEF Places, Ahd
<1>10. SUFFICES Places(tick)' /\ (Counts(tick)' => Page(tick)')
  <2>1. state.scan # None => date[state.scan.id] <= state.scan.at
    BY DEF LoopInv
  <2> QED
    BY <1>4, <2>1 DEF LoopInv, Loop
<1>11. Behind(tick, tick', m) => Page(tick)' /\ tick'.jump = None /\ tick'.keep = tick.keep
                                 /\ tick'.pos = After(tick.pos, m)
  <2>1. Behind(tick, tick', m) => Page(tick')
    BY <1>5, <1>6, PageAfter DEF Behind, Kept
  <2> QED
    BY <1>4, <1>5, <2>1, PageKept DEF Behind
<1>12. CASE PassOver(m) \/ HandleSilent(m)
  <2>1. Behind(tick, tick', m) /\ tick'.suspect = tick.suspect /\ tick'.scan = tick.scan
    BY <1>12, SilentStep
  <2>2. tick.suspect # None => date[tick.suspect.id] <= date[m]
    BY <1>7, <1>8, <1>9
  <2> QED
    BY <1>4, <1>7, <1>9, <1>11, <2>1, <2>2 DEF Places, Ahd
<1>13. CASE HandleWrites(m)
  <2>1. /\ tick'.suspect = None /\ tick'.scan = tick.scan
        /\ \/ Behind(tick, tick', m)
           \/ tick'.keep = tick.keep /\ tick'.jump # None
    BY <1>13, WritesStep
  <2>2. Places(tick)'
    BY <1>4, <1>9, <2>1 DEF Places, Behind
  <2>3. Counts(tick)' => Page(tick)'
    BY <1>11, <2>1 DEF Counts
  <2> QED
    BY <2>2, <2>3
<1>14. CASE HandleFails(m) \/ HandleUnknown(m)
  <2>1. PICK r \in Failure : r.id = m /\ FailsTo(m, r)
    BY <1>2, <1>14, FailureSteps, FailsStep
  <2>2. CASE tick.suspect # None /\ RolledBack(tick, tick')
    <3>1. /\ tick'.suspect = None /\ tick'.scan = tick.scan /\ tick'.blocked
          /\ tick'.keep.id = tick.suspect.id /\ tick'.keep.at = tick.pos.at
      BY <2>2 DEF RolledBack
    <3>2. Places(tick)'
      BY <1>4, <1>9, <2>2, <3>1 DEF Places
    <3> QED
      BY <3>1, <3>2 DEF Counts
  <2>3. CASE /\ tick'.suspect = None /\ tick'.scan = tick.scan /\ tick'.keep = tick.keep
             /\ tick'.blocked
    BY <1>4, <1>9, <2>3 DEF Places, Counts
  <2>4. CASE /\ tick'.suspect = [id |-> m, back |-> tick.pos, retry |-> r, jumped |-> FALSE]
             /\ tick'.scan = None /\ Behind(tick, tick', m)
    <3>1. tick'.suspect.id = m /\ tick'.suspect.back = tick.pos
      BY <2>4
    <3>2. Places(tick)'
      BY <1>4, <1>7, <1>8, <1>9, <1>11, <2>4, <3>1 DEF Places, Ahd
    <3> QED
      BY <1>11, <2>4, <3>2
  <2>5. CASE /\ tick'.suspect = [id |-> m, back |-> tick.pos, retry |-> r, jumped |-> TRUE]
             /\ tick.scan # None /\ tick.scan.id = m
             /\ tick'.jump = [at |-> tick.scan.at, done |-> tick.scan.done]
             /\ tick'.jump # None /\ tick'.keep = tick.keep /\ tick'.scan = None
    <3>1. /\ tick'.suspect.id = m /\ tick'.suspect.back = tick.pos
          /\ tick'.jump.at = tick.scan.at
      BY <2>5
    <3>2. Places(tick)'
      BY <1>4, <1>7, <1>9, <2>5, <3>1 DEF Places, Ahd
    <3> QED
      BY <2>5, <3>2 DEF Counts
  <2> QED
    BY <2>1, <2>2, <2>3, <2>4, <2>5 DEF FailsTo
<1> QED
  BY <1>1, <1>12, <1>13, <1>14

LEMMA StepLoops ==
    ASSUME TypeOK, TypeOK', LoopInv, [Next]_vars
    PROVE  LoopInv'
<1>1. state.scan # None => date[state.scan.id] <= state.scan.at
  BY DEF LoopInv
<1>2. Parsed.scan # None => date[Parsed.scan.id] <= Parsed.scan.at
  BY <1>1, ParsedIs
<1>3. CASE UNCHANGED vars
  <2>1. UNCHANGED <<date, box, state, tick>>
    BY <1>3 DEF vars
  <2>2. tick' # None => Loop(tick)'
    BY <2>1, PageKept DEF LoopInv, Loop, Places, Ahd, Counts, Skips
  <2> QED
    BY <1>1, <2>1, <2>2 DEF LoopInv
<1>4. CASE Handle
  BY <1>4, HandleLoops
<1>5. CASE TickBegins
  <2>1. UNCHANGED <<date, box, state>>
    BY <1>5, BeginsStep DEF mails
  <2>2. PICK t \in Tick :
          /\ tick' = Listing(t)
          /\ t.expected = cursor /\ t.pos = [at |-> cursor, done |-> Parsed.done]
          /\ t.scan = Parsed.scan
          /\ t.suspect = None /\ t.keep = None /\ t.jump = None
          /\ t.from = cursor /\ t.skip = 0
    BY <1>5, BeginsStep
  <2>3. t.from <= t.pos.at
    BY <2>2 DEF TypeOK
  <2>4. Page(tick)'
    BY <2>1, <2>2, <2>3, PageListed, PageKept
  <2>5. tick'.scan = Parsed.scan /\ tick'.keep = None /\ tick'.suspect = None
    BY <2>2, ListingIs
  <2>6. Places(tick)'
    BY <1>2, <2>1, <2>5 DEF Places
  <2> QED
    BY <1>1, <2>1, <2>4, <2>6 DEF LoopInv, Loop
<1>6. CASE NextPage
  <2>1. /\ tick \in Tick /\ tick # None /\ PageDone /\ tick' = Listing(Ended)
        /\ ~Ended.blocked /\ UNCHANGED <<date, box, state>>
    BY <1>6 DEF NextPage, TypeOK, mails, GoesOn
  <2>2. Ended \in Tick /\ Ended.pos = Ahd(tick) /\ ~tick.blocked /\ Ended.jump = None
        /\ Ended.scan = tick.scan /\ Ended.keep = tick.keep /\ Ended.suspect = tick.suspect
    BY <2>1, EndedIs
  <2>3. Loop(tick)
    BY <2>1 DEF LoopInv
  <2>4. Page(tick)'
    BY <2>1, <2>2, <2>3, PageEnds, PageListed, PageKept
  <2>5. /\ tick'.scan = tick.scan /\ tick'.keep = tick.keep /\ tick'.suspect = tick.suspect
        /\ tick'.pos = Ahd(tick) /\ tick'.jump = None
    BY <2>1, <2>2, ListingIs
  <2>6. Places(tick)'
    BY <2>1, <2>3, <2>5 DEF Places, Ahd, Loop
  <2> QED
    BY <1>1, <2>1, <2>4, <2>6 DEF LoopInv, Loop
<1>7. CASE Save
  <2>1. tick # None /\ tick' = None /\ date' = date
    BY <1>7, SaveStep DEF mails
  <2>2. CASE cursor # tick.expected
    <3>1. state' = state
      BY <1>7, <2>2, SaveStep
    <3> QED
      BY <1>1, <2>1, <3>1 DEF LoopInv
  <2>3. CASE cursor = tick.expected
    <3>1. PICK p \in Position, r \in Failure \cup {None}, c \in Place \cup {None} :
            Saves(Verdictless(Ended), p, r, c)
      BY <1>7, <2>3, SaveStep
    <3>2. state'.scan = c /\ c \in {Verdictless(Ended).keep, None}
      BY <3>1 DEF Saves
    <3>3. /\ tick \in Tick /\ Places(tick)
          /\ Ended \in Tick /\ Ended.keep = tick.keep /\ Ended.suspect = tick.suspect
          /\ Ended.pos = Ahd(tick)
      BY <2>1, EndedIs DEF TypeOK, LoopInv, Loop
    <3>4. c # None => date[c.id] <= c.at
      <4>1. CASE tick.suspect = None
        BY <3>2, <3>3, <4>1, VerdictlessIs DEF Places
      <4>2. CASE tick.suspect # None
        <5>1. RolledBack(Ended, Verdictless(Ended))
          BY <3>3, <4>2, VerdictlessIs
        <5>2. /\ Verdictless(Ended).keep.id = tick.suspect.id
              /\ Verdictless(Ended).keep.at = Ahd(tick).at
          BY <3>3, <5>1 DEF RolledBack
        <5> QED
          BY <3>2, <3>3, <4>2, <5>2 DEF Places
      <4> QED
        BY <4>1, <4>2
    <3> QED
      BY <2>1, <3>2, <3>4 DEF LoopInv
  <2> QED
    BY <2>2, <2>3
<1>8. CASE ListingFails
  <2>1. state'.scan = None /\ tick = None /\ tick' = None
    BY <1>8, ParsedIs DEF ListingFails, Saved
  <2> QED
    BY <2>1 DEF LoopInv
<1>9. CASE TickDies
  <2>1. UNCHANGED <<state, date>> /\ tick' = None
    BY <1>9 DEF TickDies, mails
  <2> QED
    BY <1>1, <2>1 DEF LoopInv
<1>10. CASE Ages \/ Breaks \/ Recovers \/ \E c \in {1, cursor + 1} : AdminMoves(c)
  <2>1. UNCHANGED <<date, box, state, tick>>
    BY <1>10 DEF Ages, Breaks, Recovers, AdminMoves, mails
  <2>2. tick' # None => Loop(tick)'
    BY <2>1, PageKept DEF LoopInv, Loop, Places, Ahd, Counts, Skips
  <2> QED
    BY <1>1, <2>1, <2>2 DEF LoopInv
<1>11. CASE \E m \in Mail : Appears(m) \/ Vanishes(m)
  <2>1. UNCHANGED <<date, state, tick>> /\ ListsNext
    BY <1>11 DEF Appears, Vanishes, mails
  <2>2. ASSUME tick # None PROVE Loop(tick)'
    <3>1. tick \in Tick /\ PageDone /\ ~Ended.blocked /\ Loop(tick)
      BY <2>1, <2>2 DEF ListsNext, GoesOn, TypeOK, LoopInv
    <3>2. ~tick.blocked
      BY <3>1, EndedIs
    <3>3. tick.page = {} \/ ~Counts(tick)
      BY <3>1, <3>2 DEF PageDone, Counts
    <3>4. Counts(tick)' => Counts(tick)
      BY <2>1 DEF Counts, Skips
    <3>5. Counts(tick)' => Page(tick)'
      BY <2>1, <3>1, <3>3, <3>4 DEF Loop, Page
    <3>6. Places(tick)'
      BY <2>1, <3>1 DEF Loop, Places, Ahd
    <3> QED
      BY <3>5, <3>6 DEF Loop
  <2> QED
    BY <1>1, <2>1, <2>2 DEF LoopInv
<1> QED
  BY <1>3, <1>4, <1>5, <1>6, <1>7, <1>8, <1>9, <1>10, <1>11 DEF Next, TickStep

-----------------------------------------------------------------------------
\* What positions and pages leave behind.

LEMMA SoundKept ==
    ASSUME UNCHANGED <<date, writer>>, box' \subseteq box,
           NEW pos, NEW V, NEW W, V \subseteq W, Sound(pos, V)
    PROVE  Sound(pos, W)'
BY DEF Sound

LEMMA SoundMore ==
    ASSUME NEW pos, NEW V, NEW W, V \subseteq W, Sound(pos, V)
    PROVE  Sound(pos, W)
BY DEF Sound

LEMMA ReadKept ==
    ASSUME UNCHANGED <<date, writer, box>>, Seen \subseteq Seen', NEW t, Read(t)
    PROVE  Read(t)'
BY DEF Read, Reached, Passed, Rank, ListedFrom

\* What is before the first mail of a page has been read.
LEMMA SoundAfter ==
    ASSUME TypeOK, NEW t \in Tick, Page(t), NEW m \in t.page, \A e \in t.page : m <= e,
           Read(t), NEW V, Seen \subseteq V, Sound(t.pos, V), m \in writer => m \in V
    PROVE  Sound(After(t.pos, m), V)
<1>1. t.pos \in Position /\ t.page \in SUBSET Mail /\ m \in Mail /\ t.pos.at \in Nat
      /\ t.from \in Nat /\ t.skip \in Nat
  BY DEF Tick, Position
<1>2. t.from <= t.pos.at /\ ~Passed(t.pos, m) /\ Reached(t, m)
  BY DEF Page
<1>3. After(t.pos, m).at = date[m] /\ t.pos.at <= date[m] /\ date[m] \in Nat
  BY <1>1, <1>2, PassedAfter DEF TypeOK
<1>4. ASSUME NEW e \in writer \cap After(t.pos, m).done, date[e] = date[m]
      PROVE  e \in V
  <2>1. CASE e = m
    BY <2>1
  <2>2. CASE e # m
    <3>1. e \in t.pos.done /\ ~(date[m] > t.pos.at)
      BY <1>1, <2>2 DEF After, Position
    <3>2. date[e] = t.pos.at
      BY <1>1, <1>3, <1>4, <3>1
    <3> QED
      BY <3>1, <3>2 DEF Sound
  <2> QED
    BY <2>1, <2>2
<1>5. ASSUME NEW e \in writer \cap box, date[e] < date[m]
      PROVE  e \in V
  <2>1. e \in Mail /\ date[e] \in Nat /\ e \in Nat /\ m \in Nat
    BY <1>1, MailFacts DEF TypeOK
  <2>2. CASE date[e] < t.pos.at
    BY <2>2 DEF Sound
  <2>3. CASE ~(date[e] < t.pos.at)
    <3>1. ~(m <= e)
      BY <1>1, <1>3, <1>5, <2>1 DEF TypeOK
    <3>2. e \notin t.page /\ e <= m
      BY <2>1, <3>1
    <3>3. Rank(e, t.from) <= Rank(m, t.from) /\ Rank(e, t.from) \in Nat
          /\ Rank(m, t.from) \in Nat
      BY <1>1, <2>1, <3>2, RankMonotone, RankType
    <3>4. Rank(m, t.from) < t.skip + PageSize
      BY <1>2 DEF Reached
    <3>5. Rank(e, t.from) < t.skip + PageSize
      BY <1>1, <3>3, <3>4, Limits
    <3>6. date[e] >= t.from
      BY <1>1, <1>2, <2>1, <2>3
    <3>7. Passed(t.pos, e) \/ e \in Seen
      BY <3>2, <3>5, <3>6 DEF Read, Reached
    <3>8. Passed(t.pos, e) => e \in V
      BY DEF Passed, Sound
    <3> QED
      BY <3>7, <3>8
  <2> QED
    BY <2>2, <2>3
<1> QED
  BY <1>3, <1>4, <1>5 DEF Sound

LEMMA ReadAfter ==
    ASSUME TypeOK, NEW t \in Tick, Page(t), NEW m \in t.page, Read(t),
           NEW u, u.from = t.from, u.skip = t.skip, u.pos = After(t.pos, m),
           u.page = t.page \ {m}
    PROVE  Read(u)
<1>1. t.pos \in Position /\ m \in Mail /\ ~Passed(t.pos, m)
  BY DEF Tick, Page
<1>2. ASSUME NEW e \in writer \cap box, Reached(u, e), e \notin u.page
      PROVE  Passed(u.pos, e) \/ e \in Seen
  <2>1. e \in Mail /\ Reached(t, e)
    BY <1>2 DEF TypeOK, Reached
  <2>2. CASE e = m
    BY <1>1, <2>1, <2>2, PassedAfter
  <2>3. CASE e \notin t.page
    BY <1>1, <2>1, <2>3, PassedAfter DEF Read
  <2> QED
    BY <1>2, <2>2, <2>3
<1> QED
  BY <1>2 DEF Read

\* A page that is listed at an offset, the pages before it being read.
LEMMA ReadListed ==
    ASSUME TypeOK, NEW t \in Tick,
           \A e \in writer \cap box :
             date[e] >= t.from /\ Rank(e, t.from) < t.skip => Passed(t.pos, e) \/ e \in Seen
    PROVE  Read(Listing(t))
<1>1. /\ Listing(t).page = {m \in ListedFrom(t.from) :
                              /\ Rank(m, t.from) \in t.skip..t.skip + PageSize - 1
                              /\ ~Passed(t.pos, m)}
      /\ Listing(t).from = t.from /\ Listing(t).skip = t.skip /\ Listing(t).pos = t.pos
  BY ListingIs
<1>2. ASSUME NEW e \in writer \cap box, Reached(Listing(t), e), e \notin Listing(t).page,
             ~Passed(t.pos, e)
      PROVE  e \in Seen
  <2>1. date[e] >= t.from /\ Rank(e, t.from) < t.skip + PageSize
    BY <1>1, <1>2 DEF Reached
  <2>2. e \in Mail /\ Rank(e, t.from) \in Nat /\ t.skip \in Nat
    BY RankType DEF TypeOK, Tick
  <2>3. e \in ListedFrom(t.from)
    BY <2>1 DEF ListedFrom
  <2>4. Rank(e, t.from) \notin t.skip..t.skip + PageSize - 1
    BY <1>1, <1>2, <2>3
  <2>5. Rank(e, t.from) < t.skip
    BY <2>1, <2>2, <2>4, Limits
  <2> QED
    BY <1>2, <2>1, <2>5
<1> QED
  BY <1>1, <1>2 DEF Read

LEMMA HandleSound ==
    ASSUME TypeOK, TypeOK', LoopInv, SoundInv, Handle
    PROVE  SoundInv'
<1>1. PICK m \in Mail : \/ PassOver(m) \/ HandleSilent(m)
                        \/ HandleWrites(m)
                        \/ HandleFails(m) \/ HandleUnknown(m)
  BY DEF Handle
<1>2. IsNext(m)
  BY <1>1 DEF PassOver, HandleSilent, HandleWrites, HandleFails, HandleUnknown, Handled
<1>3. Around /\ tick' \in Tick
  BY <1>1, <1>2, SilentStep, WritesStep, FailureSteps, FailsStep
<1>4. UNCHANGED <<date, writer, box, cursor, state>>
  BY <1>3 DEF Around, mails
<1>5. Seen \subseteq Seen'
  <2>1. ingested \subseteq ingested' /\ abandoned \subseteq abandoned'
    BY <1>1, SilentStep, WritesStep, FailureSteps
  <2> QED
    BY <1>3, <2>1 DEF Seen, Around
<1>6. /\ tick \in Tick /\ Counts(tick) /\ tick.jump = None /\ ~tick.blocked
      /\ m \in tick.page /\ \A e \in tick.page : m <= e
      /\ tick.pos \in Position /\ tick.page \in SUBSET Mail /\ tick # None
  BY <1>2, Underway, Nones
<1>7. Page(tick)
  BY <1>6 DEF LoopInv, Loop
<1>8. Sound([at |-> cursor, done |-> Parsed.done], Seen)'
  <2>1. [at |-> cursor, done |-> Parsed.done]' = [at |-> cursor, done |-> Parsed.done]
    BY <1>4 DEF Parsed
  <2>2. Sound([at |-> cursor, done |-> Parsed.done], Seen)
    BY DEF SoundInv
  <2> QED
    BY <1>4, <1>5, <2>1, <2>2, SoundKept
<1>9. SUFFICES ASSUME SoundTick(tick) PROVE SoundTick(tick)'
  <2>1. tick'.expected = tick.expected
    <3>1. Kept(tick, tick')
      BY <1>1, <1>2, SilentStep, WritesStep, FailureSteps, FailsStep
         DEF Behind, FailsTo, RolledBack
    <3> QED
      BY <3>1 DEF Kept
  <2> QED
    BY <1>4, <1>6, <1>8, <1>9, <2>1 DEF SoundInv
<1>10. /\ tick.suspect = None => Sound(tick.pos, Seen)
       /\ tick.suspect # None =>
            /\ Sound(tick.suspect.back, Seen)
            /\ Sound(After(tick.suspect.back, tick.suspect.id), Seen \cup {tick.suspect.id})
            /\ ~tick.suspect.jumped => Sound(tick.pos, Seen \cup {tick.suspect.id})
       /\ Read(tick)
  BY <1>6, <1>9 DEF SoundTick, Ahd
<1>11. \A pos, V, W : Sound(pos, V) /\ V \subseteq W => Sound(pos, W)'
  BY <1>4, SoundKept
<1>12. ASSUME NEW V, Seen \subseteq V, Sound(tick.pos, V), m \in writer => m \in V
       PROVE  Sound(After(tick.pos, m), V)
  BY <1>6, <1>7, <1>10, <1>12, SoundAfter
<1>13. Behind(tick, tick', m) => /\ Read(tick)' /\ Ahd(tick') = After(tick.pos, m)
  <2>1. Behind(tick, tick', m) => Read(tick')
    BY <1>6, <1>7, <1>10, ReadAfter DEF Behind, Kept
  <2> QED
    BY <1>4, <1>5, <1>6, <2>1, ReadKept DEF Behind, Ahd
<1>14. \A p, x : After(p, x)' = After(p, x)
  BY <1>4 DEF After
<1>15. CASE PassOver(m) \/ HandleSilent(m)
  <2>1. /\ Behind(tick, tick', m) /\ tick'.suspect = tick.suspect
        /\ m \in writer => m \in ingested
    BY <1>15, SilentStep
  <2>2. m \in writer => m \in Seen
    BY <2>1 DEF Seen
  <2>3. tick.suspect = None => Sound(Ahd(tick), Seen)'
    BY <1>5, <1>10, <1>11, <1>12, <1>13, <2>1, <2>2
  <2>4. tick.suspect # None =>
          /\ Sound(tick.suspect.back, Seen)'
          /\ Sound(After(tick.suspect.back, tick.suspect.id), Seen \cup {tick.suspect.id})'
    <3>1. PICK s : s = tick.suspect
      OBVIOUS
    <3>2. ASSUME s # None
          PROVE  Sound(s.back, Seen)' /\ Sound(After(s.back, s.id), Seen \cup {s.id})'
      <4>1. Sound(s.back, Seen) /\ Sound(After(s.back, s.id), Seen \cup {s.id})
        BY <1>10, <3>1, <3>2
      <4>2. After(s.back, s.id)' = After(s.back, s.id)
        BY <1>14
      <4> QED
        BY <1>5, <1>11, <4>1, <4>2
    <3> QED
      BY <2>1, <3>1, <3>2
  <2>5. tick.suspect # None /\ ~tick.suspect.jumped
          => Sound(Ahd(tick), Seen \cup {tick.suspect.id})'
    <3>1. tick.suspect # None /\ ~tick.suspect.jumped
            => Sound(After(tick.pos, m), Seen \cup {tick.suspect.id})
      BY <1>10, <1>12, <2>2
    <3> QED
      BY <1>5, <1>11, <1>13, <2>1, <3>1
  <2> QED
    BY <1>13, <2>1, <2>3, <2>4, <2>5 DEF SoundTick
<1>16. CASE HandleWrites(m)
  <2>1. /\ ingested' = ingested \cup {m} /\ tick'.suspect = None
        /\ \/ tick.suspect = None /\ abandoned' = abandoned
           \/ tick.suspect # None /\ abandoned' = abandoned \cup {tick.suspect.id}
        /\ \/ /\ tick.suspect = None \/ ~tick.suspect.jumped
              /\ Behind(tick, tick', m)
           \/ /\ tick.suspect # None /\ tick.suspect.jumped
              /\ tick'.jump = After(tick.suspect.back, tick.suspect.id)
              /\ tick'.jump # None
    BY <1>16, WritesStep
  <2>2. m \in Seen' /\ (tick.suspect # None => tick.suspect.id \in Seen')
    BY <2>1 DEF Seen
  <2>3. CASE tick.suspect = None /\ Behind(tick, tick', m)
    <3>1. Sound(After(tick.pos, m), Seen \cup {m})
      BY <1>10, <1>12, <2>3, SoundMore
    <3>2. Sound(Ahd(tick), Seen)'
      BY <1>5, <1>11, <1>13, <2>2, <2>3, <3>1
    <3> QED
      BY <1>13, <2>1, <2>3, <3>2 DEF SoundTick
  <2>4. CASE tick.suspect # None /\ ~tick.suspect.jumped /\ Behind(tick, tick', m)
    <3>1. Sound(tick.pos, Seen \cup {tick.suspect.id, m})
      BY <1>10, <2>4, SoundMore
    <3>2. Sound(After(tick.pos, m), Seen \cup {tick.suspect.id, m})
      BY <1>12, <3>1
    <3>3. Sound(Ahd(tick), Seen)'
      BY <1>5, <1>11, <1>13, <2>2, <2>4, <3>2
    <3> QED
      BY <1>13, <2>1, <2>4, <3>3 DEF SoundTick
  <2>5. CASE /\ tick.suspect # None /\ tick.suspect.jumped
             /\ tick'.jump = After(tick.suspect.back, tick.suspect.id)
             /\ tick'.jump # None
    <3>1. Ahd(tick') = After(tick.suspect.back, tick.suspect.id)
      BY <2>5 DEF Ahd
    <3>2. Sound(Ahd(tick), Seen)'
      BY <1>5, <1>10, <1>11, <2>2, <2>5, <3>1
    <3> QED
      BY <2>1, <2>5, <3>2 DEF SoundTick, Counts
  <2> QED
    BY <2>1, <2>3, <2>4, <2>5
<1>17. CASE HandleFails(m) \/ HandleUnknown(m)
  <2>1. PICK r \in Failure : r.id = m /\ FailsTo(m, r)
    BY <1>2, <1>17, FailureSteps, FailsStep
  <2>2. CASE tick.suspect # None /\ RolledBack(tick, tick')
    <3>1. /\ tick'.suspect = None /\ tick'.blocked /\ Ahd(tick') = tick.suspect.back
      BY <1>6, <2>2 DEF RolledBack, Ahd
    <3>2. Sound(Ahd(tick), Seen)'
      BY <1>5, <1>10, <1>11, <2>2, <3>1
    <3> QED
      BY <3>1, <3>2 DEF SoundTick, Counts
  <2>3. CASE /\ tick.suspect = None /\ tick'.suspect = None /\ tick'.blocked
             /\ tick'.pos = tick.pos /\ tick'.jump = tick.jump
    <3>1. Ahd(tick') = tick.pos
      BY <1>6, <2>3 DEF Ahd
    <3>2. Sound(Ahd(tick), Seen)'
      BY <1>5, <1>10, <1>11, <2>3, <3>1
    <3> QED
      BY <2>3, <3>2 DEF SoundTick, Counts
  <2>4. CASE /\ tick.suspect = None
             /\ \E j \in BOOLEAN :
                  /\ tick'.suspect = [id |-> m, back |-> tick.pos, retry |-> r, jumped |-> j]
                  /\ j \/ Behind(tick, tick', m)
                  /\ j => tick'.jump # None
    <3>1. PICK j \in BOOLEAN :
            /\ tick'.suspect = [id |-> m, back |-> tick.pos, retry |-> r, jumped |-> j]
            /\ j \/ Behind(tick, tick', m)
            /\ j => tick'.jump # None
      BY <2>4
    <3>2. /\ tick'.suspect.id = m /\ tick'.suspect.back = tick.pos
          /\ tick'.suspect.jumped = j /\ tick'.suspect # None
      <4>1. [id |-> m, back |-> tick.pos, retry |-> r, jumped |-> j] \in Suspect
        BY <1>6 DEF Suspect
      <4> QED
        BY <3>1, <4>1, Nones
    <3>3. Sound(After(tick.pos, m), Seen \cup {m})
      BY <1>10, <1>12, <2>4, SoundMore
    <3>4. PICK p : p = tick.pos
      OBVIOUS
    <3>5. Sound(p, Seen)' /\ Sound(After(p, m), Seen \cup {m})'
      <4>1. Sound(p, Seen) /\ Sound(After(p, m), Seen \cup {m})
        BY <1>10, <2>4, <3>3, <3>4
      <4>2. After(p, m)' = After(p, m)
        BY <1>14
      <4> QED
        BY <1>5, <1>11, <4>1, <4>2
    <3>6. ~j => Sound(Ahd(tick), Seen \cup {m})' /\ Read(tick)'
      <4>1. ~j => Ahd(tick') = After(p, m) /\ Read(tick)'
        BY <1>13, <3>1, <3>4
      <4>2. After(p, m)' = After(p, m)
        BY <1>14
      <4> QED
        BY <3>5, <4>1, <4>2
    <3>7. tick'.suspect.back = p
      BY <3>2, <3>4
    <3>8. Counts(tick)' => Read(tick)'
      BY <3>1, <3>6 DEF Counts
    <3> QED
      BY <3>2, <3>5, <3>6, <3>7, <3>8 DEF SoundTick
  <2> QED
    BY <2>1, <2>2, <2>3, <2>4 DEF FailsTo
<1> QED
  BY <1>1, <1>15, <1>16, <1>17

\* The positions of a tick that lists a page are those it had.
LEMMA BeginsSound ==
    ASSUME TypeOK, SoundInv, TickBegins
    PROVE  SoundInv'
<1>1. UNCHANGED <<date, writer, box, cursor, state>> /\ Seen' = Seen
  BY BeginsStep DEF mails, history, Seen
<1>2. PICK t \in Tick :
        /\ tick' = Listing(t)
        /\ t.expected = cursor /\ t.pos = [at |-> cursor, done |-> Parsed.done]
        /\ t.suspect = None /\ t.keep = None /\ t.jump = None
        /\ t.from = cursor /\ t.skip = 0
  BY BeginsStep
<1>3. Read(Listing(t))
  <2>1. \A e \in writer \cap box : ~(Rank(e, t.from) < t.skip)
    BY <1>2, RankType DEF TypeOK
  <2> QED
    BY <2>1, ReadListed
<1>4. Read(tick)'
  BY <1>1, <1>2, <1>3, ReadKept
<1>5. tick'.suspect = None /\ Ahd(tick') = t.pos
  BY <1>2, ListingIs DEF Ahd
<1>6. Sound(t.pos, Seen) /\ Sound(t.pos, Seen)'
  BY <1>1, <1>2, SoundKept DEF SoundInv
<1>7. SoundTick(tick)'
  BY <1>4, <1>5, <1>6 DEF SoundTick
<1>8. Sound([at |-> cursor, done |-> Parsed.done], Seen)'
  <2>1. [at |-> cursor, done |-> Parsed.done]' = t.pos
    BY <1>1, <1>2 DEF Parsed
  <2> QED
    BY <1>6, <2>1
<1> QED
  BY <1>7, <1>8 DEF SoundInv

\* The same, when nothing that is saved or seen changes.
LEMMA SavedSound ==
    ASSUME UNCHANGED <<date, writer, cursor, state>>, box' \subseteq box,
           Seen \subseteq Seen', SoundInv
    PROVE  Sound([at |-> cursor, done |-> Parsed.done], Seen)'
<1>1. PICK p : p = [at |-> cursor, done |-> Parsed.done]
  OBVIOUS
<1>2. [at |-> cursor, done |-> Parsed.done]' = p
  BY <1>1 DEF Parsed
<1>3. Sound(p, Seen)
  BY <1>1 DEF SoundInv
<1>4. Sound(p, Seen)'
  BY <1>3, SoundKept
<1> QED
  BY <1>2, <1>4

LEMMA NextPageSound ==
    ASSUME TypeOK, SoundInv, NextPage
    PROVE  SoundInv'
<1>1. /\ tick \in Tick /\ tick # None /\ PageDone /\ tick' = Listing(Ended)
      /\ ~Ended.blocked
      /\ UNCHANGED <<date, writer, box, cursor, state>> /\ Seen' = Seen
  BY DEF NextPage, TypeOK, mails, GoesOn, Seen, history
<1>2. /\ Ended \in Tick /\ Ended.pos = Ahd(tick) /\ ~tick.blocked /\ Ended.jump = None
      /\ Ended.suspect = tick.suspect /\ Ended.expected = tick.expected
  BY <1>1, EndedIs
<1>3. tick'.suspect = tick.suspect /\ Ahd(tick') = Ahd(tick) /\ tick'.expected = tick.expected
  BY <1>1, <1>2, ListingIs DEF Ahd
<1>4. Sound([at |-> cursor, done |-> Parsed.done], Seen)'
  BY <1>1, SavedSound
<1>5. SUFFICES ASSUME SoundTick(tick) PROVE SoundTick(tick)'
  BY <1>1, <1>3, <1>4, <1>5 DEF SoundInv
<1>6. Read(tick)'
  <2>1. ASSUME NEW e \in writer \cap box, date[e] >= Ended.from,
               Rank(e, Ended.from) < Ended.skip
        PROVE  Passed(Ended.pos, e) \/ e \in Seen
    <3>1. e \in Mail /\ Rank(e, Ended.from) \in Nat
      BY RankType DEF TypeOK
    <3>2. /\ tick.jump = None /\ Skips(tick)
          /\ Ended.skip = tick.skip + PageSize /\ Ended.from = tick.from
      BY <1>1, <2>1, <3>1, EndedIs
    <3>3. tick.page = {} /\ Counts(tick)
      BY <1>1, <1>2, <3>2 DEF PageDone, Counts
    <3>4. Reached(tick, e)
      BY <2>1, <3>2 DEF Reached
    <3>5. Passed(tick.pos, e) \/ e \in Seen
      BY <1>5, <3>3, <3>4 DEF SoundTick, Read
    <3> QED
      BY <1>2, <3>2, <3>5 DEF Ahd
  <2>2. Read(Listing(Ended))
    BY <1>2, <2>1, ReadListed
  <2> QED
    BY <1>1, <2>2, ReadKept
<1>7. PICK s : s = tick.suspect
  OBVIOUS
<1>8. PICK a : a = Ahd(tick)
  OBVIOUS
<1>9. /\ s = None => Sound(a, Seen)
      /\ s # None =>
           /\ Sound(s.back, Seen)
           /\ Sound(After(s.back, s.id), Seen \cup {s.id})
           /\ ~s.jumped => Sound(a, Seen \cup {s.id})
  BY <1>5, <1>7, <1>8 DEF SoundTick
<1>10. /\ s = None => Sound(a, Seen)'
       /\ s # None =>
            /\ Sound(s.back, Seen)'
            /\ Sound(After(s.back, s.id), Seen \cup {s.id})'
            /\ ~s.jumped => Sound(a, Seen \cup {s.id})'
  BY <1>1, <1>9 DEF Sound, After
<1> QED
  BY <1>3, <1>6, <1>7, <1>8, <1>10 DEF SoundTick

LEMMA SaveSound ==
    ASSUME TypeOK, TypeOK', SoundInv, Save
    PROVE  SoundInv'
<1>1. /\ tick # None /\ tick' = None
      /\ UNCHANGED <<date, writer, box, ingested, abandoned, shifted>>
  BY SaveStep DEF mails
<1>2. CASE cursor # tick.expected
  <2>1. UNCHANGED <<cursor, state, excused>>
    BY <1>2, SaveStep
  <2>2. Sound([at |-> cursor, done |-> Parsed.done], Seen)'
    BY <1>1, <2>1, SavedSound DEF Seen
  <2> QED
    BY <1>1, <2>2 DEF SoundInv
<1>3. CASE cursor = tick.expected
  <2>1. PICK p \in Position, r \in Failure \cup {None}, c \in Place \cup {None} :
          Saves(Verdictless(Ended), p, r, c)
    BY <1>3, SaveStep
  <2>2. cursor' = p.at /\ state' = [at |-> p.at, done |-> p.done, retry |-> r, scan |-> c]
    BY <2>1 DEF Saves
  <2>3. [at |-> cursor, done |-> Parsed.done]' = p
    <3>1. Parsed' = state'
      BY <2>2 DEF Parsed
    <3> QED
      BY <2>2, <3>1 DEF Position
  <2>4. PICK t \in Tick : t = Verdictless(Ended)
    BY <1>1, EndedIs, VerdictlessIs DEF TypeOK
  <2>6. Sound(t.pos, Seen)
    <3>1. CASE tick.suspect = None
      BY <1>1, <1>3, <2>4, <3>1, EndedIs, VerdictlessIs DEF SoundInv, SoundTick, TypeOK
    <3>2. CASE tick.suspect # None
      <4>1. Ended \in Tick /\ Ended.suspect = tick.suspect
        BY <1>1, EndedIs DEF TypeOK
      <4>2. t.pos = tick.suspect.back
        BY <2>4, <3>2, <4>1, VerdictlessIs DEF RolledBack
      <4> QED
        BY <1>1, <1>3, <3>2, <4>2 DEF SoundInv, SoundTick
    <3> QED
      BY <3>1, <3>2
  <2>7. t.pos \in Position /\ t.pos.at \in Nat /\ date \in [Mail -> Nat] /\ box \subseteq Mail
    BY DEF Tick, Position, TypeOK
  <2>8. CASE p = t.pos /\ excused' = excused
    <3>1. Seen' = Seen
      BY <1>1, <2>8 DEF Seen
    <3> QED
      BY <1>1, <2>3, <2>6, <2>8, <3>1, SoundKept DEF SoundInv
  <2>9. CASE /\ p = [at |-> t.pos.at + 1, done |-> {}]
             /\ excused' = excused \cup {m \in box : date[m] = t.pos.at /\ m \notin t.pos.done}
    <3>1. Seen \subseteq Seen'
      BY <1>1, <2>9 DEF Seen
    <3>2. ASSUME NEW m \in writer \cap box, date[m] < t.pos.at + 1
          PROVE  m \in Seen'
      <4>1. date[m] < t.pos.at \/ date[m] = t.pos.at
        BY <2>7, <3>2
      <4>2. CASE date[m] < t.pos.at
        BY <2>6, <3>1, <4>2 DEF Sound
      <4>3. CASE date[m] = t.pos.at /\ m \in t.pos.done
        BY <2>6, <3>1, <4>3 DEF Sound
      <4>4. CASE date[m] = t.pos.at /\ m \notin t.pos.done
        BY <2>9, <4>4 DEF Seen
      <4> QED
        BY <4>1, <4>2, <4>3, <4>4
    <3>3. p.at = t.pos.at + 1 /\ p.done = {}
      BY <2>9
    <3>4. Sound(p, Seen)'
      BY <1>1, <3>2, <3>3 DEF Sound
    <3> QED
      BY <1>1, <2>3, <3>4 DEF SoundInv
  <2> QED
    BY <2>1, <2>4, <2>8, <2>9 DEF Saves
<1> QED
  BY <1>2, <1>3

\* A mail that appears is before a position, or its step says so.
LEMMA SoundAppears ==
    ASSUME UNCHANGED <<date, writer>>, NEW m, box' = box \cup {m},
           NEW pos, NEW V, NEW W, V \subseteq W, Sound(pos, V), date[m] < pos.at => m \in W
    PROVE  Sound(pos, W)'
BY DEF Sound

\* What a tick that is about to list another page has read.
LEMMA BeforeListing ==
    ASSUME TypeOK, LoopInv, ListsNext, tick # None
    PROVE  /\ tick \in Tick /\ Ended \in Tick /\ Ahead = Ended /\ Ended.pos = Ahd(tick)
           /\ Ahd(tick) \in Position /\ Places(tick)
           /\ Counts(tick) => /\ tick.page = {} /\ Ended.from = tick.from
                              /\ Ended.skip = tick.skip + PageSize
                              /\ Ended.skip \in Nat /\ Ended.skip > 0
<1>1. tick \in Tick /\ PageDone /\ ~Ended.blocked /\ Loop(tick)
  BY DEF ListsNext, GoesOn, TypeOK, LoopInv
<1>2. Ended \in Tick /\ ~tick.blocked /\ Ended.pos = Ahd(tick)
  BY <1>1, EndedIs
<1>3. Ahead = Ended
  BY DEF Ahead
<1>4. Ahd(tick) \in Position
  BY <1>2 DEF Tick
<1>5. ASSUME Counts(tick)
      PROVE  /\ tick.page = {} /\ Ended.from = tick.from
             /\ Ended.skip = tick.skip + PageSize
             /\ Ended.skip \in Nat /\ Ended.skip > 0
  <2>1. tick.jump = None /\ tick.page = {} /\ Skips(tick)
    BY <1>1, <1>2, <1>5 DEF Counts, PageDone
  <2>2. Ended.from = tick.from /\ Ended.skip = tick.skip + PageSize
    BY <1>1, <2>1, EndedIs
  <2>3. tick.skip \in Nat
    BY <1>1 DEF Tick
  <2> QED
    BY <2>1, <2>2, <2>3, Limits
<1> QED
  BY <1>1, <1>2, <1>3, <1>4, <1>5 DEF Loop

LEMMA AppearsSound ==
    ASSUME TypeOK, TypeOK', LoopInv, SoundInv, NEW m \in Mail, Appears(m)
    PROVE  SoundInv'
<1>1. /\ m \notin box /\ box' = box \cup {m} /\ ListsNext
      /\ UNCHANGED <<date, writer, cursor, state, tick>> /\ Seen \subseteq Seen'
      /\ date[m] < cursor => m \in Seen'
      /\ tick # None /\ date[m] < Ahead.pos.at => m \in Seen'
      /\ Overleapt(m) => m \in Seen'
  BY DEF Appears, mails, Seen
<1>2. Sound([at |-> cursor, done |-> Parsed.done], Seen)'
  <2>1. PICK p : p = [at |-> cursor, done |-> Parsed.done]
    OBVIOUS
  <2>2. [at |-> cursor, done |-> Parsed.done]' = p
    BY <1>1, <2>1 DEF Parsed
  <2>3. Sound(p, Seen) /\ p.at = cursor
    BY <2>1 DEF SoundInv
  <2>4. Sound(p, Seen)'
    BY <1>1, <2>3, SoundAppears
  <2> QED
    BY <2>2, <2>4
<1>3. SUFFICES ASSUME tick # None, SoundTick(tick) PROVE SoundTick(tick)'
  BY <1>1, <1>2, <1>3 DEF SoundInv
<1>4. PICK t : t = tick
  OBVIOUS
<1>5. /\ t \in Tick /\ Ended \in Tick /\ Ahead = Ended /\ Ended.pos = Ahd(t)
      /\ Ahd(t) \in Position /\ Places(t)
      /\ Counts(t) => /\ t.page = {} /\ Ended.from = t.from
                      /\ Ended.skip = t.skip + PageSize
                      /\ Ended.skip \in Nat /\ Ended.skip > 0
  BY <1>1, <1>3, <1>4, BeforeListing
<1>6. date[m] \in Nat /\ (date[m] < Ahd(t).at => m \in Seen')
  BY <1>1, <1>3, <1>5 DEF TypeOK
<1>7. t.suspect = None => Sound(Ahd(t), Seen)'
  BY <1>1, <1>3, <1>4, <1>6, SoundAppears DEF SoundTick
<1>8. ASSUME t.suspect # None
      PROVE  /\ Sound(t.suspect.back, Seen)'
             /\ Sound(After(t.suspect.back, t.suspect.id), Seen \cup {t.suspect.id})'
             /\ ~t.suspect.jumped => Sound(Ahd(t), Seen \cup {t.suspect.id})'
  <2>1. /\ t.suspect.back.at <= date[t.suspect.id]
        /\ date[t.suspect.id] <= Ahd(t).at
    BY <1>5, <1>8 DEF Places
  <2>2. t.suspect.back \in Position /\ t.suspect.id \in Mail
    BY <1>5, <1>8 DEF Tick, Suspect
  <2>3. /\ t.suspect.back.at \in Nat /\ date[t.suspect.id] \in Nat /\ Ahd(t).at \in Nat
        /\ After(t.suspect.back, t.suspect.id).at \in {t.suspect.back.at, date[t.suspect.id]}
    BY <1>5, <2>2, AfterIs DEF Position, TypeOK
  <2>4. /\ date[m] < t.suspect.back.at => m \in Seen'
        /\ date[m] < After(t.suspect.back, t.suspect.id).at => m \in Seen'
    BY <1>6, <2>1, <2>3
  <2>5. /\ Sound(t.suspect.back, Seen)
        /\ Sound(After(t.suspect.back, t.suspect.id), Seen \cup {t.suspect.id})
        /\ ~t.suspect.jumped => Sound(Ahd(t), Seen \cup {t.suspect.id})
    BY <1>3, <1>4, <1>8 DEF SoundTick
  <2>6. PICK s : s = t.suspect
    OBVIOUS
  <2>7. PICK a : a = After(s.back, s.id)
    OBVIOUS
  <2>8. After(s.back, s.id)' = a
    BY <1>1, <2>7 DEF After
  <2>9. Sound(s.back, Seen)'
    BY <1>1, <2>4, <2>5, <2>6, SoundAppears
  <2>10. Sound(a, Seen \cup {s.id})'
    BY <1>1, <2>4, <2>5, <2>6, <2>7, SoundAppears
  <2>11. ~s.jumped => Sound(Ahd(t), Seen \cup {s.id})'
    BY <1>1, <1>6, <2>5, <2>6, SoundAppears
  <2> QED
    BY <2>6, <2>8, <2>9, <2>10, <2>11
<1>9. ASSUME Counts(t) PROVE Read(t)'
  <2>1. /\ t.page = {} /\ Ended.from = t.from /\ Ended.skip = t.skip + PageSize
        /\ Ended.skip \in Nat /\ Ended.skip > 0
    BY <1>5, <1>9
  <2>2. ASSUME NEW e \in writer \cap box', Reached(t, e)'
        PROVE  Passed(t.pos, e) \/ e \in Seen'
    <3>1. /\ e \in Mail /\ date[e] >= t.from /\ Rank(e, t.from)' < t.skip + PageSize
      BY <1>1, <2>2 DEF Reached, TypeOK
    <3>2. Rank(e, t.from) <= Rank(e, t.from)' /\ Rank(e, t.from) \in Nat
          /\ Rank(e, t.from)' \in Nat
      BY <1>1, <3>1, RankGrows, RankType
    <3>3. Rank(e, t.from) < t.skip + PageSize
      <4>1. t.skip + PageSize \in Nat
        BY <2>1
      <4> QED
        BY <3>1, <3>2, <4>1
    <3>4. CASE e = m
      BY <1>1, <1>5, <2>1, <3>1, <3>3, <3>4, Nones DEF Overleapt
    <3>5. CASE e # m
      <4>1. e \in writer \cap box /\ Reached(t, e)
        BY <1>1, <2>2, <3>1, <3>3, <3>5 DEF Reached
      <4> QED
        BY <1>1, <1>3, <1>4, <1>9, <2>1, <4>1 DEF SoundTick, Read
    <3> QED
      BY <3>4, <3>5
  <2> QED
    BY <1>1, <2>2 DEF Read, Passed
<1>10. Counts(t)' => Counts(t)
  BY DEF Counts, Skips
<1> QED
  BY <1>1, <1>4, <1>7, <1>8, <1>9, <1>10 DEF SoundTick

\* What follows a mail that vanishes is leapt over, or was read.
LEMMA VanishesSound ==
    ASSUME TypeOK, TypeOK', LoopInv, SoundInv, NEW m \in Mail, Vanishes(m)
    PROVE  SoundInv'
<1>1. /\ m \in box /\ box' = box \ {m} /\ ListsNext
      /\ UNCHANGED <<date, writer, cursor, state, tick>> /\ Seen \subseteq Seen'
      /\ \A e \in box :
           /\ Overleapt(m) /\ ~Overleapt(e)
           /\ \A b \in box : b < e => Overleapt(b) \/ date[b] < Ahead.from
           => e \in Seen'
  BY DEF Vanishes, mails, Seen
<1>2. Sound([at |-> cursor, done |-> Parsed.done], Seen)'
  BY <1>1, SavedSound
<1>3. SUFFICES ASSUME tick # None, SoundTick(tick) PROVE SoundTick(tick)'
  BY <1>1, <1>2, <1>3 DEF SoundInv
<1>4. PICK t : t = tick
  OBVIOUS
<1>5. /\ t \in Tick /\ Ended \in Tick /\ Ahead = Ended
      /\ Counts(t) => /\ t.page = {} /\ Ended.from = t.from
                      /\ Ended.skip = t.skip + PageSize
                      /\ Ended.skip \in Nat /\ Ended.skip > 0
  BY <1>1, <1>3, <1>4, BeforeListing
<1>6. /\ t.suspect = None => Sound(Ahd(t), Seen)'
      /\ t.suspect # None =>
           /\ Sound(t.suspect.back, Seen)'
           /\ Sound(After(t.suspect.back, t.suspect.id), Seen \cup {t.suspect.id})'
           /\ ~t.suspect.jumped => Sound(Ahd(t), Seen \cup {t.suspect.id})'
  BY <1>1, <1>3, <1>4 DEF SoundTick, Sound, After
<1>7. ASSUME Counts(t) PROVE Read(t)'
  <2> DEFINE K == t.skip + PageSize
  <2>1. /\ t.page = {} /\ Ended.from = t.from /\ Ended.skip = K
        /\ K \in Nat /\ K > 0 /\ Ahead # None
    BY <1>5, <1>7, Nones
  <2> HIDE DEF K
  <2>2. \A e \in box : Overleapt(e) <=> date[e] >= t.from /\ Rank(e, t.from) < K
    BY <1>5, <2>1 DEF Overleapt
  <2>3. ASSUME NEW e \in writer \cap box', Reached(t, e)'
        PROVE  Passed(t.pos, e) \/ e \in Seen'
    <3>1. e \in box /\ e # m /\ e \in Mail /\ date[e] >= t.from /\ Rank(e, t.from)' < K
      BY <1>1, <2>3 DEF Reached, TypeOK, K
    <3>2. CASE Rank(e, t.from) < K
      <4>1. Reached(t, e)
        BY <3>1, <3>2 DEF Reached, K
      <4> QED
        BY <1>1, <1>3, <1>4, <1>7, <2>1, <2>3, <3>1, <4>1 DEF SoundTick, Read
    <3>3. CASE ~(Rank(e, t.from) < K)
      <4>1. /\ Rank(e, t.from) <= Rank(e, t.from)' + 1
            /\ ~(m < e /\ date[m] >= t.from) => Rank(e, t.from) = Rank(e, t.from)'
            /\ Rank(e, t.from) \in Nat /\ Rank(e, t.from)' \in Nat
        BY <1>1, <3>1, RankShrinks, RankType
      <4>2. Rank(e, t.from) = K /\ m < e /\ date[m] >= t.from
        BY <2>1, <3>1, <3>3, <4>1
      <4>3. ASSUME NEW b \in box, b < e, date[b] >= t.from
            PROVE  Overleapt(b)
        <5>1. Rank(b, t.from) < Rank(e, t.from)
          BY <3>1, <4>3, RankStrict
        <5> QED
          BY <2>2, <4>2, <4>3, <5>1
      <4>4. Overleapt(m) /\ ~Overleapt(e)
        BY <1>1, <2>2, <3>1, <3>3, <4>2, <4>3
      <4>5. ASSUME NEW b \in box, b < e
            PROVE  Overleapt(b) \/ date[b] < Ahead.from
        <5>1. date[b] \in Nat /\ t.from \in Nat /\ Ahead.from = t.from
          BY <1>5, <2>1 DEF TypeOK, Tick
        <5> QED
          BY <4>3, <4>5, <5>1
      <4> QED
        BY <1>1, <3>1, <4>4, <4>5
    <3> QED
      BY <3>2, <3>3
  <2> QED
    BY <1>1, <2>3 DEF Read, Passed
<1>8. Counts(t)' => Counts(t)
  BY DEF Counts, Skips
<1> QED
  BY <1>1, <1>4, <1>6, <1>7, <1>8 DEF SoundTick

LEMMA AdminSound ==
    ASSUME TypeOK, SoundInv, NEW c \in {1, cursor + 1}, AdminMoves(c)
    PROVE  SoundInv'
<1>0. PICK p : p = [at |-> c, done |-> IF state.at = c THEN state.done ELSE {}]
  OBVIOUS
<1>1. /\ cursor' = c /\ UNCHANGED <<date, writer, box, state, tick>>
      /\ tick # None => c # tick.expected
      /\ excused' = excused \cup {m \in Mail : Passed(p, m)}
  BY <1>0 DEF AdminMoves, mails
<1>2. [at |-> cursor, done |-> Parsed.done]' = p
  <2>1. Parsed'.done = IF state.at = c THEN state.done ELSE {}
    BY <1>1 DEF Parsed
  <2> QED
    BY <1>0, <1>1, <2>1
<1>3. writer \subseteq Mail
  BY DEF TypeOK
<1>4. ASSUME NEW m \in writer, Passed(p, m)
      PROVE  m \in Seen'
  BY <1>1, <1>3, <1>4 DEF Seen
<1>5. Sound(p, Seen)'
  <2>1. \A m \in writer \cap p.done : date[m] = p.at => m \in Seen'
    BY <1>4 DEF Passed
  <2>2. \A m \in writer \cap box : date[m] < p.at => m \in Seen'
    BY <1>4 DEF Passed
  <2> QED
    BY <1>1, <2>1, <2>2 DEF Sound
<1> QED
  BY <1>1, <1>2, <1>5 DEF SoundInv

LEMMA StepSound ==
    ASSUME TypeOK, TypeOK', LoopInv, SoundInv, [Next]_vars
    PROVE  SoundInv'
<1>1. CASE UNCHANGED vars
  BY <1>1 DEF SoundInv, SoundTick, Sound, Ahd, Counts, Skips, Read, Reached, Passed,
              Rank, ListedFrom, After, Seen, Parsed, vars
<1>2. CASE Handle
  BY <1>2, HandleSound
<1>3. CASE TickBegins
  BY <1>3, BeginsSound
<1>4. CASE NextPage
  BY <1>4, NextPageSound
<1>5. CASE Save
  BY <1>5, SaveSound
<1>6. CASE ListingFails
  <2>1. /\ UNCHANGED <<date, writer, box, cursor>> /\ Seen' = Seen
        /\ state' = [Parsed EXCEPT !.scan = None] /\ tick = None /\ tick' = None
    BY <1>6 DEF ListingFails, mails, Seen, history
  <2>2. PICK p : p = [at |-> cursor, done |-> Parsed.done]
    OBVIOUS
  <2>3. [at |-> cursor, done |-> Parsed.done]' = p
    <3>1. state'.at = cursor' /\ state'.done = Parsed.done
      BY <2>1, ParsedIs DEF Saved
    <3>2. Parsed'.done = Parsed.done
      BY <3>1 DEF Parsed
    <3> QED
      BY <2>1, <2>2, <3>2
  <2>4. Sound(p, Seen)'
    BY <2>1, <2>2, SoundKept DEF SoundInv
  <2> QED
    BY <2>1, <2>3, <2>4 DEF SoundInv
<1>7. CASE TickDies
  <2>1. /\ UNCHANGED <<date, writer, box, cursor, state>> /\ Seen' = Seen /\ tick' = None
    BY <1>7 DEF TickDies, mails, Seen, history
  <2>2. Sound([at |-> cursor, done |-> Parsed.done], Seen)'
    BY <2>1, SavedSound
  <2> QED
    BY <2>1, <2>2 DEF SoundInv
<1>8. CASE Ages \/ Breaks \/ Recovers
  <2>1. UNCHANGED <<date, writer, box, cursor, state, tick, ingested, abandoned, excused,
                    shifted>>
    BY <1>8 DEF Ages, Breaks, Recovers, mails, history
  <2> QED
    BY <2>1 DEF SoundInv, SoundTick, Sound, Ahd, Counts, Skips, Read, Reached, Passed,
                Rank, ListedFrom, After, Seen, Parsed
<1>9. CASE \E m \in Mail : Appears(m) \/ Vanishes(m)
  BY <1>9, AppearsSound, VanishesSound
<1>10. CASE \E c \in {1, cursor + 1} : AdminMoves(c)
  BY <1>10, AdminSound
<1> QED
  BY <1>1, <1>2, <1>3, <1>4, <1>5, <1>6, <1>7, <1>8, <1>9, <1>10 DEF Next, TickStep

-----------------------------------------------------------------------------
\* The theorems.

IInv == TypeOK /\ CountInv /\ LoopInv /\ SoundInv

LEMMA InitInv == Init => IInv
<1> SUFFICES ASSUME Init PROVE IInv
  OBVIOUS
<1>1. TypeOK
  BY InitType
<1>2. CountInv
  BY DEF Init, CountInv, Counted
<1>3. LoopInv
  BY DEF Init, LoopInv
<1>4. SoundInv
  <2>1. Parsed.done = {}
    BY DEF Init, Parsed
  <2>2. ASSUME NEW m \in writer \cap box PROVE ~(date[m] < 1)
    <3>1. date[m] \in Mail /\ Mail = 1..Cardinality(Mail)
      BY MailPollAssumption DEF Init
    <3>2. Cardinality(Mail) \in Nat
      BY MailFacts
    <3> QED
      BY <3>1, <3>2
  <2>3. tick = None /\ cursor = 1
    BY DEF Init
  <2> QED
    BY <2>1, <2>2, <2>3 DEF SoundInv, Sound
<1> QED
  BY <1>1, <1>2, <1>3, <1>4 DEF IInv

\* The inductive invariant of a polled mailbox.
THEOREM Inductive == Spec => []IInv
<1>1. Init => IInv
  BY InitInv
<1>2. IInv /\ [Next]_vars => IInv'
  <2> SUFFICES ASSUME IInv, [Next]_vars PROVE IInv'
    OBVIOUS
  <2>1. TypeOK /\ CountInv /\ LoopInv /\ SoundInv
    BY DEF IInv
  <2>2. TypeOK'
    BY <2>1, StepType
  <2>3. CountInv' /\ LoopInv' /\ SoundInv'
    BY <2>1, <2>2, StepCounts, StepLoops, StepSound
  <2> QED
    BY <2>2, <2>3 DEF IInv
<1> QED
  BY <1>1, <1>2, PTL DEF Spec

\* The cursor leaves no mail behind that is neither ingested nor abandoned,
\* but those the code announces to leave or an offset may jump over
\* (saveCursor and the loop of pollMailboxCursor, poll-cursor.js): whatever
\* the pages, the dates, the failures and the moves of the cursor.
THEOREM NoneLostAlways == Spec => []NoneLost
<1>1. IInv => NoneLost
  <2> SUFFICES ASSUME IInv, NEW m \in box \cap writer,
                      Passed([at |-> cursor, done |-> Parsed.done], m)
               PROVE  m \in ingested \cup abandoned \cup excused \cup shifted
    BY DEF NoneLost
  <2> DEFINE p == [at |-> cursor, done |-> Parsed.done]
  <2>1. Sound(p, Seen)
    BY DEF IInv, SoundInv
  <2> HIDE DEF p
  <2>2. Passed(p, m)
    BY DEF p
  <2> QED
    BY <2>1, <2>2 DEF Passed, Sound, Seen
<1> QED
  BY <1>1, Inductive, PTL

\* A mail is abandoned only after MaxAttempts failures of its own, whatever
\* other mails failed meanwhile and however often the process died
\* (MAX_INGEST_ATTEMPTS and the verdict of pollMailboxCursor, poll-cursor.js).
THEOREM AbandonedOftenFailedAlways == Spec => []AbandonedOftenFailed
<1>1. IInv => AbandonedOftenFailed
  BY DEF IInv, CountInv, AbandonedOftenFailed
<1> QED
  BY <1>1, Inductive, PTL

-----------------------------------------------------------------------------
\* A tick goes forward.

\* What the tick may save is not before the cursor it read.
Forward(t) ==
    /\ t.expected <= Ahd(t).at
    /\ t.suspect # None => t.expected <= t.suspect.back.at

ForwardInv == tick # None => Forward(tick)

LEMMA HandleForward ==
    ASSUME TypeOK, TypeOK', LoopInv, ForwardInv, Handle
    PROVE  ForwardInv'
<1>1. PICK m \in Mail : \/ PassOver(m) \/ HandleSilent(m)
                        \/ HandleWrites(m)
                        \/ HandleFails(m) \/ HandleUnknown(m)
  BY DEF Handle
<1>2. IsNext(m)
  BY <1>1 DEF PassOver, HandleSilent, HandleWrites, HandleFails, HandleUnknown, Handled
<1>3. /\ tick \in Tick /\ Counts(tick) /\ tick.jump = None /\ m \in tick.page
      /\ tick.pos \in Position /\ tick # None
  BY <1>2, Underway, Nones
<1>4. Places(tick) /\ ~Passed(tick.pos, m)
  BY <1>3 DEF LoopInv, Loop, Page
<1>5. /\ tick.expected \in Nat /\ tick.pos.at \in Nat /\ date[m] \in Nat
      /\ tick.expected <= tick.pos.at
      /\ tick.suspect # None => /\ tick.suspect.back \in Position /\ tick.suspect.id \in Mail
                                /\ tick.suspect.back.at \in Nat
                                /\ tick.expected <= tick.suspect.back.at
  BY <1>3 DEF ForwardInv, Forward, Ahd, Tick, Suspect, Position, TypeOK
<1>6. /\ After(tick.pos, m).at = date[m] /\ tick.pos.at <= date[m]
  BY <1>3, <1>4, PassedAfter
<1>7. Behind(tick, tick', m) => /\ tick'.expected = tick.expected
                                /\ tick.expected <= Ahd(tick').at
  BY <1>3, <1>5, <1>6 DEF Behind, Kept, Ahd
<1>8. CASE PassOver(m) \/ HandleSilent(m)
  BY <1>5, <1>7, <1>8, SilentStep DEF ForwardInv, Forward, Ahd
<1>9. CASE HandleWrites(m)
  <2>1. CASE Behind(tick, tick', m)
    BY <1>7, <1>9, <2>1, WritesStep DEF ForwardInv, Forward, Ahd
  <2>2. CASE /\ tick.suspect # None /\ Kept(tick, tick')
             /\ tick'.jump = After(tick.suspect.back, tick.suspect.id)
             /\ tick'.jump # None
    <3>1. PICK a \in Position : a = tick'.jump /\ tick.suspect.back.at <= a.at
      BY <1>5, <2>2, AfterIs
    <3>2. tick.expected <= tick'.jump.at
      <4>1. a.at \in Nat
        BY DEF Position
      <4> QED
        BY <1>5, <2>2, <3>1, <4>1
    <3>3. tick'.suspect = None
      BY <1>9, WritesStep
    <3> QED
      BY <2>2, <3>2, <3>3 DEF ForwardInv, Forward, Ahd, Kept
  <2> QED
    BY <1>9, <2>1, <2>2, WritesStep
<1>10. CASE HandleFails(m) \/ HandleUnknown(m)
  <2>1. PICK r \in Failure : r.id = m /\ FailsTo(m, r)
    BY <1>2, <1>10, FailureSteps, FailsStep
  <2>2. CASE tick.suspect # None /\ RolledBack(tick, tick')
    BY <1>3, <1>5, <2>2 DEF ForwardInv, Forward, Ahd, RolledBack, Kept
  <2>3. CASE /\ tick'.suspect = None /\ Kept(tick, tick')
             /\ tick'.pos = tick.pos /\ tick'.jump = tick.jump
    BY <1>3, <1>5, <2>3 DEF ForwardInv, Forward, Ahd, Kept
  <2>4. CASE /\ tick'.suspect = [id |-> m, back |-> tick.pos, retry |-> r, jumped |-> FALSE]
             /\ Behind(tick, tick', m)
    <3>1. tick'.suspect.back = tick.pos
      BY <2>4
    <3> QED
      BY <1>5, <1>7, <2>4, <3>1 DEF ForwardInv, Forward, Ahd
  <2>5. CASE /\ tick'.suspect = [id |-> m, back |-> tick.pos, retry |-> r, jumped |-> TRUE]
             /\ tick.scan # None /\ tick.scan.id = m
             /\ tick'.jump = [at |-> tick.scan.at, done |-> tick.scan.done]
             /\ tick'.jump # None /\ Kept(tick, tick')
    <3>1. tick'.suspect.back = tick.pos /\ tick'.jump.at = tick.scan.at
      BY <2>5
    <3>2. date[m] <= tick.scan.at /\ tick.scan.at \in Nat
      BY <1>3, <1>4, <2>5 DEF Places, Tick, Place
    <3>3. tick.expected <= tick.scan.at
      BY <1>5, <1>6, <3>2
    <3> QED
      BY <1>5, <2>5, <3>1, <3>3 DEF ForwardInv, Forward, Ahd, Kept
  <2> QED
    BY <2>1, <2>2, <2>3, <2>4, <2>5 DEF FailsTo
<1> QED
  BY <1>1, <1>8, <1>9, <1>10

LEMMA StepForward ==
    ASSUME TypeOK, TypeOK', LoopInv, ForwardInv, [Next]_vars
    PROVE  ForwardInv'
<1>1. CASE tick' = tick \/ tick' = None
  BY <1>1 DEF ForwardInv, Forward, Ahd
<1>2. CASE Handle
  BY <1>2, HandleForward
<1>3. CASE TickBegins
  <2>1. PICK t \in Tick :
          /\ tick' = Listing(t)
          /\ t.expected = cursor /\ t.pos = [at |-> cursor, done |-> Parsed.done]
          /\ t.suspect = None /\ t.jump = None
    BY <1>3, BeginsStep
  <2>2. tick'.expected = cursor /\ tick'.suspect = None /\ Ahd(tick').at = cursor
    BY <2>1, ListingIs DEF Ahd
  <2> QED
    BY <2>2 DEF ForwardInv, Forward, Ahd, TypeOK
<1>4. CASE NextPage
  <2>1. tick \in Tick /\ tick # None /\ tick' = Listing(Ended)
    BY <1>4 DEF NextPage, TypeOK
  <2>2. /\ tick'.expected = tick.expected /\ tick'.suspect = tick.suspect
        /\ tick'.pos = Ahd(tick) /\ tick'.jump = None
    BY <2>1, EndedIs, ListingIs
  <2> QED
    BY <2>1, <2>2 DEF ForwardInv, Forward, Ahd
<1> QED
  BY <1>1, <1>2, <1>3, <1>4
  DEF Next, TickStep, Save, ListingFails, TickDies, Ages, Breaks, Recovers, Appears,
      Vanishes, AdminMoves, vars

\* No tick moves the cursor back, whatever it rolls back and wherever the
\* search for a verdict was: mails are not read again without an admin's move
\* (poll-cursor.js, rollback and saveCursor).
THEOREM TicksGoForward == Spec => [][Save => cursor' >= cursor]_vars
<1>1. TypeOK /\ ForwardInv /\ Save => cursor' >= cursor
  <2> SUFFICES ASSUME TypeOK, ForwardInv, Save PROVE cursor' >= cursor
    OBVIOUS
  <2>1. tick # None /\ tick \in Tick /\ Forward(tick) /\ cursor \in Nat
    BY SaveStep DEF ForwardInv, TypeOK
  <2>2. CASE cursor # tick.expected
    BY <2>1, <2>2, SaveStep
  <2>3. CASE cursor = tick.expected
    <3>1. PICK p \in Position, r \in Failure \cup {None}, c \in Place \cup {None} :
            Saves(Verdictless(Ended), p, r, c)
      BY <2>3, SaveStep
    <3>2. /\ Ended \in Tick /\ Ended.suspect = tick.suspect /\ Ended.pos = Ahd(tick)
      BY <2>1, EndedIs
    <3>3. PICK t \in Tick : t = Verdictless(Ended)
      BY <3>2, VerdictlessIs
    <3>4. cursor <= t.pos.at
      <4>1. CASE tick.suspect = None
        BY <2>1, <2>3, <3>2, <3>3, <4>1, VerdictlessIs DEF Forward
      <4>2. CASE tick.suspect # None
        <5>1. t.pos = tick.suspect.back
          BY <3>2, <3>3, <4>2, VerdictlessIs DEF RolledBack
        <5> QED
          BY <2>1, <2>3, <4>2, <5>1 DEF Forward
      <4> QED
        BY <4>1, <4>2
    <3>5. t.pos.at \in Nat /\ (cursor' = t.pos.at \/ cursor' = t.pos.at + 1)
      BY <3>1, <3>3 DEF Saves, Tick, Position
    <3> QED
      BY <2>1, <3>4, <3>5
  <2> QED
    BY <2>2, <2>3
<1>2. Init => ForwardInv
  BY DEF Init, ForwardInv
<1>3. IInv /\ IInv' /\ ForwardInv /\ [Next]_vars => ForwardInv'
  BY StepForward DEF IInv
<1>4. IInv /\ ForwardInv /\ [Next]_vars => [Save => cursor' >= cursor]_vars
  BY <1>1 DEF IInv
<1> QED
  BY <1>2, <1>3, <1>4, Inductive, PTL DEF Spec
=============================================================================
