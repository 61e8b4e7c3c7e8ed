------------------------------ MODULE MailPoll ------------------------------
(***************************************************************************)
(* The polling of one mailbox by cursor (email-bridge/lib/poll-cursor.js),  *)
(* as poll-worker.js and sent-poll-worker.js run it: ticks that list the    *)
(* mails from the cursor on, page after page, ingest each of them, and      *)
(* save how far they went.                                                  *)
(*                                                                         *)
(* Dates are whole seconds, the resolution of Graph's. One action is what   *)
(* a tick does between two `await`s; mails appear and vanish, writes break, *)
(* the process dies and an admin moves the cursor in between. The age of a  *)
(* failure (30 minutes) is a set that time adds to.                         *)
(***************************************************************************)
EXTENDS Naturals, FiniteSets

CONSTANTS
    Mail,          \* mails of the box, numbered in the order Graph lists them
    Excluded,      \* those of system folders: listed, not to process
    None,
    PageSize,      \* PAGE_SIZE
    MaxPages,      \* MAX_PAGES
    SkipLimits,    \* values of MAX_SKIP_PAGES to consider
    MaxAttempts,   \* MAX_INGEST_ATTEMPTS
    MaxAbsent,     \* bound: mails not in the box at first
    MaxPoison,     \* bound: mails whose ingestion always fails
    MaxFaults      \* bound: events of the environment

\* A position: all mails before `at`, and those of that second in `done`.
Position == [at : Nat, done : SUBSET Mail]

\* What waits for the next tick: a mail that failed, and how far the search
\* for its verdict went.
Failure == [id : Mail, attempts : 1..MaxAttempts]
Place   == [id : Mail, at : Nat, done : SUBSET Mail]

\* A mail whose verdict the tick looks for, and the position just before it.
Suspect == [id : Mail, back : Position, retry : Failure, jumped : BOOLEAN]

\* The locals of pollMailboxCursor; `from`, `skip`, `before`: of its last page.
Tick ==
    [expected : Nat, pos : Position, retry : Failure \cup {None},
     scan : Place \cup {None}, suspect : Suspect \cup {None},
     keep : Place \cup {None}, jump : Position \cup {None},
     from : Nat, skip : Nat, page : SUBSET Mail, more : BOOLEAN,
     before : Nat, idle : BOOLEAN, pages : Nat, skipped : Nat,
     processed : Nat, progressed : BOOLEAN, blocked : BOOLEAN]

ASSUME MailPollAssumption ==
    /\ None \notin Position \cup Failure \cup Place \cup Suspect \cup Tick
    /\ IsFiniteSet(Mail) /\ Mail = 1..Cardinality(Mail) /\ Excluded \subseteq Mail
    /\ {PageSize, MaxPages, MaxAttempts} \cup SkipLimits \subseteq Nat \ {0}
    /\ {MaxAbsent, MaxPoison, MaxFaults} \subseteq Nat

VARIABLES
    maxSkipPages, \* MAX_SKIP_PAGES, which does not change
    date,       \* receivedDateTime or sentDateTime
    writer,     \* mails whose ingestion writes; the others match nothing
    poison,     \* writers whose transaction always fails
    box,        \* mails that Graph lists
    ingested,   \* email_thread_mapping
    cursor,     \* setting mail.cursor.<address>
    state,      \* setting mail.cursor_state.<address>
    tick,       \* the locals of pollMailboxCursor, None between two ticks
    aged,       \* mails whose retry.first_at is MIN_POISON_AGE_MS old
    broken,     \* no ingestion can write
    faults,
    failures,   \* history: failures of each mail, up to MaxAttempts
    abandoned,  \* history: mails that `abandon` logged
    excused,    \* history: mails the code says it does not ingest
    shifted     \* history: mails that an offset may have jumped over

mails == <<maxSkipPages, date, writer, poison>>
vars == <<maxSkipPages, date, writer, poison, box, ingested, cursor, state, tick, aged,
          broken, faults, failures, abandoned, excused, shifted>>

history == <<abandoned, excused, shifted>>

Fault == faults < MaxFaults /\ faults' = faults + 1

Init ==
    /\ maxSkipPages \in SkipLimits
    /\ date \in {f \in [Mail -> Mail] :
                   /\ \A m, e \in Mail : e <= m => f[e] <= f[m]
                   /\ \A m \in Mail : f[m] <= IF m = 1 THEN 1 ELSE f[m - 1] + 1}
    /\ writer \in SUBSET (Mail \ Excluded)
    /\ poison \in {P \in SUBSET writer : Cardinality(P) <= MaxPoison}
    /\ box \in {Mail \ A : A \in {B \in SUBSET writer : Cardinality(B) <= MaxAbsent}}
    /\ cursor = 1
    /\ state = [at |-> 0, done |-> {}, retry |-> None, scan |-> None]
    /\ tick = None
    /\ ingested = {} /\ aged = {} /\ broken = FALSE /\ faults = 0
    /\ failures = [m \in Mail |-> 0] /\ abandoned = {} /\ excused = {}
    /\ shifted = {}

-----------------------------------------------------------------------------
\* Positions of the box.

\* The position once mail m is behind: processed, excluded or abandoned.
After(pos, m) ==
    IF date[m] > pos.at THEN [at |-> date[m], done |-> {m}]
    ELSE [pos EXCEPT !.done = @ \cup {m}]

Passed(pos, m) == date[m] < pos.at \/ (date[m] = pos.at /\ m \in pos.done)

\* What Graph lists from a date on, and how many of it before mail m.
ListedFrom(at) == {m \in box : date[m] >= at}

Rank(m, at) == Cardinality({e \in ListedFrom(at) : e < m})

\* The state of the last tick, if it is that of this cursor (parseState).
Parsed ==
    IF state.at = cursor THEN state
    ELSE [at |-> cursor, done |-> {}, retry |-> None, scan |-> None]

-----------------------------------------------------------------------------
\* A tick t that lists its page: at `from`, or at an offset of it (the nextLink
\* of Graph). The mails already done are left out.
Listing(t) ==
    LET page == {m \in ListedFrom(t.from) : /\ Rank(m, t.from) \in t.skip..t.skip + PageSize - 1
                                            /\ ~Passed(t.pos, m)}
    IN [t EXCEPT !.page = page, !.idle = (page = {}), !.before = t.pos.at,
                 !.more = Cardinality(ListedFrom(t.from)) > t.skip + PageSize]

\* pollMailboxCursor, up to its first page.
TickBegins ==
    /\ tick = None
    /\ tick' = Listing(
                 [expected |-> cursor, pos |-> [at |-> cursor, done |-> Parsed.done],
                  retry |-> Parsed.retry, scan |-> Parsed.scan,
                  suspect |-> None, keep |-> None, jump |-> None,
                  from |-> cursor, skip |-> 0, page |-> {}, more |-> FALSE,
                  before |-> cursor, idle |-> TRUE,
                  pages |-> 0, skipped |-> 0, processed |-> 0,
                  progressed |-> FALSE, blocked |-> FALSE])
    /\ UNCHANGED <<mails, box, ingested, cursor, state, aged, broken, faults,
                   failures, history>>

\* Its first page cannot be listed: the failing mail stays recorded, the place
\* of the search is lost.
ListingFails ==
    /\ tick = None /\ Fault
    /\ state' = [Parsed EXCEPT !.scan = None]
    /\ UNCHANGED <<mails, box, ingested, cursor, tick, aged, broken, failures,
                   history>>

PageDone == tick.page = {} \/ tick.blocked \/ tick.jump # None

InPage == tick # None /\ ~PageDone

\* The tick once mail m of its page is behind.
Past(t, m) ==
    [t EXCEPT !.pos = After(@, m), !.page = @ \ {m}, !.progressed = TRUE,
              !.retry = IF @ # None /\ @.id = m THEN None ELSE @]

\* The mail of the page the tick comes to.
IsNext(m) == InPage /\ m \in tick.page /\ \A e \in tick.page : m <= e

\* A mail of a system folder.
PassOver(m) ==
    /\ IsNext(m) /\ m \in Excluded
    /\ tick' = Past(tick, m)
    /\ UNCHANGED <<mails, box, ingested, cursor, state, aged, broken, faults,
                   failures, history>>

\* The next mail goes to `handle`, whose transaction is one step.
Handled(m) == IsNext(m) /\ m \notin Excluded

\* It writes nothing: already ingested, or matches nothing. While a verdict
\* is awaited it does not count.
HandleSilent(m) ==
    /\ Handled(m) /\ (m \notin writer \/ m \in ingested)
    /\ tick' = [Past(tick, m) EXCEPT
                  !.processed = IF tick.suspect = None THEN @ + 1 ELSE @]
    /\ UNCHANGED <<mails, box, ingested, cursor, state, aged, broken, faults,
                   failures, history>>

\* Mutant: the search goes on, without a second look at what it jumped over.
NeverBack(t) == [t EXCEPT !.suspect = None]

\* The verdict was found beyond a kept position: back to just after the
\* suspect, for the mails that appeared in between.
Back(t) ==
    [t EXCEPT !.suspect = None, !.retry = None,
              !.jump = After(t.suspect.back, t.suspect.id)]

\* It commits. A suspect is then alone at fault, and abandoned.
HandleWrites(m) ==
    LET s == tick.suspect
        t == [tick EXCEPT !.processed = @ + 1]
    IN
    /\ Handled(m) /\ m \in writer \ (ingested \cup poison) /\ ~broken
    /\ ingested' = ingested \cup {m}
    /\ \/ s = None /\ tick' = Past(t, m) /\ UNCHANGED abandoned
       \/ /\ s # None
          /\ abandoned' = abandoned \cup {s.id}
          /\ tick' = IF s.jumped THEN Back(t)
                     ELSE Past([t EXCEPT !.suspect = None], m)
    /\ UNCHANGED <<mails, box, cursor, state, aged, broken, faults, failures,
                   excused, shifted>>

\* Mutant: the number of failures does not count.
AgedOnly(m, record) == m \in aged

\* A failure that lasts: a candidate to be abandoned.
Lasting(m, record) == record.attempts >= MaxAttempts /\ m \in aged

\* Mutant: the place is forgotten.
RollbackForgets(t) ==
    [t EXCEPT !.pos = t.suspect.back, !.retry = t.suspect.retry,
              !.suspect = None, !.blocked = TRUE]

\* Two mails fail: nobody is abandoned, the tick ends before the suspect, and
\* the place of the second is kept.
Rollback(t) ==
    [t EXCEPT !.keep = [id |-> t.suspect.id, at |-> t.pos.at, done |-> t.pos.done],
              !.pos = t.suspect.back, !.retry = t.suspect.retry,
              !.suspect = None, !.blocked = TRUE]

\* What a failure of mail m does to the tick.
Failed(m) ==
    LET same == tick.retry # None /\ tick.retry.id = m
        n == IF same THEN tick.retry.attempts + 1 ELSE 1
        record == [id |-> m, attempts |-> IF n > MaxAttempts THEN MaxAttempts ELSE n]
        jumps == tick.scan # None /\ tick.scan.id = m
        t == [tick EXCEPT !.processed = @ + 1]
        suspects == [t EXCEPT !.suspect = [id |-> m, back |-> t.pos, retry |-> record,
                                           jumped |-> jumps],
                              !.scan = None]
    IN
    /\ failures' = [failures EXCEPT ![m] = IF @ < MaxAttempts THEN @ + 1 ELSE @]
    /\ \/ /\ tick.suspect # None
          /\ tick' = Rollback(t)
          /\ UNCHANGED aged
       \/ /\ tick.suspect = None /\ ~Lasting(m, record)
          /\ tick' = [t EXCEPT !.retry = record, !.blocked = TRUE]
          /\ aged' = IF same THEN aged ELSE aged \ {m}
       \/ /\ tick.suspect = None /\ Lasting(m, record)
          /\ tick' = IF jumps
                     THEN [suspects EXCEPT !.jump = [at |-> t.scan.at, done |-> t.scan.done]]
                     ELSE Past(suspects, m)
          /\ UNCHANGED aged

HandleFails(m) ==
    /\ Handled(m)
    /\ IF m \in writer \ ingested /\ (broken \/ m \in poison)
       THEN UNCHANGED faults ELSE Fault
    /\ Failed(m)
    /\ UNCHANGED <<mails, box, ingested, cursor, state, broken, history>>

\* It commits and the answer of the database is lost.
HandleUnknown(m) ==
    /\ Handled(m) /\ m \in writer \ (ingested \cup poison) /\ ~broken /\ Fault
    /\ ingested' = ingested \cup {m}
    /\ Failed(m)
    /\ UNCHANGED <<mails, box, cursor, state, broken, history>>

\* The nextLink, an offset, is followed only if the position did not move.
Skips(t) == t.pos.at = t.before

\* The tick after its page.
Ended ==
    LET t == [tick EXCEPT
                !.page = {}, !.jump = None,
                !.pages = IF tick.idle THEN @ ELSE @ + 1,
                !.skipped = IF tick.idle THEN @ + 1 ELSE @]
    IN
    IF tick.jump # None
    THEN [t EXCEPT !.pos = tick.jump, !.from = tick.jump.at, !.skip = 0, !.more = TRUE]
    ELSE IF Skips(t) THEN [t EXCEPT !.skip = @ + PageSize]
                     ELSE [t EXCEPT !.from = t.pos.at, !.skip = 0]

\* The condition of the loop.
GoesOn(t) == /\ ~t.blocked /\ t.more /\ t.pages < MaxPages
             /\ t.skipped < maxSkipPages /\ t.processed < PageSize

NextPage ==
    /\ tick # None /\ PageDone /\ GoesOn(Ended)
    /\ tick' = Listing(Ended)
    /\ UNCHANGED <<mails, box, ingested, cursor, state, aged, broken, faults,
                   failures, history>>

\* No verdict within the tick: back before the suspect, the place is kept.
Verdictless(t) == IF t.suspect = None THEN t ELSE Rollback(t)

\* The end of the tick and saveCursor, also when a listing fails. A second of
\* which the listing finds nothing new is given up, with the mails of it that
\* were not read.
Save ==
    LET t == Verdictless(Ended)
        retry == IF t.blocked THEN t.retry ELSE None
        valve == ~t.progressed /\ ~t.blocked /\ t.more /\ t.skipped >= maxSkipPages
        pos == IF valve THEN [at |-> t.pos.at + 1, done |-> {}] ELSE t.pos
    IN
    /\ tick # None /\ PageDone
    /\ IF GoesOn(Ended) THEN Fault ELSE UNCHANGED faults
    /\ tick' = None
    /\ IF cursor = tick.expected   \* saveCursor: nobody has moved it
       THEN /\ cursor' = pos.at
            /\ state' = [at |-> pos.at, done |-> pos.done, retry |-> retry,
                         scan |-> IF retry # None /\ t.keep # None /\ t.keep.id = retry.id
                                  THEN t.keep ELSE None]
            /\ excused' = IF valve
                          THEN excused \cup {m \in box : date[m] = t.pos.at /\ m \notin t.pos.done}
                          ELSE excused
       ELSE UNCHANGED <<cursor, state, excused>>
    /\ UNCHANGED <<mails, box, ingested, aged, broken, failures, abandoned, shifted>>

\* The process dies, or saveCursor throws: nothing of the tick is saved.
TickDies ==
    /\ tick # None /\ Fault
    /\ tick' = None
    /\ UNCHANGED <<mails, box, ingested, cursor, state, aged, broken, failures,
                   history>>

-----------------------------------------------------------------------------
\* Around the ticks.

\* A tick looks at the box when it lists, at the cursor when it saves: what
\* happens to them in between may as well happen just before.
ListsNext == tick # None => PageDone /\ GoesOn(Ended)
SavesNext == tick # None => PageDone /\ ~GoesOn(Ended)

\* The tick as it will list.
Ahead == IF tick = None THEN None ELSE Ended

\* Mail m is before the offset of that listing.
Overleapt(m) ==
    /\ Ahead # None /\ Ahead.skip > 0 /\ date[m] >= Ahead.from
    /\ Rank(m, Ahead.from) < Ahead.skip

\* Graph shows a mail, perhaps long after its date: before the cursor, or
\* before the position of the present tick, nobody will look for it.
Appears(m) ==
    /\ m \notin box /\ ListsNext
    /\ box' = box \cup {m}
    /\ excused' = IF date[m] < cursor \/ (tick # None /\ date[m] < Ahead.pos.at)
                  THEN excused \cup {m} ELSE excused
    /\ shifted' = IF Overleapt(m) THEN shifted \cup {m} ELSE shifted
    /\ UNCHANGED <<mails, ingested, cursor, state, tick, aged, broken, faults,
                   failures, abandoned>>

\* A mail is moved or deleted: an offset then leaps over the next one.
Vanishes(m) ==
    /\ m \in box /\ ListsNext /\ Fault
    /\ box' = box \ {m}
    /\ shifted' = IF Overleapt(m)
                  THEN shifted \cup
                       {e \in box : /\ ~Overleapt(e)
                                   /\ \A b \in box : b < e => Overleapt(b) \/ date[b] < Ahead.from}
                  ELSE shifted
    /\ UNCHANGED <<mails, ingested, cursor, state, tick, aged, broken, failures,
                   abandoned, excused>>

\* An admin moves the cursor in SQL: past a mail that blocks the box, or
\* back, for what was abandoned or never listed.
AdminMoves(c) ==
    /\ c # cursor /\ SavesNext /\ Fault
    /\ tick # None => c # tick.expected
    /\ cursor' = c
    /\ LET pos == [at |-> c, done |-> IF state.at = c THEN state.done ELSE {}] IN
       /\ excused' = excused \cup {m \in Mail : Passed(pos, m)}
       /\ abandoned' = {m \in abandoned : Passed(pos, m)}
    /\ UNCHANGED <<mails, box, ingested, state, tick, aged, broken, failures, shifted>>

\* The failure a cursor waits for becomes old; no tick is under way, which
\* would have read it before.
Ages ==
    /\ tick = None /\ Parsed.retry # None /\ Parsed.retry.id \notin aged
    /\ aged' = aged \cup {Parsed.retry.id}
    /\ UNCHANGED <<mails, box, ingested, cursor, state, tick, broken, faults,
                   failures, history>>

Breaks ==
    /\ ~broken /\ Fault
    /\ broken' = TRUE
    /\ UNCHANGED <<mails, box, ingested, cursor, state, tick, aged, failures,
                   history>>

Recovers ==
    /\ broken
    /\ broken' = FALSE
    /\ UNCHANGED <<mails, box, ingested, cursor, state, tick, aged, faults,
                   failures, history>>

-----------------------------------------------------------------------------
Handle == \E m \in Mail : \/ PassOver(m) \/ HandleSilent(m) \/ HandleWrites(m)
                          \/ HandleFails(m) \/ HandleUnknown(m)

TickStep == TickBegins \/ Handle \/ NextPage \/ Save

Next ==
    \/ TickStep \/ ListingFails \/ TickDies \/ Ages \/ Breaks \/ Recovers
    \/ \E m \in Mail : Appears(m) \/ Vanishes(m)
    \/ \E c \in {1, cursor + 1} : AdminMoves(c)

Spec == Init /\ [][Next]_vars

(***************************************************************************)
(* The timer of the worker starts a tick as long as the process is up; the  *)
(* clock turns; what broke the writes is repaired one day.                  *)
(***************************************************************************)
Fairness == WF_vars(TickStep) /\ SF_vars(Ages) /\ WF_vars(Recovers)

FairSpec == Spec /\ Fairness

-----------------------------------------------------------------------------
\* Properties.

\* The cursor leaves no mail behind that is neither ingested nor abandoned,
\* whatever pages, equal dates, failures, restarts and moves of the cursor,
\* but those it announces to leave (poll-cursor.js).
NoneLost ==
    \A m \in box \cap writer :
      Passed([at |-> cursor, done |-> Parsed.done], m)
        => m \in ingested \cup abandoned \cup excused \cup shifted

\* A mail is abandoned only after MaxAttempts failures of its own, whatever
\* other mails failed meanwhile (poll-cursor.js, MAX_INGEST_ATTEMPTS).
AbandonedOftenFailed ==
    \A m \in abandoned : failures[m] >= MaxAttempts

\* So many mails of one second that the ticks may not see past them.
Crowded == \E m \in Mail : Cardinality({e \in Mail : date[e] = date[m]})
                             >= maxSkipPages * PageSize

\* Every mail of the box that can be ingested is in the end, whatever fails
\* before it: one that fails alone is abandoned and blocks nothing
\* (poll-cursor.js, verdict, scan). Left apart: a mail that appears before the
\* place where the search for a verdict goes on, which waits for a later one
\* to be written.
IsIngested ==
    []<>(\/ Crowded
         \/ \A m \in box \cap (writer \ poison) :
              \/ m \in ingested \cup abandoned \cup excused \cup shifted
              \/ state.scan # None /\ date[m] <= state.scan.at)
=============================================================================
