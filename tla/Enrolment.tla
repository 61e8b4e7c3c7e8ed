----------------------------- MODULE Enrolment -----------------------------
(***************************************************************************)
(* Who may speak for a device. Linux machines enrol with a key and are      *)
(* approved by an admin or by a pre-registration (linux/lib/enrollment.js,  *)
(* convert.js, checkin.js); Windows agents hold tokens, unlinked or from a  *)
(* bootstrap (inventory/routes/agent.js, lib/device-claim.js). Both write   *)
(* rows of `devices`: an approval may convert a Windows row, and from then  *)
(* on only the key speaks for it.                                           *)
(*                                                                         *)
(* A step is what the database makes atomic: a transaction that holds the   *)
(* rows it has read FOR UPDATE, or one statement. The transactions under    *)
(* the advisory lock of enrollment.js are two steps, the reads of           *)
(* classifyEnrollment and the rest: what does not take that lock fits       *)
(* between. Serials are normalised, None stands for a missing or a fake     *)
(* one, and one machine has one spelling of its serial. Hostnames are left  *)
(* out: a name that is taken refuses, and a lookup by name finds any row.   *)
(***************************************************************************)
EXTENDS Naturals, FiniteSets

CONSTANTS
    Key,          \* keys of Linux machines
    Row,          \* ids of `devices`, never used twice
    Token,        \* ids of `agent_tokens`
    Serial,
    None,
    Request,      \* bound: requests of Windows agents under way at once
    PendingCap    \* PENDING_CAP

ASSUME EnrolmentAssumption ==
    /\ None \notin Key \cup Row \cup Token \cup Serial
    /\ IsFiniteSet(Key)
    /\ PendingCap \in Nat \ {0}

VARIABLES
    keys,      \* linux_device_keys
    rows,      \* devices: the serial, the manager and the Windows facts
    prereg,    \* linux_preregistrations, by serial
    tokens,    \* agent_tokens
    tx,        \* enrolments and approvals under way
    req        \* requests of Windows agents under way

linux == <<keys, prereg, tx>>
windows == <<tokens, req>>
vars == <<linux, windows, rows>>

MaybeRow == Row \cup {None}
MaybeSerial == Serial \cup {None}

Unknown == [status |-> "unknown", serial |-> None, row |-> None]
NoTx == [op |-> "none", serial |-> None, kind |-> "new", device |-> None, reserved |-> FALSE]
Idle == [step |-> "none", token |-> None, serial |-> None, row |-> None, converted |-> FALSE]

KeyRow ==
    [status : {"unknown", "pending", "approved", "rejected", "revoked"},
     serial : MaybeSerial, row : MaybeRow]
DeviceRow ==
    [kind : {"free", "windows", "pull", "deleted"}, serial : MaybeSerial, facts : BOOLEAN]
TokenRow ==
    [state : {"free", "live", "revoked", "deleted"},
     row : MaybeRow, used : BOOLEAN, rotation : BOOLEAN]
Transaction ==
    [op : {"none", "enroll", "approve"}, serial : MaybeSerial,
     kind : {"new", "preregistered", "reimage", "existing_device", "clone"},
     device : MaybeRow, reserved : BOOLEAN]
\* A checkin (lookup, claim, inventory, results), a WebSocket (connect, open) or
\* a rotation: its token, its row, which is the device_id that authToken read and
\* then the row of the lookup, and, history, whether the row was converted since.
AgentRequest ==
    [step : {"none", "lookup", "claim", "inventory", "results", "connect", "open", "rotate"},
     token : Token \cup {None}, serial : MaybeSerial, row : MaybeRow, converted : BOOLEAN]

TypeOK ==
    /\ keys \in [Key -> KeyRow]
    /\ rows \in [Row -> DeviceRow]
    /\ prereg \in [Serial -> {"none", "open", "used"}]
    /\ tokens \in [Token -> TokenRow]
    /\ tx \in [Key -> Transaction]
    /\ req \in [Request -> AgentRequest]

Init ==
    /\ keys = [k \in Key |-> Unknown]
    /\ rows = [r \in Row |-> [kind |-> "free", serial |-> None, facts |-> FALSE]]
    /\ prereg = [s \in Serial |-> "none"]
    /\ tokens = [t \in Token |->
                 [state |-> "free", row |-> None, used |-> FALSE, rotation |-> FALSE]]
    /\ tx = [k \in Key |-> NoTx]
    /\ req = [q \in Request |-> Idle]

Exists(r) == r \in Row /\ rows[r].kind \in {"windows", "pull"}

\* devices.serial is UNIQUE.
SerialFree(s) == \A r \in Row : Exists(r) /\ s # None => rows[r].serial # s

\* The row of a new device.
Insert(r, kind, s, facts) ==
    /\ rows[r].kind = "free" /\ SerialFree(s)
    /\ rows' = [rows EXCEPT ![r] = [kind |-> kind, serial |-> s, facts |-> facts]]

-----------------------------------------------------------------------------
(* Linux: enrolment and approval. *)

\* Mutant for QueueIsCapped: without the advisory lock.
NoLock == TRUE

Unlocked == \A k \in Key : tx[k].op = "none"

OrNone(S) == IF S = {} THEN {None} ELSE S

DevicesOf(s) == {r \in Row : Exists(r) /\ s # None /\ rows[r].serial = s}

KeysOf(s) == {k \in Key : keys[k].status = "approved" /\ s # None /\ keys[k].serial = s}

Reserved(s) == s \in Serial /\ prereg[s] = "open"

\* The key j is approved for a device that is not there or has another serial.
Kind(s, d, j) ==
    IF j # None /\ (d = None \/ rows[keys[j].row].serial # s) THEN "clone"
    ELSE IF d # None THEN IF rows[d].kind = "pull" THEN "reimage" ELSE "existing_device"
    ELSE IF Reserved(s) THEN "preregistered" ELSE "new"

\* Both queries have LIMIT 1.
Classify(op, k, s) ==
    /\ Unlocked /\ tx[k].op = "none"
    /\ \E d \in OrNone(DevicesOf(s)), j \in OrNone(KeysOf(s) \ {k}) :
         tx' = [tx EXCEPT ![k] = [op |-> op, serial |-> s, kind |-> Kind(s, d, j),
                                  device |-> d, reserved |-> Reserved(s)]]

Pending == {k \in Key : keys[k].status = "pending"}

\* Mutant for RefusedStaysOut: a rejected key asks again.
EnrollsAgain(k, s) ==
    /\ \/ keys[k].status \in {"pending", "rejected"}
       \/ keys[k].status = "unknown" /\ Cardinality(Pending) < PendingCap
    /\ Classify("enroll", k, s)
    /\ UNCHANGED <<keys, prereg, rows, windows>>

EnrollBegins(k, s) ==
    /\ \/ keys[k].status = "pending"
       \/ keys[k].status = "unknown" /\ Cardinality(Pending) < PendingCap
    /\ Classify("enroll", k, s)
    /\ UNCHANGED <<keys, prereg, rows, windows>>

\* Mutant for KeysMatchRows: without the CASE of serial_claimed.
TakesAnySerial(k, s) == s

\* ON CONFLICT DO UPDATE of a key that an admin has decided on; a mismatch of
\* serials changes nothing.
Recontact(k, s) ==
    IF keys[k].status = "approved" /\ keys[k].serial # None THEN keys[k].serial ELSE s

EnrollKnown(k, s) ==
    /\ Unlocked
    /\ keys[k].status \in {"approved", "rejected", "revoked"}
    /\ keys' = [keys EXCEPT ![k].serial = Recontact(k, s)]
    /\ UNCHANGED <<prereg, tx, rows, windows>>

\* In the queue, for a conflict, for a name that is taken, or as unknown hardware.
EnrollStaysPending(k) ==
    /\ tx[k].op = "enroll"
    /\ keys' = [keys EXCEPT ![k] = [status |-> "pending", serial |-> tx[k].serial, row |-> None]]
    /\ tx' = [tx EXCEPT ![k] = NoTx]
    /\ UNCHANGED <<prereg, rows, windows>>

\* bindKey. A reservation deleted and imported again since it was read is taken
\* for the same one.
Consumed(k) ==
    [s \in Serial |-> IF tx[k].reserved /\ s = tx[k].serial /\ prereg[s] = "open"
                      THEN "used" ELSE prereg[s]]

Bound(k, r) == [status |-> "approved", serial |-> tx[k].serial, row |-> r]

BindNew(k, r) ==
    /\ Insert(r, "pull", tx[k].serial, FALSE)
    /\ keys' = [keys EXCEPT ![k] = Bound(k, r)]
    /\ prereg' = Consumed(k)
    /\ tx' = [tx EXCEPT ![k] = NoTx]
    /\ UNCHANGED windows

EnrollAutoApproves(k, r) ==
    tx[k].op = "enroll" /\ tx[k].kind = "preregistered" /\ BindNew(k, r)

ApproveBegins(k) ==
    /\ keys[k].status = "pending"
    /\ Classify("approve", k, keys[k].serial)
    /\ UNCHANGED <<keys, prereg, rows, windows>>

ApproveNew(k, r) ==
    tx[k].op = "approve" /\ tx[k].kind \in {"new", "preregistered"} /\ BindNew(k, r)

KeyOn(r) == {j \in Key : keys[j].status = "approved" /\ keys[j].row = r}

\* A token whose agent has made a checkin, or that comes from a rotation.
Active(t, r) ==
    /\ tokens[t].state = "live" /\ tokens[t].row = r
    /\ tokens[t].used \/ tokens[t].rotation

Unconverted(r) == rows[r].kind = "windows"

\* clearWindowsFacts
Cleared(r) ==
    [t \in Token |-> IF Unconverted(r) /\ tokens[t].row = r /\ tokens[t].state = "live"
                     THEN [tokens[t] EXCEPT !.state = "revoked"] ELSE tokens[t]]

\* Onto an existing row: a re-image of a Linux device, with `supersede` if it
\* has a key, or the conversion of a Windows device, with `revoke_active_token`
\* if it has an active token. The target is the row that carries the serial or
\* the one the request names.
ApproveOnto(k, r, force) ==
    /\ tx[k].op = "approve" /\ tx[k].kind # "clone"
    /\ Exists(r) /\ tx[k].serial # None /\ rows[r].serial = tx[k].serial
    /\ tx[k].device \in {None, r}
    /\ IF Unconverted(r) THEN (\E t \in Token : Active(t, r)) => force
                         ELSE KeyOn(r) # {} => force
    /\ rows' = [rows EXCEPT ![r].kind = "pull",
                            ![r].facts = IF Unconverted(r) THEN FALSE ELSE @]
    /\ keys' = [j \in Key |-> IF j = k THEN Bound(k, r)
                              ELSE IF j \in KeyOn(r) THEN [keys[j] EXCEPT !.status = "revoked"]
                              ELSE keys[j]]
    /\ tokens' = Cleared(r)
    /\ prereg' = Consumed(k)
    /\ tx' = [tx EXCEPT ![k] = NoTx]
    /\ req' = [q \in Request |-> IF req[q].row = r /\ Unconverted(r)
                                 THEN [req[q] EXCEPT !.converted = TRUE] ELSE req[q]]

\* A refusal, an error or a unique constraint: ROLLBACK.
TxFails(k) ==
    /\ tx[k].op # "none"
    /\ tx' = [tx EXCEPT ![k] = NoTx]
    /\ UNCHANGED <<keys, prereg, rows, windows>>

Reject(k) ==
    /\ Unlocked /\ keys[k].status = "pending"
    /\ keys' = [keys EXCEPT ![k].status = "rejected"]
    /\ UNCHANGED <<prereg, tx, rows, windows>>

Revoke(k) ==
    /\ Unlocked /\ keys[k].status = "approved"
    /\ keys' = [keys EXCEPT ![k].status = "revoked"]
    /\ UNCHANGED <<prereg, tx, rows, windows>>

\* Retention of the pending keys; one in a transaction is locked.
Purge(k) ==
    /\ keys[k].status = "pending" /\ tx[k].op = "none"
    /\ keys' = [keys EXCEPT ![k] = Unknown]
    /\ UNCHANGED <<prereg, tx, rows, windows>>

\* A checkin of the Linux agent, outside the lock: a serial not known yet is
\* adopted. Nothing reads the serial of a key revoked meanwhile.
LinuxCheckin(k, s) ==
    /\ keys[k].status = "approved" /\ keys[k].serial = None
    /\ keys' = [keys EXCEPT ![k].serial = s]
    /\ UNCHANGED <<prereg, tx, rows, windows>>

\* importRows, or fromDevices with the serial of a Windows row.
Preregister(s) ==
    /\ prereg[s] = "none"
    /\ prereg' = [prereg EXCEPT ![s] = "open"]
    /\ UNCHANGED <<keys, tx, rows, windows>>

DeletePreregistration(s) ==
    /\ prereg[s] = "open"
    /\ prereg' = [prereg EXCEPT ![s] = "none"]
    /\ UNCHANGED <<keys, tx, rows, windows>>

-----------------------------------------------------------------------------
(* Windows: tokens and checkins. *)

\* Keys and tokens go with their device (ON DELETE CASCADE).
DeleteDevice(r) ==
    /\ Exists(r)
    /\ rows' = [rows EXCEPT ![r] = [kind |-> "deleted", serial |-> None, facts |-> FALSE]]
    /\ keys' = [k \in Key |-> IF keys[k].row = r THEN Unknown ELSE keys[k]]
    /\ tokens' = [t \in Token |-> IF tokens[t].row = r
                                  THEN [state |-> "deleted", row |-> None,
                                        used |-> FALSE, rotation |-> FALSE]
                                  ELSE tokens[t]]
    /\ UNCHANGED <<prereg, tx, req>>

\* sync-intune: an upsert, except on the rows of Linux devices.
IntuneInserts(r, s) == Insert(r, "windows", s, TRUE) /\ UNCHANGED <<linux, windows>>

\* One statement, about a row that is there.
WritesFacts(r) ==
    /\ Exists(r)
    /\ rows' = [rows EXCEPT ![r].facts = TRUE]
    /\ UNCHANGED <<linux, windows>>

IntuneUpdates(r) == Unconverted(r) /\ WritesFacts(r)

Issue(t, r, rotation) == [state |-> "live", row |-> r, used |-> FALSE, rotation |-> rotation]

\* A token for install.ps1, linked at its first checkin.
CreateToken(t) ==
    /\ tokens[t].state = "free"
    /\ tokens' = [tokens EXCEPT ![t] = Issue(t, None, FALSE)]
    /\ UNCHANGED <<linux, rows, req>>

\* By an admin, or by the expiry that a rotation has set.
RevokeToken(t) ==
    /\ tokens[t].state = "live"
    /\ tokens' = [tokens EXCEPT ![t].state = "revoked"]
    /\ UNCHANGED <<linux, rows, req>>

\* checkDeviceClaim, t being the token that is being linked.
Claimable(r, s, t) ==
    /\ Unconverted(r)
    /\ rows[r].serial # None => rows[r].serial = s
    /\ \A u \in Token \ {t} : ~Active(u, r)

\* t becomes n; the other tokens of its device that never served are revoked.
Link(t, n) ==
    [u \in Token |->
        IF u = t THEN n
        ELSE IF /\ tokens[u].state = "live" /\ tokens[u].row = n.row
                /\ ~tokens[u].used /\ ~tokens[u].rotation
             THEN [tokens[u] EXCEPT !.state = "revoked"]
             ELSE tokens[u]]

\* exchange-token: a bootstrap gives a token to a device, known or new.
Exchange(t, r, s) ==
    /\ tokens[t].state = "free"
    /\ \/ Claimable(r, s, t) /\ UNCHANGED rows
       \/ Insert(r, "windows", s, FALSE)
    /\ tokens' = Link(t, Issue(t, r, FALSE))
    /\ UNCHANGED <<linux, req>>

\* Mutant for NoAgentAfterConversion: revocation alone ends the Windows agent.
AuthenticByToken(t) == tokens[t].state = "live"

\* authToken
Authentic(t) ==
    /\ tokens[t].state = "live"
    /\ tokens[t].row \in Row => rows[tokens[t].row].kind # "pull"

\* A request is authenticated; the rest of it follows other awaits.
Begins(q, t, step, s) ==
    /\ req[q].step = "none" /\ Authentic(t)
    /\ req' = [req EXCEPT ![q] = [Idle EXCEPT !.step = step, !.token = t,
                                             !.row = tokens[t].row, !.serial = s]]
    /\ UNCHANGED <<linux, rows, tokens>>

CheckinBegins(q, t, s) == Begins(q, t, "lookup", s)

RotateBegins(q, t) == Begins(q, t, "rotate", None)

\* /ws
ConnectBegins(q, t) == tokens[t].row # None /\ Begins(q, t, "connect", None)

\* By serial, and else by hostname.
Lookup(s) ==
    IF DevicesOf(s) # {} THEN DevicesOf(s) ELSE {r \in Row : Exists(r)} \cup {None}

\* A linked token must not find another row; an unlinked one must claim it.
LookupDevice(q, r) ==
    /\ req[q].step = "lookup" /\ r \in Lookup(req[q].serial)
    /\ req[q].row # None /\ r # None => r = req[q].row
    /\ LET claims == req[q].row = None /\ r # None
       IN  req' = [req EXCEPT ![q].step = IF claims THEN "claim" ELSE "inventory",
                              ![q].row = r, ![q].converted = @ /\ r # None]
    /\ UNCHANGED <<linux, rows, tokens>>

Claim(q) ==
    LET t == req[q].token
        r == req[q].row
    IN  /\ req[q].step = "claim" /\ Exists(r) /\ Claimable(r, req[q].serial, t)
        /\ tokens[t].state # "deleted" /\ tokens[t].row \in {None, r}
        /\ tokens' = Link(t, [tokens[t] EXCEPT !.row = r, !.used = TRUE])
        /\ req' = [req EXCEPT ![q].step = "inventory"]
        /\ UNCHANGED <<linux, rows>>

\* One transaction: the facts of the row that was found, whoever manages it
\* now, or a new row.
Inventory(q, r) ==
    /\ req[q].step = "inventory"
    /\ \/ /\ req[q].row = r /\ Exists(r)
          /\ rows' = [rows EXCEPT ![r].facts = TRUE]
       \/ req[q].row = None /\ Insert(r, "windows", req[q].serial, TRUE)
    /\ req' = [req EXCEPT ![q].step = "results", ![q].row = r]
    /\ UNCHANGED <<linux, tokens>>

\* After authToken, the device must still be there.
Connects(q) ==
    /\ req[q].step = "connect" /\ Exists(req[q].row)
    /\ req' = [req EXCEPT ![q].step = "open"]
    /\ UNCHANGED <<linux, rows, tokens>>

\* After the COMMIT, compliance_results and device_software: statements of
\* their own, each of which may fail.
WritesResults(q) == req[q].step = "results" /\ WritesFacts(req[q].row)

\* last_seen_ws, at the opening and at the closing, the one by an eviction too.
WritesLastSeen(q) == req[q].step = "open" /\ WritesFacts(req[q].row)

\* The last write of a checkin links the token, whatever became of it.
TokenUpdate(q) ==
    LET t == req[q].token
    IN  /\ req[q].step = "results" /\ Exists(req[q].row)
        /\ tokens' = IF tokens[t].state = "deleted" THEN tokens
                     ELSE [tokens EXCEPT ![t].row = req[q].row, ![t].used = TRUE]
        /\ req' = [req EXCEPT ![q] = Idle]
        /\ UNCHANGED <<linux, rows>>

\* The old token lives on for a day, then RevokeToken; device_id is a foreign key.
RotateCommits(q, u) ==
    /\ req[q].step = "rotate" /\ tokens[u].state = "free"
    /\ req[q].row # None => Exists(req[q].row)
    /\ tokens' = [tokens EXCEPT ![u] = Issue(u, req[q].row, TRUE)]
    /\ req' = [req EXCEPT ![q] = Idle]
    /\ UNCHANGED <<linux, rows>>

\* Refused, a constraint of the database, a connection closed, or the API stopped.
RequestEnds(q) ==
    /\ req[q].step # "none"
    /\ req' = [req EXCEPT ![q] = Idle]
    /\ UNCHANGED <<linux, rows, tokens>>

LinuxNext ==
    \/ \E k \in Key, s \in MaybeSerial : EnrollBegins(k, s) \/ EnrollKnown(k, s)
    \/ \E k \in Key, r \in Row : EnrollAutoApproves(k, r) \/ ApproveNew(k, r)
    \/ \E k \in Key, r \in Row, force \in BOOLEAN : ApproveOnto(k, r, force)
    \/ \E k \in Key : \/ EnrollStaysPending(k) \/ ApproveBegins(k) \/ TxFails(k)
                      \/ Reject(k) \/ Revoke(k) \/ Purge(k)
    \/ \E k \in Key, s \in Serial : LinuxCheckin(k, s)
    \/ \E s \in Serial : Preregister(s) \/ DeletePreregistration(s)

WindowsNext ==
    \/ \E r \in Row : DeleteDevice(r) \/ IntuneUpdates(r)
    \/ \E r \in Row, s \in MaybeSerial : IntuneInserts(r, s)
    \/ \E t \in Token : CreateToken(t) \/ RevokeToken(t)
    \/ \E t \in Token, r \in Row, s \in MaybeSerial : Exchange(t, r, s)
    \/ \E q \in Request, t \in Token, s \in MaybeSerial : CheckinBegins(q, t, s)
    \/ \E q \in Request, t \in Token : ConnectBegins(q, t) \/ RotateBegins(q, t)
    \/ \E q \in Request, r \in MaybeRow : LookupDevice(q, r)
    \/ \E q \in Request, r \in Row : Inventory(q, r)
    \/ \E q \in Request, u \in Token : RotateCommits(q, u)
    \/ \E q \in Request : \/ Claim(q) \/ Connects(q) \/ WritesResults(q) \/ WritesLastSeen(q)
                          \/ TokenUpdate(q) \/ RequestEnds(q)

Next == LinuxNext \/ WindowsNext

Spec == Init /\ [][Next]_vars

-----------------------------------------------------------------------------
(* Properties. *)

\* An approved key speaks for exactly one Linux device: its row is there, is
\* managed by it alone, and has the serial of the key, unless the row was
\* created without a serial (bindKey, re-image with supersede, the cascade of
\* a deletion, the serial that an approved key keeps or adopts).
KeysMatchRows ==
    \A k \in Key : keys[k].status = "approved" =>
        /\ keys[k].row \in Row /\ rows[keys[k].row].kind = "pull"
        /\ \A j \in KeyOn(keys[k].row) : j = k
        /\ rows[keys[k].row].serial \in {None, keys[k].serial}

\* The queue of requests never exceeds PENDING_CAP, however many machines
\* contact the server at once (the advisory lock of `transaction`).
QueueIsCapped == Cardinality(Pending) <= PendingCap

\* What an admin rejected or revoked stays out, whatever the machine sends
\* again and whatever reservation exists for its serial; only the deletion of
\* the device forgets a revoked key (enrollDevice, approveEnrollment).
RefusedStaysOut ==
    [][\A k \in Key :
         /\ keys[k].status = "rejected" => keys'[k].status = "rejected"
         /\ keys[k].status = "revoked" =>
              \/ keys'[k].status = "revoked"
              \/ keys'[k] = Unknown /\ rows'[keys[k].row].kind = "deleted"]_vars

\* Windows facts come onto the row of a Linux device only from a request that
\* was authenticated before the conversion and is still writing: a checkin, its
\* inventory or its results, or a WebSocket that opens or closes. No token that
\* is or becomes linked to the row serves after it, and neither does Intune
\* (authToken, checkDeviceClaim, clearWindowsFacts, sync-intune).
NoAgentAfterConversion ==
    [][\A r \in Row :
         /\ rows'[r].kind = "pull" /\ rows'[r].facts
         /\ ~(rows[r].kind = "pull" /\ rows[r].facts)
         => \E q \in Request : /\ req[q].step \in {"inventory", "results", "open"}
                               /\ req[q].row = r /\ req[q].converted]_vars
=============================================================================
