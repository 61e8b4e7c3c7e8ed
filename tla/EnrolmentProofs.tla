-------------------------- MODULE EnrolmentProofs --------------------------
(***************************************************************************)
(* Theorems about Enrolment, for every value of its constants: a key speaks *)
(* for one device, the queue keeps its cap, the refused stay out, and no    *)
(* Windows agent comes back to a converted row.                             *)
(***************************************************************************)
EXTENDS Enrolment, FiniteSetTheorems, TLAPS

\* The advisory lock: one transaction at a time, about a key that no admin has
\* decided on; only an approval gives a key its row.
Locked ==
    /\ \A j, k \in Key : tx[j].op # "none" /\ tx[k].op # "none" => j = k
    /\ \A k \in Key : tx[k].op # "none" => keys[k].status \in {"unknown", "pending"}
    /\ \A k \in Key : keys[k].status \in {"unknown", "pending", "rejected"} => keys[k].row = None

\* What the count of the pending keys told the transaction still holds.
RoomLeft ==
    \A k \in Key : tx[k].op = "enroll" /\ keys[k].status = "unknown"
                   => Cardinality(Pending) < PendingCap

\* A request is about a row that authToken found unconverted, or that was
\* converted since; a claim has yet to be accepted. No row is given out before
\* it exists.
ServedBefore ==
    /\ \A t \in Token : tokens[t].row \in Row => rows[tokens[t].row].kind # "free"
    /\ \A q \in Request :
         req[q].step # "claim" /\ req[q].row \in Row =>
             \/ rows[req[q].row].kind \in {"windows", "deleted"}
             \/ rows[req[q].row].kind = "pull" /\ req[q].converted

IInv == TypeOK /\ KeysMatchRows /\ Locked /\ QueueIsCapped /\ RoomLeft /\ ServedBefore

\* A row that Insert creates is well typed.
LEMMA InsertTyped ==
  ASSUME TypeOK, NEW r \in Row, NEW kind \in {"windows", "pull"}, NEW s \in MaybeSerial,
         NEW facts \in BOOLEAN, Insert(r, kind, s, facts)
  PROVE  rows' \in [Row -> DeviceRow]
  <1>1. [kind |-> kind, serial |-> s, facts |-> facts] \in DeviceRow
    BY DEF DeviceRow
  <1> QED
    BY <1>1 DEF TypeOK, Insert

LEMMA LinuxTypeOK == TypeOK /\ LinuxNext => TypeOK'
  <1> SUFFICES ASSUME TypeOK, LinuxNext PROVE TypeOK'
    OBVIOUS
  <1>1. ASSUME NEW k \in Key, NEW s \in MaybeSerial, EnrollBegins(k, s) PROVE TypeOK'
    BY <1>1 DEF TypeOK, EnrollBegins, Classify, Kind, OrNone, DevicesOf, KeysOf, Reserved,
         Transaction, linux, windows, MaybeRow, MaybeSerial
  <1>2. ASSUME NEW k \in Key, NEW s \in MaybeSerial, EnrollKnown(k, s) PROVE TypeOK'
    BY <1>2 DEF TypeOK, EnrollKnown, Recontact, KeyRow, linux, windows, MaybeRow,
         MaybeSerial
  <1>3. ASSUME NEW k \in Key, NEW r \in Row, EnrollAutoApproves(k, r) PROVE TypeOK'
    BY <1>3 DEF TypeOK, EnrollAutoApproves, BindNew, Insert, Bound, Consumed, NoTx, KeyRow,
         DeviceRow, Transaction, linux, windows, MaybeRow, MaybeSerial
  <1>4. ASSUME NEW k \in Key, NEW r \in Row, ApproveNew(k, r) PROVE TypeOK'
    BY <1>4 DEF TypeOK, ApproveNew, BindNew, Insert, Bound, Consumed, NoTx, KeyRow,
         DeviceRow, Transaction, linux, windows, MaybeRow, MaybeSerial
  <1>5. ASSUME NEW k \in Key, NEW r \in Row, NEW force \in BOOLEAN, ApproveOnto(k, r, force)
        PROVE  TypeOK'
    <2>1. keys' \in [Key -> KeyRow]
      <3>1. Bound(k, r) \in KeyRow
        BY DEF TypeOK, Bound, KeyRow, Transaction, MaybeRow
      <3>2. \A j \in Key : [keys[j] EXCEPT !.status = "revoked"] \in KeyRow /\ keys[j] \in KeyRow
        BY DEF TypeOK, KeyRow
      <3> QED
        BY <1>5, <3>1, <3>2 DEF ApproveOnto
    <2>2. rows' \in [Row -> DeviceRow]
      BY <1>5, ZenonT(30) DEF TypeOK, ApproveOnto, DeviceRow
    <2>3. tokens' \in [Token -> TokenRow]
      BY <1>5 DEF TypeOK, ApproveOnto, Cleared, TokenRow
    <2>4. prereg' \in [Serial -> {"none", "open", "used"}]
      BY <1>5 DEF TypeOK, ApproveOnto, Consumed
    <2>5. tx' \in [Key -> Transaction]
      BY <1>5 DEF TypeOK, ApproveOnto, NoTx, Transaction, MaybeRow, MaybeSerial
    <2>6. req' \in [Request -> AgentRequest]
      BY <1>5 DEF TypeOK, ApproveOnto, AgentRequest
    <2> QED
      BY <1>5, <2>1, <2>2, <2>3, <2>4, <2>5, <2>6 DEF TypeOK, ApproveOnto
  <1>6. ASSUME NEW k \in Key, EnrollStaysPending(k) PROVE TypeOK'
    BY <1>6 DEF TypeOK, EnrollStaysPending, NoTx, KeyRow, Transaction, linux, windows,
         MaybeRow, MaybeSerial
  <1>7. ASSUME NEW k \in Key, ApproveBegins(k) PROVE TypeOK'
    BY <1>7 DEF TypeOK, ApproveBegins, Classify, Kind, OrNone, DevicesOf, KeysOf, Reserved,
         Transaction, KeyRow, linux, windows, MaybeRow, MaybeSerial
  <1>8. ASSUME NEW k \in Key, TxFails(k) PROVE TypeOK'
    BY <1>8 DEF TypeOK, TxFails, NoTx, Transaction, linux, windows, MaybeRow, MaybeSerial
  <1>9. ASSUME NEW k \in Key, Reject(k) PROVE TypeOK'
    BY <1>9 DEF TypeOK, Reject, KeyRow, linux, windows, MaybeRow, MaybeSerial
  <1>10. ASSUME NEW k \in Key, Revoke(k) PROVE TypeOK'
    BY <1>10 DEF TypeOK, Revoke, KeyRow, linux, windows, MaybeRow, MaybeSerial
  <1>11. ASSUME NEW k \in Key, Purge(k) PROVE TypeOK'
    BY <1>11 DEF TypeOK, Purge, Unknown, KeyRow, linux, windows, MaybeRow, MaybeSerial
  <1>12. ASSUME NEW k \in Key, NEW s \in Serial, LinuxCheckin(k, s) PROVE TypeOK'
    BY <1>12 DEF TypeOK, LinuxCheckin, KeyRow, linux, windows, MaybeRow, MaybeSerial
  <1>13. ASSUME NEW s \in Serial, Preregister(s) PROVE TypeOK'
    BY <1>13 DEF TypeOK, Preregister, linux, windows, MaybeRow, MaybeSerial
  <1>14. ASSUME NEW s \in Serial, DeletePreregistration(s) PROVE TypeOK'
    BY <1>14 DEF TypeOK, DeletePreregistration, linux, windows, MaybeRow, MaybeSerial
  <1> QED
    BY <1>1, <1>2, <1>3, <1>4, <1>5, <1>6, <1>7, <1>8, <1>9, <1>10, <1>11, <1>12, <1>13,
       <1>14 DEF LinuxNext

LEMMA IdleTyped == Idle \in AgentRequest
  BY DEF Idle, AgentRequest, MaybeRow, MaybeSerial

\* A request that begins is well typed.
LEMMA BeginsTyped ==
  ASSUME TypeOK, NEW q \in Request, NEW t \in Token, NEW s \in MaybeSerial,
         NEW step \in {"lookup", "connect", "rotate"}, Begins(q, t, step, s)
  PROVE  TypeOK'
  <1>1. tokens[t].row \in MaybeRow
    BY DEF TypeOK, TokenRow
  <1>2. [Idle EXCEPT !.step = step, !.token = t, !.row = tokens[t].row, !.serial = s]
        \in AgentRequest
    BY <1>1 DEF Idle, AgentRequest
  <1>3. req' \in [Request -> AgentRequest]
    BY <1>2 DEF TypeOK, Begins
  <1> QED
    BY <1>3 DEF TypeOK, Begins, linux

LEMMA WindowsTypeOK == TypeOK /\ WindowsNext => TypeOK'
  <1> SUFFICES ASSUME TypeOK, WindowsNext PROVE TypeOK'
    OBVIOUS
  <1>1. ASSUME NEW r \in Row, DeleteDevice(r) PROVE TypeOK'
    BY <1>1 DEF TypeOK, DeleteDevice, Unknown, KeyRow, DeviceRow, TokenRow, linux, windows,
         MaybeRow, MaybeSerial
  <1>2. ASSUME NEW r \in Row, IntuneUpdates(r) PROVE TypeOK'
    BY <1>2 DEF TypeOK, IntuneUpdates, WritesFacts, DeviceRow, linux, windows, MaybeRow, MaybeSerial
  <1>3. ASSUME NEW r \in Row, NEW s \in MaybeSerial, IntuneInserts(r, s) PROVE TypeOK'
    BY <1>3 DEF TypeOK, IntuneInserts, Insert, DeviceRow, linux, windows, MaybeRow,
         MaybeSerial
  <1>4. ASSUME NEW t \in Token, CreateToken(t) PROVE TypeOK'
    BY <1>4 DEF TypeOK, CreateToken, Issue, TokenRow, linux, windows, MaybeRow, MaybeSerial
  <1>5. ASSUME NEW t \in Token, RevokeToken(t) PROVE TypeOK'
    BY <1>5 DEF TypeOK, RevokeToken, TokenRow, linux, windows, MaybeRow, MaybeSerial
  <1>6. ASSUME NEW t \in Token, NEW r \in Row, NEW s \in MaybeSerial, Exchange(t, r, s)
        PROVE  TypeOK'
    <2>1. rows' \in [Row -> DeviceRow]
      <3>1. CASE UNCHANGED rows
        BY <3>1 DEF TypeOK
      <3>2. CASE Insert(r, "windows", s, FALSE)
        BY <3>2, InsertTyped
      <3> QED
        BY <1>6, <3>1, <3>2 DEF Exchange
    <2>2. Issue(t, r, FALSE) \in TokenRow
      BY DEF Issue, TokenRow, MaybeRow
    <2>3. \A u \in Token : /\ tokens[u] \in TokenRow
                           /\ [tokens[u] EXCEPT !.state = "revoked"] \in TokenRow
      BY DEF TypeOK, TokenRow
    <2>4. \A u \in Token : tokens'[u] \in TokenRow
      BY <1>6, <2>2, <2>3 DEF Exchange, Link
    <2>5. tokens' \in [Token -> TokenRow]
      BY <1>6, <2>4 DEF Exchange, Link
    <2> QED
      BY <1>6, <2>1, <2>5 DEF TypeOK, Exchange, linux
  <1>7. ASSUME NEW q \in Request, NEW t \in Token, NEW s \in MaybeSerial, CheckinBegins(q, t, s)
        PROVE  TypeOK'
    <2>1. PICK step \in {"lookup", "connect", "rotate"}, x \in MaybeSerial : Begins(q, t, step, x)
      BY <1>7 DEF CheckinBegins, MaybeSerial
    <2> QED
      BY <2>1, BeginsTyped
  <1>8. ASSUME NEW q \in Request, NEW t \in Token, ConnectBegins(q, t) PROVE TypeOK'
    <2>1. PICK step \in {"lookup", "connect", "rotate"}, x \in MaybeSerial : Begins(q, t, step, x)
      BY <1>8 DEF ConnectBegins, MaybeSerial
    <2> QED
      BY <2>1, BeginsTyped
  <1>9. ASSUME NEW q \in Request, NEW t \in Token, RotateBegins(q, t) PROVE TypeOK'
    <2>1. PICK step \in {"lookup", "connect", "rotate"}, x \in MaybeSerial : Begins(q, t, step, x)
      BY <1>9 DEF RotateBegins, MaybeSerial
    <2> QED
      BY <2>1, BeginsTyped
  <1>10. ASSUME NEW q \in Request, NEW r \in MaybeRow, LookupDevice(q, r) PROVE TypeOK'
    <2>1. req[q] \in AgentRequest
      BY DEF TypeOK
    <2>2. ASSUME NEW step \in {"claim", "inventory"}
          PROVE  [req[q] EXCEPT !.step = step, !.row = r, !.converted = @ /\ r # None]
                 \in AgentRequest
      BY <2>1 DEF AgentRequest
    <2>3. req'[q] \in AgentRequest /\ req' = [req EXCEPT ![q] = req'[q]]
      BY <1>10, <2>2 DEF LookupDevice, TypeOK
    <2>4. req' \in [Request -> AgentRequest]
      BY <2>3 DEF TypeOK
    <2> QED
      BY <1>10, <2>4 DEF TypeOK, LookupDevice, linux
  <1>11. ASSUME NEW q \in Request, NEW r \in Row, Inventory(q, r) PROVE TypeOK'
    <2>1. req' \in [Request -> AgentRequest]
      <3>1. req[q] \in AgentRequest /\ r \in MaybeRow
        BY DEF TypeOK, MaybeRow
      <3>2. [req[q] EXCEPT !.step = "results", !.row = r] \in AgentRequest
        BY <3>1 DEF AgentRequest
      <3> QED
        BY <1>11, <3>2 DEF TypeOK, Inventory
    <2>2. CASE req[q].row = r /\ Exists(r) /\ rows' = [rows EXCEPT ![r].facts = TRUE]
      <3>1. rows' \in [Row -> DeviceRow]
        BY <2>2 DEF TypeOK, DeviceRow
      <3> QED
        BY <1>11, <2>1, <3>1 DEF TypeOK, Inventory, linux
    <2>3. CASE Insert(r, "windows", req[q].serial, TRUE)
      <3>1. req[q].serial \in MaybeSerial
        BY DEF TypeOK, AgentRequest
      <3>2. rows' \in [Row -> DeviceRow]
        BY <2>3, <3>1, InsertTyped
      <3> QED
        BY <1>11, <2>1, <3>2 DEF TypeOK, Inventory, linux
    <2> QED
      BY <1>11, <2>2, <2>3 DEF Inventory
  <1>12. ASSUME NEW q \in Request, NEW u \in Token, RotateCommits(q, u) PROVE TypeOK'
    <2>1. Issue(u, req[q].row, TRUE) \in TokenRow
      BY DEF Issue, TokenRow, TypeOK, AgentRequest
    <2>2. tokens' \in [Token -> TokenRow]
      BY <1>12, <2>1 DEF TypeOK, RotateCommits
    <2>3. req' \in [Request -> AgentRequest]
      BY <1>12, IdleTyped DEF TypeOK, RotateCommits
    <2> QED
      BY <1>12, <2>2, <2>3 DEF TypeOK, RotateCommits, linux
  <1>13. ASSUME NEW q \in Request, Claim(q) PROVE TypeOK'
    <2>1. req[q].row \in MaybeRow /\ \A t \in Token : tokens[t] \in TokenRow
      BY DEF TypeOK, AgentRequest
    <2>2. \A t \in Token : [tokens[t] EXCEPT !.row = req[q].row, !.used = TRUE] \in TokenRow
      BY <2>1 DEF TokenRow
    <2>3. \A t \in Token : [tokens[t] EXCEPT !.state = "revoked"] \in TokenRow
      BY <2>1 DEF TokenRow
    <2>4. \A t \in Token : tokens'[t] \in TokenRow
      BY <1>13, <2>1, <2>2, <2>3 DEF Claim, Link
    <2>5. tokens' \in [Token -> TokenRow]
      BY <1>13, <2>4 DEF Claim, Link
    <2>6. req' \in [Request -> AgentRequest]
      BY <1>13 DEF TypeOK, Claim, AgentRequest
    <2> QED
      BY <1>13, <2>5, <2>6 DEF TypeOK, Claim, linux
  <1>14. ASSUME NEW q \in Request, Connects(q) PROVE TypeOK'
    <2>1. req' \in [Request -> AgentRequest]
      BY <1>14 DEF TypeOK, Connects, AgentRequest
    <2> QED
      BY <1>14, <2>1 DEF TypeOK, Connects, linux
  <1>15. ASSUME NEW q \in Request, WritesResults(q) PROVE TypeOK'
    BY <1>15 DEF TypeOK, WritesResults, WritesFacts, DeviceRow, linux, windows
  <1>16. ASSUME NEW q \in Request, WritesLastSeen(q) PROVE TypeOK'
    BY <1>16 DEF TypeOK, WritesLastSeen, WritesFacts, DeviceRow, linux, windows
  <1>17. ASSUME NEW q \in Request, TokenUpdate(q) PROVE TypeOK'
    <2>1. req[q].row \in MaybeRow
      BY DEF TypeOK, AgentRequest
    <2>2. tokens' \in [Token -> TokenRow]
      <3> DEFINE t == req[q].token
                 n == [tokens[t] EXCEPT !.row = req[q].row, !.used = TRUE]
      <3>1. t \in Token => n \in TokenRow
        BY <2>1, ZenonT(30) DEF TypeOK, TokenRow
      <3>2. tokens' = tokens \/ tokens' = [tokens EXCEPT ![t] = n]
        BY <1>17 DEF TokenUpdate
      <3> HIDE DEF n
      <3> QED
        BY <3>1, <3>2 DEF TypeOK
    <2>3. req' \in [Request -> AgentRequest]
      BY <1>17, IdleTyped DEF TypeOK, TokenUpdate
    <2> QED
      BY <1>17, <2>2, <2>3 DEF TypeOK, TokenUpdate, linux
  <1>18. ASSUME NEW q \in Request, RequestEnds(q) PROVE TypeOK'
    <2>1. req' \in [Request -> AgentRequest]
      BY <1>18, IdleTyped DEF TypeOK, RequestEnds
    <2> QED
      BY <1>18, <2>1 DEF TypeOK, RequestEnds, linux
  <1> QED
    BY <1>1, <1>2, <1>3, <1>4, <1>5, <1>6, <1>7, <1>8, <1>9, <1>10, <1>11, <1>12, <1>13,
       <1>14, <1>15, <1>16, <1>17, <1>18 DEF WindowsNext

LEMMA TypeStep == TypeOK /\ [Next]_vars => TypeOK'
  <1>1. TypeOK /\ UNCHANGED vars => TypeOK'
    BY DEF TypeOK, vars, linux, windows
  <1> QED
    BY <1>1, LinuxTypeOK, WindowsTypeOK DEF Next

-----------------------------------------------------------------------------
(* A key speaks for one device. *)

\* The rows of the Linux devices keep what KeysMatchRows says of them.
PullsKept ==
    \A q \in Row : rows[q].kind = "pull" =>
        rows'[q].kind = "pull" /\ rows'[q].serial = rows[q].serial

\* With the keys and the Linux rows as they were, nothing changes.
LEMMA KeysKept ==
  ASSUME KeysMatchRows, keys' = keys, PullsKept
  PROVE  KeysMatchRows'
  BY DEF KeysMatchRows, KeyOn, PullsKept

\* A new row takes the place of none.
LEMMA InsertKeepsPulls ==
  ASSUME TypeOK, NEW r \in Row, NEW kind, NEW s, NEW facts, Insert(r, kind, s, facts)
  PROVE  PullsKept
  BY DEF TypeOK, Insert, PullsKept

\* A key that is not approved, or no longer, leaves the others alone.
LEMMA ReleasedKey ==
  ASSUME KeysMatchRows, NEW k \in Key, rows' = rows, keys'[k].status # "approved",
         \A j \in Key \ {k} : keys'[j] = keys[j]
  PROVE  KeysMatchRows'
  <1> SUFFICES ASSUME NEW j \in Key, keys'[j].status = "approved"
               PROVE  /\ keys[j].row \in Row /\ rows[keys[j].row].kind = "pull"
                      /\ \A i \in KeyOn(keys[j].row)' : i = j
                      /\ rows[keys[j].row].serial \in {None, keys[j].serial}
    BY DEF KeysMatchRows, KeyOn
  <1>1. j # k /\ keys'[j] = keys[j]
    OBVIOUS
  <1> QED
    BY <1>1 DEF KeysMatchRows, KeyOn

\* An approved key without a serial adopts one: its row has none.
LEMMA Adopts ==
  ASSUME KeysMatchRows, TypeOK, rows' = rows, NEW k \in Key, NEW s,
         keys[k].serial = None, keys' = [keys EXCEPT ![k].serial = s]
  PROVE  KeysMatchRows'
  <1>1. \A j \in Key : /\ keys'[j].status = keys[j].status /\ keys'[j].row = keys[j].row
                       /\ j # k => keys'[j].serial = keys[j].serial
    BY DEF TypeOK, KeyRow
  <1>2. keys[k].status = "approved" => rows[keys[k].row].serial = None
    BY DEF KeysMatchRows
  <1> QED
    BY <1>1, <1>2 DEF KeysMatchRows, KeyOn

\* bindKey on a row that no other approved key holds.
LEMMA Binds ==
  ASSUME KeysMatchRows, TypeOK, PullsKept, NEW k \in Key, NEW r \in Row,
         keys[k].status # "approved",
         \A j \in Key \ {k} : /\ keys'[j].row = keys[j].row /\ keys'[j].serial = keys[j].serial
                              /\ keys'[j].status = "approved" =>
                                   keys[j].status = "approved" /\ keys[j].row # r
                              /\ keys[j].status = "approved" /\ keys[j].row # r =>
                                   keys'[j].status = "approved",
         keys'[k] = Bound(k, r),
         rows'[r].kind = "pull", rows'[r].serial \in {None, tx[k].serial}
  PROVE  KeysMatchRows'
  <1>1. keys'[k].status = "approved" /\ keys'[k].row = r /\ keys'[k].serial = tx[k].serial
    BY DEF Bound
  <1>2. ASSUME NEW j \in Key \ {k}, keys'[j].status = "approved"
        PROVE  /\ keys[j].status = "approved" /\ keys[j].row # r
               /\ keys'[j].row = keys[j].row /\ keys'[j].serial = keys[j].serial
               /\ keys[j].row \in Row
               /\ rows'[keys[j].row].kind = "pull"
               /\ rows'[keys[j].row].serial = rows[keys[j].row].serial
    BY <1>2 DEF KeysMatchRows, PullsKept
  <1>3. ASSUME NEW i \in Key, NEW j \in Key, keys'[i].status = "approved",
               keys'[j].status = "approved", keys'[i].row = keys'[j].row
        PROVE  i = j
    <2>1. CASE i = k \/ j = k
      BY <1>1, <1>2, <1>3, <2>1
    <2>2. CASE i # k /\ j # k
      BY <1>2, <1>3, <2>2 DEF KeysMatchRows, KeyOn
    <2> QED
      BY <2>1, <2>2
  <1>4. ASSUME NEW j \in Key, keys'[j].status = "approved"
        PROVE  /\ keys'[j].row \in Row /\ rows'[keys'[j].row].kind = "pull"
               /\ rows'[keys'[j].row].serial \in {None, keys'[j].serial}
    <2>1. CASE j = k
      BY <1>1, <2>1
    <2>2. CASE j # k
      BY <1>2, <1>4, <2>2 DEF KeysMatchRows
    <2> QED
      BY <2>1, <2>2
  <1> QED
    BY <1>3, <1>4 DEF KeysMatchRows, KeyOn

\* The row of a new Linux device.
LEMMA BindsNew ==
  ASSUME KeysMatchRows, TypeOK, Locked, NEW k \in Key, NEW r \in Row, BindNew(k, r),
         tx[k].op # "none"
  PROVE  KeysMatchRows'
  <1>1. PullsKept
    BY InsertKeepsPulls DEF BindNew
  <1>2. rows'[r].kind = "pull" /\ rows'[r].serial = tx[k].serial /\ rows[r].kind = "free"
    BY DEF BindNew, Insert, TypeOK
  <1>3. keys'[k] = Bound(k, r) /\ \A j \in Key \ {k} : keys'[j] = keys[j]
    BY DEF BindNew, TypeOK
  <1>4. \A j \in Key : keys[j].status = "approved" => keys[j].row # r
    BY <1>2 DEF KeysMatchRows
  <1>5. keys[k].status # "approved"
    BY DEF Locked
  <1> QED
    BY <1>1, <1>2, <1>3, <1>4, <1>5, Binds

LEMMA LinuxMatch == IInv /\ LinuxNext => KeysMatchRows'
  <1> SUFFICES ASSUME IInv, LinuxNext PROVE KeysMatchRows'
    OBVIOUS
  <1>1. ASSUME NEW k \in Key, NEW s \in MaybeSerial, EnrollBegins(k, s) PROVE KeysMatchRows'
    BY <1>1, KeysKept DEF IInv, PullsKept, EnrollBegins
  <1>2. ASSUME NEW k \in Key, NEW s \in MaybeSerial, EnrollKnown(k, s) PROVE KeysMatchRows'
    <2>1. CASE keys[k].status = "approved" /\ keys[k].serial = None
      <3>1. keys' = [keys EXCEPT ![k].serial = s] /\ rows' = rows
        BY <1>2, <2>1 DEF EnrollKnown, Recontact
      <3> QED
        BY <2>1, <3>1, Adopts DEF IInv
    <2>2. CASE keys[k].status = "approved" /\ keys[k].serial # None
      <3>1. keys' = keys /\ rows' = rows
        BY <1>2, <2>2 DEF EnrollKnown, Recontact, IInv, TypeOK, KeyRow
      <3> QED
        BY <3>1, KeysKept DEF IInv, PullsKept
    <2>3. CASE keys[k].status # "approved"
      <3>1. rows' = rows /\ keys'[k].status # "approved" /\ \A j \in Key \ {k} : keys'[j] = keys[j]
        BY <1>2, <2>3 DEF EnrollKnown, IInv, TypeOK, KeyRow
      <3> QED
        BY <3>1, ReleasedKey DEF IInv
    <2> QED
      BY <2>1, <2>2, <2>3
  <1>3. ASSUME NEW k \in Key, NEW r \in Row, EnrollAutoApproves(k, r) PROVE KeysMatchRows'
    BY <1>3, BindsNew DEF IInv, EnrollAutoApproves
  <1>4. ASSUME NEW k \in Key, NEW r \in Row, ApproveNew(k, r) PROVE KeysMatchRows'
    BY <1>4, BindsNew DEF IInv, ApproveNew
  <1>5. ASSUME NEW k \in Key, NEW r \in Row, NEW force \in BOOLEAN, ApproveOnto(k, r, force)
        PROVE  KeysMatchRows'
    <2>1. PullsKept /\ rows'[r].kind = "pull" /\ rows'[r].serial = tx[k].serial
      BY <1>5 DEF ApproveOnto, IInv, TypeOK, DeviceRow, PullsKept
    <2>2. keys'[k] = Bound(k, r) /\ keys[k].status # "approved"
      BY <1>5 DEF ApproveOnto, IInv, Locked
    <2>3. ASSUME NEW j \in Key \ {k}
          PROVE  /\ keys'[j].row = keys[j].row /\ keys'[j].serial = keys[j].serial
                 /\ keys'[j].status = "approved" =>
                      keys[j].status = "approved" /\ keys[j].row # r
                 /\ keys[j].status = "approved" /\ keys[j].row # r =>
                      keys'[j].status = "approved"
      <3>1. keys[j] \in KeyRow
        BY DEF IInv, TypeOK
      <3>2. keys'[j] = IF j \in KeyOn(r) THEN [keys[j] EXCEPT !.status = "revoked"] ELSE keys[j]
        BY <1>5 DEF ApproveOnto
      <3> QED
        BY <3>1, <3>2 DEF KeyOn, KeyRow
    <2> QED
      BY <2>1, <2>2, <2>3, Binds DEF IInv
  <1>6. ASSUME NEW k \in Key, EnrollStaysPending(k) PROVE KeysMatchRows'
    <2>1. rows' = rows /\ keys'[k].status # "approved" /\ \A j \in Key \ {k} : keys'[j] = keys[j]
      BY <1>6 DEF IInv, TypeOK, KeyRow, EnrollStaysPending
    <2> QED
      BY <2>1, ReleasedKey DEF IInv
  <1>7. ASSUME NEW k \in Key, ApproveBegins(k) PROVE KeysMatchRows'
    BY <1>7, KeysKept DEF IInv, PullsKept, ApproveBegins
  <1>8. ASSUME NEW k \in Key, TxFails(k) PROVE KeysMatchRows'
    BY <1>8, KeysKept DEF IInv, PullsKept, TxFails
  <1>9. ASSUME NEW k \in Key, Reject(k) PROVE KeysMatchRows'
    <2>1. rows' = rows /\ keys'[k].status # "approved" /\ \A j \in Key \ {k} : keys'[j] = keys[j]
      BY <1>9 DEF IInv, TypeOK, KeyRow, Reject
    <2> QED
      BY <2>1, ReleasedKey DEF IInv
  <1>10. ASSUME NEW k \in Key, Revoke(k) PROVE KeysMatchRows'
    <2>1. rows' = rows /\ keys'[k].status # "approved" /\ \A j \in Key \ {k} : keys'[j] = keys[j]
      BY <1>10 DEF IInv, TypeOK, KeyRow, Revoke
    <2> QED
      BY <2>1, ReleasedKey DEF IInv
  <1>11. ASSUME NEW k \in Key, Purge(k) PROVE KeysMatchRows'
    <2>1. rows' = rows /\ keys'[k].status # "approved" /\ \A j \in Key \ {k} : keys'[j] = keys[j]
      BY <1>11 DEF IInv, TypeOK, KeyRow, Purge, Unknown
    <2> QED
      BY <2>1, ReleasedKey DEF IInv
  <1>12. ASSUME NEW k \in Key, NEW s \in Serial, LinuxCheckin(k, s) PROVE KeysMatchRows'
    BY <1>12, Adopts DEF IInv, LinuxCheckin
  <1>13. ASSUME NEW s \in Serial, Preregister(s) PROVE KeysMatchRows'
    BY <1>13, KeysKept DEF IInv, PullsKept, Preregister
  <1>14. ASSUME NEW s \in Serial, DeletePreregistration(s) PROVE KeysMatchRows'
    BY <1>14, KeysKept DEF IInv, PullsKept, DeletePreregistration
  <1> QED
    BY <1>1, <1>2, <1>3, <1>4, <1>5, <1>6, <1>7, <1>8, <1>9, <1>10, <1>11, <1>12, <1>13,
       <1>14 DEF LinuxNext

\* Facts change neither a key nor a manager.
LEMMA FactsKept == ASSUME IInv, NEW r, WritesFacts(r) PROVE KeysMatchRows'
  <1>1. PullsKept
    BY DEF WritesFacts, Exists, IInv, TypeOK, DeviceRow, PullsKept
  <1> QED
    BY <1>1, KeysKept DEF WritesFacts, IInv, linux

LEMMA WindowsMatch == IInv /\ WindowsNext => KeysMatchRows'
  <1> SUFFICES ASSUME IInv, WindowsNext PROVE KeysMatchRows'
    OBVIOUS
  <1>1. ASSUME NEW r \in Row, DeleteDevice(r) PROVE KeysMatchRows'
    <2>1. ASSUME NEW k \in Key, keys'[k].status = "approved"
          PROVE  keys'[k] = keys[k] /\ keys[k].row # r
      BY <1>1, <2>1 DEF DeleteDevice, Unknown
    <2>2. \A q \in Row \ {r} : rows'[q] = rows[q]
      BY <1>1 DEF DeleteDevice, IInv, TypeOK
    <2> QED
      BY <2>1, <2>2 DEF IInv, KeysMatchRows, KeyOn
  <1>2. ASSUME NEW r \in Row, IntuneUpdates(r) PROVE KeysMatchRows'
    BY <1>2, FactsKept DEF IntuneUpdates
  <1>3. ASSUME NEW r \in Row, NEW s \in MaybeSerial, IntuneInserts(r, s)
        PROVE  KeysMatchRows'
    <2>1. PullsKept
      BY <1>3, InsertKeepsPulls DEF IntuneInserts, IInv
    <2> QED
      BY <1>3, <2>1, KeysKept DEF IntuneInserts, IInv, linux
  <1>4. ASSUME NEW t \in Token, CreateToken(t) PROVE KeysMatchRows'
    BY <1>4, KeysKept DEF IInv, PullsKept, linux, CreateToken
  <1>5. ASSUME NEW t \in Token, RevokeToken(t) PROVE KeysMatchRows'
    BY <1>5, KeysKept DEF IInv, PullsKept, linux, RevokeToken
  <1>6. ASSUME NEW t \in Token, NEW r \in Row, NEW s \in MaybeSerial, Exchange(t, r, s)
        PROVE  KeysMatchRows'
    <2>1. PullsKept
      <3>1. CASE UNCHANGED rows
        BY <3>1 DEF PullsKept
      <3>2. CASE Insert(r, "windows", s, FALSE)
        BY <3>2, InsertKeepsPulls DEF IInv
      <3> QED
        BY <1>6, <3>1, <3>2 DEF Exchange
    <2> QED
      BY <1>6, <2>1, KeysKept DEF Exchange, IInv, linux
  <1>7. ASSUME NEW q \in Request, NEW t \in Token, NEW s \in MaybeSerial, CheckinBegins(q, t, s)
        PROVE  KeysMatchRows'
    BY <1>7, KeysKept DEF IInv, PullsKept, linux, CheckinBegins, Begins
  <1>8. ASSUME NEW q \in Request, NEW t \in Token, ConnectBegins(q, t) PROVE KeysMatchRows'
    BY <1>8, KeysKept DEF IInv, PullsKept, linux, ConnectBegins, Begins
  <1>9. ASSUME NEW q \in Request, NEW t \in Token, RotateBegins(q, t) PROVE KeysMatchRows'
    BY <1>9, KeysKept DEF IInv, PullsKept, linux, RotateBegins, Begins
  <1>10. ASSUME NEW q \in Request, NEW r \in MaybeRow, LookupDevice(q, r) PROVE KeysMatchRows'
    BY <1>10, KeysKept DEF IInv, PullsKept, linux, LookupDevice
  <1>11. ASSUME NEW q \in Request, NEW r \in Row, Inventory(q, r) PROVE KeysMatchRows'
    <2>1. PullsKept
      <3>1. CASE rows' = [rows EXCEPT ![r].facts = TRUE]
        BY <3>1 DEF IInv, TypeOK, DeviceRow, PullsKept
      <3>2. CASE Insert(r, "windows", req[q].serial, TRUE)
        BY <3>2, InsertKeepsPulls DEF IInv
      <3> QED
        BY <1>11, <3>1, <3>2 DEF Inventory
    <2> QED
      BY <1>11, <2>1, KeysKept DEF Inventory, IInv, linux
  <1>12. ASSUME NEW q \in Request, NEW u \in Token, RotateCommits(q, u) PROVE KeysMatchRows'
    BY <1>12, KeysKept DEF IInv, PullsKept, linux, RotateCommits
  <1>13. ASSUME NEW q \in Request, Claim(q) PROVE KeysMatchRows'
    BY <1>13, KeysKept DEF IInv, PullsKept, linux, Claim
  <1>14. ASSUME NEW q \in Request, Connects(q) PROVE KeysMatchRows'
    BY <1>14, KeysKept DEF IInv, PullsKept, linux, Connects
  <1>15. ASSUME NEW q \in Request, WritesResults(q) PROVE KeysMatchRows'
    BY <1>15, FactsKept DEF WritesResults
  <1>16. ASSUME NEW q \in Request, WritesLastSeen(q) PROVE KeysMatchRows'
    BY <1>16, FactsKept DEF WritesLastSeen
  <1>17. ASSUME NEW q \in Request, TokenUpdate(q) PROVE KeysMatchRows'
    BY <1>17, KeysKept DEF IInv, PullsKept, linux, TokenUpdate
  <1>18. ASSUME NEW q \in Request, RequestEnds(q) PROVE KeysMatchRows'
    BY <1>18, KeysKept DEF IInv, PullsKept, linux, RequestEnds
  <1> QED
    BY <1>1, <1>2, <1>3, <1>4, <1>5, <1>6, <1>7, <1>8, <1>9, <1>10, <1>11, <1>12, <1>13,
       <1>14, <1>15, <1>16, <1>17, <1>18 DEF WindowsNext

-----------------------------------------------------------------------------
(* The lock. *)

LEMMA LinuxLock == IInv /\ LinuxNext => Locked'
  <1> SUFFICES ASSUME IInv, LinuxNext PROVE Locked'
    OBVIOUS
  <1>1. ASSUME NEW k \in Key, NEW s \in MaybeSerial, EnrollBegins(k, s) PROVE Locked'
    BY <1>1 DEF IInv, Locked, TypeOK, KeyRow, Transaction, EnrollBegins, Classify, Unlocked
  <1>2. ASSUME NEW k \in Key, NEW s \in MaybeSerial, EnrollKnown(k, s) PROVE Locked'
    BY <1>2 DEF IInv, Locked, TypeOK, KeyRow, Transaction, EnrollKnown, Unlocked
  <1>3. ASSUME NEW k \in Key, NEW r \in Row, EnrollAutoApproves(k, r) PROVE Locked'
    BY <1>3 DEF IInv, Locked, TypeOK, KeyRow, Transaction, EnrollAutoApproves, BindNew,
         Bound, NoTx
  <1>4. ASSUME NEW k \in Key, NEW r \in Row, ApproveNew(k, r) PROVE Locked'
    BY <1>4 DEF IInv, Locked, TypeOK, KeyRow, Transaction, ApproveNew, BindNew, Bound, NoTx
  <1>5. ASSUME NEW k \in Key, NEW r \in Row, NEW force \in BOOLEAN, ApproveOnto(k, r, force)
        PROVE  Locked'
    <2>1. \A j \in Key : tx'[j] = IF j = k THEN NoTx ELSE tx[j]
      BY <1>5 DEF ApproveOnto, IInv, TypeOK
    <2>2. \A j \in Key \ {k} : tx[j].op = "none"
      BY <1>5 DEF ApproveOnto, IInv, Locked
    <2>3. \A j \in Key : tx'[j].op = "none"
      BY <2>1, <2>2 DEF NoTx
    <2>4. ASSUME NEW j \in Key, keys'[j].status \in {"unknown", "pending", "rejected"}
          PROVE  keys'[j] = keys[j]
      <3>1. keys[j] \in KeyRow
        BY DEF IInv, TypeOK
      <3> QED
        BY <1>5, <2>4, <3>1 DEF ApproveOnto, Bound, KeyRow
    <2> QED
      BY <2>3, <2>4 DEF IInv, Locked
  <1>6. ASSUME NEW k \in Key, EnrollStaysPending(k) PROVE Locked'
    BY <1>6 DEF IInv, Locked, TypeOK, KeyRow, Transaction, EnrollStaysPending, NoTx
  <1>7. ASSUME NEW k \in Key, ApproveBegins(k) PROVE Locked'
    BY <1>7 DEF IInv, Locked, TypeOK, KeyRow, Transaction, ApproveBegins, Classify, Unlocked
  <1>8. ASSUME NEW k \in Key, TxFails(k) PROVE Locked'
    BY <1>8 DEF IInv, Locked, TypeOK, KeyRow, Transaction, TxFails, NoTx
  <1>9. ASSUME NEW k \in Key, Reject(k) PROVE Locked'
    BY <1>9 DEF IInv, Locked, TypeOK, KeyRow, Transaction, Reject, Unlocked
  <1>10. ASSUME NEW k \in Key, Revoke(k) PROVE Locked'
    BY <1>10 DEF IInv, Locked, TypeOK, KeyRow, Transaction, Revoke, Unlocked
  <1>11. ASSUME NEW k \in Key, Purge(k) PROVE Locked'
    BY <1>11 DEF IInv, Locked, TypeOK, KeyRow, Transaction, Purge, Unknown
  <1>12. ASSUME NEW k \in Key, NEW s \in Serial, LinuxCheckin(k, s) PROVE Locked'
    BY <1>12 DEF IInv, Locked, TypeOK, KeyRow, Transaction, LinuxCheckin
  <1>13. ASSUME NEW s \in Serial, Preregister(s) PROVE Locked'
    BY <1>13 DEF IInv, Locked, TypeOK, KeyRow, Transaction, Preregister
  <1>14. ASSUME NEW s \in Serial, DeletePreregistration(s) PROVE Locked'
    BY <1>14 DEF IInv, Locked, TypeOK, KeyRow, Transaction, DeletePreregistration
  <1> QED
    BY <1>1, <1>2, <1>3, <1>4, <1>5, <1>6, <1>7, <1>8, <1>9, <1>10, <1>11, <1>12, <1>13,
       <1>14 DEF LinuxNext

LEMMA WindowsLock == IInv /\ WindowsNext => Locked'
  <1> SUFFICES ASSUME IInv, WindowsNext PROVE Locked'
    OBVIOUS
  <1>1. ASSUME NEW r \in Row, DeleteDevice(r) PROVE Locked'
    BY <1>1 DEF IInv, Locked, TypeOK, KeyRow, Transaction, DeleteDevice, Unknown, linux
  <1>2. ASSUME NEW r \in Row, IntuneUpdates(r) PROVE Locked'
    BY <1>2 DEF IInv, Locked, linux, IntuneUpdates, WritesFacts
  <1>3. ASSUME NEW r \in Row, NEW s \in MaybeSerial, IntuneInserts(r, s) PROVE Locked'
    BY <1>3 DEF IInv, Locked, linux, IntuneInserts
  <1>4. ASSUME NEW t \in Token, CreateToken(t) PROVE Locked'
    BY <1>4 DEF IInv, Locked, linux, CreateToken
  <1>5. ASSUME NEW t \in Token, RevokeToken(t) PROVE Locked'
    BY <1>5 DEF IInv, Locked, linux, RevokeToken
  <1>6. ASSUME NEW t \in Token, NEW r \in Row, NEW s \in MaybeSerial, Exchange(t, r, s)
        PROVE  Locked'
    BY <1>6 DEF IInv, Locked, linux, Exchange
  <1>7. ASSUME NEW q \in Request, NEW t \in Token, NEW s \in MaybeSerial, CheckinBegins(q, t, s)
        PROVE  Locked'
    BY <1>7 DEF IInv, Locked, linux, CheckinBegins, Begins
  <1>8. ASSUME NEW q \in Request, NEW t \in Token, ConnectBegins(q, t) PROVE Locked'
    BY <1>8 DEF IInv, Locked, linux, ConnectBegins, Begins
  <1>9. ASSUME NEW q \in Request, NEW t \in Token, RotateBegins(q, t) PROVE Locked'
    BY <1>9 DEF IInv, Locked, linux, RotateBegins, Begins
  <1>10. ASSUME NEW q \in Request, NEW r \in MaybeRow, LookupDevice(q, r) PROVE Locked'
    BY <1>10 DEF IInv, Locked, linux, LookupDevice
  <1>11. ASSUME NEW q \in Request, NEW r \in Row, Inventory(q, r) PROVE Locked'
    BY <1>11 DEF IInv, Locked, linux, Inventory
  <1>12. ASSUME NEW q \in Request, NEW u \in Token, RotateCommits(q, u) PROVE Locked'
    BY <1>12 DEF IInv, Locked, linux, RotateCommits
  <1>13. ASSUME NEW q \in Request, Claim(q) PROVE Locked'
    BY <1>13 DEF IInv, Locked, linux, Claim
  <1>14. ASSUME NEW q \in Request, Connects(q) PROVE Locked'
    BY <1>14 DEF IInv, Locked, linux, Connects
  <1>15. ASSUME NEW q \in Request, WritesResults(q) PROVE Locked'
    BY <1>15 DEF IInv, Locked, linux, WritesResults, WritesFacts
  <1>16. ASSUME NEW q \in Request, WritesLastSeen(q) PROVE Locked'
    BY <1>16 DEF IInv, Locked, linux, WritesLastSeen, WritesFacts
  <1>17. ASSUME NEW q \in Request, TokenUpdate(q) PROVE Locked'
    BY <1>17 DEF IInv, Locked, linux, TokenUpdate
  <1>18. ASSUME NEW q \in Request, RequestEnds(q) PROVE Locked'
    BY <1>18 DEF IInv, Locked, linux, RequestEnds
  <1> QED
    BY <1>1, <1>2, <1>3, <1>4, <1>5, <1>6, <1>7, <1>8, <1>9, <1>10, <1>11, <1>12, <1>13,
       <1>14, <1>15, <1>16, <1>17, <1>18 DEF WindowsNext

-----------------------------------------------------------------------------
(* The cap of the queue. *)

LEMMA PendingFinite ==
  /\ IsFiniteSet(Pending) /\ Cardinality(Pending) \in Nat
  /\ IsFiniteSet(Pending') /\ Cardinality(Pending') \in Nat
  <1>1. Pending \subseteq Key /\ Pending' \subseteq Key
    BY DEF Pending
  <1> QED
    BY <1>1, FS_Subset, FS_CardinalityType, EnrolmentAssumption

\* Nobody joins the queue and no transaction starts.
LEMMA QueueKept ==
  ASSUME IInv, \A k \in Key : /\ keys'[k].status = "pending" => keys[k].status = "pending"
                              /\ tx'[k].op = "enroll" /\ keys'[k].status = "unknown" =>
                                   tx[k].op = "enroll" /\ keys[k].status = "unknown"
  PROVE  QueueIsCapped' /\ RoomLeft'
  <1>1. Pending' \subseteq Pending
    BY DEF Pending
  <1>2. Cardinality(Pending') <= Cardinality(Pending)
    BY <1>1, PendingFinite, FS_Subset
  <1>3. QueueIsCapped'
    BY <1>2, PendingFinite, EnrolmentAssumption DEF IInv, QueueIsCapped
  <1>4. RoomLeft'
    BY <1>2, PendingFinite, EnrolmentAssumption DEF IInv, RoomLeft
  <1> QED
    BY <1>3, <1>4

\* The request joins the queue for which there was room.
LEMMA Joins ==
  ASSUME IInv, NEW k \in Key, EnrollStaysPending(k)
  PROVE  QueueIsCapped' /\ RoomLeft'
  <1>1. \A j \in Key : tx'[j].op = "none"
    <2>1. \A j \in Key \ {k} : tx[j].op = "none"
      BY DEF EnrollStaysPending, IInv, Locked
    <2> QED
      BY <2>1 DEF EnrollStaysPending, IInv, TypeOK, NoTx
  <1>2. Pending' \subseteq Pending \cup {k}
    BY DEF EnrollStaysPending, IInv, TypeOK, Pending
  <1>3. CASE keys[k].status = "pending"
    <2>1. Pending' \subseteq Pending
      BY <1>2, <1>3 DEF Pending
    <2>2. Cardinality(Pending') <= Cardinality(Pending)
      BY <2>1, PendingFinite, FS_Subset
    <2> QED
      BY <1>1, <2>2, PendingFinite, EnrolmentAssumption DEF IInv, QueueIsCapped, RoomLeft
  <1>4. CASE keys[k].status = "unknown"
    <2>1. Cardinality(Pending) < PendingCap
      BY <1>4 DEF EnrollStaysPending, IInv, RoomLeft
    <2>2. /\ IsFiniteSet(Pending \cup {k})
          /\ Cardinality(Pending \cup {k}) = Cardinality(Pending) + 1
      <3>1. k \notin Pending
        BY <1>4 DEF Pending
      <3> QED
        BY <3>1, PendingFinite, FS_AddElement
    <2>3. Cardinality(Pending') <= Cardinality(Pending \cup {k})
      BY <1>2, <2>2, FS_Subset
    <2>4. QueueIsCapped'
      BY <2>1, <2>2, <2>3, PendingFinite, EnrolmentAssumption DEF QueueIsCapped
    <2> QED
      BY <1>1, <2>4 DEF RoomLeft
  <1> QED
    BY <1>3, <1>4 DEF EnrollStaysPending, IInv, Locked

LEMMA LinuxQueue == IInv /\ LinuxNext => QueueIsCapped' /\ RoomLeft'
  <1> SUFFICES ASSUME IInv, LinuxNext PROVE QueueIsCapped' /\ RoomLeft'
    OBVIOUS
  <1>1. ASSUME NEW k \in Key, NEW s \in MaybeSerial, EnrollBegins(k, s)
        PROVE  QueueIsCapped' /\ RoomLeft'
    <2>1. keys' = keys /\ Pending' = Pending
      BY <1>1 DEF EnrollBegins, Pending
    <2>2. \A j \in Key \ {k} : tx'[j] = tx[j]
      BY <1>1 DEF EnrollBegins, Classify, IInv, TypeOK
    <2>3. keys[k].status = "unknown" => Cardinality(Pending) < PendingCap
      BY <1>1 DEF EnrollBegins
    <2> QED
      BY <2>1, <2>2, <2>3 DEF IInv, QueueIsCapped, RoomLeft
  <1>2. ASSUME NEW k \in Key, NEW s \in MaybeSerial, EnrollKnown(k, s)
        PROVE  QueueIsCapped' /\ RoomLeft'
    BY <1>2, QueueKept DEF IInv, TypeOK, KeyRow, EnrollKnown
  <1>3. ASSUME NEW k \in Key, NEW r \in Row, EnrollAutoApproves(k, r)
        PROVE  QueueIsCapped' /\ RoomLeft'
    BY <1>3, QueueKept DEF IInv, TypeOK, KeyRow, EnrollAutoApproves, BindNew, Bound, NoTx
  <1>4. ASSUME NEW k \in Key, NEW r \in Row, ApproveNew(k, r)
        PROVE  QueueIsCapped' /\ RoomLeft'
    BY <1>4, QueueKept DEF IInv, TypeOK, KeyRow, ApproveNew, BindNew, Bound, NoTx
  <1>5. ASSUME NEW k \in Key, NEW r \in Row, NEW force \in BOOLEAN, ApproveOnto(k, r, force)
        PROVE  QueueIsCapped' /\ RoomLeft'
    <2>1. \A j \in Key : tx'[j] = IF j = k THEN NoTx ELSE tx[j]
      BY <1>5 DEF ApproveOnto, IInv, TypeOK
    <2>2. ASSUME NEW j \in Key, keys'[j].status \in {"unknown", "pending"}
          PROVE  keys'[j] = keys[j]
      <3>1. keys[j] \in KeyRow
        BY DEF IInv, TypeOK
      <3> QED
        BY <1>5, <2>2, <3>1 DEF ApproveOnto, Bound, KeyRow
    <2> QED
      BY <2>1, <2>2, QueueKept DEF NoTx
  <1>6. ASSUME NEW k \in Key, EnrollStaysPending(k) PROVE QueueIsCapped' /\ RoomLeft'
    BY <1>6, Joins
  <1>7. ASSUME NEW k \in Key, ApproveBegins(k) PROVE QueueIsCapped' /\ RoomLeft'
    BY <1>7, QueueKept DEF IInv, TypeOK, KeyRow, ApproveBegins, Classify, Transaction
  <1>8. ASSUME NEW k \in Key, TxFails(k) PROVE QueueIsCapped' /\ RoomLeft'
    BY <1>8, QueueKept DEF IInv, TypeOK, KeyRow, TxFails, NoTx
  <1>9. ASSUME NEW k \in Key, Reject(k) PROVE QueueIsCapped' /\ RoomLeft'
    BY <1>9, QueueKept DEF IInv, TypeOK, KeyRow, Reject
  <1>10. ASSUME NEW k \in Key, Revoke(k) PROVE QueueIsCapped' /\ RoomLeft'
    BY <1>10, QueueKept DEF IInv, TypeOK, KeyRow, Revoke
  <1>11. ASSUME NEW k \in Key, Purge(k) PROVE QueueIsCapped' /\ RoomLeft'
    BY <1>11, QueueKept DEF IInv, TypeOK, KeyRow, Purge, Unknown
  <1>12. ASSUME NEW k \in Key, NEW s \in Serial, LinuxCheckin(k, s)
         PROVE  QueueIsCapped' /\ RoomLeft'
    BY <1>12, QueueKept DEF IInv, TypeOK, KeyRow, LinuxCheckin
  <1>13. ASSUME NEW s \in Serial, Preregister(s) PROVE QueueIsCapped' /\ RoomLeft'
    BY <1>13, QueueKept DEF IInv, TypeOK, KeyRow, Preregister
  <1>14. ASSUME NEW s \in Serial, DeletePreregistration(s) PROVE QueueIsCapped' /\ RoomLeft'
    BY <1>14, QueueKept DEF IInv, TypeOK, KeyRow, DeletePreregistration
  <1> QED
    BY <1>1, <1>2, <1>3, <1>4, <1>5, <1>6, <1>7, <1>8, <1>9, <1>10, <1>11, <1>12, <1>13,
       <1>14 DEF LinuxNext

LEMMA WindowsQueue == IInv /\ WindowsNext => QueueIsCapped' /\ RoomLeft'
  <1> SUFFICES ASSUME IInv, WindowsNext PROVE QueueIsCapped' /\ RoomLeft'
    OBVIOUS
  <1>1. ASSUME NEW r \in Row, DeleteDevice(r) PROVE QueueIsCapped' /\ RoomLeft'
    <2>1. ASSUME NEW k \in Key, tx[k].op = "enroll"
          PROVE  keys'[k] = keys[k]
      BY <1>1, <2>1, EnrolmentAssumption DEF DeleteDevice, IInv, Locked
    <2>2. \A k \in Key : keys'[k] = keys[k] \/ keys'[k] = Unknown
      BY <1>1 DEF DeleteDevice
    <2> QED
      BY <1>1, <2>1, <2>2, QueueKept DEF DeleteDevice, Unknown
  <1>2. ASSUME NEW r \in Row, IntuneUpdates(r) PROVE QueueIsCapped' /\ RoomLeft'
    BY <1>2, QueueKept DEF linux, IntuneUpdates, WritesFacts
  <1>3. ASSUME NEW r \in Row, NEW s \in MaybeSerial, IntuneInserts(r, s)
        PROVE  QueueIsCapped' /\ RoomLeft'
    BY <1>3, QueueKept DEF linux, IntuneInserts
  <1>4. ASSUME NEW t \in Token, CreateToken(t) PROVE QueueIsCapped' /\ RoomLeft'
    BY <1>4, QueueKept DEF linux, CreateToken
  <1>5. ASSUME NEW t \in Token, RevokeToken(t) PROVE QueueIsCapped' /\ RoomLeft'
    BY <1>5, QueueKept DEF linux, RevokeToken
  <1>6. ASSUME NEW t \in Token, NEW r \in Row, NEW s \in MaybeSerial, Exchange(t, r, s)
        PROVE  QueueIsCapped' /\ RoomLeft'
    BY <1>6, QueueKept DEF linux, Exchange
  <1>7. ASSUME NEW q \in Request, NEW t \in Token, NEW s \in MaybeSerial, CheckinBegins(q, t, s)
        PROVE  QueueIsCapped' /\ RoomLeft'
    BY <1>7, QueueKept DEF linux, CheckinBegins, Begins
  <1>8. ASSUME NEW q \in Request, NEW t \in Token, ConnectBegins(q, t)
        PROVE  QueueIsCapped' /\ RoomLeft'
    BY <1>8, QueueKept DEF linux, ConnectBegins, Begins
  <1>9. ASSUME NEW q \in Request, NEW t \in Token, RotateBegins(q, t)
        PROVE  QueueIsCapped' /\ RoomLeft'
    BY <1>9, QueueKept DEF linux, RotateBegins, Begins
  <1>10. ASSUME NEW q \in Request, NEW r \in MaybeRow, LookupDevice(q, r)
        PROVE  QueueIsCapped' /\ RoomLeft'
    BY <1>10, QueueKept DEF linux, LookupDevice
  <1>11. ASSUME NEW q \in Request, NEW r \in Row, Inventory(q, r)
        PROVE  QueueIsCapped' /\ RoomLeft'
    BY <1>11, QueueKept DEF linux, Inventory
  <1>12. ASSUME NEW q \in Request, NEW u \in Token, RotateCommits(q, u)
        PROVE  QueueIsCapped' /\ RoomLeft'
    BY <1>12, QueueKept DEF linux, RotateCommits
  <1>13. ASSUME NEW q \in Request, Claim(q) PROVE QueueIsCapped' /\ RoomLeft'
    BY <1>13, QueueKept DEF linux, Claim
  <1>14. ASSUME NEW q \in Request, Connects(q) PROVE QueueIsCapped' /\ RoomLeft'
    BY <1>14, QueueKept DEF linux, Connects
  <1>15. ASSUME NEW q \in Request, WritesResults(q) PROVE QueueIsCapped' /\ RoomLeft'
    BY <1>15, QueueKept DEF linux, WritesResults, WritesFacts
  <1>16. ASSUME NEW q \in Request, WritesLastSeen(q) PROVE QueueIsCapped' /\ RoomLeft'
    BY <1>16, QueueKept DEF linux, WritesLastSeen, WritesFacts
  <1>17. ASSUME NEW q \in Request, TokenUpdate(q) PROVE QueueIsCapped' /\ RoomLeft'
    BY <1>17, QueueKept DEF linux, TokenUpdate
  <1>18. ASSUME NEW q \in Request, RequestEnds(q) PROVE QueueIsCapped' /\ RoomLeft'
    BY <1>18, QueueKept DEF linux, RequestEnds
  <1> QED
    BY <1>1, <1>2, <1>3, <1>4, <1>5, <1>6, <1>7, <1>8, <1>9, <1>10, <1>11, <1>12, <1>13,
       <1>14, <1>15, <1>16, <1>17, <1>18 DEF WindowsNext

-----------------------------------------------------------------------------
(* Windows agents and converted rows. *)

\* A row in use stays in use: it keeps its manager, or is deleted.
RowsKept == \A r \in Row : rows[r].kind # "free" => rows'[r].kind \in {rows[r].kind, "deleted"}

\* The tokens given out are on rows in use.
TokensKept == \A t \in Token : tokens'[t].row \in Row => rows'[tokens'[t].row].kind # "free"

\* When no token moves.
LEMMA SameTokens ==
  ASSUME IInv, RowsKept, \A t \in Token : tokens'[t].row \in {tokens[t].row, None}
  PROVE  TokensKept
  BY EnrolmentAssumption DEF IInv, ServedBefore, RowsKept, TokensKept

\* When a token moves to a row in use.
LEMMA MovedToken ==
  ASSUME IInv, RowsKept, NEW r \in MaybeRow, r \in Row => rows'[r].kind # "free",
         \A t \in Token : tokens'[t].row \in {tokens[t].row, r}
  PROVE  TokensKept
  BY DEF IInv, ServedBefore, RowsKept, TokensKept

LEMMA ServedKept ==
  ASSUME IInv, req' = req, RowsKept, TokensKept
  PROVE  ServedBefore'
  BY DEF IInv, ServedBefore, RowsKept, TokensKept

\* Likewise when one request takes a step.
LEMMA ServedStep ==
  ASSUME IInv, RowsKept, TokensKept, NEW q \in Request, NEW c \in AgentRequest,
         req' = [req EXCEPT ![q] = c],
         c.step # "claim" /\ c.row \in Row =>
             \/ rows'[c.row].kind \in {"windows", "deleted"}
             \/ rows'[c.row].kind = "pull" /\ c.converted
  PROVE  ServedBefore'
  <1>1. \A x \in Request : req'[x] = IF x = q THEN c ELSE req[x]
    BY DEF IInv, TypeOK
  <1> QED
    BY <1>1 DEF IInv, ServedBefore, RowsKept, TokensKept

\* authToken refuses a token whose row is managed by a key.
LEMMA BeginsServed ==
  ASSUME IInv, NEW q \in Request, NEW t \in Token, NEW s \in MaybeSerial,
         NEW step \in {"lookup", "connect", "rotate"}, Begins(q, t, step, s)
  PROVE  ServedBefore'
  <1> DEFINE c == [Idle EXCEPT !.step = step, !.token = t, !.row = tokens[t].row, !.serial = s]
  <1>1. c \in AgentRequest /\ c.row = tokens[t].row
    BY DEF IInv, TypeOK, TokenRow, Idle, AgentRequest
  <1>2. tokens[t].row \in Row => rows[tokens[t].row].kind \in {"windows", "deleted"}
    BY DEF Begins, Authentic, IInv, TypeOK, DeviceRow, ServedBefore
  <1>3. req' = [req EXCEPT ![q] = c] /\ rows' = rows /\ tokens' = tokens
    BY DEF Begins
  <1>4. RowsKept
    BY <1>3 DEF RowsKept
  <1>5. TokensKept
    BY <1>3, <1>4, SameTokens
  <1> HIDE DEF c
  <1> QED
    BY <1>1, <1>2, <1>3, <1>4, <1>5, ServedStep

\* A request that is over.
LEMMA EndsServed ==
  ASSUME IInv, RowsKept, TokensKept, NEW q \in Request, req' = [req EXCEPT ![q] = Idle]
  PROVE  ServedBefore'
  <1>1. Idle \in AgentRequest /\ Idle.row \notin Row
    BY IdleTyped, EnrolmentAssumption DEF Idle
  <1> QED
    BY <1>1, ServedStep

\* A statement about a row that is there.
LEMMA FactsServed == ASSUME IInv, NEW r, WritesFacts(r) PROVE ServedBefore'
  <1>1. RowsKept
    BY DEF WritesFacts, Exists, IInv, TypeOK, DeviceRow, RowsKept
  <1>2. TokensKept
    BY <1>1, SameTokens DEF WritesFacts, windows
  <1> QED
    BY <1>1, <1>2, ServedKept DEF WritesFacts, windows

LEMMA LinuxServed == IInv /\ LinuxNext => ServedBefore'
  <1> SUFFICES ASSUME IInv, LinuxNext PROVE ServedBefore'
    OBVIOUS
  <1>a. rows' = rows /\ UNCHANGED windows => ServedBefore'
    <2> SUFFICES ASSUME rows' = rows, UNCHANGED windows PROVE ServedBefore'
      OBVIOUS
    <2>1. RowsKept
      BY DEF RowsKept
    <2>2. TokensKept
      BY <2>1, SameTokens DEF windows
    <2> QED
      BY <2>1, <2>2, ServedKept DEF windows
  <1>b. ASSUME NEW k \in Key, NEW r \in Row, BindNew(k, r) PROVE ServedBefore'
    <2>1. RowsKept
      BY <1>b DEF BindNew, Insert, IInv, TypeOK, DeviceRow, RowsKept
    <2>2. TokensKept
      BY <1>b, <2>1, SameTokens DEF BindNew, windows
    <2> QED
      BY <1>b, <2>1, <2>2, ServedKept DEF BindNew, windows
  <1>1. ASSUME NEW k \in Key, NEW s \in MaybeSerial, EnrollBegins(k, s) PROVE ServedBefore'
    BY <1>1, <1>a DEF EnrollBegins
  <1>2. ASSUME NEW k \in Key, NEW s \in MaybeSerial, EnrollKnown(k, s) PROVE ServedBefore'
    BY <1>2, <1>a DEF EnrollKnown
  <1>3. ASSUME NEW k \in Key, NEW r \in Row, EnrollAutoApproves(k, r) PROVE ServedBefore'
    BY <1>3, <1>b DEF EnrollAutoApproves
  <1>4. ASSUME NEW k \in Key, NEW r \in Row, ApproveNew(k, r) PROVE ServedBefore'
    BY <1>4, <1>b DEF ApproveNew
  <1>5. ASSUME NEW k \in Key, NEW r \in Row, NEW force \in BOOLEAN, ApproveOnto(k, r, force)
        PROVE  ServedBefore'
    <2>1. \A x \in Row : rows'[x].kind = IF x = r THEN "pull" ELSE rows[x].kind
      BY <1>5 DEF ApproveOnto, IInv, TypeOK, DeviceRow
    <2>2. \A t \in Token : tokens'[t].row = tokens[t].row
      BY <1>5 DEF ApproveOnto, Cleared, IInv, TypeOK, TokenRow
    <2>3. ASSUME NEW q \in Request
          PROVE  /\ req'[q].step = req[q].step /\ req'[q].row = req[q].row
                 /\ req'[q].converted = (req[q].converted \/ (req[q].row = r /\ Unconverted(r)))
      <3>1. req[q] \in AgentRequest
        BY DEF IInv, TypeOK
      <3>2. req'[q] = IF req[q].row = r /\ Unconverted(r)
                      THEN [req[q] EXCEPT !.converted = TRUE] ELSE req[q]
        BY <1>5 DEF ApproveOnto
      <3>3. CASE req[q].row = r /\ Unconverted(r)
        BY <3>1, <3>2, <3>3 DEF AgentRequest
      <3>4. CASE ~(req[q].row = r /\ Unconverted(r))
        BY <3>1, <3>2, <3>4 DEF AgentRequest
      <3> QED
        BY <3>3, <3>4
    <2>4. rows[r].kind \in {"windows", "pull"} /\ (Unconverted(r) <=> rows[r].kind = "windows")
      BY <1>5 DEF ApproveOnto, Exists, Unconverted
    <2>5. ASSUME NEW q \in Request, req[q].step # "claim", req[q].row \in Row
          PROVE  \/ rows'[req[q].row].kind \in {"windows", "deleted"}
                 \/ rows'[req[q].row].kind = "pull" /\ req'[q].converted
      BY <2>1, <2>3, <2>4, <2>5 DEF IInv, ServedBefore
    <2> QED
      BY <2>1, <2>2, <2>3, <2>5 DEF IInv, ServedBefore
  <1>6. ASSUME NEW k \in Key, EnrollStaysPending(k) PROVE ServedBefore'
    BY <1>6, <1>a DEF EnrollStaysPending
  <1>7. ASSUME NEW k \in Key, ApproveBegins(k) PROVE ServedBefore'
    BY <1>7, <1>a DEF ApproveBegins
  <1>8. ASSUME NEW k \in Key, TxFails(k) PROVE ServedBefore'
    BY <1>8, <1>a DEF TxFails
  <1>9. ASSUME NEW k \in Key, Reject(k) PROVE ServedBefore'
    BY <1>9, <1>a DEF Reject
  <1>10. ASSUME NEW k \in Key, Revoke(k) PROVE ServedBefore'
    BY <1>10, <1>a DEF Revoke
  <1>11. ASSUME NEW k \in Key, Purge(k) PROVE ServedBefore'
    BY <1>11, <1>a DEF Purge
  <1>12. ASSUME NEW k \in Key, NEW s \in Serial, LinuxCheckin(k, s) PROVE ServedBefore'
    BY <1>12, <1>a DEF LinuxCheckin
  <1>13. ASSUME NEW s \in Serial, Preregister(s) PROVE ServedBefore'
    BY <1>13, <1>a DEF Preregister
  <1>14. ASSUME NEW s \in Serial, DeletePreregistration(s) PROVE ServedBefore'
    BY <1>14, <1>a DEF DeletePreregistration
  <1> QED
    BY <1>1, <1>2, <1>3, <1>4, <1>5, <1>6, <1>7, <1>8, <1>9, <1>10, <1>11, <1>12, <1>13,
       <1>14 DEF LinuxNext

LEMMA WindowsServed == IInv /\ WindowsNext => ServedBefore'
  <1> SUFFICES ASSUME IInv, WindowsNext PROVE ServedBefore'
    OBVIOUS
  <1>1. ASSUME NEW r \in Row, DeleteDevice(r) PROVE ServedBefore'
    <2>1. RowsKept
      BY <1>1 DEF IInv, TypeOK, DeviceRow, DeleteDevice, RowsKept
    <2>2. TokensKept
      BY <1>1, <2>1, SameTokens DEF DeleteDevice
    <2> QED
      BY <1>1, <2>1, <2>2, ServedKept DEF DeleteDevice
  <1>2. ASSUME NEW r \in Row, IntuneUpdates(r) PROVE ServedBefore'
    BY <1>2, FactsServed DEF IntuneUpdates
  <1>3. ASSUME NEW r \in Row, NEW s \in MaybeSerial, IntuneInserts(r, s) PROVE ServedBefore'
    <2>1. RowsKept
      BY <1>3 DEF IInv, TypeOK, DeviceRow, IntuneInserts, Insert, RowsKept
    <2>2. TokensKept
      BY <1>3, <2>1, SameTokens DEF IntuneInserts, windows
    <2> QED
      BY <1>3, <2>1, <2>2, ServedKept DEF IntuneInserts, windows
  <1>4. ASSUME NEW t \in Token, CreateToken(t) PROVE ServedBefore'
    <2>1. RowsKept
      BY <1>4 DEF CreateToken, RowsKept
    <2>2. TokensKept
      BY <1>4, <2>1, SameTokens DEF CreateToken, Issue
    <2> QED
      BY <1>4, <2>1, <2>2, ServedKept DEF CreateToken
  <1>5. ASSUME NEW t \in Token, RevokeToken(t) PROVE ServedBefore'
    <2>1. RowsKept
      BY <1>5 DEF RevokeToken, RowsKept
    <2>2. TokensKept
      BY <1>5, <2>1, SameTokens DEF RevokeToken, IInv, TypeOK, TokenRow
    <2> QED
      BY <1>5, <2>1, <2>2, ServedKept DEF RevokeToken
  <1>6. ASSUME NEW t \in Token, NEW r \in Row, NEW s \in MaybeSerial, Exchange(t, r, s)
        PROVE  ServedBefore'
    <2>1. RowsKept /\ rows'[r].kind # "free"
      BY <1>6 DEF Exchange, Claimable, Unconverted, Insert, IInv, TypeOK, DeviceRow, RowsKept
    <2>2. \A u \in Token : tokens'[u].row \in {tokens[u].row, r}
      BY <1>6 DEF Exchange, Link, Issue, IInv, TypeOK, TokenRow
    <2>3. TokensKept
      BY <2>1, <2>2, MovedToken DEF MaybeRow
    <2> QED
      BY <1>6, <2>1, <2>3, ServedKept DEF Exchange
  <1>7. ASSUME NEW q \in Request, NEW t \in Token, NEW s \in MaybeSerial, CheckinBegins(q, t, s)
        PROVE  ServedBefore'
    BY <1>7, BeginsServed DEF CheckinBegins
  <1>8. ASSUME NEW q \in Request, NEW t \in Token, ConnectBegins(q, t) PROVE ServedBefore'
    BY <1>8, BeginsServed DEF ConnectBegins, MaybeSerial
  <1>9. ASSUME NEW q \in Request, NEW t \in Token, RotateBegins(q, t) PROVE ServedBefore'
    BY <1>9, BeginsServed DEF RotateBegins, MaybeSerial
  <1>10. ASSUME NEW q \in Request, NEW r \in MaybeRow, LookupDevice(q, r) PROVE ServedBefore'
    <2> DEFINE claims == req[q].row = None /\ r # None
               c == [req[q] EXCEPT !.step = IF claims THEN "claim" ELSE "inventory", !.row = r,
                                   !.converted = @ /\ r # None]
    <2>1. req[q] \in AgentRequest
      BY DEF IInv, TypeOK
    <2>2. /\ c \in AgentRequest /\ c.row = r /\ (c.step = "claim" <=> claims)
          /\ c.converted = (req[q].converted /\ r # None)
      BY <2>1 DEF AgentRequest
    <2>3. req' = [req EXCEPT ![q] = c] /\ rows' = rows /\ tokens' = tokens
      BY <1>10, <2>1 DEF LookupDevice, AgentRequest, IInv, TypeOK
    <2>4. r \in Row /\ ~claims => r = req[q].row /\ req[q].step # "claim"
      BY <1>10, EnrolmentAssumption DEF LookupDevice
    <2>5. RowsKept
      BY <2>3 DEF RowsKept
    <2>6. TokensKept
      BY <2>3, <2>5, SameTokens
    <2>7. c.step # "claim" /\ c.row \in Row =>
             \/ rows'[c.row].kind \in {"windows", "deleted"}
             \/ rows'[c.row].kind = "pull" /\ c.converted
      BY <2>2, <2>3, <2>4, EnrolmentAssumption DEF IInv, ServedBefore
    <2> HIDE DEF c, claims
    <2> QED
      BY <2>2, <2>3, <2>5, <2>6, <2>7, ServedStep
  <1>11. ASSUME NEW q \in Request, NEW r \in Row, Inventory(q, r) PROVE ServedBefore'
    <2> DEFINE c == [req[q] EXCEPT !.step = "results", !.row = r]
    <2>1. req[q] \in AgentRequest
      BY DEF IInv, TypeOK
    <2>2. c \in AgentRequest /\ c.step = "results" /\ c.row = r /\ c.converted = req[q].converted
      BY <2>1 DEF AgentRequest, MaybeRow
    <2>3. req' = [req EXCEPT ![q] = c] /\ tokens' = tokens
      BY <1>11, <2>1 DEF Inventory, AgentRequest, IInv, TypeOK
    <2>4. RowsKept
      BY <1>11 DEF Inventory, Insert, IInv, TypeOK, DeviceRow, RowsKept
    <2>5. TokensKept
      BY <2>3, <2>4, SameTokens
    <2>6. \/ rows'[r].kind \in {"windows", "deleted"}
          \/ rows'[r].kind = "pull" /\ req[q].converted
      <3>1. CASE req[q].row = r /\ rows' = [rows EXCEPT ![r].facts = TRUE]
        <4>1. rows'[r].kind = rows[r].kind
          BY <3>1 DEF IInv, TypeOK, DeviceRow
        <4> QED
          BY <1>11, <3>1, <4>1 DEF Inventory, IInv, ServedBefore
      <3>2. CASE Insert(r, "windows", req[q].serial, TRUE)
        BY <3>2 DEF Insert, IInv, TypeOK, DeviceRow
      <3> QED
        BY <1>11, <3>1, <3>2 DEF Inventory
    <2> HIDE DEF c
    <2> QED
      BY <2>2, <2>3, <2>4, <2>5, <2>6, ServedStep
  <1>12. ASSUME NEW q \in Request, NEW u \in Token, RotateCommits(q, u) PROVE ServedBefore'
    <2>1. RowsKept
      BY <1>12 DEF RowsKept, RotateCommits
    <2>2. req[q].row \in MaybeRow /\ (req[q].row \in Row => rows'[req[q].row].kind # "free")
      BY <1>12, EnrolmentAssumption DEF RotateCommits, Exists, IInv, TypeOK, AgentRequest
    <2>3. \A t \in Token : tokens'[t].row \in {tokens[t].row, req[q].row}
      BY <1>12 DEF RotateCommits, Issue, IInv, TypeOK
    <2>4. TokensKept
      BY <2>1, <2>2, <2>3, MovedToken
    <2> QED
      BY <1>12, <2>1, <2>4, EndsServed DEF RotateCommits
  <1>13. ASSUME NEW q \in Request, Claim(q) PROVE ServedBefore'
    <2>1. RowsKept
      BY <1>13 DEF RowsKept, Claim
    <2> DEFINE c == [req[q] EXCEPT !.step = "inventory"]
    <2>2. req[q] \in AgentRequest /\ req[q].row \in MaybeRow
      BY DEF IInv, TypeOK, AgentRequest
    <2>3. c \in AgentRequest /\ c.row = req[q].row
      BY <2>2 DEF AgentRequest
    <2>4. rows'[c.row].kind = "windows" /\ req' = [req EXCEPT ![q] = c]
      BY <1>13, <2>3 DEF Claim, Claimable, Unconverted
    <2>5. \A t \in Token : tokens'[t].row \in {tokens[t].row, req[q].row}
      BY <1>13 DEF Claim, Link, IInv, TypeOK, TokenRow
    <2>6. TokensKept
      BY <2>1, <2>2, <2>3, <2>4, <2>5, MovedToken
    <2> HIDE DEF c
    <2> QED
      BY <2>1, <2>3, <2>4, <2>6, ServedStep
  <1>14. ASSUME NEW q \in Request, Connects(q) PROVE ServedBefore'
    <2>1. RowsKept
      BY <1>14 DEF RowsKept, Connects
    <2>2. TokensKept
      BY <1>14, <2>1, SameTokens DEF Connects
    <2> DEFINE c == [req[q] EXCEPT !.step = "open"]
    <2>3. req[q] \in AgentRequest
      BY DEF IInv, TypeOK
    <2>4. c \in AgentRequest /\ c.row = req[q].row /\ c.converted = req[q].converted
      BY <2>3 DEF AgentRequest
    <2>5. req' = [req EXCEPT ![q] = c] /\ rows' = rows /\ req[q].step = "connect"
      BY <1>14 DEF Connects
    <2>6. c.row \in Row => \/ rows'[c.row].kind \in {"windows", "deleted"}
                           \/ rows'[c.row].kind = "pull" /\ c.converted
      BY <2>4, <2>5 DEF IInv, ServedBefore
    <2> HIDE DEF c
    <2> QED
      BY <2>1, <2>2, <2>4, <2>5, <2>6, ServedStep
  <1>15. ASSUME NEW q \in Request, WritesResults(q) PROVE ServedBefore'
    BY <1>15, FactsServed DEF WritesResults
  <1>16. ASSUME NEW q \in Request, WritesLastSeen(q) PROVE ServedBefore'
    BY <1>16, FactsServed DEF WritesLastSeen
  <1>17. ASSUME NEW q \in Request, TokenUpdate(q) PROVE ServedBefore'
    <2>1. RowsKept
      BY <1>17 DEF RowsKept, TokenUpdate
    <2>2. req[q].row \in MaybeRow /\ rows'[req[q].row].kind # "free"
      BY <1>17 DEF TokenUpdate, Exists, IInv, TypeOK, AgentRequest
    <2>3. \A t \in Token : tokens'[t].row \in {tokens[t].row, req[q].row}
      BY <1>17 DEF TokenUpdate, IInv, TypeOK, TokenRow
    <2>4. TokensKept
      BY <2>1, <2>2, <2>3, MovedToken
    <2> QED
      BY <1>17, <2>1, <2>4, EndsServed DEF TokenUpdate
  <1>18. ASSUME NEW q \in Request, RequestEnds(q) PROVE ServedBefore'
    <2>1. RowsKept
      BY <1>18 DEF RowsKept, RequestEnds
    <2>2. TokensKept
      BY <1>18, <2>1, SameTokens DEF RequestEnds
    <2> QED
      BY <1>18, <2>1, <2>2, EndsServed DEF RequestEnds
  <1> QED
    BY <1>1, <1>2, <1>3, <1>4, <1>5, <1>6, <1>7, <1>8, <1>9, <1>10, <1>11, <1>12, <1>13,
       <1>14, <1>15, <1>16, <1>17, <1>18 DEF WindowsNext

-----------------------------------------------------------------------------
(* The theorems. *)

LEMMA InitInv == Init => IInv
  <1> SUFFICES ASSUME Init PROVE IInv
    OBVIOUS
  <1>1. TypeOK
    BY IdleTyped DEF Init, TypeOK, Unknown, NoTx, KeyRow, DeviceRow, TokenRow, Transaction,
           MaybeRow, MaybeSerial
  <1>2. KeysMatchRows /\ Locked /\ RoomLeft /\ ServedBefore
    BY EnrolmentAssumption
    DEF Init, KeysMatchRows, Locked, RoomLeft, ServedBefore, Unknown, NoTx, Idle
  <1>3. Pending = {}
    BY DEF Init, Pending, Unknown
  <1>4. QueueIsCapped
    BY <1>3, FS_EmptySet, EnrolmentAssumption DEF QueueIsCapped
  <1> QED
    BY <1>1, <1>2, <1>4 DEF IInv

LEMMA NextInv == IInv /\ [Next]_vars => IInv'
  <1> SUFFICES ASSUME IInv, [Next]_vars PROVE IInv'
    OBVIOUS
  <1>1. TypeOK'
    BY TypeStep DEF IInv
  <1>2. CASE LinuxNext
    BY <1>1, <1>2, LinuxMatch, LinuxLock, LinuxQueue, LinuxServed DEF IInv
  <1>3. CASE WindowsNext
    BY <1>1, <1>3, WindowsMatch, WindowsLock, WindowsQueue, WindowsServed DEF IInv
  <1>4. CASE UNCHANGED vars
    <2>1. Pending' = Pending
      BY <1>4 DEF vars, linux, Pending
    <2> QED
      BY <1>1, <1>4, <2>1
      DEF IInv, vars, linux, windows, KeysMatchRows, KeyOn, Locked, QueueIsCapped,
          RoomLeft, ServedBefore
  <1> QED
    BY <1>2, <1>3, <1>4 DEF Next

LEMMA Invariant == Spec => []IInv
  BY InitInv, NextInv, PTL DEF Spec

\* Every approved key speaks for a Linux device of its own, whose serial agrees
\* with the key: enrolment, approval, conversion, re-image, deletion and adoption
\* of a serial (linux/lib/enrollment.js, checkin.js).
THEOREM KeysMatchRowsAlways == Spec => []KeysMatchRows
  BY Invariant, PTL DEF IInv

\* The queue of requests never exceeds PENDING_CAP: the count is read and the
\* request inserted under one advisory lock (enrollment.js, transaction).
THEOREM QueueIsCappedAlways == Spec => []QueueIsCapped
  BY Invariant, PTL DEF IInv

\* What RefusedStaysOut and NoAgentAfterConversion say of one step.
RefusedStep ==
    \A k \in Key :
      /\ keys[k].status = "rejected" => keys'[k].status = "rejected"
      /\ keys[k].status = "revoked" =>
           \/ keys'[k].status = "revoked"
           \/ keys'[k] = Unknown /\ rows'[keys[k].row].kind = "deleted"

ConvertedStep ==
    \A r \in Row :
      /\ rows'[r].kind = "pull" /\ rows'[r].facts
      /\ ~(rows[r].kind = "pull" /\ rows[r].facts)
      => \E q \in Request : /\ req[q].step \in {"inventory", "results", "open"}
                            /\ req[q].row = r /\ req[q].converted

LEMMA LinuxRefused == IInv /\ LinuxNext => RefusedStep
  <1> SUFFICES ASSUME IInv, LinuxNext PROVE RefusedStep
    OBVIOUS
  <1>1. ASSUME NEW k \in Key, NEW s \in MaybeSerial, EnrollBegins(k, s) PROVE RefusedStep
    BY <1>1 DEF IInv, TypeOK, Locked, KeyRow, RefusedStep, EnrollBegins
  <1>2. ASSUME NEW k \in Key, NEW s \in MaybeSerial, EnrollKnown(k, s) PROVE RefusedStep
    BY <1>2 DEF IInv, TypeOK, Locked, KeyRow, RefusedStep, EnrollKnown, Recontact
  <1>3. ASSUME NEW k \in Key, NEW r \in Row, EnrollAutoApproves(k, r) PROVE RefusedStep
    BY <1>3 DEF IInv, TypeOK, Locked, KeyRow, RefusedStep, EnrollAutoApproves, BindNew
  <1>4. ASSUME NEW k \in Key, NEW r \in Row, ApproveNew(k, r) PROVE RefusedStep
    BY <1>4 DEF IInv, TypeOK, Locked, KeyRow, RefusedStep, ApproveNew, BindNew
  <1>5. ASSUME NEW k \in Key, NEW r \in Row, NEW force \in BOOLEAN, ApproveOnto(k, r, force)
        PROVE  RefusedStep
    <2>1. ASSUME NEW j \in Key, keys[j].status \in {"rejected", "revoked"}
          PROVE  keys'[j] = keys[j]
      BY <1>5, <2>1 DEF ApproveOnto, IInv, Locked, KeyOn
    <2> QED
      BY <2>1 DEF RefusedStep
  <1>6. ASSUME NEW k \in Key, EnrollStaysPending(k) PROVE RefusedStep
    BY <1>6 DEF IInv, TypeOK, Locked, KeyRow, RefusedStep, EnrollStaysPending
  <1>7. ASSUME NEW k \in Key, ApproveBegins(k) PROVE RefusedStep
    BY <1>7 DEF IInv, TypeOK, Locked, KeyRow, RefusedStep, ApproveBegins
  <1>8. ASSUME NEW k \in Key, TxFails(k) PROVE RefusedStep
    BY <1>8 DEF IInv, TypeOK, Locked, KeyRow, RefusedStep, TxFails
  <1>9. ASSUME NEW k \in Key, Reject(k) PROVE RefusedStep
    BY <1>9 DEF IInv, TypeOK, Locked, KeyRow, RefusedStep, Reject
  <1>10. ASSUME NEW k \in Key, Revoke(k) PROVE RefusedStep
    BY <1>10 DEF IInv, TypeOK, Locked, KeyRow, RefusedStep, Revoke
  <1>11. ASSUME NEW k \in Key, Purge(k) PROVE RefusedStep
    BY <1>11 DEF IInv, TypeOK, Locked, KeyRow, RefusedStep, Purge
  <1>12. ASSUME NEW k \in Key, NEW s \in Serial, LinuxCheckin(k, s) PROVE RefusedStep
    BY <1>12 DEF IInv, TypeOK, Locked, KeyRow, RefusedStep, LinuxCheckin
  <1>13. ASSUME NEW s \in Serial, Preregister(s) PROVE RefusedStep
    BY <1>13 DEF IInv, TypeOK, Locked, KeyRow, RefusedStep, Preregister
  <1>14. ASSUME NEW s \in Serial, DeletePreregistration(s) PROVE RefusedStep
    BY <1>14 DEF IInv, TypeOK, Locked, KeyRow, RefusedStep, DeletePreregistration
  <1> QED
    BY <1>1, <1>2, <1>3, <1>4, <1>5, <1>6, <1>7, <1>8, <1>9, <1>10, <1>11, <1>12, <1>13,
       <1>14 DEF LinuxNext

LEMMA WindowsRefused == IInv /\ WindowsNext => RefusedStep
  <1> SUFFICES ASSUME IInv, WindowsNext PROVE RefusedStep
    OBVIOUS
  <1>1. ASSUME NEW r \in Row, DeleteDevice(r) PROVE RefusedStep
    <2>1. rows'[r].kind = "deleted"
      BY <1>1 DEF DeleteDevice, IInv, TypeOK
    <2>2. ASSUME NEW k \in Key, keys[k].status = "rejected"
          PROVE  keys'[k] = keys[k]
      BY <1>1, <2>2, EnrolmentAssumption DEF DeleteDevice, IInv, Locked
    <2> QED
      BY <1>1, <2>1, <2>2 DEF DeleteDevice, RefusedStep
  <1>2. ASSUME NEW r \in Row, IntuneUpdates(r) PROVE RefusedStep
    BY <1>2 DEF RefusedStep, linux, IntuneUpdates, WritesFacts
  <1>3. ASSUME NEW r \in Row, NEW s \in MaybeSerial, IntuneInserts(r, s) PROVE RefusedStep
    BY <1>3 DEF RefusedStep, linux, IntuneInserts
  <1>4. ASSUME NEW t \in Token, CreateToken(t) PROVE RefusedStep
    BY <1>4 DEF RefusedStep, linux, CreateToken
  <1>5. ASSUME NEW t \in Token, RevokeToken(t) PROVE RefusedStep
    BY <1>5 DEF RefusedStep, linux, RevokeToken
  <1>6. ASSUME NEW t \in Token, NEW r \in Row, NEW s \in MaybeSerial, Exchange(t, r, s)
        PROVE  RefusedStep
    BY <1>6 DEF RefusedStep, linux, Exchange
  <1>7. ASSUME NEW q \in Request, NEW t \in Token, NEW s \in MaybeSerial, CheckinBegins(q, t, s)
        PROVE  RefusedStep
    BY <1>7 DEF RefusedStep, linux, CheckinBegins, Begins
  <1>8. ASSUME NEW q \in Request, NEW t \in Token, ConnectBegins(q, t) PROVE RefusedStep
    BY <1>8 DEF RefusedStep, linux, ConnectBegins, Begins
  <1>9. ASSUME NEW q \in Request, NEW t \in Token, RotateBegins(q, t) PROVE RefusedStep
    BY <1>9 DEF RefusedStep, linux, RotateBegins, Begins
  <1>10. ASSUME NEW q \in Request, NEW r \in MaybeRow, LookupDevice(q, r) PROVE RefusedStep
    BY <1>10 DEF RefusedStep, linux, LookupDevice
  <1>11. ASSUME NEW q \in Request, NEW r \in Row, Inventory(q, r) PROVE RefusedStep
    BY <1>11 DEF RefusedStep, linux, Inventory
  <1>12. ASSUME NEW q \in Request, NEW u \in Token, RotateCommits(q, u) PROVE RefusedStep
    BY <1>12 DEF RefusedStep, linux, RotateCommits
  <1>13. ASSUME NEW q \in Request, Claim(q) PROVE RefusedStep
    BY <1>13 DEF RefusedStep, linux, Claim
  <1>14. ASSUME NEW q \in Request, Connects(q) PROVE RefusedStep
    BY <1>14 DEF RefusedStep, linux, Connects
  <1>15. ASSUME NEW q \in Request, WritesResults(q) PROVE RefusedStep
    BY <1>15 DEF RefusedStep, linux, WritesResults, WritesFacts
  <1>16. ASSUME NEW q \in Request, WritesLastSeen(q) PROVE RefusedStep
    BY <1>16 DEF RefusedStep, linux, WritesLastSeen, WritesFacts
  <1>17. ASSUME NEW q \in Request, TokenUpdate(q) PROVE RefusedStep
    BY <1>17 DEF RefusedStep, linux, TokenUpdate
  <1>18. ASSUME NEW q \in Request, RequestEnds(q) PROVE RefusedStep
    BY <1>18 DEF RefusedStep, linux, RequestEnds
  <1> QED
    BY <1>1, <1>2, <1>3, <1>4, <1>5, <1>6, <1>7, <1>8, <1>9, <1>10, <1>11, <1>12, <1>13,
       <1>14, <1>15, <1>16, <1>17, <1>18 DEF WindowsNext

LEMMA LinuxConverted == IInv /\ LinuxNext => ConvertedStep
  <1> SUFFICES ASSUME IInv, LinuxNext PROVE ConvertedStep
    OBVIOUS
  <1>1. ASSUME NEW k \in Key, NEW s \in MaybeSerial, EnrollBegins(k, s) PROVE ConvertedStep
    BY <1>1 DEF ConvertedStep, EnrollBegins
  <1>2. ASSUME NEW k \in Key, NEW s \in MaybeSerial, EnrollKnown(k, s) PROVE ConvertedStep
    BY <1>2 DEF ConvertedStep, EnrollKnown
  <1>3. ASSUME NEW k \in Key, NEW r \in Row, EnrollAutoApproves(k, r) PROVE ConvertedStep
    BY <1>3 DEF IInv, TypeOK, DeviceRow, ConvertedStep, EnrollAutoApproves, BindNew, Insert
  <1>4. ASSUME NEW k \in Key, NEW r \in Row, ApproveNew(k, r) PROVE ConvertedStep
    BY <1>4 DEF IInv, TypeOK, DeviceRow, ConvertedStep, ApproveNew, BindNew, Insert
  <1>5. ASSUME NEW k \in Key, NEW r \in Row, NEW force \in BOOLEAN, ApproveOnto(k, r, force)
        PROVE  ConvertedStep
    BY <1>5 DEF IInv, TypeOK, DeviceRow, ConvertedStep, ApproveOnto, Unconverted, Exists
  <1>6. ASSUME NEW k \in Key, EnrollStaysPending(k) PROVE ConvertedStep
    BY <1>6 DEF ConvertedStep, EnrollStaysPending
  <1>7. ASSUME NEW k \in Key, ApproveBegins(k) PROVE ConvertedStep
    BY <1>7 DEF ConvertedStep, ApproveBegins
  <1>8. ASSUME NEW k \in Key, TxFails(k) PROVE ConvertedStep
    BY <1>8 DEF ConvertedStep, TxFails
  <1>9. ASSUME NEW k \in Key, Reject(k) PROVE ConvertedStep
    BY <1>9 DEF ConvertedStep, Reject
  <1>10. ASSUME NEW k \in Key, Revoke(k) PROVE ConvertedStep
    BY <1>10 DEF ConvertedStep, Revoke
  <1>11. ASSUME NEW k \in Key, Purge(k) PROVE ConvertedStep
    BY <1>11 DEF ConvertedStep, Purge
  <1>12. ASSUME NEW k \in Key, NEW s \in Serial, LinuxCheckin(k, s) PROVE ConvertedStep
    BY <1>12 DEF ConvertedStep, LinuxCheckin
  <1>13. ASSUME NEW s \in Serial, Preregister(s) PROVE ConvertedStep
    BY <1>13 DEF ConvertedStep, Preregister
  <1>14. ASSUME NEW s \in Serial, DeletePreregistration(s) PROVE ConvertedStep
    BY <1>14 DEF ConvertedStep, DeletePreregistration
  <1> QED
    BY <1>1, <1>2, <1>3, <1>4, <1>5, <1>6, <1>7, <1>8, <1>9, <1>10, <1>11, <1>12, <1>13,
       <1>14 DEF LinuxNext

\* What a request writes after its inventory, or its connection.
LEMMA WritesConverted ==
  ASSUME IInv, NEW q \in Request, req[q].step \in {"results", "open"}, WritesFacts(req[q].row)
  PROVE  ConvertedStep
  <1> DEFINE r == req[q].row
  <1>1. r \in Row /\ rows' = [rows EXCEPT ![r].facts = TRUE]
    BY DEF WritesFacts, Exists
  <1>2. \A x \in Row \ {r} : rows'[x] = rows[x]
    BY <1>1 DEF IInv, TypeOK
  <1>3. rows'[r].kind = rows[r].kind
    BY <1>1 DEF IInv, TypeOK, DeviceRow
  <1>4. rows[r].kind = "pull" => req[q].converted
    BY <1>1 DEF IInv, ServedBefore
  <1> HIDE DEF r
  <1>5. r = req[q].row
    BY DEF r
  <1> QED
    BY <1>1, <1>2, <1>3, <1>4, <1>5 DEF ConvertedStep

LEMMA WindowsConverted == IInv /\ WindowsNext => ConvertedStep
  <1> SUFFICES ASSUME IInv, WindowsNext PROVE ConvertedStep
    OBVIOUS
  <1>1. ASSUME NEW r \in Row, DeleteDevice(r) PROVE ConvertedStep
    BY <1>1 DEF IInv, TypeOK, DeviceRow, ConvertedStep, DeleteDevice
  <1>2. ASSUME NEW r \in Row, IntuneUpdates(r) PROVE ConvertedStep
    BY <1>2 DEF IInv, TypeOK, DeviceRow, ConvertedStep, IntuneUpdates, WritesFacts,
         Unconverted
  <1>3. ASSUME NEW r \in Row, NEW s \in MaybeSerial, IntuneInserts(r, s) PROVE ConvertedStep
    BY <1>3 DEF IInv, TypeOK, DeviceRow, ConvertedStep, IntuneInserts, Insert
  <1>4. ASSUME NEW t \in Token, CreateToken(t) PROVE ConvertedStep
    BY <1>4 DEF ConvertedStep, CreateToken
  <1>5. ASSUME NEW t \in Token, RevokeToken(t) PROVE ConvertedStep
    BY <1>5 DEF ConvertedStep, RevokeToken
  <1>6. ASSUME NEW t \in Token, NEW r \in Row, NEW s \in MaybeSerial, Exchange(t, r, s)
        PROVE  ConvertedStep
    BY <1>6 DEF IInv, TypeOK, DeviceRow, ConvertedStep, Exchange, Insert
  <1>7. ASSUME NEW q \in Request, NEW t \in Token, NEW s \in MaybeSerial, CheckinBegins(q, t, s)
        PROVE  ConvertedStep
    BY <1>7 DEF ConvertedStep, CheckinBegins, Begins
  <1>8. ASSUME NEW q \in Request, NEW t \in Token, ConnectBegins(q, t) PROVE ConvertedStep
    BY <1>8 DEF ConvertedStep, ConnectBegins, Begins
  <1>9. ASSUME NEW q \in Request, NEW t \in Token, RotateBegins(q, t) PROVE ConvertedStep
    BY <1>9 DEF ConvertedStep, RotateBegins, Begins
  <1>10. ASSUME NEW q \in Request, NEW r \in MaybeRow, LookupDevice(q, r) PROVE ConvertedStep
    BY <1>10 DEF ConvertedStep, LookupDevice
  <1>11. ASSUME NEW q \in Request, NEW r \in Row, Inventory(q, r) PROVE ConvertedStep
    <2>1. CASE req[q].row = r /\ rows' = [rows EXCEPT ![r].facts = TRUE]
      <3>1. \A x \in Row \ {r} : rows'[x] = rows[x]
        BY <2>1 DEF IInv, TypeOK
      <3>2. rows'[r].kind = rows[r].kind
        BY <2>1 DEF IInv, TypeOK, DeviceRow
      <3>3. rows[r].kind = "pull" => req[q].step = "inventory" /\ req[q].converted
        BY <1>11, <2>1 DEF Inventory, IInv, ServedBefore
      <3> QED
        BY <2>1, <3>1, <3>2, <3>3 DEF ConvertedStep
    <2>2. CASE Insert(r, "windows", req[q].serial, TRUE)
      BY <2>2 DEF Insert, IInv, TypeOK, DeviceRow, ConvertedStep
    <2> QED
      BY <1>11, <2>1, <2>2 DEF Inventory
  <1>12. ASSUME NEW q \in Request, NEW u \in Token, RotateCommits(q, u) PROVE ConvertedStep
    BY <1>12 DEF ConvertedStep, RotateCommits
  <1>13. ASSUME NEW q \in Request, Claim(q) PROVE ConvertedStep
    BY <1>13 DEF ConvertedStep, Claim
  <1>14. ASSUME NEW q \in Request, Connects(q) PROVE ConvertedStep
    BY <1>14 DEF ConvertedStep, Connects
  <1>15. ASSUME NEW q \in Request, WritesResults(q) PROVE ConvertedStep
    BY <1>15, WritesConverted DEF WritesResults
  <1>16. ASSUME NEW q \in Request, WritesLastSeen(q) PROVE ConvertedStep
    BY <1>16, WritesConverted DEF WritesLastSeen
  <1>17. ASSUME NEW q \in Request, TokenUpdate(q) PROVE ConvertedStep
    BY <1>17 DEF ConvertedStep, TokenUpdate
  <1>18. ASSUME NEW q \in Request, RequestEnds(q) PROVE ConvertedStep
    BY <1>18 DEF ConvertedStep, RequestEnds
  <1> QED
    BY <1>1, <1>2, <1>3, <1>4, <1>5, <1>6, <1>7, <1>8, <1>9, <1>10, <1>11, <1>12, <1>13,
       <1>14, <1>15, <1>16, <1>17, <1>18 DEF WindowsNext

\* A rejected or revoked key stays out whatever the machine sends and whatever
\* is reserved for its serial; only the deletion of its device forgets a revoked
\* one (enrollDevice, approveEnrollment, the cascades of the schema).
THEOREM RefusedStaysOutAlways == Spec => RefusedStaysOut
  <1>1. IInv /\ [Next]_vars => [RefusedStep]_vars
    BY LinuxRefused, WindowsRefused DEF Next
  <1> QED
    BY <1>1, Invariant, PTL DEF Spec, RefusedStaysOut, RefusedStep

\* The row of a Linux device receives Windows facts from a request that was
\* authenticated before the conversion (inventory, results, WebSocket), and from
\* nothing else: not from a token linked to it since, nor from Intune
\* (authToken, checkDeviceClaim, convert.js).
THEOREM NoAgentAfterConversionAlways == Spec => NoAgentAfterConversion
  <1>1. IInv /\ [Next]_vars => [ConvertedStep]_vars
    BY LinuxConverted, WindowsConverted DEF Next
  <1> QED
    BY <1>1, Invariant, PTL DEF Spec, NoAgentAfterConversion, ConvertedStep
=============================================================================
