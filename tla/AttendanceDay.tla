---------------------------- MODULE AttendanceDay ----------------------------
(***************************************************************************)
(* One child's attendance on one day, and who may fetch the child: arrival *)
(* and departure, absences, corrections, pickup persons and permissions    *)
(* (src/src/attendance/attendance.service.ts, src/src/pickup).             *)
(*                                                                         *)
(* Every writer of the day locks the child's row, so a transaction that    *)
(* reads nothing else is one step; what a request read before its lock is  *)
(* kept in `work'.  Pickup persons, permissions and guardians change       *)
(* without that lock: a departure or a release decides on what it reads of *)
(* them, keeps the lock, and writes in a second step (`writing').          *)
(* `late' and `early_departure' behave like `present', the four kinds of   *)
(* absence like `absent'.  Billing's recalculation is in BillingRun: here  *)
(* it only says whether somebody must resolve it (`manual').               *)
(***************************************************************************)
EXTENDS Integers, FiniteSetsExt, SequencesExt

CONSTANTS
    Persons,         \* standing pickup persons
    Guardians,       \* the child's guardians
    Staff,           \* requests of the staff
    MaxAt,           \* instants of the day, 1..MaxAt
    MaxPermissions,  \* bound on permissions
    MaxCorrections   \* bound on corrections

AttendanceConstants ==
    /\ MaxAt \in Nat /\ MaxPermissions \in Nat /\ MaxCorrections \in Nat
    /\ Persons \cap ({"idle", "nobody", "check-in", "create"} \cup Guardians) = {}

VARIABLES
    row,          \* the day's row, or NoRow
    corrections,  \* number of rows of attendance_correction
    person,       \* pickup persons: none, standing or revoked
    permissions,  \* pickup permissions in the order they were created
    linked,       \* guardians linked to the child
    active,       \* whether the child is active
    isToday,      \* FALSE once the day is over
    work,         \* what each request has read before its transaction
    writing,      \* what the release that holds the child's lock will write
    ended         \* history: whose right ended while it held the lock

vars == <<row, corrections, person, permissions, linked, active, isToday, work,
          writing, ended>>
pickup == <<person, permissions, linked>>
lock == <<writing, ended>>

NoRow == [status |-> "none"]
Null == 0
Nobody == "nobody"
Idle == "idle"

NON_BILLABLE == {"absent"}
Statuses == NON_BILLABLE \cup {"present"}

Permission == [person : Persons \cup {Nobody}, covers : BOOLEAN, revoked : BOOLEAN]

Released == [person : Persons \cup {Nobody}, permission : 0..MaxPermissions,
             guardian : Guardians \cup {Nobody}]
NotReleased == [person |-> Nobody, permission |-> Null, guardian |-> Nobody]

Day == [status : Statuses, billable : BOOLEAN, checkIn : 0..MaxAt,
        checkOut : 0..MaxAt, to : Released]

(***************************************************************************)
(* authorizedPickup: a linked guardian, or the newest permission that      *)
(* covers the day among those the request names, whose person still        *)
(* stands.  A permission without a person is a one-off, ad-hoc one.        *)
(***************************************************************************)
Latest(p, k) ==
    LET named == {i \in DOMAIN permissions :
                    /\ k # Null => i = k
                    /\ p # Nobody => permissions[i].person = p
                    /\ permissions[i].covers /\ ~permissions[i].revoked}
    IN IF named = {} THEN Null ELSE Max(named)

Stands(i) ==
    /\ i # Null
    /\ permissions[i].person # Nobody => person[permissions[i].person] # "revoked"

\* MUTANT: the person's own revocation is not looked at.
authorizedByPermission(p, k, g) ==
    IF g # Nobody THEN {[NotReleased EXCEPT !.guardian = g] : x \in {g} \cap linked}
    ELSE IF (p = Nobody /\ k = Null) \/ Latest(p, k) = Null THEN {}
    ELSE {[person |-> permissions[Latest(p, k)].person,
           permission |-> Latest(p, k), guardian |-> Nobody]}

\* The empty set when the code throws, else whom the child is released to.
authorizedPickup(p, k, g) ==
    IF g # Nobody THEN {[NotReleased EXCEPT !.guardian = g] : x \in {g} \cap linked}
    ELSE IF (p = Nobody /\ k = Null) \/ ~Stands(Latest(p, k)) THEN {}
    ELSE {[person |-> permissions[Latest(p, k)].person,
           permission |-> Latest(p, k), guardian |-> Nobody]}

(***************************************************************************)
(* The child's lock, held from the permission's read to the commit.        *)
(***************************************************************************)
NotWriting == [row |-> NoRow, notes |-> 0]

Unlocked == writing = NotWriting

Decide(day, notes) ==
    /\ Unlocked
    /\ corrections + notes <= MaxCorrections
    /\ writing' = [row |-> day, notes |-> notes]
    /\ UNCHANGED <<row, corrections, active, isToday, work, ended, pickup>>

Release ==
    /\ writing' = NotWriting /\ ended' = {}
    /\ UNCHANGED <<active, isToday, work, pickup>>

WriteRelease ==
    /\ ~Unlocked
    /\ row' = writing.row /\ corrections' = corrections + writing.notes
    /\ Release

\* The transaction's time limit, or a lost connection.
Rollback == ~Unlocked /\ Release /\ UNCHANGED <<row, corrections>>

\* Somebody may no longer fetch the child.
Ends(x) == ended' = IF Unlocked THEN ended ELSE ended \cup x

(***************************************************************************)
(* Arrival and departure.                                                  *)
(***************************************************************************)
Note(needed) ==
    \E manual \in BOOLEAN :
        /\ needed \/ manual => corrections < MaxCorrections
        /\ corrections' = IF needed \/ manual THEN corrections + 1 ELSE corrections

Go(s, to) == work' = [work EXCEPT ![s] = to]

BeginCheckIn(s) ==
    /\ work[s] = Idle /\ isToday /\ active
    /\ Go(s, "check-in")
    /\ UNCHANGED <<row, corrections, active, isToday, pickup, lock>>

Arrived(at) ==
    IF row = NoRow
    THEN [status |-> "present", billable |-> TRUE, checkIn |-> at,
          checkOut |-> Null, to |-> NotReleased]
    ELSE [row EXCEPT !.status = "present", !.billable = TRUE, !.checkIn = at]

MayCheckIn == active /\ (row # NoRow => row.checkIn = Null)

CheckIn(s) ==
    /\ work[s] = "check-in" /\ Unlocked /\ MayCheckIn
    /\ \E at \in 1..MaxAt : row' = Arrived(at)
    /\ Note(row # NoRow)
    /\ Go(s, Idle)
    /\ UNCHANGED <<active, isToday, pickup, lock>>

checkOut ==
    /\ isToday
    /\ row # NoRow /\ row.checkIn # Null /\ row.checkOut = Null
    /\ \E at \in row.checkIn..MaxAt,
          p \in Persons \cup {Nobody}, k \in 0..Len(permissions),
          g \in Guardians \cup {Nobody} :
        /\ g # Nobody => p = Nobody /\ k = Null
        /\ \E to \in authorizedPickup(p, k, g) :
            Decide([row EXCEPT !.checkOut = at, !.to = to], 0)

(***************************************************************************)
(* setStatus finds no row before its lock and creates one; when it finds   *)
(* one it is a correction.  The unique index refuses a second row.         *)
(***************************************************************************)
BeginSetStatus(s) ==
    /\ work[s] = Idle /\ row = NoRow
    /\ Go(s, "create")
    /\ UNCHANGED <<row, corrections, active, isToday, pickup, lock>>

Absence == [status |-> "absent", billable |-> FALSE, checkIn |-> Null,
            checkOut |-> Null, to |-> NotReleased]

\* MUTANT: the row is written whether or not there is one by now.
UpsertAbsence(s) ==
    /\ work[s] = "create" /\ Unlocked
    /\ row' = Absence
    /\ Note(~isToday)
    /\ Go(s, Idle)
    /\ UNCHANGED <<active, isToday, pickup, lock>>

CreateAbsence(s) ==
    /\ work[s] = "create" /\ Unlocked /\ row = NoRow
    /\ row' = Absence
    /\ Note(~isToday)
    /\ Go(s, Idle)
    /\ UNCHANGED <<active, isToday, pickup, lock>>

\* ALREADY_CHECKED_IN, CHILD_NOT_ACTIVE, the unique index, or a lost request.
Refuse(s) ==
    /\ work[s] # Idle
    /\ Go(s, Idle)
    /\ UNCHANGED <<row, corrections, active, isToday, pickup, lock>>

(***************************************************************************)
(* correct: one field at a time, and always with a note.                   *)
(***************************************************************************)
Corrected(day) ==
    /\ row # NoRow /\ Unlocked /\ corrections < MaxCorrections
    /\ row' = day
    /\ corrections' = corrections + 1
    /\ UNCHANGED <<active, isToday, work, pickup, lock>>

correctStatus ==
    /\ row # NoRow
    /\ \E st \in Statuses :
        /\ st \in NON_BILLABLE => row.checkIn = Null
        /\ Corrected([row EXCEPT !.status = st, !.billable = st \notin NON_BILLABLE])

\* Checkout requires an earlier check-in.
InOrder(in, out) == out # Null => in # Null /\ in <= out

\* MUTANT: an absent child that is given an arrival stays absent.
AttendedUnchanged(day) == day

\* A child that arrived was not absent.
Attended(day) ==
    IF day.checkIn # Null /\ day.status \in NON_BILLABLE
    THEN [day EXCEPT !.status = "present", !.billable = TRUE] ELSE day

correctCheckIn ==
    /\ row # NoRow
    /\ \E at \in 0..MaxAt :
        /\ InOrder(at, row.checkOut)
        /\ Corrected(Attended([row EXCEPT !.checkIn = at]))

correctCheckOut ==
    /\ row # NoRow
    /\ \E at \in 0..MaxAt :
        /\ InOrder(row.checkIn, at)
        /\ at # Null =>
            authorizedPickup(row.to.person, row.to.permission, row.to.guardian) # {}
        /\ Decide(Attended([row EXCEPT !.checkOut = at]), 1)

correctPickup ==
    /\ row # NoRow
    /\ \E p \in Persons : \E to \in authorizedPickup(p, Null, Nobody) :
        Decide([row EXCEPT !.to = to], 1)

(***************************************************************************)
(* Who may fetch the child.                                                *)
(***************************************************************************)
Granted(p, covers) ==
    /\ Len(permissions) < MaxPermissions
    /\ permissions' = Append(permissions,
                        [person |-> p, covers |-> covers, revoked |-> FALSE])

day == <<row, corrections, active, isToday>>

createPerson(p) ==
    /\ person[p] = "none"
    /\ person' = [person EXCEPT ![p] = "standing"]
    /\ \E covers \in BOOLEAN : Granted(p, covers)
    /\ UNCHANGED <<day, linked, work, lock>>

\* revokePerson and removePerson: the person and all its permissions.
revokePerson(p) ==
    /\ person[p] # "none"
    /\ person' = [person EXCEPT ![p] = "revoked"]
    /\ permissions' = [i \in DOMAIN permissions |->
            [permissions[i] EXCEPT !.revoked = @ \/ permissions[i].person = p]]
    /\ Ends({x \in {p} : person[x] = "standing"})
    /\ UNCHANGED <<day, linked, work, writing>>

\* createTemporary looks at the person, then inserts, with no transaction.
BeginTemporary(s, p) ==
    /\ work[s] = Idle
    /\ p # Nobody => person[p] = "standing"
    /\ Go(s, p)
    /\ UNCHANGED <<day, pickup, lock>>

CreateTemporary(s) ==
    /\ work[s] \in Persons \cup {Nobody}
    /\ \E covers \in BOOLEAN : Granted(work[s], covers)
    /\ Go(s, Idle)
    /\ UNCHANGED <<day, person, linked, lock>>

linkGuardian(g) ==
    /\ linked' = linked \cup {g}
    /\ UNCHANGED <<day, person, permissions, work, lock>>

unlinkGuardian(g) ==
    /\ linked' = linked \ {g}
    /\ Ends({g} \cap linked)
    /\ UNCHANGED <<day, person, permissions, work, writing>>

\* The child's own status, changed by ChildrenService under the child's lock.
setChildStatus ==
    /\ Unlocked
    /\ active' = ~active
    /\ UNCHANGED <<row, corrections, isToday, work, pickup, lock>>

EndOfDay ==
    /\ isToday /\ isToday' = FALSE
    /\ UNCHANGED <<row, corrections, active, work, pickup, lock>>

-----------------------------------------------------------------------------
Init ==
    /\ row = NoRow /\ corrections = 0 /\ permissions = <<>>
    /\ person = [p \in Persons |-> "none"]
    /\ linked \in SUBSET Guardians
    /\ active = TRUE /\ isToday = TRUE
    /\ work = [s \in Staff |-> Idle]
    /\ writing = NotWriting /\ ended = {}

Request(s) ==
    \/ BeginCheckIn(s) \/ CheckIn(s)
    \/ BeginSetStatus(s) \/ CreateAbsence(s)
    \/ (\E p \in Persons \cup {Nobody} : BeginTemporary(s, p)) \/ CreateTemporary(s)
    \/ Refuse(s)

correct == correctStatus \/ correctCheckIn \/ correctCheckOut \/ correctPickup

Next ==
    \/ \E s \in Staff : Request(s)
    \/ checkOut \/ correct \/ WriteRelease \/ Rollback
    \/ \E p \in Persons : createPerson(p) \/ revokePerson(p)
    \/ \E g \in Guardians : linkGuardian(g) \/ unlinkGuardian(g)
    \/ setChildStatus \/ EndOfDay

Spec == Init /\ [][Next]_vars

-----------------------------------------------------------------------------
(***************************************************************************)
(* Properties                                                              *)
(***************************************************************************)
\* Every variable keeps its type, and a day that names a permission names
\* one that exists and its person.
TypeOK ==
    /\ row \in Day \cup {NoRow}
    /\ writing \in [row : Day, notes : 0..1] \cup {NotWriting}
    /\ \A d \in {row, writing.row} : d # NoRow /\ d.to.permission # Null =>
        /\ d.to.permission \in DOMAIN permissions
        /\ d.to.person = permissions[d.to.permission].person
    /\ corrections \in 0..MaxCorrections
    /\ person \in [Persons -> {"none", "standing", "revoked"}]
    /\ permissions \in Seq(Permission) /\ Len(permissions) <= MaxPermissions
    /\ linked \subseteq Guardians
    /\ active \in BOOLEAN /\ isToday \in BOOLEAN
    /\ work \in [Staff -> {Idle, "check-in", "create", Nobody} \cup Persons]
    /\ ended \subseteq Persons \cup Guardians /\ (Unlocked => ended = {})

\* Whatever the order of arrivals, absences and corrections of single
\* fields: an absent child has no arrival and is not billed, a present one
\* is, nobody leaves before arriving, and a child that has left was released
\* either to one guardian or under one permission.  Every variable keeps its
\* type.
DayConsistent ==
    /\ TypeOK
    /\ row # NoRow =>
        /\ row.billable = (row.status \notin NON_BILLABLE)
        /\ row.status \in NON_BILLABLE => row.checkIn = Null
        /\ InOrder(row.checkIn, row.checkOut)
        /\ row.checkOut # Null =>
            (row.to.guardian # Nobody) # (row.to.permission # Null)

\* A departure or a release is written.
ReleaseWritten ==
    /\ row' # NoRow /\ row'.checkOut # Null
    /\ row # NoRow => row'.to # row.to \/ row'.checkOut # row.checkOut

\* A linked guardian, or the holder of a permission in force; or one whose right
\* ended after the release that is being written took the child's lock.
MayFetch(to) ==
    /\ to.guardian # Nobody => to.guardian \in linked \cup ended
    /\ to.permission # Null /\ to.person \notin ended =>
        /\ ~permissions[to.permission].revoked
        /\ to.person # Nobody => person[to.person] = "standing"

\* A right that ended before a departure or a release took the child's lock
\* releases nobody, though persons, permissions and guardians change without
\* that lock, and though a grant that raced with its person's revocation leaves
\* a permission in force (createTemporary and revokePerson); and a child arrives
\* only while it is active, which checkIn read before its lock as well.
HoldsWhenWritten ==
    [][/\ ReleaseWritten => MayFetch(row'.to)
       /\ (\E s \in Staff : work[s] = "check-in" /\ work'[s] = Idle /\ row' # row)
            => active]_vars

\* The same with no right that ends meanwhile.
HoldsWhenCommitted ==
    [][ReleaseWritten =>
        /\ row'.to.guardian # Nobody => row'.to.guardian \in linked
        /\ row'.to.permission # Null => ~permissions[row'.to.permission].revoked]_vars

\* A status or an instant that was recorded changes only together with a
\* row of the corrections: an absence that another request decided on before
\* the child arrived does not erase the arrival.
ChangesAreNoted ==
    [][row # NoRow =>
        \/ corrections' = corrections + 1
        \/ /\ row'.status = row.status
           /\ row.checkIn # Null => row'.checkIn = row.checkIn
           /\ row.checkOut # Null => row'.checkOut = row.checkOut]_vars
=============================================================================
