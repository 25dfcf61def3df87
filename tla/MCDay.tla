-------------------------------- MODULE MCDay --------------------------------
\* AttendanceDay, GroupPlaces and Mailings for TLC.  They share no state: in each
\* behaviour the day goes on, or places are given, or rows are written for one
\* kind of message, which are kept apart because they share no events.
EXTENDS Mailings, TLC

CONSTANTS
    Parts,       \* what the run is about: "day", "places", kinds of messages
    p1, Persons, Fetchers, Clerks, MaxAt, MaxPermissions, MaxCorrections,
    Groups, Branches, BranchOf, Capacities, NoChild, NoGroup, LastDay, Today

VARIABLES
    which,
    row, corrections, person, permissions, linked, active, isToday, work,
    writing, ended,
    assigned, capacity, opened, home, gone, clerks

A == INSTANCE AttendanceDay WITH Guardians <- Fetchers, Staff <- Clerks

P == INSTANCE GroupPlaces WITH active <- opened

ASSUME MailingConstants /\ A!AttendanceConstants /\ P!PlaceConstants

DayVars == <<row, corrections, person, permissions, linked, active, isToday, work,
             writing, ended>>
PlaceVars == <<assigned, capacity, opened, home, gone, clerks>>
allVars == <<which, vars, DayVars, PlaceVars>>

OnlyDay == which = "day" /\ UNCHANGED <<which, vars, PlaceVars>>
OnlyPlaces == which = "places" /\ UNCHANGED <<which, vars, DayVars>>
OnlyMail == which \notin {"day", "places"} /\ UNCHANGED <<which, DayVars, PlaceVars>>

\* What is not at work keeps one initial state.
MCInit ==
    /\ which \in Parts
    /\ Init /\ A!Init /\ P!Init
    /\ which # "day" => (row = A!NoRow /\ active /\ isToday
                          /\ linked = {} /\ \A p \in Persons : person[p] = "none")
    /\ IF which = "announcements"
       THEN /\ announcement.type \in {"guardians", "children"} => announcement.ids # {}
            /\ announcement.type = "staff" => links = {}
       ELSE announcement.type = "guardians" /\ announcement.ids = {}
    /\ which \in {"reminders", "occasions"} => links \subseteq Children \X {p1}
    /\ which \in {"day", "messages", "places"} => links = {}
    /\ which # "reminders" => (overdue = {} /\ today = CHOOSE d \in FirstDays : TRUE)
    /\ which # "places" => \A c \in Children : home[c] = CHOOSE b \in Branches : TRUE

Announcing ==
    /\ which = "announcements"
    /\ \/ \E r \in Requests : publish(r)
       \/ remove
       \/ \E x \in Children \cup Staff : Move(x)
       \/ \E c \in Children, g \in Guardians : Relink(c, g)

Messaging ==
    /\ which = "messages"
    /\ \E r \in Requests, k \in Keys, to \in (SUBSET Recipients) \ {{}}, text \in Texts :
         send(r, k, to, text)

Reminding ==
    /\ which = "reminders"
    /\ \/ \E r \in Requests : runForTenant(r)
       \/ \E c \in Children : Settle(c) \/ Relink(c, p1)
       \/ \E n \in Jumps : Tomorrow(n)

Telling ==
    /\ which = "occasions"
    /\ \/ \E r \in Requests, o \in Occasions : Tell(r, o)
       \/ \E c \in Children : Relink(c, p1)

MCNext ==
    \/ OnlyDay /\ A!Next
    \/ OnlyPlaces /\ P!Next
    \/ /\ OnlyMail
       /\ Announcing \/ Messaging \/ Reminding \/ Telling \/ \E r \in Requests : Serve(r)

MCSpec == MCInit /\ [][MCNext]_allVars

Symmetry == Permutations(Clerks) \cup Permutations(Requests) \cup Permutations(Children)
PlaceSymmetry == Permutations(Clerks) \cup Permutations(Children) \cup Permutations(Groups)

\* All groups are of one branch.
OneBranch == [g \in Groups |-> CHOOSE b \in Branches : TRUE]

-----------------------------------------------------------------------------
\* The fields of the day agree with each other, whoever corrects which.
DayConsistent == A!DayConsistent

\* A right that ended before a release took the child's lock releases nobody, and
\* a child arrives only while it is active.
HoldsWhenWritten == A!HoldsWhenWritten

\* What was recorded of the day changes only with a row of the corrections.
ChangesAreNoted == A!ChangesAreNoted

\* A child has one group a day, and the count of places by events is right.
PeakIsExact == P!PeakIsExact

\* Without force=true nobody is admitted beyond the capacity that was read.
AdmittedWithinRead == P!AdmittedWithinRead
=============================================================================
