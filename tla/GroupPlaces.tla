----------------------------- MODULE GroupPlaces -----------------------------
(***************************************************************************)
(* Places in groups over time: children are assigned to a group from a     *)
(* day on, transferred, withdrawn, moved to another branch and removed,    *)
(* while groups change their capacity and status.                          *)
(*                                                                         *)
(* reassignChild reads the group and the child first, and locks the rows   *)
(* of both only then; the reads and the writes of its transaction are two  *)
(* steps here, so that the locks matter.                                   *)
(***************************************************************************)
EXTENDS Naturals, FiniteSets, FiniteSetsExt

CONSTANTS
  Children,
  Groups,
  Branches,
  BranchOf,     \* the branch of each group
  Capacities,   \* capacities a group may be given
  Clerks,       \* requests that assign or transfer a child
  NoChild, NoGroup,
  LastDay,      \* bound: days are 1..LastDay
  Today

PlaceConstants ==
  /\ IsFiniteSet(Children)
  /\ BranchOf \in [Groups -> Branches]
  /\ Capacities \subseteq Nat \ {0}
  /\ NoChild \notin Children /\ NoGroup \notin Groups
  /\ LastDay \in Nat /\ Today \in 1..LastDay

Days == 1..LastDay

\* effective_to of an assignment that has no end.
Forever == LastDay + 1

VARIABLES
  assigned,  \* group_assignment rows
  capacity,  \* capacity of each group
  active,    \* groups whose status is 'active'
  home,      \* branch of each child
  gone,      \* children with deleted_at
  clerks     \* the requests: what they were asked, read and answered

vars == <<assigned, capacity, active, home, gone, clerks>>

Assignment == [child : Children, group : Groups, from : Days, to : Days \cup {Forever}]

Covers(a, d) == a.from <= d /\ d <= a.to

\* Children with a place in group g on day d.
Occupants(g, d) == {a.child : a \in {x \in assigned : x.group = g /\ Covers(x, d)}} \ gone

NoRequest == [at |-> "idle", child |-> NoChild, group |-> NoGroup, from |-> 0, force |-> FALSE,
              capacity |-> 0, reply |-> "none"]
Answer(reply) == [NoRequest EXCEPT !.reply = reply]

\* No transaction of reassignChild holds the lock of child c, or of group g.
ChildIsFree(c) == \A k \in Clerks : clerks[k].at = "write" => clerks[k].child # c
GroupIsFree(g) == \A k \in Clerks : clerks[k].at = "write" => clerks[k].group # g

Init ==
  /\ assigned = {}
  /\ capacity \in [Groups -> Capacities]
  /\ active = Groups
  /\ home \in [Children -> Branches]
  /\ gone = {}
  /\ clerks = [k \in Clerks |-> NoRequest]

-----------------------------------------------------------------------------
\* The group's occupancy from day d on, as reassignChild counts it: +1 where an
\* assignment starts, -1 on the day after its end, and the largest sum on the way.

\* MUTANT: a place is free on the last day of an assignment.
EndEventOnLastDay(a) == a.to

EndEvent(a) == a.to + 1
StartEvent(a, d) == Max({d, a.from})

Reserved(g, d) ==
  {a \in assigned : a.group = g /\ a.child \notin gone /\ a.to >= d}

Peak(g, d) ==
  LET rows == Reserved(g, d)
      ends == {a \in rows : a.to # Forever}
      events == {StartEvent(a, d) : a \in rows} \cup {EndEvent(a) : a \in ends}
      sum(t) == Cardinality({a \in rows : StartEvent(a, d) <= t})
                  - Cardinality({a \in ends : EndEvent(a) <= t})
  IN Max({0} \cup {sum(t) : t \in events})

-----------------------------------------------------------------------------
\* Admission.

\* The checks before the transaction.
Check(k, c, g, d, force) ==
  /\ clerks[k].at = "idle"
  /\ c \notin gone /\ g \in active
  /\ home[c] = BranchOf[g]
  /\ clerks' = [clerks EXCEPT ![k] =
       [at |-> "checked", child |-> c, group |-> g, from |-> d, force |-> force,
        capacity |-> capacity[g], reply |-> "none"]]
  /\ UNCHANGED <<assigned, capacity, active, home, gone>>

Current(c, d) == {a \in assigned : a.child = c /\ Covers(a, d)}

\* MUTANT: neither the group nor the child is locked.
NoLock(c, g) == TRUE

Lockable(c, g) == ChildIsFree(c) /\ GroupIsFree(g)

\* Lock both rows, read the assignments and decide.
Decide(k) ==
  /\ clerks[k].at = "checked"
  /\ LET c == clerks[k].child
         g == clerks[k].group
         d == clerks[k].from
         reply == IF \E a \in Current(c, d) : a.group = g THEN "done"
                  ELSE IF ~clerks[k].force /\ Peak(g, d) >= clerks[k].capacity THEN "refused"
                  ELSE IF \E a \in assigned : a.child = c /\ a.from > d THEN "refused"
                  ELSE "none"
     IN /\ Lockable(c, g)
        /\ clerks' = [clerks EXCEPT ![k] = IF reply = "none" THEN [@ EXCEPT !.at = "write"]
                                            ELSE Answer(reply)]
  /\ UNCHANGED <<assigned, capacity, active, home, gone>>

\* The rows once the child's current assignment has ended before day d.
OldPlaceEnded(c, d) ==
  (assigned \ Current(c, d))
     \cup {[a EXCEPT !.to = d - 1] : a \in {x \in Current(c, d) : x.from # d}}

\* End the current assignment, insert the new one and commit.
Transfer(k) ==
  /\ clerks[k].at = "write"
  /\ LET c == clerks[k].child
         d == clerks[k].from
     IN assigned' = OldPlaceEnded(c, d)
                      \cup {[child |-> c, group |-> clerks[k].group, from |-> d, to |-> Forever]}
  /\ clerks' = [clerks EXCEPT ![k] = Answer("done")]
  /\ UNCHANGED <<capacity, active, home, gone>>

Lose(k) ==
  /\ clerks[k].at # "idle"
  /\ clerks' = [clerks EXCEPT ![k] = NoRequest]
  /\ UNCHANGED <<assigned, capacity, active, home, gone>>

-----------------------------------------------------------------------------
\* setStatus to 'withdrawn', 'graduated' or 'archived' from day d on.
Leave(c, d) ==
  /\ c \notin gone
  /\ d <= Today
  /\ ChildIsFree(c)
  /\ assigned' = {a \in assigned : a.child # c}
       \cup {[a EXCEPT !.to = IF @ > d THEN d ELSE @] :
               a \in {x \in assigned : x.child = c /\ x.from <= d}}
  /\ UNCHANGED <<capacity, active, home, gone, clerks>>

\* update moves a child to another branch: no place or planned place may be left
\* in a group of another one.
MoveBranch(c, b) ==
  /\ c \notin gone
  /\ ChildIsFree(c)
  /\ \A a \in assigned : a.child = c /\ a.to >= Today => BranchOf[a.group] = b
  /\ home' = [home EXCEPT ![c] = b]
  /\ UNCHANGED <<assigned, capacity, active, gone, clerks>>

remove(c) ==
  /\ c \notin gone
  /\ gone' = gone \cup {c}
  /\ UNCHANGED <<assigned, capacity, active, home, clerks>>

\* update of a group: the row must be free, nothing else is looked at.
update(g, n, isActive) ==
  /\ GroupIsFree(g)
  /\ capacity' = [capacity EXCEPT ![g] = n]
  /\ active' = IF isActive THEN active \cup {g} ELSE active \ {g}
  /\ UNCHANGED <<assigned, home, gone, clerks>>

Next ==
  \/ \E k \in Clerks :
       \/ \E c \in Children, g \in Groups, d \in Days, force \in BOOLEAN : Check(k, c, g, d, force)
       \/ Decide(k) \/ Transfer(k) \/ Lose(k)
  \/ \E c \in Children :
       \/ \E d \in Days : Leave(c, d)
       \/ \E b \in Branches : MoveBranch(c, b)
       \/ remove(c)
  \/ \E g \in Groups, n \in Capacities, isActive \in BOOLEAN : update(g, n, isActive)

Spec == Init /\ [][Next]_vars

-----------------------------------------------------------------------------
\* Properties.

\* Every variable keeps its type, and an assignment does not end before it starts.
TypeOK ==
  /\ assigned \subseteq Assignment
  /\ \A a \in assigned : a.from <= a.to
  /\ capacity \in [Groups -> Capacities]
  /\ active \subseteq Groups
  /\ home \in [Children -> Branches]
  /\ gone \subseteq Children
  /\ clerks \in [Clerks -> [at : {"idle", "checked", "write"}, child : Children \cup {NoChild},
                            group : Groups \cup {NoGroup}, from : Days \cup {0}, force : BOOLEAN,
                            capacity : Capacities \cup {0},
                            reply : {"none", "done", "refused"}]]

\* A child has one group a day: constraint no_overlapping_group would refuse a
\* second one, and the service never runs into it, whichever requests race.  So no
\* child is counted twice, and the count by events, which the capacity is compared
\* with, is the largest number of children on any one day.  Every variable keeps
\* its type.
PeakIsExact ==
  /\ TypeOK
  /\ \A a, b \in assigned : a # b /\ a.child = b.child => a.to < b.from \/ b.to < a.from
  /\ \A g \in Groups, d \in Days :
       Peak(g, d) = Max({Cardinality(Occupants(g, e)) : e \in d..Forever})

\* Request k commits a transfer to group g, without force=true.
Commits(k, g) ==
  clerks[k].at = "write" /\ clerks[k].group = g /\ ~clerks[k].force /\ clerks'[k].reply = "done"

\* Without force=true nobody is admitted beyond the capacity that was read, on any
\* day from the first one on: two requests cannot both take the last place.
AdmittedWithinRead ==
  [][\A k \in Clerks, g \in Groups : Commits(k, g) =>
       \A d \in clerks[k].from..Forever :
         Cardinality(Occupants(g, d)') <= clerks[k].capacity]_vars

\* ... nor beyond the capacity the group has.
AdmittedWithinCapacity ==
  [][\A k \in Clerks, g \in Groups : Commits(k, g) =>
       \A d \in clerks[k].from..Forever : Cardinality(Occupants(g, d)') <= capacity[g]]_vars

\* A child's places, from today on, are in groups of its branch.
BranchesAgree ==
  \A a \in assigned : a.to >= Today => home[a.child] = BranchOf[a.group]

\* When a request is answered with success, the child has its place from the day
\* that was asked for on, without an end.
AssignedForGood ==
  [][\A k \in Clerks : clerks[k].reply # "done" /\ clerks'[k].reply = "done" =>
       \A d \in clerks[k].from..Forever :
         \E a \in assigned' : a.child = clerks[k].child /\ a.group = clerks[k].group /\ Covers(a, d)]_vars
=============================================================================
