------------------------------- MODULE Mailings -------------------------------
(***************************************************************************)
(* Who gets a notification row.  An announcement is published to its       *)
(* audience, a clerk sends a message under an Idempotency-Key, an arrival, *)
(* a payment or a billing run tells the guardians of its children, and the *)
(* sweep of every morning reminds those of overdue children once a week.   *)
(*                                                                         *)
(* Each of them reads its recipients and inserts their rows one by one,    *)
(* none in a transaction; it may stop anywhere, run twice at a time and be *)
(* repeated, while guardians, groups and debts change.  What becomes of a  *)
(* row is the subject of Notifications.                                    *)
(***************************************************************************)
EXTENDS Integers, FiniteSets

CONSTANTS
    Guardians, Staff, Children,
    Requests,       \* requests and jobs that are under way
    Keys, Texts,    \* Idempotency-Keys, and what is sent under them
    Occasions,      \* arrivals, payments and billing runs, by their ids
    NoOne,
    FirstDays,      \* days the behaviours start on, counted from 1 January 2020
    Jumps,          \* days that pass between two looks at the calendar
    MaxEdits,       \* bound: changes of audience, debts and date
    MaxFaults       \* bound: statements that fail and processes that stop

Recipients == Guardians \cup Staff

\* What the proofs need of the constants.
MailingConstants ==
    /\ FirstDays \subseteq Int /\ Jumps \subseteq Int
    /\ MaxEdits \in Nat /\ MaxFaults \in Nat
    /\ NoOne \notin (SUBSET Recipients) \X Texts

VARIABLES
    links,          \* child_guardian
    members,        \* the children in the announcement's group (or active in its
                    \* branch), or the active staff it is for
    overdue,        \* the children with a debt of more than a week
    today,
    announcement,   \* its audience and what became of it
    keys,           \* notification_request: what was asked under each key
    happened,       \* the occasions there have been
    rows,           \* notification
    requests,
    edits,          \* number of changes so far
    faults          \* number of failures and stops so far

world == <<links, members, overdue, today>>
vars == <<world, announcement, keys, happened, rows, requests, edits, faults>>

-----------------------------------------------------------------------------
\* The calendar from 2020 to 2099; 1 January 2020 was a Wednesday.
YearStart(y) == 365 * (y - 2020) + (y - 2020 + 3) \div 4
YearOf(d) == 2020 + (4 * d) \div 1461
DayNum(d) == ((d + 2) % 7) + 1

\* MUTANT: the year of the day itself.
StampOfDaysYear(d) ==
    LET thursday == d + 4 - DayNum(d)
    IN  <<YearOf(d), (thursday - YearStart(YearOf(thursday))) \div 7 + 1>>

\* The week of a day is that of its Thursday, counted in the Thursday's year.
isoWeekStamp(d) ==
    LET thursday == d + 4 - DayNum(d)
        year == YearOf(thursday)
    IN  <<year, (thursday - YearStart(year)) \div 7 + 1>>

SameWeek(d, e) == d - DayNum(d) = e - DayNum(e)

-----------------------------------------------------------------------------
\* The audience of the announcement: each member with the reason it is one.
Audience ==
    CASE announcement.type = "guardians" -> {<<g, g>> : g \in announcement.ids}
      [] announcement.type = "staff" -> {<<u, u>> : u \in members}
      [] announcement.type = "children" -> {l \in links : l[1] \in announcement.ids}
      [] announcement.type = "group" -> {l \in links : l[1] \in members}

LinksOf(cs) == {l \in links : l[1] \in cs}
GuardiansOf(cs) == {l[2] : l \in LinksOf(cs)}

Idle ==
    [at |-> "idle", kind |-> "none", of |-> NoOne, text |-> NoOne, day |-> 0,
     children |-> {}, child |-> NoOne, left |-> {}, kept |-> {}]

\* What the dedup_key of a row is made of, besides template and recipient.
EventId(q) ==
    CASE q.kind = "announcement" -> <<"announcement", NoOne, NoOne>>
      [] q.kind = "manual" -> <<"key", q.of, NoOne>>
      [] q.kind = "reminder" -> <<"debt-reminder", q.child, isoWeekStamp(q.day)>>
      [] q.kind = "occasion" -> <<"occasion", q.of, q.child>>

Row(q, g) == [event |-> EventId(q), to |-> g, kind |-> q.kind, of |-> q.of,
              text |-> q.text, child |-> q.child, day |-> q.day]

HasRow(e, g) == \E n \in rows : n.event = e /\ n.to = g

Init ==
    /\ links \in SUBSET (Children \X Guardians)
    /\ overdue \in SUBSET Children
    /\ today \in FirstDays
    /\ announcement \in [type : {"guardians", "staff", "children", "group"},
                         ids : SUBSET (Children \cup Guardians), status : {"draft"}]
    /\ announcement.ids \subseteq CASE announcement.type = "guardians" -> Guardians
                                    [] announcement.type = "children" -> Children
                                    [] OTHER -> {}
    /\ members \in CASE announcement.type = "staff" -> SUBSET Staff
                     [] announcement.type = "group" -> SUBSET Children
                     [] OTHER -> {{}}
    /\ keys = [k \in Keys |-> NoOne]
    /\ happened = {}
    /\ rows = {}
    /\ requests = [r \in Requests |-> Idle]
    /\ edits = 0 /\ faults = 0

Becomes(r, q) == requests' = [requests EXCEPT ![r] = q]

-----------------------------------------------------------------------------
\* Starting.

\* publish finds the announcement neither removed, expired nor published.
publish(r) ==
    /\ requests[r] = Idle
    /\ announcement.status = "draft"
    /\ LET q == [Idle EXCEPT !.kind = "announcement", !.kept = Audience]
       IN  Becomes(r, CASE announcement.type = "guardians" ->
                             [q EXCEPT !.at = "rows", !.left = announcement.ids]
                        [] announcement.type = "staff" -> [q EXCEPT !.at = "staff"]
                        [] announcement.type = "children" ->
                             [q EXCEPT !.at = "links", !.children = announcement.ids]
                        [] announcement.type = "group" -> [q EXCEPT !.at = "children"])
    /\ UNCHANGED <<world, announcement, keys, happened, rows, edits, faults>>

\* It is removed, or it expires.
remove ==
    /\ announcement.status # "removed"
    /\ announcement' = [announcement EXCEPT !.status = "removed"]
    /\ UNCHANGED <<world, keys, happened, rows, requests, edits, faults>>

\* A message to some recipients under key k: the first request writes down what
\* it asks for, a later one must ask for the same.
send(r, k, to, text) ==
    /\ requests[r] = Idle
    /\ keys[k] \in {NoOne, <<to, text>>}
    /\ keys' = [keys EXCEPT ![k] = <<to, text>>]
    /\ Becomes(r, [Idle EXCEPT !.at = "rows", !.kind = "manual", !.of = k,
                               !.text = text, !.left = to])
    /\ UNCHANGED <<world, announcement, happened, rows, edits, faults>>

\* Occasion o has been committed; nobody waits for what follows.
Happen(r, o) ==
    /\ requests[r] = Idle
    /\ o \notin happened
    /\ happened' = happened \cup {o}
    /\ UNCHANGED <<world, announcement, keys, rows, edits, faults>>

TellGuardians(o, cs) ==
    [Idle EXCEPT !.at = "links", !.kind = "occasion", !.of = o,
                 !.children = cs, !.kept = LinksOf(cs)]

\* A child has arrived or left.
notifyGuardians(r, o, c) == Happen(r, o) /\ Becomes(r, TellGuardians(o, {c}))

\* A child's payment is recorded; its payer g is told, or all guardians who pay
\* (whose links are those of the model).
notifyPayer(r, o, c, g) ==
    /\ Happen(r, o)
    /\ Becomes(r, IF g = NoOne THEN TellGuardians(o, {c})
                  ELSE [TellGuardians(o, {c}) EXCEPT !.at = "rows", !.children = {}, !.child = c,
                                                     !.left = {g}, !.kept = {}])

\* A billing run has charged the children cs.
notifyChargesCreated(r, o, cs) == Happen(r, o) /\ Becomes(r, TellGuardians(o, cs))

\* The sweep of the morning, and its repetitions.
runForTenant(r) ==
    /\ requests[r] = Idle
    /\ overdue # {}
    /\ Becomes(r, [Idle EXCEPT !.at = "links", !.kind = "reminder", !.day = today,
                               !.children = overdue, !.kept = LinksOf(overdue)])
    /\ UNCHANGED <<world, announcement, keys, happened, rows, edits, faults>>

-----------------------------------------------------------------------------
\* Reading the recipients.
ReadChildren(r) ==
    /\ requests[r].at = "children"
    /\ Becomes(r, [requests[r] EXCEPT !.at = "links", !.children = members])
    /\ UNCHANGED <<world, announcement, keys, happened, rows, edits, faults>>

ReadStaff(r) ==
    /\ requests[r].at = "staff"
    /\ Becomes(r, [requests[r] EXCEPT !.at = "rows", !.left = members])
    /\ UNCHANGED <<world, announcement, keys, happened, rows, edits, faults>>

\* An announcement reads the guardians of all its children at once ...
ReadAudience(r) ==
    /\ requests[r].at = "links" /\ requests[r].kind = "announcement"
    /\ Becomes(r, [requests[r] EXCEPT !.at = "rows",
                                      !.left = GuardiansOf(requests[r].children)])
    /\ UNCHANGED <<world, announcement, keys, happened, rows, edits, faults>>

\* ... the others child by child.
ReadGuardians(r, c) ==
    /\ requests[r].at = "links" /\ requests[r].kind # "announcement"
    /\ c \in requests[r].children
    /\ Becomes(r, [requests[r] EXCEPT !.at = "rows", !.child = c,
                                      !.children = @ \ {c}, !.left = GuardiansOf({c})])
    /\ UNCHANGED <<world, announcement, keys, happened, rows, edits, faults>>

-----------------------------------------------------------------------------
\* The rows.

\* MUTANT: ON CONFLICT DO NOTHING, which returns no row, taken for the end.
EndAtConflict(r, g) ==
    /\ requests[r].at = "rows" /\ g \in requests[r].left
    /\ IF HasRow(EventId(requests[r]), g)
       THEN rows' = rows /\ Becomes(r, [requests[r] EXCEPT !.left = {}])
       ELSE /\ rows' = rows \cup {Row(requests[r], g)}
            /\ Becomes(r, [requests[r] EXCEPT !.left = @ \ {g}])
    /\ UNCHANGED <<world, announcement, keys, happened, edits, faults>>

\* enqueueDeduped: the unique index keeps the row that is there.
enqueueDeduped(r, g) ==
    /\ requests[r].at = "rows" /\ g \in requests[r].left
    /\ rows' = IF HasRow(EventId(requests[r]), g) THEN rows
               ELSE rows \cup {Row(requests[r], g)}
    /\ Becomes(r, [requests[r] EXCEPT !.left = @ \ {g}])
    /\ UNCHANGED <<world, announcement, keys, happened, edits, faults>>

\* The text of a manual message lacks a variable in the recipient's language.
Skip(r, g) ==
    /\ requests[r].at = "rows" /\ requests[r].kind = "manual"
    /\ g \in requests[r].left
    /\ Becomes(r, [requests[r] EXCEPT !.left = @ \ {g}])
    /\ UNCHANGED <<world, announcement, keys, happened, rows, edits, faults>>

\* The next child, or the end.
After(q) ==
    IF q.kind \in {"reminder", "occasion"} /\ q.children # {}
    THEN [q EXCEPT !.at = "links", !.child = NoOne, !.left = {}]
    ELSE Idle

\* All rows are there; an announcement is marked as published, whatever
\* happened to it meanwhile.
Finish(r) ==
    /\ requests[r].at = "rows" /\ requests[r].left = {}
    /\ announcement' = IF requests[r].kind = "announcement" /\ announcement.status = "draft"
                       THEN [announcement EXCEPT !.status = "published"] ELSE announcement
    /\ Becomes(r, After(requests[r]))
    /\ UNCHANGED <<world, keys, happened, rows, edits, faults>>

\* A statement fails, or the template is disabled.  The sweep goes on with the
\* next child; everything else ends.
Fail(r) ==
    /\ requests[r].at # "idle"
    /\ faults < MaxFaults /\ faults' = faults + 1
    /\ Becomes(r, IF requests[r].at = "rows" /\ requests[r].kind = "reminder"
                  THEN After(requests[r]) ELSE Idle)
    /\ UNCHANGED <<world, announcement, keys, happened, rows, edits>>

\* The process stops.
Stop(r) ==
    /\ requests[r].at # "idle"
    /\ faults < MaxFaults /\ faults' = faults + 1
    /\ Becomes(r, Idle)
    /\ UNCHANGED <<world, announcement, keys, happened, rows, edits>>

-----------------------------------------------------------------------------
\* The world changes.  Requests under way keep the reasons that still hold.
StillKept(q) ==
    [q EXCEPT !.kept = @ \cap IF q.kind = "announcement" THEN Audience' ELSE links']

Edit ==
    /\ edits < MaxEdits /\ edits' = edits + 1
    /\ UNCHANGED <<announcement, keys, happened, rows, faults>>
    /\ requests' = [r \in Requests |-> StillKept(requests[r])]

Relink(c, g) ==
    /\ links' = IF <<c, g>> \in links THEN links \ {<<c, g>>} ELSE links \cup {<<c, g>>}
    /\ UNCHANGED <<members, overdue, today>>
    /\ Edit

Move(x) ==
    /\ x \in CASE announcement.type = "staff" -> Staff
               [] announcement.type = "group" -> Children
               [] OTHER -> {}
    /\ members' = IF x \in members THEN members \ {x} ELSE members \cup {x}
    /\ UNCHANGED <<links, overdue, today>>
    /\ Edit

Settle(c) ==
    /\ overdue' = IF c \in overdue THEN overdue \ {c} ELSE overdue \cup {c}
    /\ UNCHANGED <<links, members, today>>
    /\ Edit

Tomorrow(n) ==
    /\ today' = today + n
    /\ UNCHANGED <<links, members, overdue>>
    /\ Edit

Serve(r) ==
    \/ ReadChildren(r) \/ ReadStaff(r) \/ ReadAudience(r)
    \/ \E c \in Children : ReadGuardians(r, c)
    \/ \E g \in Recipients : enqueueDeduped(r, g) \/ Skip(r, g)
    \/ Finish(r) \/ Fail(r) \/ Stop(r)

Tell(r, o) ==
    \/ \E c \in Children :
         notifyGuardians(r, o, c) \/ \E g \in Guardians \cup {NoOne} : notifyPayer(r, o, c, g)
    \/ \E cs \in (SUBSET Children) \ {{}} : notifyChargesCreated(r, o, cs)

Next ==
    \/ \E r \in Requests :
         \/ publish(r) \/ runForTenant(r) \/ Serve(r)
         \/ \E k \in Keys, to \in (SUBSET Recipients) \ {{}}, text \in Texts : send(r, k, to, text)
         \/ \E o \in Occasions : Tell(r, o)
    \/ remove
    \/ \E c \in Children : Settle(c) \/ \E g \in Guardians : Relink(c, g)
    \/ \E x \in Children \cup Staff : Move(x)
    \/ \E n \in Jumps : Tomorrow(n)

Spec == Init /\ [][Next]_vars

-----------------------------------------------------------------------------
\* Properties.

\* Every variable keeps its type.
TypeOK ==
    /\ links \subseteq Children \X Guardians
    /\ members \subseteq Children \cup Staff /\ overdue \subseteq Children
    /\ announcement.status \in {"draft", "published", "removed"}
    /\ happened \subseteq Occasions
    /\ \A n \in rows : n.to \in Recipients
    /\ \A r \in Requests :
         /\ requests[r].at \in {"idle", "children", "staff", "links", "rows"}
         /\ requests[r].children \subseteq Children /\ requests[r].left \subseteq Recipients
    /\ edits \in 0..MaxEdits /\ faults \in 0..MaxFaults

\* Two rows are about one thing: they share their event, their Idempotency-Key,
\* or the child and the calendar week of a reminder.
AboutTheSame(m, n) ==
    \/ m.event = n.event
    \/ m.kind = "manual" /\ n.kind = "manual" /\ m.of = n.of
    \/ m.kind = "reminder" /\ n.kind = "reminder" /\ m.child = n.child /\ SameWeek(m.day, n.day)

\* Nobody is told the same thing twice, however requests, retries and sweeps
\* overlap, stop and are repeated, and at the turn of the year as well; and all
\* rows of one Idempotency-Key say what its first request asked for.  Every
\* variable keeps its type.
OneMessageEach ==
    /\ TypeOK
    /\ \A m, n \in rows :
        /\ m.to = n.to /\ AboutTheSame(m, n) => m = n
        /\ m.kind = "manual" /\ n.kind = "manual" /\ m.of = n.of => m.text = n.text

\* The row of guardian g that request q was to write, be it of q or of an earlier one.
Told(q, g) ==
    \E n \in rows : /\ n.event = EventId(q) /\ n.to = g
                    /\ q.kind = "reminder" => SameWeek(n.day, q.day)

\* A fan-out that comes to its end has missed nobody: whoever belonged to the
\* audience for one and the same reason all along has a row of this announcement,
\* of this occasion, or of this week, though others may have begun it and failed.
NobodyMissed ==
    \A r \in Requests :
        LET q == requests[r]
        IN  q.at = "rows" /\ q.left = {} =>
              \A p \in q.kept : q.kind = "announcement" \/ p[1] = q.child => Told(q, p[2])
=============================================================================
