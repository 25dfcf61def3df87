------------------------------- MODULE DayProofs -------------------------------
(***************************************************************************)
(* Mailings, the attendance of a day and the places in groups are right    *)
(* for any number of guardians, children, staff, groups, requests, changes *)
(* and faults.                                                             *)
(*                                                                         *)
(* Mailings: nobody is told the same thing twice, and a fan-out that comes *)
(* to its end has missed nobody.  Neither is inductive.  The strengthening *)
(* says what a request at work knows: at each stage of its reads, the      *)
(* recipients whose reason has held all along are among those it has read  *)
(* or will still read; and at its rows, each of them is left or has a row. *)
(*                                                                         *)
(* The day: a release names what it names fully (ReleaseOK), also before   *)
(* the child leaves, and every permission, made or in the making, is for a *)
(* person that was created.                                                *)
(*                                                                         *)
(* The places: what a request found under its locks (no later assignment   *)
(* of the child, and on every day fewer children than the capacity it has  *)
(* read) holds until it commits, as those who hold locks are for different *)
(* children and groups, and every other step only frees places.  That      *)
(* nobody has two places on a day follows, and makes the count by events   *)
(* the largest number of children on any one day.                          *)
(***************************************************************************)
EXTENDS MCDay, Sequences, FiniteSetTheorems, FunctionTheorems, WellFoundedInduction, TLAPS

MailKinds == {"none", "announcement", "manual", "reminder", "occasion"}

Request ==
    [at : {"idle", "children", "staff", "links", "rows"}, kind : MailKinds,
     of : Keys \cup Occasions \cup {NoOne}, text : Texts \cup {NoOne}, day : Int,
     children : SUBSET Children, child : Children \cup {NoOne},
     left : SUBSET Recipients, kept : SUBSET ((Children \cup Recipients) \X Recipients)]

Announcement ==
    [type : {"guardians", "staff", "children", "group"},
     ids : SUBSET (Children \cup Guardians), status : {"draft", "published", "removed"}]

\* The audience is made of what its type says.
AudienceInv ==
    /\ announcement.type = "guardians" => announcement.ids \subseteq Guardians
    /\ announcement.type = "children" => announcement.ids \subseteq Children
    /\ announcement.type = "staff" => members \subseteq Staff
    /\ announcement.type = "group" => members \subseteq Children

TypeInv ==
    /\ links \subseteq Children \X Guardians
    /\ members \subseteq Children \cup Staff /\ overdue \subseteq Children
    /\ today \in Int
    /\ announcement \in Announcement
    /\ AudienceInv
    /\ keys \in [Keys -> ((SUBSET Recipients) \X Texts) \cup {NoOne}]
    /\ happened \subseteq Occasions
    /\ requests \in [Requests -> Request]
    /\ edits \in 0..MaxEdits /\ faults \in 0..MaxFaults

\* A manual message, of a row or of a request, says what its key says.
SaysItsKey(n) ==
    n.kind = "manual" => n.of \in Keys /\ keys[n.of] # NoOne /\ keys[n.of][2] = n.text

RowOK(n) ==
    /\ n.to \in Recipients /\ n.kind \in MailKinds \ {"none"} /\ n.day \in Int
    /\ n.event = EventId(n)
    /\ SaysItsKey(n)

RowsInv ==
    /\ \A n \in rows : RowOK(n)
    /\ \A m, n \in rows : m.event = n.event /\ m.to = n.to => m = n

\* Whoever is kept, for this child or this announcement, is left or has a row.
Served(q) ==
    \A p \in q.kept :
        q.kind = "announcement" \/ p[1] = q.child => p[2] \in q.left \/ HasRow(EventId(q), p[2])

\* What a request knows at each stage.
Stage(q) ==
    /\ q.at # "idle" => q.kind # "none"
    /\ SaysItsKey(q)
    /\ q.kind = "manual" => q.kept = {} /\ q.at # "links"
    /\ q.kind = "announcement" => q.kept \subseteq Audience
    /\ q.kind \in {"reminder", "occasion"} => q.kept \subseteq links
    /\ q.at = "children" => q.kind = "announcement" /\ announcement.type = "group"
    /\ q.at = "staff" => q.kind = "announcement" /\ announcement.type = "staff"
    /\ q.at = "links" /\ q.kind = "announcement" =>
        announcement.type \in {"children", "group"} /\ \A p \in q.kept : p[1] \in q.children
    /\ q.at = "rows" => Served(q)

IInv == TypeInv /\ RowsInv /\ \A r \in Requests : Stage(requests[r])

-----------------------------------------------------------------------------
\* The weeks.

\* A stamp names one calendar week, and a week has one stamp.
LEMMA StampNamesWeek ==
  ASSUME NEW d \in Int, NEW e \in Int
  PROVE  isoWeekStamp(d) = isoWeekStamp(e) <=> SameWeek(d, e)
<1> DEFINE t(x) == x + 4 - DayNum(x)
           k(x) == (x + 2) \div 7
           start(x) == YearStart(YearOf(t(x)))
<1>1. ASSUME NEW x \in Int PROVE t(x) = 7 * k(x) + 1 /\ k(x) \in Int
  BY <1>1 DEF DayNum
<1>2. ASSUME NEW x \in Int PROVE YearOf(x) \in Int /\ YearStart(YearOf(x)) \in Int
  BY <1>2 DEF YearOf, YearStart
<1>3. ASSUME NEW x \in Int PROVE t(x) \in Int /\ start(x) \in Int
  BY <1>1, <1>2, <1>3
<1>4. ASSUME NEW x \in Int
      PROVE  isoWeekStamp(x) = <<YearOf(t(x)), (t(x) - start(x)) \div 7 + 1>>
  BY <1>4 DEF isoWeekStamp
<1>5. SameWeek(d, e) <=> t(d) = t(e)
  BY <1>1 DEF SameWeek, DayNum
<1>6. ASSUME isoWeekStamp(d) = isoWeekStamp(e) PROVE t(d) = t(e)
  <2> DEFINE s == start(d)
  <2>1. YearOf(t(d)) = YearOf(t(e)) /\ (t(d) - start(d)) \div 7 + 1 = (t(e) - start(e)) \div 7 + 1
    BY <1>4, <1>6
  <2>2. start(e) = s
    BY <2>1
  <2>3. s \in Int /\ k(d) \in Int /\ k(e) \in Int /\ t(d) = 7 * k(d) + 1 /\ t(e) = 7 * k(e) + 1
    BY <1>1, <1>3
  <2>4. (t(d) - s) \div 7 = (t(e) - s) \div 7
    <3> HIDE DEF t, s, k
    <3> QED  BY <2>1, <2>2, <2>3, <1>3
  <2>5. ASSUME NEW a \in Int, NEW b \in Int, NEW c \in Int,
               (7 * a + 1 - c) \div 7 = (7 * b + 1 - c) \div 7
        PROVE  a = b
    BY <2>5
  <2> HIDE DEF t, s, k
  <2> QED  BY <2>3, <2>4, <2>5
<1> QED
  BY <1>4, <1>5, <1>6

-----------------------------------------------------------------------------
\* What leaves the invariant of everybody else alone.

KeysKept == \A k \in Keys : keys[k] # NoOne => keys'[k] = keys[k]

AudienceKept ==
    /\ links' = links /\ members' = members
    /\ announcement'.type = announcement.type /\ announcement'.ids = announcement.ids

\* A request at rest is one, and knows nothing.
LEMMA IdleStage == Idle \in Request /\ Stage(Idle)
BY DEF Idle, Request, MailKinds, Stage, SaysItsKey

\* A request keeps what it knows while rows are added.
LEMMA StageStays ==
  ASSUME NEW q, Stage(q), KeysKept, AudienceKept, rows \subseteq rows'
  PROVE  Stage(q)'
<1>1. Audience' = Audience
  BY DEF Audience, AudienceKept
<1>2. Served(q) => Served(q)'
  BY DEF Served, HasRow
<1>3. SaysItsKey(q)'
  BY DEF SaysItsKey, Stage, KeysKept
<1> QED
  BY <1>1, <1>2, <1>3 DEF Stage, AudienceKept

\* One request goes on to q, and the others know what they knew.
LEMMA OneMoves ==
  ASSUME \A r \in Requests : Stage(requests[r]), requests \in [Requests -> Request],
         NEW r \in Requests, NEW q \in Request, Becomes(r, q), Stage(q)',
         KeysKept, AudienceKept, rows \subseteq rows'
  PROVE  requests' \in [Requests -> Request] /\ \A x \in Requests : Stage(requests[x])'
<1>1. requests' \in [Requests -> Request]
  BY DEF Becomes
<1>2. ASSUME NEW x \in Requests PROVE Stage(requests[x])'
  <2>1. CASE x = r
    <3>1. requests'[x] = q
      BY <2>1 DEF Becomes
    <3> QED  BY <3>1
  <2>2. CASE x # r
    <3>1. requests'[x] = requests[x]
      BY <2>2 DEF Becomes
    <3>2. Stage(requests[x])
      OBVIOUS
    <3> DEFINE p == requests[x]
    <3>3. \A u : Stage(u) => Stage(u)'
      BY StageStays
    <3> QED  BY <3>1, <3>2, <3>3
  <2> QED  BY <2>1, <2>2
<1> QED
  BY <1>1, <1>2

LEMMA RowsStay ==
  ASSUME RowsInv, rows' = rows, KeysKept
  PROVE  RowsInv'
BY DEF RowsInv, RowOK, SaysItsKey, KeysKept

\* A step that writes no row and no key keeps the rest.
LEMMA OthersStay ==
  ASSUME IInv, NEW r \in Requests, NEW q \in Request, Becomes(r, q), Stage(q),
         UNCHANGED <<world, keys, rows, edits>>, announcement' \in Announcement,
         announcement'.type = announcement.type, announcement'.ids = announcement.ids,
         happened' \subseteq Occasions, faults' \in 0..MaxFaults
  PROVE  IInv'
<1>1. KeysKept /\ AudienceKept /\ rows \subseteq rows'
  BY DEF KeysKept, AudienceKept, world
<1>2. RowsInv'
  BY <1>1, RowsStay DEF IInv
<1>3. requests' \in [Requests -> Request] /\ \A x \in Requests : Stage(requests[x])'
  <2>1. Stage(q)'
    BY <1>1, StageStays
  <2> QED  BY <1>1, <2>1, OneMoves DEF IInv, TypeInv
<1>4. TypeInv'
  BY <1>3 DEF IInv, TypeInv, AudienceInv, world
<1> QED
  BY <1>2, <1>3, <1>4 DEF IInv

-----------------------------------------------------------------------------
\* Each step keeps the invariant.

LEMMA InitInv ==
  ASSUME MailingConstants, Init
  PROVE  IInv
<1>1. TypeInv
  <2>1. AudienceInv
    BY DEF Init, AudienceInv
  <2>2. members \subseteq Children \cup Staff
    BY DEF Init
  <2>3. announcement \in Announcement
    BY DEF Init, Announcement
  <2>4. requests \in [Requests -> Request]
    BY IdleStage DEF Init
  <2> QED
    BY <2>1, <2>2, <2>3, <2>4 DEF Init, TypeInv, MailingConstants
<1>2. RowsInv
  BY DEF Init, RowsInv
<1>3. \A r \in Requests : Stage(requests[r])
  BY IdleStage DEF Init
<1> QED
  BY <1>1, <1>2, <1>3 DEF IInv

LEMMA PublishInv ==
  ASSUME IInv, NEW r \in Requests, publish(r)
  PROVE  IInv'
<1> DEFINE started == [Idle EXCEPT !.kind = "announcement", !.kept = Audience]
<1>1. announcement \in Announcement /\ AudienceInv /\ links \subseteq Children \X Guardians
      /\ members \subseteq Children \cup Staff
  BY DEF IInv, TypeInv
<1>2. UNCHANGED <<world, announcement, keys, happened, rows, edits, faults>>
  BY DEF publish
<1>3. Audience' = Audience
  BY <1>2 DEF Audience, world
<1>4. PICK q : /\ Becomes(r, q)
               /\ q = CASE announcement.type = "guardians" ->
                             [started EXCEPT !.at = "rows", !.left = announcement.ids]
                        [] announcement.type = "staff" -> [started EXCEPT !.at = "staff"]
                        [] announcement.type = "children" ->
                             [started EXCEPT !.at = "links", !.children = announcement.ids]
                        [] announcement.type = "group" -> [started EXCEPT !.at = "children"]
  BY DEF publish
<1>5. q \in Request /\ Stage(q)
  <2>1. CASE announcement.type = "guardians"
    <3>1. q = [at |-> "rows", kind |-> "announcement", of |-> NoOne, text |-> NoOne, day |-> 0,
               children |-> {}, child |-> NoOne, left |-> announcement.ids, kept |-> Audience]
      BY <1>4, <2>1 DEF Idle
    <3>2. Audience = {<<g, g>> : g \in announcement.ids}
      BY <2>1 DEF Audience
    <3>3. announcement.ids \subseteq Recipients
      BY <1>1, <2>1 DEF AudienceInv, Recipients
    <3> QED
      BY <3>1, <3>2, <3>3, <2>1 DEF Request, MailKinds, Stage, SaysItsKey, Served
  <2>2. CASE announcement.type = "staff"
    <3>1. q = [at |-> "staff", kind |-> "announcement", of |-> NoOne, text |-> NoOne, day |-> 0,
               children |-> {}, child |-> NoOne, left |-> {}, kept |-> Audience]
      BY <1>4, <2>2 DEF Idle
    <3>2. Audience = {<<u, u>> : u \in members}
      BY <2>2 DEF Audience
    <3>3. members \subseteq Recipients
      BY <1>1, <2>2 DEF AudienceInv, Recipients
    <3> QED
      BY <3>1, <3>2, <3>3, <2>2 DEF Request, MailKinds, Stage, SaysItsKey
  <2>3. CASE announcement.type = "children"
    <3>1. q = [at |-> "links", kind |-> "announcement", of |-> NoOne, text |-> NoOne, day |-> 0,
               children |-> announcement.ids, child |-> NoOne, left |-> {}, kept |-> Audience]
      BY <1>4, <2>3 DEF Idle
    <3>2. Audience = {l \in links : l[1] \in announcement.ids}
      BY <2>3 DEF Audience
    <3>3. announcement.ids \subseteq Children
      BY <1>1, <2>3 DEF AudienceInv
    <3>4. Audience \subseteq (Children \cup Recipients) \X Recipients
      BY <1>1, <3>2 DEF Recipients
    <3> QED
      BY <3>1, <3>2, <3>3, <3>4, <2>3 DEF Request, MailKinds, Stage, SaysItsKey
  <2>4. CASE announcement.type = "group"
    <3>1. q = [at |-> "children", kind |-> "announcement", of |-> NoOne, text |-> NoOne, day |-> 0,
               children |-> {}, child |-> NoOne, left |-> {}, kept |-> Audience]
      BY <1>4, <2>4 DEF Idle
    <3>2. Audience = {l \in links : l[1] \in members}
      BY <2>4 DEF Audience
    <3>3. Audience \subseteq (Children \cup Recipients) \X Recipients
      BY <1>1, <3>2 DEF Recipients
    <3> QED
      BY <3>1, <3>3, <2>4 DEF Request, MailKinds, Stage, SaysItsKey
  <2> QED
    BY <1>1, <2>1, <2>2, <2>3, <2>4 DEF Announcement
<1> QED
  BY <1>1, <1>2, <1>4, <1>5, OthersStay DEF IInv, TypeInv

LEMMA RemoveInv ==
  ASSUME IInv, remove
  PROVE  IInv'
<1>1. KeysKept /\ AudienceKept /\ rows' = rows /\ requests' = requests
  BY DEF IInv, TypeInv, Announcement, remove, KeysKept, AudienceKept, world
<1>2. RowsInv'
  BY <1>1, RowsStay DEF IInv
<1>3. ASSUME NEW x \in Requests PROVE Stage(requests[x])'
  <2>1. \A u : Stage(u) => Stage(u)'
    BY <1>1, StageStays
  <2> QED  BY <1>1, <2>1 DEF IInv
<1>4. TypeInv'
  BY DEF IInv, TypeInv, Announcement, AudienceInv, remove, world
<1> QED
  BY <1>2, <1>3, <1>4 DEF IInv

LEMMA SendInv ==
  ASSUME MailingConstants, IInv, NEW r \in Requests, NEW k \in Keys,
         NEW to \in SUBSET Recipients, NEW text \in Texts, send(r, k, to, text)
  PROVE  IInv'
<1> DEFINE q == [Idle EXCEPT !.at = "rows", !.kind = "manual", !.of = k, !.text = text, !.left = to]
<1>1. Becomes(r, q)
  BY DEF send
<1>2. q \in Request
  BY IdleStage DEF Request, MailKinds
<1>3. q.at = "rows" /\ q.kind = "manual" /\ q.of = k /\ q.text = text /\ q.kept = {}
  BY DEF Idle
<1>4. keys[k] \in {NoOne, <<to, text>>} /\ keys' = [keys EXCEPT ![k] = <<to, text>>]
  BY DEF send
<1>5. <<to, text>> # NoOne
  BY DEF MailingConstants
<1>6. KeysKept /\ AudienceKept /\ rows' = rows
  BY <1>4 DEF send, KeysKept, AudienceKept, world, IInv, TypeInv
<1>7. keys'[k] = <<to, text>>
  BY <1>4 DEF IInv, TypeInv
<1>8. Stage(q)'
  <2> HIDE DEF q
  <2> QED  BY <1>3, <1>5, <1>7 DEF Stage, SaysItsKey, Served
<1>9. requests' \in [Requests -> Request] /\ \A x \in Requests : Stage(requests[x])'
  <2> HIDE DEF q
  <2> QED  BY <1>1, <1>2, <1>6, <1>8, OneMoves DEF IInv, TypeInv
<1>10. RowsInv'
  BY <1>6, RowsStay DEF IInv
<1>11. TypeInv'
  BY <1>4, <1>9 DEF IInv, TypeInv, AudienceInv, send, world
<1> QED
  BY <1>9, <1>10, <1>11 DEF IInv

\* A fan-out that will read the guardians of its children one by one.
LEMMA BeginsAtLinks ==
  ASSUME IInv, NEW cs \in SUBSET Children, NEW q,
         q.at = "links", q.kind \in {"reminder", "occasion"}, q.kept = LinksOf(cs)
  PROVE  Stage(q) /\ LinksOf(cs) \subseteq (Children \cup Recipients) \X Recipients
<1>1. LinksOf(cs) \subseteq links /\ LinksOf(cs) \subseteq (Children \cup Recipients) \X Recipients
  BY DEF IInv, TypeInv, LinksOf, Recipients
<1> QED
  BY <1>1 DEF Stage, SaysItsKey

LEMMA RunInv ==
  ASSUME IInv, NEW r \in Requests, runForTenant(r)
  PROVE  IInv'
<1> DEFINE q == [Idle EXCEPT !.at = "links", !.kind = "reminder", !.day = today,
                             !.children = overdue, !.kept = LinksOf(overdue)]
<1>1. Becomes(r, q)
  BY DEF runForTenant
<1>2. q.at = "links" /\ q.kind = "reminder" /\ q.kept = LinksOf(overdue)
  BY DEF Idle
<1>3. overdue \in SUBSET Children /\ today \in Int
  BY DEF IInv, TypeInv
<1>4. Stage(q) /\ LinksOf(overdue) \subseteq (Children \cup Recipients) \X Recipients
  <2> HIDE DEF q
  <2> QED  BY <1>2, <1>3, BeginsAtLinks
<1>5. q \in Request
  BY <1>3, <1>4, IdleStage DEF Request, MailKinds
<1> HIDE DEF q
<1> QED
  BY <1>1, <1>4, <1>5, OthersStay DEF runForTenant, IInv, TypeInv

LEMMA TellInv ==
  ASSUME IInv, NEW r \in Requests, NEW o \in Occasions, Tell(r, o)
  PROVE  IInv'
<1>1. ASSUME NEW cs \in SUBSET Children
      PROVE  TellGuardians(o, cs) \in Request /\ Stage(TellGuardians(o, cs))
  <2> DEFINE q == TellGuardians(o, cs)
  <2>1. q.at = "links" /\ q.kind = "occasion" /\ q.kept = LinksOf(cs)
    BY DEF TellGuardians, Idle
  <2>2. Stage(q) /\ LinksOf(cs) \subseteq (Children \cup Recipients) \X Recipients
    <3> HIDE DEF q
    <3> QED  BY <1>1, <2>1, BeginsAtLinks
  <2>3. q \in Request
    BY <1>1, <2>2, IdleStage DEF TellGuardians, Request, MailKinds
  <2> QED  BY <2>2, <2>3
<1>3. Happen(r, o) /\ \E q \in Request : Stage(q) /\ Becomes(r, q)
  <2>1. CASE \E c \in Children : notifyGuardians(r, o, c)
    BY <1>1, <2>1 DEF notifyGuardians
  <2>2. CASE \E cs \in (SUBSET Children) \ {{}} : notifyChargesCreated(r, o, cs)
    BY <1>1, <2>2 DEF notifyChargesCreated
  <2>3. ASSUME NEW c \in Children, NEW g \in Guardians \cup {NoOne}, notifyPayer(r, o, c, g)
        PROVE  Happen(r, o) /\ \E q \in Request : Stage(q) /\ Becomes(r, q)
    <3>1. CASE g = NoOne
      BY <1>1, <2>3, <3>1 DEF notifyPayer
    <3>2. CASE g # NoOne
      <4> DEFINE p == TellGuardians(o, {c})
                 q == [p EXCEPT !.at = "rows", !.children = {}, !.child = c,
                                !.left = {g}, !.kept = {}]
      <4>1. Happen(r, o) /\ Becomes(r, q)
        BY <2>3, <3>2 DEF notifyPayer
      <4>2. p \in Request /\ p.kind = "occasion"
        BY <1>1 DEF TellGuardians, Idle
      <4>3. q \in Request /\ q.at = "rows" /\ q.kind = "occasion" /\ q.kept = {}
        <5> HIDE DEF p
        <5> QED  BY <4>2, <3>2 DEF Request, Recipients
      <4>4. Stage(q)
        <5> HIDE DEF q
        <5> QED  BY <4>3 DEF Stage, SaysItsKey, Served
      <4> QED  BY <4>1, <4>3, <4>4
    <3> QED  BY <3>1, <3>2
  <2> QED  BY <2>1, <2>2, <2>3 DEF Tell
<1>4. happened' \subseteq Occasions
  BY <1>3 DEF Happen, IInv, TypeInv
<1> QED
  BY <1>3, <1>4, OthersStay DEF Happen, IInv, TypeInv

LEMMA ReadChildrenInv ==
  ASSUME IInv, NEW r \in Requests, ReadChildren(r)
  PROVE  IInv'
<1> DEFINE p == requests[r]
           q == [p EXCEPT !.at = "links", !.children = members]
<1>1. p \in Request /\ Stage(p) /\ p.at = "children"
  BY DEF IInv, TypeInv, ReadChildren
<1>2. p.kind = "announcement" /\ announcement.type = "group" /\ members \subseteq Children
  BY <1>1 DEF Stage, IInv, TypeInv, AudienceInv
<1>3. q \in Request /\ q.at = "links" /\ q.kind = "announcement" /\ q.children = members /\ q.kept = p.kept
  BY <1>1, <1>2 DEF Request
<1>4. p.kept \subseteq Audience
  BY <1>1, <1>2 DEF Stage
<1>5. Audience = {l \in links : l[1] \in members}
  BY <1>2 DEF Audience
<1>6. Stage(q)
  <2> HIDE DEF p, q
  <2> QED  BY <1>2, <1>3, <1>4, <1>5 DEF Stage, SaysItsKey
<1>7. Becomes(r, q) /\ UNCHANGED <<world, announcement, keys, happened, rows, edits, faults>>
  BY DEF ReadChildren
<1> HIDE DEF p, q
<1> QED
  BY <1>3, <1>6, <1>7, OthersStay DEF IInv, TypeInv

LEMMA ReadStaffInv ==
  ASSUME IInv, NEW r \in Requests, ReadStaff(r)
  PROVE  IInv'
<1> DEFINE p == requests[r]
           q == [p EXCEPT !.at = "rows", !.left = members]
<1>1. p \in Request /\ Stage(p) /\ p.at = "staff"
  BY DEF IInv, TypeInv, ReadStaff
<1>2. p.kind = "announcement" /\ announcement.type = "staff" /\ members \subseteq Recipients
  BY <1>1 DEF Stage, IInv, TypeInv, AudienceInv, Recipients
<1>3. q \in Request /\ q.at = "rows" /\ q.kind = "announcement" /\ q.left = members /\ q.kept = p.kept
  BY <1>1, <1>2 DEF Request
<1>4. p.kept \subseteq Audience
  BY <1>1, <1>2 DEF Stage
<1>5. Audience = {<<u, u>> : u \in members}
  BY <1>2 DEF Audience
<1>6. Stage(q)
  <2> HIDE DEF p, q
  <2> QED  BY <1>2, <1>3, <1>4, <1>5 DEF Stage, SaysItsKey, Served
<1>7. Becomes(r, q) /\ UNCHANGED <<world, announcement, keys, happened, rows, edits, faults>>
  BY DEF ReadStaff
<1> HIDE DEF p, q
<1> QED
  BY <1>3, <1>6, <1>7, OthersStay DEF IInv, TypeInv

LEMMA ReadAudienceInv ==
  ASSUME IInv, NEW r \in Requests, ReadAudience(r)
  PROVE  IInv'
<1> DEFINE p == requests[r]
           q == [p EXCEPT !.at = "rows", !.left = GuardiansOf(p.children)]
<1>1. p \in Request /\ Stage(p) /\ p.at = "links" /\ p.kind = "announcement"
  BY DEF IInv, TypeInv, ReadAudience
<1>2. announcement.type \in {"children", "group"} /\ \A l \in p.kept : l[1] \in p.children
  BY <1>1 DEF Stage
<1>3. GuardiansOf(p.children) \subseteq Recipients
  BY DEF GuardiansOf, LinksOf, IInv, TypeInv, Recipients
<1>4. q \in Request /\ q.at = "rows" /\ q.kind = "announcement" /\ q.left = GuardiansOf(p.children)
      /\ q.kept = p.kept
  <2> HIDE DEF p
  <2> QED  BY <1>1, <1>3 DEF Request
<1>5. p.kept \subseteq Audience
  BY <1>1 DEF Stage
<1>6. Audience \subseteq links
  BY <1>2 DEF Audience
<1>7. \A l \in p.kept : l[2] \in GuardiansOf(p.children)
  BY <1>2, <1>5, <1>6 DEF GuardiansOf, LinksOf
<1>8. Stage(q)
  <2> HIDE DEF p, q
  <2> QED  BY <1>4, <1>5, <1>7 DEF Stage, SaysItsKey, Served
<1>9. Becomes(r, q) /\ UNCHANGED <<world, announcement, keys, happened, rows, edits, faults>>
  BY DEF ReadAudience
<1> HIDE DEF p, q
<1> QED
  BY <1>4, <1>8, <1>9, OthersStay DEF IInv, TypeInv

LEMMA ReadGuardiansInv ==
  ASSUME IInv, NEW r \in Requests, NEW c \in Children, ReadGuardians(r, c)
  PROVE  IInv'
<1> DEFINE p == requests[r]
           q == [p EXCEPT !.at = "rows", !.child = c, !.children = @ \ {c},
                          !.left = GuardiansOf({c})]
<1>1. p \in Request /\ Stage(p) /\ p.at = "links" /\ p.kind # "announcement"
  BY DEF IInv, TypeInv, ReadGuardians
<1>2. p.kind \in {"reminder", "occasion"} /\ p.kept \subseteq links
  <2> HIDE DEF p
  <2> QED  BY <1>1 DEF Stage, Request, MailKinds
<1>3. GuardiansOf({c}) \subseteq Recipients
  BY DEF GuardiansOf, LinksOf, IInv, TypeInv, Recipients
<1>4. q \in Request /\ q.at = "rows" /\ q.kind = p.kind /\ q.left = GuardiansOf({c})
      /\ q.kept = p.kept /\ q.child = c
  <2> HIDE DEF p
  <2> QED  BY <1>1, <1>3 DEF Request
<1>5. \A l \in p.kept : l[1] = c => l[2] \in GuardiansOf({c})
  BY <1>2 DEF GuardiansOf, LinksOf
<1>6. Stage(q)
  <2> HIDE DEF p, q
  <2> QED  BY <1>2, <1>4, <1>5 DEF Stage, SaysItsKey, Served
<1>7. Becomes(r, q) /\ UNCHANGED <<world, announcement, keys, happened, rows, edits, faults>>
  BY DEF ReadGuardians
<1> HIDE DEF p, q
<1> QED
  BY <1>4, <1>6, <1>7, OthersStay DEF IInv, TypeInv

\* Crossing a recipient off is right once there is a row.
LEMMA CrossOff ==
  ASSUME NEW p \in Request, Stage(p), p.at = "rows", NEW g,
         p.kept = {} \/ HasRow(EventId(p), g)
  PROVE  [p EXCEPT !.left = @ \ {g}] \in Request /\ Stage([p EXCEPT !.left = @ \ {g}])
<1> DEFINE q == [p EXCEPT !.left = @ \ {g}]
<1>1. q \in Request /\ q.at = "rows" /\ q.kind = p.kind /\ q.of = p.of /\ q.text = p.text
      /\ q.child = p.child /\ q.day = p.day /\ q.kept = p.kept /\ q.left = p.left \ {g}
  BY DEF Request
<1>2. EventId(q) = EventId(p)
  <2> HIDE DEF q
  <2> QED  BY <1>1 DEF EventId
<1>3. Served(p)
  BY DEF Stage
<1>4. Served(q)
  <2> HIDE DEF q
  <2> QED  BY <1>1, <1>2, <1>3 DEF Served
<1> HIDE DEF q
<1>5. Stage(q)
  BY <1>1, <1>4 DEF Stage, SaysItsKey
<1> QED
  BY <1>1, <1>5 DEF q

LEMMA EnqueueInv ==
  ASSUME IInv, NEW r \in Requests, NEW g \in Recipients, enqueueDeduped(r, g)
  PROVE  IInv'
<1>1. PICK p \in Request : p = requests[r] /\ Stage(p) /\ p.at = "rows"
  BY DEF IInv, TypeInv, enqueueDeduped
<1> DEFINE q == [p EXCEPT !.left = @ \ {g}]
           fresh == Row(p, g)
<1>2. rows' = IF HasRow(EventId(p), g) THEN rows ELSE rows \cup {fresh}
  BY <1>1 DEF enqueueDeduped
<1>3. Becomes(r, q) /\ UNCHANGED <<world, announcement, keys, happened, edits, faults>>
  BY <1>1 DEF enqueueDeduped
<1>4. fresh.event = EventId(p) /\ fresh.to = g /\ fresh.kind = p.kind /\ fresh.of = p.of
      /\ fresh.text = p.text /\ fresh.child = p.child /\ fresh.day = p.day
  BY DEF Row
<1>5. RowOK(fresh)
  <2>1. fresh.kind \in MailKinds \ {"none"} /\ fresh.day \in Int /\ SaysItsKey(fresh)
    <3> HIDE DEF fresh
    <3> QED  BY <1>1, <1>4 DEF Request, MailKinds, Stage, SaysItsKey
  <2>2. EventId(fresh) = EventId(p)
    <3> HIDE DEF fresh
    <3> QED  BY <1>4 DEF EventId
  <2> HIDE DEF fresh
  <2> QED  BY <1>4, <2>1, <2>2 DEF RowOK
<1>6. KeysKept /\ AudienceKept /\ rows \subseteq rows'
  BY <1>2, <1>3 DEF KeysKept, AudienceKept, world
<1>7. HasRow(EventId(p), g)'
  <2> HIDE DEF fresh
  <2> QED  BY <1>2, <1>4 DEF HasRow, EventId
<1>8. RowsInv'
  <2>1. ASSUME NEW n \in rows' PROVE RowOK(n)'
    <3>1. RowOK(n)
      <4> HIDE DEF fresh
      <4> QED  BY <1>2, <1>5, <2>1 DEF IInv, RowsInv
    <3> QED  BY <1>3, <3>1 DEF RowOK, SaysItsKey
  <2>2. ASSUME NEW m \in rows', NEW n \in rows', m.event = n.event, m.to = n.to
        PROVE  m = n
    <3> HIDE DEF fresh
    <3> QED  BY <1>2, <1>4, <2>2 DEF IInv, RowsInv, HasRow
  <2> QED  BY <2>1, <2>2 DEF RowsInv
<1>9. q \in Request /\ Stage(q)'
  <2>1. Stage(p)'
    BY <1>1, <1>6, StageStays
  <2>2. q \in Request /\ q.at = "rows" /\ q.kind = p.kind /\ q.of = p.of /\ q.text = p.text
        /\ q.child = p.child /\ q.day = p.day /\ q.kept = p.kept /\ q.left = p.left \ {g}
    BY <1>1 DEF Request
  <2>3. EventId(q) = EventId(p)
    <3> HIDE DEF q
    <3> QED  BY <2>2 DEF EventId
  <2> HIDE DEF q
  <2>4. Served(q)'
    BY <1>1, <1>7, <2>1, <2>2, <2>3 DEF Stage, Served
  <2> QED  BY <1>1, <2>1, <2>2, <2>4 DEF Stage, SaysItsKey
<1> HIDE DEF q, fresh
<1>10. requests' \in [Requests -> Request] /\ \A x \in Requests : Stage(requests[x])'
  BY <1>3, <1>6, <1>9, OneMoves DEF IInv, TypeInv
<1>11. TypeInv'
  BY <1>3, <1>10 DEF IInv, TypeInv, AudienceInv, world
<1> QED
  BY <1>8, <1>10, <1>11 DEF IInv

LEMMA SkipInv ==
  ASSUME IInv, NEW r \in Requests, NEW g \in Recipients, Skip(r, g)
  PROVE  IInv'
<1> DEFINE p == requests[r]
<1>1. p \in Request /\ Stage(p) /\ p.at = "rows" /\ p.kind = "manual"
  BY DEF IInv, TypeInv, Skip
<1>2. p.kept = {}
  BY <1>1 DEF Stage
<1>3. [p EXCEPT !.left = @ \ {g}] \in Request /\ Stage([p EXCEPT !.left = @ \ {g}])
  <2> HIDE DEF p
  <2> QED  BY <1>1, <1>2, CrossOff
<1> QED
  BY <1>3, OthersStay DEF Skip, IInv, TypeInv

LEMMA AfterStage ==
  ASSUME NEW p \in Request, Stage(p)
  PROVE  After(p) \in Request /\ Stage(After(p))
<1> DEFINE q == [p EXCEPT !.at = "links", !.child = NoOne, !.left = {}]
<1>1. CASE p.kind \in {"reminder", "occasion"} /\ p.children # {}
  <2>1. q \in Request /\ q.at = "links" /\ q.kind = p.kind /\ q.kept = p.kept
    BY DEF Request
  <2>2. After(p) = q
    BY <1>1 DEF After
  <2> HIDE DEF q
  <2>3. Stage(q)
    BY <1>1, <2>1 DEF Stage, SaysItsKey
  <2> QED  BY <2>1, <2>2, <2>3
<1>2. CASE ~(p.kind \in {"reminder", "occasion"} /\ p.children # {})
  BY <1>2, IdleStage DEF After
<1> QED  BY <1>1, <1>2

LEMMA FinishInv ==
  ASSUME IInv, NEW r \in Requests, Finish(r)
  PROVE  IInv'
<1>1. requests[r] \in Request /\ Stage(requests[r])
  BY DEF IInv, TypeInv
<1>2. announcement' \in Announcement /\ announcement'.type = announcement.type
      /\ announcement'.ids = announcement.ids
  BY DEF Finish, IInv, TypeInv, Announcement
<1> QED
  BY <1>1, <1>2, AfterStage, OthersStay DEF Finish, IInv, TypeInv

LEMMA FaultInv ==
  ASSUME MailingConstants, IInv, NEW r \in Requests, Fail(r) \/ Stop(r)
  PROVE  IInv'
<1>1. requests[r] \in Request /\ Stage(requests[r])
  BY DEF IInv, TypeInv
<1>2. faults' \in 0..MaxFaults
  BY DEF Fail, Stop, IInv, TypeInv, MailingConstants
<1>3. \E q \in Request : Stage(q) /\ Becomes(r, q)
  BY <1>1, AfterStage, IdleStage DEF Fail, Stop
<1> QED
  BY <1>2, <1>3, OthersStay DEF Fail, Stop, IInv, TypeInv

\* A change of the world: the requests keep the reasons that still hold.
LEMMA EditInv ==
  ASSUME MailingConstants, IInv, Edit,
         links' \subseteq Children \X Guardians, members' \subseteq Children \cup Staff,
         overdue' \subseteq Children, today' \in Int, AudienceInv'
  PROVE  IInv'
<1>1. UNCHANGED <<announcement, keys, happened, rows, faults>>
  BY DEF Edit
<1>2. ASSUME NEW x \in Requests
      PROVE  requests'[x] \in Request /\ Stage(requests[x])'
  <2>1. PICK p \in Request : p = requests[x] /\ Stage(p)
    BY DEF IInv, TypeInv
  <2>2. PICK q \in Request : q = requests'[x] /\ q.at = p.at /\ q.kind = p.kind /\ q.of = p.of
        /\ q.text = p.text /\ q.day = p.day /\ q.children = p.children /\ q.child = p.child
        /\ q.left = p.left
        /\ q.kept = p.kept \cap (IF p.kind = "announcement" THEN Audience' ELSE links')
    <3> DEFINE kept == p.kept \cap (IF p.kind = "announcement" THEN Audience' ELSE links')
               q == [p EXCEPT !.kept = kept]
    <3>1. requests'[x] = q
      BY <2>1 DEF Edit, StillKept
    <3>2. q \in Request /\ q.at = p.at /\ q.kind = p.kind /\ q.of = p.of
          /\ q.text = p.text /\ q.day = p.day /\ q.children = p.children /\ q.child = p.child
          /\ q.left = p.left /\ q.kept = kept
      BY DEF Request
    <3> HIDE DEF q
    <3> QED  BY <3>1, <3>2
  <2>3. EventId(q) = EventId(p)
    BY <2>2 DEF EventId
  <2>4. SaysItsKey(q)' /\ (Served(p) => Served(q)')
    BY <1>1, <2>1, <2>2, <2>3 DEF Stage, SaysItsKey, Served, HasRow
  <2>5. Stage(q)'
    BY <1>1, <2>1, <2>2, <2>4 DEF Stage
  <2> QED  BY <2>2, <2>5
<1>3. requests' \in [Requests -> Request]
  BY <1>2 DEF Edit
<1>4. KeysKept
  BY <1>1 DEF KeysKept
<1>5. RowsInv'
  BY <1>1, <1>4, RowsStay DEF IInv
<1>6. TypeInv'
  BY <1>1, <1>3 DEF IInv, TypeInv, Edit, MailingConstants
<1> QED
  BY <1>2, <1>5, <1>6 DEF IInv

LEMMA WorldInv ==
  ASSUME MailingConstants, IInv,
         \/ \E c \in Children : Settle(c) \/ \E g \in Guardians : Relink(c, g)
         \/ \E x \in Children \cup Staff : Move(x)
         \/ \E n \in Jumps : Tomorrow(n)
  PROVE  IInv'
<1>1. /\ links \subseteq Children \X Guardians /\ members \subseteq Children \cup Staff
      /\ overdue \subseteq Children /\ today \in Int /\ AudienceInv
  BY DEF IInv, TypeInv
<1>2. Edit => announcement' = announcement
  BY DEF Edit
<1>3. Edit /\ members' = members => AudienceInv'
  BY <1>1, <1>2 DEF AudienceInv
<1>4. ASSUME NEW c \in Children, Settle(c) PROVE IInv'
  <2>1. Edit /\ UNCHANGED <<links, members, today>> /\ overdue' \subseteq Children
    BY <1>1, <1>4 DEF Settle
  <2> QED  BY <1>1, <1>3, <2>1, EditInv
<1>5. ASSUME NEW c \in Children, NEW g \in Guardians, Relink(c, g) PROVE IInv'
  <2>1. Edit /\ UNCHANGED <<overdue, members, today>> /\ links' \subseteq Children \X Guardians
    BY <1>1, <1>5 DEF Relink
  <2> QED  BY <1>1, <1>3, <2>1, EditInv
<1>6. ASSUME NEW n \in Jumps, Tomorrow(n) PROVE IInv'
  <2>1. Edit /\ UNCHANGED <<links, members, overdue>> /\ today' \in Int
    BY <1>1, <1>6 DEF Tomorrow, MailingConstants
  <2> QED  BY <1>1, <1>3, <2>1, EditInv
<1>7. ASSUME NEW x \in Children \cup Staff, Move(x) PROVE IInv'
  <2>1. /\ Edit /\ UNCHANGED <<links, overdue, today>>
        /\ members' = IF x \in members THEN members \ {x} ELSE members \cup {x}
    BY <1>7 DEF Move
  <2>2. \/ announcement.type = "staff" /\ x \in Staff
        \/ announcement.type = "group" /\ x \in Children
    <3>1. x \in CASE announcement.type = "staff" -> Staff
                  [] announcement.type = "group" -> Children
                  [] OTHER -> {}
      BY <1>7 DEF Move
    <3> QED  BY <3>1
  <2>3. members' \subseteq Children \cup Staff
    BY <1>1, <2>1
  <2>4. AudienceInv'
    BY <1>1, <1>2, <2>1, <2>2 DEF AudienceInv
  <2> QED  BY <1>1, <2>1, <2>3, <2>4, EditInv
<1> QED
  BY <1>4, <1>5, <1>6, <1>7

LEMMA Inductive ==
  ASSUME MailingConstants
  PROVE  Spec => []IInv
<1>1. Init => IInv
  BY InitInv
<1>2. IInv /\ [Next]_vars => IInv'
  <2> SUFFICES ASSUME IInv, [Next]_vars PROVE IInv'
    OBVIOUS
  <2>1. ASSUME NEW r \in Requests, publish(r) \/ runForTenant(r) PROVE IInv'
    BY <2>1, PublishInv, RunInv
  <2>2. ASSUME NEW r \in Requests, Serve(r) PROVE IInv'
    BY <2>2, ReadChildrenInv, ReadStaffInv, ReadAudienceInv, ReadGuardiansInv, EnqueueInv,
       SkipInv, FinishInv, FaultInv DEF Serve
  <2>3. CASE remove
    BY <2>3, RemoveInv
  <2>4. CASE \/ \E c \in Children : Settle(c) \/ \E g \in Guardians : Relink(c, g)
             \/ \E x \in Children \cup Staff : Move(x)
             \/ \E n \in Jumps : Tomorrow(n)
    BY <2>4, WorldInv
  <2>5. CASE UNCHANGED vars
    <3>1. AudienceInv' /\ KeysKept /\ AudienceKept /\ rows' = rows /\ requests' = requests
      BY <2>5 DEF vars, world, IInv, TypeInv, AudienceInv, KeysKept, AudienceKept
    <3>2. RowsInv'
      BY <3>1, RowsStay DEF IInv
    <3>3. ASSUME NEW x \in Requests PROVE Stage(requests[x])'
      <4>1. \A u : Stage(u) => Stage(u)'
        BY <3>1, StageStays
      <4> QED  BY <3>1, <4>1 DEF IInv
    <3>4. TypeInv'
      BY <2>5, <3>1 DEF vars, world, IInv, TypeInv
    <3> QED  BY <3>2, <3>3, <3>4 DEF IInv
  <2>6. ASSUME NEW r \in Requests,
               NEW k \in Keys, NEW to \in (SUBSET Recipients) \ {{}}, NEW text \in Texts,
               send(r, k, to, text)
        PROVE  IInv'
    BY <2>6, SendInv
  <2>7. ASSUME NEW r \in Requests, NEW o \in Occasions, Tell(r, o) PROVE IInv'
    BY <2>7, TellInv
  <2>8. CASE \E r \in Requests :
               \/ publish(r) \/ runForTenant(r) \/ Serve(r)
               \/ \E k \in Keys, to \in (SUBSET Recipients) \ {{}}, text \in Texts : send(r, k, to, text)
               \/ \E o \in Occasions : Tell(r, o)
    BY <2>1, <2>2, <2>6, <2>7, <2>8
  <2> QED
    BY <2>3, <2>4, <2>5, <2>8 DEF Next
<1> QED
  BY <1>1, <1>2, PTL DEF Spec

-----------------------------------------------------------------------------
\* The results.

\* Every variable keeps its type.
THEOREM TypeCorrect ==
  ASSUME MailingConstants
  PROVE  Spec => []TypeOK
<1>1. IInv => TypeOK
  <2> SUFFICES ASSUME IInv PROVE TypeOK
    OBVIOUS
  <2>1. ASSUME NEW r \in Requests
        PROVE  /\ requests[r].at \in {"idle", "children", "staff", "links", "rows"}
               /\ requests[r].children \subseteq Children /\ requests[r].left \subseteq Recipients
    <3>1. requests[r] \in Request
      BY DEF IInv, TypeInv
    <3> QED  BY <3>1 DEF Request
  <2>2. announcement.status \in {"draft", "published", "removed"}
    BY DEF IInv, TypeInv, Announcement
  <2>3. \A n \in rows : n.to \in Recipients
    BY DEF IInv, RowsInv, RowOK
  <2> QED
    BY <2>1, <2>2, <2>3 DEF IInv, TypeInv, TypeOK
<1> QED
  BY <1>1, Inductive, PTL

\* Nobody is told the same thing twice: the unique index is on what the service
\* makes a row's key of, and two rows about one thing have one key, the calendar
\* week of a reminder included; and the rows of an Idempotency-Key say one thing.
THEOREM NobodyIsToldTwice ==
  ASSUME MailingConstants
  PROVE  Spec => []OneMessageEach
<1>1. IInv /\ TypeOK => OneMessageEach
  <2> SUFFICES ASSUME IInv, TypeOK, NEW m \in rows, NEW n \in rows
               PROVE  /\ m.to = n.to /\ AboutTheSame(m, n) => m = n
                      /\ m.kind = "manual" /\ n.kind = "manual" /\ m.of = n.of => m.text = n.text
    BY DEF OneMessageEach
  <2>1. RowOK(m) /\ RowOK(n) /\ (m.event = n.event /\ m.to = n.to => m = n)
    BY DEF IInv, RowsInv
  <2>2. AboutTheSame(m, n) => m.event = n.event
    <3>1. CASE m.kind = "manual" /\ n.kind = "manual" /\ m.of = n.of
      BY <2>1, <3>1 DEF RowOK, EventId
    <3>2. CASE m.kind = "reminder" /\ n.kind = "reminder" /\ m.child = n.child
               /\ SameWeek(m.day, n.day)
      <4>1. isoWeekStamp(m.day) = isoWeekStamp(n.day)
        BY <2>1, <3>2, StampNamesWeek DEF RowOK
      <4> QED  BY <2>1, <3>2, <4>1 DEF RowOK, EventId
    <3> QED  BY <3>1, <3>2 DEF AboutTheSame
  <2>3. m.kind = "manual" /\ n.kind = "manual" /\ m.of = n.of => m.text = n.text
    BY <2>1 DEF RowOK, SaysItsKey
  <2> QED
    BY <2>1, <2>2, <2>3
<1> QED
  BY <1>1, Inductive, TypeCorrect, PTL

\* A fan-out that comes to its end has missed nobody who belonged all along,
\* whoever wrote the rows, and wherever earlier ones were cut off.
THEOREM NobodyIsMissed ==
  ASSUME MailingConstants
  PROVE  Spec => []NobodyMissed
<1>1. IInv => NobodyMissed
  <2> SUFFICES ASSUME IInv, NEW r \in Requests, requests[r].at = "rows", requests[r].left = {},
                      NEW p \in requests[r].kept,
                      requests[r].kind = "announcement" \/ p[1] = requests[r].child
               PROVE  Told(requests[r], p[2])
    BY DEF NobodyMissed
  <2>1. PICK q \in Request : q = requests[r] /\ Stage(q)
    BY DEF IInv, TypeInv
  <2>2. HasRow(EventId(q), p[2])
    BY <2>1 DEF Stage, Served
  <2>3. PICK n \in rows : n.event = EventId(q) /\ n.to = p[2]
    BY <2>2 DEF HasRow
  <2>4. RowOK(n)
    BY DEF IInv, RowsInv
  <2>5. ASSUME q.kind = "reminder" PROVE SameWeek(n.day, q.day)
    <3>1. EventId(q)[1] = "debt-reminder" /\ EventId(q)[3] = isoWeekStamp(q.day)
      BY <2>5 DEF EventId
    <3>2. /\ n.kind = "announcement" => EventId(n)[1] = "announcement"
          /\ n.kind = "manual" => EventId(n)[1] = "key"
          /\ n.kind = "occasion" => EventId(n)[1] = "occasion"
          /\ n.kind = "reminder" => EventId(n)[3] = isoWeekStamp(n.day)
      BY DEF EventId
    <3>3. EventId(n) = EventId(q)
      BY <2>3, <2>4 DEF RowOK
    <3>4. isoWeekStamp(n.day) = isoWeekStamp(q.day)
      BY <2>4, <3>1, <3>2, <3>3 DEF RowOK, MailKinds
    <3> QED  BY <2>4, <3>4, StampNamesWeek DEF RowOK, Request
  <2> QED
    BY <2>1, <2>3, <2>5 DEF Told
<1> QED
  BY <1>1, Inductive, PTL
-----------------------------------------------------------------------------
\* The day of one child.

\* A release names a guardian, or a permission and its person, or nobody.
ReleaseOK(to) ==
  /\ to \in A!Released
  /\ \/ to = A!NotReleased
     \/ to.guardian # A!Nobody /\ to.person = A!Nobody /\ to.permission = A!Null
     \/ /\ to.guardian = A!Nobody
        /\ to.permission \in DOMAIN permissions
        /\ to.person = permissions[to.permission].person

DayOK(d) ==
  /\ d \in A!Day
  /\ d.billable = (d.status \notin A!NON_BILLABLE)
  /\ d.status \in A!NON_BILLABLE => d.checkIn = A!Null
  /\ A!InOrder(d.checkIn, d.checkOut)
  /\ ReleaseOK(d.to)
  /\ d.checkOut # A!Null => d.to # A!NotReleased

PickupInv ==
  /\ person \in [Persons -> {"none", "standing", "revoked"}]
  /\ permissions \in Seq(A!Permission) /\ Len(permissions) <= MaxPermissions
  /\ linked \subseteq Fetchers
  /\ \A i \in DOMAIN permissions :
       permissions[i].person # A!Nobody => person[permissions[i].person] # "none"

WorkInv ==
  /\ work \in [Clerks -> {A!Idle, "check-in", "create", A!Nobody} \cup Persons]
  /\ \A s \in Clerks : work[s] \in Persons \ {A!Nobody} => person[work[s]] # "none"

\* What a release that holds the child's lock will write is a day that is right,
\* the day it read but for the departure or else a correction, and whoever it
\* names may fetch the child or lost the right meanwhile.
Decided ==
  /\ writing \in [row : A!Day, notes : 0..1] /\ DayOK(writing.row)
  /\ row # A!NoRow /\ corrections + writing.notes <= MaxCorrections
  /\ writing.row.checkOut # A!Null => A!MayFetch(writing.row.to)
  /\ \/ writing.notes = 1
     \/ /\ writing.row.status = row.status /\ writing.row.checkIn = row.checkIn
        /\ row.checkOut = A!Null

WritingInv ==
  /\ ended \subseteq Persons \cup Fetchers
  /\ \/ A!Unlocked /\ ended = {}
     \/ Decided

\* The strengthening: every permission and every permission in the making is
\* for a person that was created.
DayInv ==
  /\ row = A!NoRow \/ DayOK(row)
  /\ corrections \in 0..MaxCorrections
  /\ PickupInv /\ WorkInv /\ WritingInv
  /\ active \in BOOLEAN /\ isToday \in BOOLEAN

LEMMA LargestNumber ==
  ASSUME NEW n \in Nat, NEW T \in SUBSET (1..n), T # {}
  PROVE  A!Max(T) \in T
<1> DEFINE R == {ss \in Nat \X Nat : ss[1] < ss[2]}
           gaps == {m \in Nat : n - m \in T}
<1>1. IsWellFoundedOn(R, Nat)
  BY NatLessThanWellFounded DEF OpToRel
<1>2. ASSUME NEW x \in T PROVE n - x \in gaps
  <2>1. n - x \in Nat /\ n - (n - x) = x
    OBVIOUS
  <2> QED  BY <2>1
<1>3. gaps \subseteq Nat /\ gaps # {}
  BY <1>2
<1> HIDE DEF R
<1>4. PICK m \in gaps : \A k \in gaps : ~(<<k, m>> \in R)
  <2> HIDE DEF gaps
  <2> QED  BY <1>1, <1>3, WFMin
<1>5. ASSUME NEW y \in T PROVE n - m >= y
  <2>1. ~(n - y < m)
    BY <1>2, <1>3, <1>4 DEF R
  <2> QED  BY <2>1
<1>6. n - m \in T
  OBVIOUS
<1> QED
  BY <1>5, <1>6 DEF A!Max

\* Whom authorizedPickup names may fetch the child.
Authorized(to) ==
  /\ ReleaseOK(to) /\ to # A!NotReleased
  /\ to.guardian # A!Nobody => to.guardian \in linked
  /\ to.permission # A!Null =>
       /\ ~permissions[to.permission].revoked
       /\ to.person # A!Nobody => person[to.person] = "standing"

LEMMA LatestNamed ==
  ASSUME PickupInv, NEW p, NEW k, A!Latest(p, k) # A!Null
  PROVE  /\ A!Latest(p, k) \in DOMAIN permissions
         /\ ~permissions[A!Latest(p, k)].revoked
         /\ k # A!Null => A!Latest(p, k) = k
         /\ p # A!Nobody => permissions[A!Latest(p, k)].person = p
<1> DEFINE named == {i \in DOMAIN permissions :
                       /\ k # A!Null => i = k
                       /\ p # A!Nobody => permissions[i].person = p
                       /\ permissions[i].covers /\ ~permissions[i].revoked}
<1>1. Len(permissions) \in Nat /\ DOMAIN permissions = 1..Len(permissions)
  BY DEF PickupInv
<1>2. A!Latest(p, k) = IF named = {} THEN A!Null ELSE A!Max(named)
  BY DEF A!Latest
<1>3. named # {} /\ A!Latest(p, k) = A!Max(named)
  BY <1>2
<1>4. named \in SUBSET (1..Len(permissions))
  BY <1>1
<1>5. A!Max(named) \in named
  <2> HIDE DEF named
  <2> QED  BY <1>1, <1>3, <1>4, LargestNumber
<1> QED
  BY <1>3, <1>5

LEMMA AuthorizedIsRight ==
  ASSUME MaxPermissions \in Nat, PickupInv, NEW p, NEW k, NEW g \in Fetchers \cup {A!Nobody},
         NEW to \in A!authorizedPickup(p, k, g)
  PROVE  /\ Authorized(to)
         /\ k # A!Null /\ g = A!Nobody => to.permission = k
<1>1. CASE g # A!Nobody
  <2>1. to = [A!NotReleased EXCEPT !.guardian = g] /\ g \in linked
    BY <1>1 DEF A!authorizedPickup
  <2>2. to = [person |-> A!Nobody, permission |-> A!Null, guardian |-> g]
    BY <2>1 DEF A!NotReleased
  <2> QED
    BY <1>1, <2>1, <2>2 DEF Authorized, ReleaseOK, A!Released, A!NotReleased, A!Null
<1>2. CASE g = A!Nobody
  <2> DEFINE l == A!Latest(p, k)
  <2>1. A!Stands(l) /\ to = [person |-> permissions[l].person, permission |-> l, guardian |-> A!Nobody]
    BY <1>2 DEF A!authorizedPickup
  <2>2. l # A!Null /\ (permissions[l].person # A!Nobody => person[permissions[l].person] # "revoked")
    BY <2>1 DEF A!Stands
  <2>3. l \in DOMAIN permissions /\ ~permissions[l].revoked /\ (k # A!Null => l = k)
    BY <2>2, LatestNamed
  <2> HIDE DEF l
  <2>4. permissions[l] \in A!Permission /\ l \in 1..MaxPermissions
    BY <2>3 DEF PickupInv
  <2>5. permissions[l].person \in Persons \cup {A!Nobody}
    BY <2>4 DEF A!Permission
  <2>6. permissions[l].person # A!Nobody => person[permissions[l].person] = "standing"
    BY <2>2, <2>3, <2>5 DEF PickupInv
  <2>7. to \in A!Released
    BY <2>1, <2>4, <2>5 DEF A!Released
  <2> QED
    BY <2>1, <2>2, <2>3, <2>6, <2>7 DEF Authorized, ReleaseOK, A!NotReleased
<1> QED
  BY <1>1, <1>2

-----------------------------------------------------------------------------
\* The rows that the actions write.

LEMMA ArrivedOK ==
  ASSUME MaxAt \in Nat, MaxPermissions \in Nat, row = A!NoRow \/ DayOK(row), A!MayCheckIn, NEW at \in 1..MaxAt
  PROVE  /\ DayOK(A!Arrived(at))
         /\ row # A!NoRow => A!Arrived(at).to = row.to /\ A!Arrived(at).checkOut = row.checkOut
         /\ row = A!NoRow => A!Arrived(at).checkOut = A!Null
<1>1. CASE row = A!NoRow
  <2>1. A!Arrived(at) = [status |-> "present", billable |-> TRUE, checkIn |-> at,
                         checkOut |-> A!Null, to |-> A!NotReleased]
    BY <1>1 DEF A!Arrived
  <2>2. A!NotReleased \in A!Released
    BY DEF A!NotReleased, A!Released, A!Null
  <2>3. A!Arrived(at) \in A!Day
    BY <2>1, <2>2 DEF A!Day, A!Statuses, A!Null
  <2> QED
    <3>1. /\ A!Arrived(at).billable = TRUE /\ A!Arrived(at).status = "present"
          /\ A!Arrived(at).checkOut = A!Null /\ A!Arrived(at).to = A!NotReleased
      BY <2>1
    <3>2. ReleaseOK(A!Arrived(at).to)
      BY <2>2, <3>1 DEF ReleaseOK
    <3> QED
      BY <1>1, <2>3, <3>1, <3>2 DEF DayOK, A!InOrder, A!NON_BILLABLE
<1>2. CASE row # A!NoRow
  <2>1. DayOK(row) /\ row.checkIn = A!Null
    BY <1>2 DEF A!MayCheckIn
  <2>2. row.checkOut = A!Null /\ row \in A!Day
    BY <2>1 DEF DayOK, A!InOrder
  <2>3. A!Arrived(at) = [row EXCEPT !.status = "present", !.billable = TRUE, !.checkIn = at]
    BY <1>2 DEF A!Arrived
  <2>4. "present" \in A!Statuses /\ at \in 0..MaxAt
    BY DEF A!Statuses
  <2>5. /\ A!Arrived(at) \in A!Day
        /\ A!Arrived(at).status = "present" /\ A!Arrived(at).billable = TRUE
        /\ A!Arrived(at).checkOut = row.checkOut /\ A!Arrived(at).to = row.to
    BY <2>2, <2>3, <2>4 DEF A!Day
  <2> QED
    BY <1>2, <2>1, <2>2, <2>5 DEF DayOK, A!InOrder, A!NON_BILLABLE
<1> QED
  BY <1>1, <1>2

LEMMA AbsenceOK ==
  ASSUME MaxAt \in Nat, MaxPermissions \in Nat
  PROVE  DayOK(A!Absence) /\ A!Absence.checkOut = A!Null
<1>1. A!NotReleased \in A!Released
  BY DEF A!NotReleased, A!Released, A!Null
<1>2. A!Absence \in A!Day
  BY <1>1 DEF A!Absence, A!Day, A!Statuses, A!NON_BILLABLE, A!Null
<1> QED
  BY <1>1, <1>2 DEF A!Absence, DayOK, ReleaseOK, A!InOrder, A!NON_BILLABLE

LEMMA DepartedOK ==
  ASSUME MaxAt \in Nat, DayOK(row), NEW at \in row.checkIn..MaxAt, row.checkIn # A!Null,
         NEW to, Authorized(to)
  PROVE  DayOK([row EXCEPT !.checkOut = at, !.to = to])
<1>1. row \in A!Day /\ row.checkIn \in 0..MaxAt /\ to \in A!Released
  BY DEF DayOK, A!Day, Authorized, ReleaseOK
<1>2. at \in 0..MaxAt /\ row.checkIn <= at
  BY <1>1
<1>3. [row EXCEPT !.checkOut = at, !.to = to] \in A!Day
  BY <1>1, <1>2 DEF A!Day
<1> QED
  BY <1>1, <1>2, <1>3 DEF DayOK, A!Day, A!InOrder, Authorized

LEMMA StatusOK ==
  ASSUME DayOK(row), NEW st \in A!Statuses, st \in A!NON_BILLABLE => row.checkIn = A!Null
  PROVE  DayOK([row EXCEPT !.status = st, !.billable = st \notin A!NON_BILLABLE])
<1>1. [row EXCEPT !.status = st, !.billable = st \notin A!NON_BILLABLE] \in A!Day
  BY DEF DayOK, A!Day
<1> QED
  BY <1>1 DEF DayOK, A!Day

\* A corrected instant: the status follows the arrival.
LEMMA InstantOK ==
  ASSUME NEW d \in A!Day, A!InOrder(d.checkIn, d.checkOut), ReleaseOK(d.to),
         d.billable = (d.status \notin A!NON_BILLABLE),
         d.checkOut # A!Null => d.to # A!NotReleased
  PROVE  /\ DayOK(A!Attended(d))
         /\ A!Attended(d).to = d.to /\ A!Attended(d).checkOut = d.checkOut
         /\ A!Attended(d).checkIn = d.checkIn
<1>1. CASE d.checkIn # A!Null /\ d.status \in A!NON_BILLABLE
  <2>1. A!Attended(d) = [d EXCEPT !.status = "present", !.billable = TRUE]
    BY <1>1 DEF A!Attended
  <2>2. /\ A!Attended(d).status = "present" /\ A!Attended(d).billable = TRUE
        /\ A!Attended(d).to = d.to /\ A!Attended(d).checkOut = d.checkOut
        /\ A!Attended(d).checkIn = d.checkIn
    BY <2>1 DEF A!Day
  <2>3. "present" \in A!Statuses
    BY DEF A!Statuses
  <2>4. A!Attended(d) \in A!Day
    BY <2>1, <2>3 DEF A!Day
  <2> QED
    BY <2>2, <2>4 DEF DayOK, A!NON_BILLABLE
<1>2. CASE ~(d.checkIn # A!Null /\ d.status \in A!NON_BILLABLE)
  <2>1. A!Attended(d) = d
    BY <1>2 DEF A!Attended
  <2> QED
    BY <1>2, <2>1 DEF DayOK
<1> QED
  BY <1>1, <1>2

LEMMA DayNotNoRow ==
  ASSUME NEW d, DayOK(d)
  PROVE  d # A!NoRow
BY DEF DayOK, A!Day, A!Statuses, A!NON_BILLABLE, A!NoRow

PermissionsKept ==
  /\ DOMAIN permissions \subseteq DOMAIN permissions'
  /\ \A i \in DOMAIN permissions : permissions'[i].person = permissions[i].person

LEMMA DayStays ==
  ASSUME PermissionsKept
  PROVE  \A d : DayOK(d) => DayOK(d)'
BY DEF PermissionsKept, DayOK, ReleaseOK

-----------------------------------------------------------------------------
\* What every step keeps, and what it writes.

ReleaseHolds == A!ReleaseWritten => A!MayFetch(row'.to)

ArrivalHolds ==
  (\E s \in Clerks : work[s] = "check-in" /\ work'[s] = A!Idle /\ row' # row) => active

Noted ==
  row # A!NoRow =>
    \/ corrections' = corrections + 1
    \/ /\ row'.status = row.status
       /\ row.checkIn # A!Null => row'.checkIn = row.checkIn
       /\ row.checkOut # A!Null => row'.checkOut = row.checkOut

Right == DayInv' /\ ReleaseHolds /\ ArrivalHolds /\ Noted

\* A step that leaves the row alone.
LEMMA RowStays ==
  ASSUME DayInv, row' = row, PermissionsKept, PickupInv', WorkInv', WritingInv',
         corrections' = corrections, active' \in BOOLEAN, isToday' \in BOOLEAN
  PROVE  Right
<1>1. row' = A!NoRow \/ DayOK(row)'
  BY DayStays DEF DayInv, DayOK, ReleaseOK
<1> QED
  BY <1>1 DEF Right, DayInv, ReleaseHolds, A!ReleaseWritten, ArrivalHolds, Noted

\* A step that leaves the pickup alone.
LEMMA PickupStays ==
  ASSUME PickupInv, UNCHANGED A!pickup
  PROVE  PermissionsKept /\ PickupInv' /\ (\A d : DayOK(d) => DayOK(d)')
         /\ (WorkInv /\ work' = work => WorkInv')
<1>1. PermissionsKept /\ PickupInv'
  BY DEF A!pickup, PermissionsKept, PickupInv
<1> QED
  BY <1>1, DayStays DEF A!pickup, WorkInv

\* Nobody writes the day while a release holds the lock.
LEMMA StaysUnlocked ==
  ASSUME A!Unlocked, WritingInv, UNCHANGED A!lock
  PROVE  WritingInv'
<1>1. writing' = writing /\ ended' = ended /\ ended = {}
  BY DayNotNoRow DEF A!lock, WritingInv, Decided, A!Unlocked, A!NotWriting
<1> QED
  BY <1>1 DEF WritingInv, A!Unlocked

\* What a release has decided stays right when rights are given, and when they end.
LEMMA DecidedStays ==
  ASSUME DayInv, UNCHANGED <<row, corrections, writing>>, PermissionsKept,
         ended' \subseteq Persons \cup Fetchers, ended \subseteq ended',
         A!Unlocked => ended' = ended,
         ~A!Unlocked => \A g \in linked : g \in linked' \cup ended',
         ~A!Unlocked => \A i \in DOMAIN permissions :
           /\ ~permissions[i].revoked /\ permissions[i].person \notin ended'
           /\ permissions[i].person # A!Nobody => person[permissions[i].person] = "standing"
           => /\ ~permissions'[i].revoked
              /\ permissions[i].person # A!Nobody => person'[permissions[i].person] = "standing"
  PROVE  WritingInv'
<1>1. CASE A!Unlocked
  <2>1. ended = {} /\ ended' = {}
    BY <1>1, DayNotNoRow DEF DayInv, WritingInv, Decided, A!Unlocked, A!NotWriting
  <2> QED
    BY <1>1, <2>1 DEF WritingInv, A!Unlocked
<1>2. CASE ~A!Unlocked
  <2>1. Decided
    BY <1>2 DEF DayInv, WritingInv
  <2> DEFINE to == writing.row.to
  <2>2. DayOK(writing.row)' /\ writing.row \in A!Day /\ ReleaseOK(to)
    BY <2>1, DayStays DEF Decided, DayOK, ReleaseOK
  <2>3. ASSUME A!MayFetch(to) PROVE A!MayFetch(to)'
    <3>1. to.guardian # A!Nobody => to.guardian \in linked' \cup ended'
      BY <1>2, <2>3 DEF A!MayFetch
    <3>2. ASSUME to.permission # A!Null, to.person \notin ended'
          PROVE  /\ ~permissions'[to.permission].revoked
                 /\ to.person # A!Nobody => person'[to.person] = "standing"
      <4>1. to.permission \in DOMAIN permissions /\ to.person = permissions[to.permission].person
        BY <2>2, <3>2 DEF ReleaseOK, A!NotReleased
      <4>2. /\ ~permissions[to.permission].revoked
            /\ to.person # A!Nobody => person[to.person] = "standing"
        BY <2>3, <3>2 DEF A!MayFetch
      <4> QED
        BY <1>2, <3>2, <4>1, <4>2
    <3> QED
      BY <3>1, <3>2 DEF A!MayFetch
  <2> QED
    BY <2>1, <2>2, <2>3 DEF WritingInv, Decided
<1> QED
  BY <1>1, <1>2

LEMMA LockStays ==
  ASSUME DayInv, UNCHANGED <<row, corrections>>, UNCHANGED A!lock, UNCHANGED A!pickup
  PROVE  WritingInv'
<1>1. PermissionsKept
  BY PickupStays DEF DayInv
<1> QED
  BY <1>1, DecidedStays DEF A!lock, A!pickup, DayInv, WritingInv

\* A request that goes on to another place.
LEMMA WorkGoes ==
  ASSUME A!AttendanceConstants, WorkInv, person' = person, NEW s \in Clerks,
         NEW to \in {A!Idle, "check-in", "create", A!Nobody}, A!Go(s, to)
  PROVE  WorkInv'
BY DEF A!Go, WorkInv, A!AttendanceConstants, A!Idle

-----------------------------------------------------------------------------
\* The actions.

LEMMA NoteCounts ==
  ASSUME A!AttendanceConstants, corrections \in 0..MaxCorrections, NEW needed \in BOOLEAN, A!Note(needed)
  PROVE  /\ corrections' \in 0..MaxCorrections
         /\ needed => corrections' = corrections + 1
BY DEF A!Note, A!AttendanceConstants

LEMMA CheckInStep ==
  ASSUME A!AttendanceConstants, DayInv, NEW s \in Clerks, A!CheckIn(s)
  PROVE  Right
<1>1. PICK at \in 1..MaxAt : row' = A!Arrived(at)
  BY DEF A!CheckIn
<1>2. A!MayCheckIn /\ active /\ active' = active /\ isToday' = isToday /\ UNCHANGED A!pickup
  BY DEF A!CheckIn, A!MayCheckIn
<1>3. /\ DayOK(row')
      /\ row # A!NoRow => row'.to = row.to /\ row'.checkOut = row.checkOut
      /\ row = A!NoRow => row'.checkOut = A!Null
  BY <1>1, <1>2, ArrivedOK DEF DayInv, A!AttendanceConstants
<1>4. PermissionsKept /\ PickupInv' /\ (\A d : DayOK(d) => DayOK(d)')
  BY <1>2, PickupStays DEF DayInv
<1>5. WorkInv'
  BY <1>2, WorkGoes DEF A!CheckIn, A!pickup, DayInv
<1>6. corrections' \in 0..MaxCorrections /\ (row # A!NoRow => corrections' = corrections + 1)
  BY NoteCounts DEF A!CheckIn, DayInv
<1>7. DayOK(row)'
  BY <1>3, <1>4 DEF DayOK, ReleaseOK
<1>u. WritingInv'
  BY StaysUnlocked DEF A!CheckIn, DayInv
<1>8. DayInv'
  BY <1>2, <1>4, <1>5, <1>6, <1>7, <1>u DEF DayInv
<1>9. ReleaseHolds
  BY <1>3 DEF ReleaseHolds, A!ReleaseWritten
<1> QED
  BY <1>2, <1>6, <1>8, <1>9 DEF Right, ArrivalHolds, Noted

LEMMA AbsenceStep ==
  ASSUME A!AttendanceConstants, DayInv, NEW s \in Clerks, A!CreateAbsence(s)
  PROVE  Right
<1>1. /\ row' = A!Absence /\ row = A!NoRow /\ work[s] = "create"
      /\ active' = active /\ isToday' = isToday /\ UNCHANGED A!pickup
  BY DEF A!CreateAbsence
<1>2. DayOK(row') /\ row'.checkOut = A!Null
  BY <1>1, AbsenceOK DEF A!AttendanceConstants
<1>3. PermissionsKept /\ PickupInv' /\ (\A d : DayOK(d) => DayOK(d)')
  BY <1>1, PickupStays DEF DayInv
<1>4. WorkInv'
  BY <1>1, WorkGoes DEF A!CreateAbsence, A!pickup, DayInv
<1>5. corrections' \in 0..MaxCorrections
  <2>1. A!Note(TRUE) \/ A!Note(FALSE)
    BY DEF A!CreateAbsence, DayInv, A!Note
  <2> QED  BY <2>1, NoteCounts DEF DayInv
<1>6. DayOK(row)'
  BY <1>2, <1>3 DEF DayOK, ReleaseOK
<1>u. WritingInv'
  BY StaysUnlocked DEF A!CreateAbsence, DayInv
<1>7. DayInv'
  BY <1>1, <1>3, <1>4, <1>5, <1>6, <1>u DEF DayInv
<1>8. ReleaseHolds
  BY <1>2 DEF ReleaseHolds, A!ReleaseWritten
<1>9. ASSUME NEW u \in Clerks, work[u] = "check-in", work'[u] = A!Idle PROVE FALSE
  <2>1. u # s
    BY <1>1, <1>9
  <2>2. work' = [work EXCEPT ![s] = A!Idle] /\ work \in [Clerks -> {A!Idle, "check-in", "create", A!Nobody} \cup Persons]
    BY DEF A!CreateAbsence, A!Go, DayInv, WorkInv
  <2>3. work'[u] = work[u]
    BY <2>1, <2>2
  <2> QED  BY <1>9, <2>3 DEF A!Idle
<1> QED
  BY <1>1, <1>7, <1>8, <1>9 DEF Right, ArrivalHolds, Noted

\* A release decides on a day that is right, and whom it names may fetch the child.
LEMMA DecideStep ==
  ASSUME A!AttendanceConstants, DayInv, NEW d, DayOK(d), NEW n \in 0..1, A!Decide(d, n),
         row # A!NoRow, d.checkOut # A!Null => Authorized(d.to),
         n = 1 \/ (d.status = row.status /\ d.checkIn = row.checkIn /\ row.checkOut = A!Null)
  PROVE  Right
<1>1. /\ writing' = [row |-> d, notes |-> n] /\ corrections + n <= MaxCorrections
      /\ UNCHANGED <<row, corrections, active, isToday, work, ended>> /\ UNCHANGED A!pickup
  BY DEF A!Decide
<1>2. PermissionsKept /\ PickupInv' /\ (\A x : DayOK(x) => DayOK(x)') /\ WorkInv'
  BY <1>1, PickupStays DEF DayInv
<1>3. writing'.row = d /\ writing'.notes = n /\ writing' \in [row : A!Day, notes : 0..1]
  BY <1>1 DEF DayOK
<1>4. d.checkOut # A!Null => A!MayFetch(d.to)
  BY DEF Authorized, A!MayFetch
<1>5. d.checkOut # A!Null => A!MayFetch(d.to)'
  BY <1>1, <1>4 DEF A!MayFetch, A!pickup
<1>6. DayOK(d)'
  BY <1>2
<1>7. DayOK(writing.row)'
  BY <1>3, <1>6 DEF DayOK, ReleaseOK
<1>8. (writing'.row.checkOut # A!Null => A!MayFetch(writing.row.to)')
  BY <1>3, <1>5 DEF A!MayFetch
<1>9. Decided'
  BY <1>1, <1>3, <1>7, <1>8 DEF Decided
<1>10. WritingInv'
  BY <1>1, <1>9 DEF WritingInv, DayInv
<1> QED
  BY <1>1, <1>2, <1>10, RowStays DEF DayInv

LEMMA CheckOutStep ==
  ASSUME A!AttendanceConstants, DayInv, A!checkOut
  PROVE  Right
<1>1. PICK at \in row.checkIn..MaxAt, p \in Persons \cup {A!Nobody}, k \in 0..Len(permissions),
           g \in Fetchers \cup {A!Nobody} :
        \E to \in A!authorizedPickup(p, k, g) : A!Decide([row EXCEPT !.checkOut = at, !.to = to], 0)
  BY DEF A!checkOut
<1>2. PICK to \in A!authorizedPickup(p, k, g) : A!Decide([row EXCEPT !.checkOut = at, !.to = to], 0)
  BY <1>1
<1>3. Authorized(to)
  BY AuthorizedIsRight DEF DayInv, A!AttendanceConstants
<1>4. row # A!NoRow /\ DayOK(row) /\ row.checkIn # A!Null /\ row.checkOut = A!Null
  BY DEF A!checkOut, DayInv
<1> DEFINE d == [row EXCEPT !.checkOut = at, !.to = to]
<1>5. DayOK(d)
  BY <1>3, <1>4, DepartedOK DEF A!AttendanceConstants
<1>6. d.to = to /\ d.status = row.status /\ d.checkIn = row.checkIn
  BY <1>4 DEF DayOK, A!Day
<1>7. A!Decide(d, 0)
  BY <1>2
<1> HIDE DEF d
<1> QED
  BY <1>3, <1>4, <1>5, <1>6, <1>7, DecideStep

LEMMA ReleaseStep ==
  ASSUME A!AttendanceConstants, DayInv, A!WriteRelease \/ A!Rollback
  PROVE  Right
<1>1. /\ writing' = A!NotWriting /\ ended' = {} /\ ~A!Unlocked
      /\ UNCHANGED <<active, isToday, work>> /\ UNCHANGED A!pickup
  BY DEF A!WriteRelease, A!Rollback, A!Release
<1>2. PermissionsKept /\ PickupInv' /\ (\A x : DayOK(x) => DayOK(x)') /\ WorkInv'
  BY <1>1, PickupStays DEF DayInv
<1>3. WritingInv'
  BY <1>1 DEF WritingInv, A!Unlocked
<1>4. Decided
  BY <1>1 DEF DayInv, WritingInv
<1>5. CASE A!WriteRelease
  <2>1. row' = writing.row /\ corrections' = corrections + writing.notes
    BY <1>5 DEF A!WriteRelease
  <2>2. DayOK(row')
    BY <2>1, <1>4 DEF Decided
  <2>3. DayOK(row)'
    BY <2>2, <1>2 DEF DayOK, ReleaseOK
  <2>4. corrections' \in 0..MaxCorrections
    BY <2>1, <1>4 DEF Decided, DayInv, A!AttendanceConstants
  <2>5. DayInv'
    BY <1>1, <1>2, <1>3, <2>3, <2>4 DEF DayInv
  <2>6. ReleaseHolds
    BY <2>1, <1>4 DEF ReleaseHolds, A!ReleaseWritten, Decided
  <2>7. Noted
    BY <2>1, <1>4 DEF Noted, Decided
  <2> QED
    BY <1>1, <2>5, <2>6, <2>7 DEF Right, ArrivalHolds, A!Idle
<1>6. CASE A!Rollback
  BY <1>1, <1>2, <1>3, <1>6, RowStays DEF A!Rollback, DayInv
<1> QED
  BY <1>5, <1>6

\* A correction of the status or the arrival writes a day that is right and
\* releases nobody.
LEMMA CorrectedStep ==
  ASSUME A!AttendanceConstants, DayInv, NEW d, DayOK(d), A!Corrected(d),
         d.to = row.to, d.checkOut = row.checkOut
  PROVE  Right
<1>1. /\ row' = d /\ row # A!NoRow /\ corrections' = corrections + 1 /\ corrections < MaxCorrections
      /\ UNCHANGED <<active, isToday, work>> /\ UNCHANGED A!pickup
  BY DEF A!Corrected
<1>2. PermissionsKept /\ PickupInv' /\ (\A x : DayOK(x) => DayOK(x)') /\ WorkInv'
  BY <1>1, PickupStays DEF DayInv
<1>3. DayOK(row)'
  BY <1>1, <1>2 DEF DayOK, ReleaseOK
<1>4. corrections' \in 0..MaxCorrections
  BY <1>1 DEF DayInv, A!AttendanceConstants
<1>u. WritingInv'
  BY StaysUnlocked DEF A!Corrected, DayInv
<1>5. DayInv'
  BY <1>1, <1>2, <1>3, <1>4, <1>u DEF DayInv
<1>6. ReleaseHolds
  BY <1>1 DEF ReleaseHolds, A!ReleaseWritten
<1> QED
  BY <1>1, <1>5, <1>6 DEF Right, ArrivalHolds, Noted, A!Idle

LEMMA CorrectStep ==
  ASSUME A!AttendanceConstants, DayInv, A!correct
  PROVE  Right
<1>1. DayOK(row) /\ row \in A!Day /\ row # A!NoRow
  BY DEF A!correct, A!correctStatus, A!correctCheckIn, A!correctCheckOut, A!correctPickup,
         A!Corrected, DayInv, DayOK
<1>2. CASE A!correctStatus
  <2>1. PICK st \in A!Statuses :
          /\ st \in A!NON_BILLABLE => row.checkIn = A!Null
          /\ A!Corrected([row EXCEPT !.status = st, !.billable = st \notin A!NON_BILLABLE])
    BY <1>2 DEF A!correctStatus
  <2> DEFINE d == [row EXCEPT !.status = st, !.billable = st \notin A!NON_BILLABLE]
  <2>2. DayOK(d) /\ d.to = row.to /\ d.checkOut = row.checkOut
    BY <1>1, <2>1, StatusOK DEF A!Day
  <2>3. A!Corrected(d)
    BY <2>1
  <2> HIDE DEF d
  <2> QED  BY <2>2, <2>3, CorrectedStep
<1>3. CASE A!correctCheckIn
  <2>1. PICK at \in 0..MaxAt :
          /\ A!InOrder(at, row.checkOut)
          /\ A!Corrected(A!Attended([row EXCEPT !.checkIn = at]))
    BY <1>3 DEF A!correctCheckIn
  <2> DEFINE d == [row EXCEPT !.checkIn = at]
  <2>2. d \in A!Day /\ d.checkIn = at /\ d.checkOut = row.checkOut /\ d.to = row.to
        /\ d.billable = row.billable /\ d.status = row.status
    BY <1>1 DEF A!Day
  <2>3. A!Corrected(A!Attended(d))
    BY <2>1
  <2> HIDE DEF d
  <2>4. DayOK(A!Attended(d)) /\ A!Attended(d).to = row.to /\ A!Attended(d).checkOut = row.checkOut
    BY <1>1, <2>1, <2>2, InstantOK DEF DayOK
  <2> QED  BY <2>3, <2>4, CorrectedStep
<1>4. CASE A!correctCheckOut
  <2>1. PICK at \in 0..MaxAt :
          /\ A!InOrder(row.checkIn, at)
          /\ at # A!Null => A!authorizedPickup(row.to.person, row.to.permission, row.to.guardian) # {}
          /\ A!Decide(A!Attended([row EXCEPT !.checkOut = at]), 1)
    BY <1>4 DEF A!correctCheckOut
  <2>2. at # A!Null => Authorized(row.to)
    <3> SUFFICES ASSUME at # A!Null PROVE Authorized(row.to)
      OBVIOUS
    <3>1. PICK to \in A!authorizedPickup(row.to.person, row.to.permission, row.to.guardian) : TRUE
      BY <2>1
    <3>2. ReleaseOK(row.to) /\ row.to \in A!Released
      BY <1>1 DEF DayOK, ReleaseOK
    <3>3. row.to.guardian \in Fetchers \cup {A!Nobody}
      BY <3>2 DEF A!Released
    <3>4. Authorized(to) /\ (row.to.permission # A!Null /\ row.to.guardian = A!Nobody => to.permission = row.to.permission)
      BY <3>3, AuthorizedIsRight DEF DayInv, A!AttendanceConstants
    <3>5. CASE row.to.guardian # A!Nobody
      <4>1. row.to.guardian \in linked
        BY <3>1, <3>5 DEF A!authorizedPickup
      <4>2. row.to.permission = A!Null /\ row.to # A!NotReleased
        BY <3>2, <3>5 DEF ReleaseOK, A!NotReleased, A!Null
      <4> QED  BY <3>2, <4>1, <4>2 DEF Authorized
    <3>6. CASE row.to.guardian = A!Nobody
      <4>1. row.to # A!NotReleased
        BY <3>1, <3>6 DEF A!authorizedPickup, A!NotReleased
      <4>2. /\ row.to.permission \in DOMAIN permissions
            /\ row.to.person = permissions[row.to.permission].person
        BY <3>2, <3>6, <4>1 DEF ReleaseOK
      <4>3. row.to.permission # A!Null
        BY <4>2 DEF A!Null, DayInv, PickupInv
      <4>4. to.permission = row.to.permission /\ to.guardian = A!Nobody /\ to.person = row.to.person
        <5>1. to.permission = row.to.permission /\ ReleaseOK(to)
          BY <3>4, <3>6, <4>3 DEF Authorized
        <5> QED  BY <4>2, <4>3, <5>1 DEF ReleaseOK, A!NotReleased
      <4> QED  BY <3>2, <3>4, <3>6, <4>1, <4>4 DEF Authorized
    <3> QED  BY <3>5, <3>6
  <2> DEFINE d == [row EXCEPT !.checkOut = at]
  <2>3. d \in A!Day /\ d.checkIn = row.checkIn /\ d.checkOut = at /\ d.to = row.to
        /\ d.billable = row.billable /\ d.status = row.status
    BY <1>1 DEF A!Day
  <2>4. A!Decide(A!Attended(d), 1)
    BY <2>1
  <2> HIDE DEF d
  <2>5. DayOK(A!Attended(d)) /\ A!Attended(d).to = row.to /\ A!Attended(d).checkOut = at
    BY <1>1, <2>1, <2>2, <2>3, InstantOK DEF DayOK, Authorized
  <2> QED  BY <1>1, <2>2, <2>4, <2>5, DecideStep
<1>5. CASE A!correctPickup
  <2>1. PICK p \in Persons : \E to \in A!authorizedPickup(p, A!Null, A!Nobody) :
          A!Decide([row EXCEPT !.to = to], 1)
    BY <1>5 DEF A!correctPickup
  <2>2. PICK to \in A!authorizedPickup(p, A!Null, A!Nobody) : A!Decide([row EXCEPT !.to = to], 1)
    BY <2>1
  <2>3. Authorized(to)
    BY AuthorizedIsRight DEF DayInv, A!AttendanceConstants
  <2> DEFINE d == [row EXCEPT !.to = to]
  <2>4. d \in A!Day /\ d.checkIn = row.checkIn /\ d.checkOut = row.checkOut /\ d.to = to
        /\ d.billable = row.billable /\ d.status = row.status
    BY <1>1, <2>3 DEF A!Day, Authorized, ReleaseOK
  <2> HIDE DEF d
  <2>5. DayOK(d)
    BY <1>1, <2>3, <2>4 DEF DayOK, Authorized
  <2>6. A!Decide(d, 1)
    BY <2>2 DEF d
  <2> QED  BY <1>1, <2>3, <2>4, <2>5, <2>6, DecideStep
<1> QED
  BY <1>2, <1>3, <1>4, <1>5 DEF A!correct

\* Requests that only go on, and the child and the day.
LEMMA QuietStep ==
  ASSUME A!AttendanceConstants, DayInv,
         \/ \E s \in Clerks : A!BeginCheckIn(s) \/ A!BeginSetStatus(s) \/ A!Refuse(s)
         \/ A!setChildStatus \/ A!EndOfDay
  PROVE  Right
<1>1. /\ UNCHANGED <<row, corrections>> /\ UNCHANGED A!pickup
      /\ active' \in BOOLEAN /\ isToday' \in BOOLEAN
  BY DEF A!BeginCheckIn, A!BeginSetStatus, A!Refuse, A!setChildStatus, A!EndOfDay, DayInv
<1>2. /\ PermissionsKept /\ PickupInv'
      /\ work' = work => WorkInv'
  BY <1>1, PickupStays DEF DayInv
<1>3. \/ work' = work
      \/ \E s \in Clerks, to \in {A!Idle, "check-in", "create", A!Nobody} : A!Go(s, to)
  BY DEF A!BeginCheckIn, A!BeginSetStatus, A!Refuse, A!setChildStatus, A!EndOfDay
<1>4. WorkInv'
  BY <1>1, <1>2, <1>3, WorkGoes DEF A!pickup, DayInv
<1>5. UNCHANGED A!lock
  BY DEF A!BeginCheckIn, A!BeginSetStatus, A!Refuse, A!setChildStatus, A!EndOfDay
<1>6. WritingInv'
  BY <1>1, <1>5, LockStays
<1> QED
  BY <1>1, <1>2, <1>4, <1>6, RowStays

\* A permission is appended for a person that was created.
LEMMA GrantedKeeps ==
  ASSUME A!AttendanceConstants, DayInv, NEW p \in Persons \cup {A!Nobody}, NEW covers \in BOOLEAN,
         A!Granted(p, covers), person' \in [Persons -> {"none", "standing", "revoked"}],
         \A x \in Persons : person[x] # "none" => person'[x] # "none",
         p # A!Nobody => person'[p] # "none", linked' = linked
  PROVE  /\ PermissionsKept /\ PickupInv'
         /\ \A i \in DOMAIN permissions : permissions'[i] = permissions[i]
<1> DEFINE new == [person |-> p, covers |-> covers, revoked |-> FALSE]
<1>1. new \in A!Permission /\ new.person = p
  BY DEF A!Permission
<1>2. permissions' = Append(permissions, new) /\ Len(permissions) < MaxPermissions
      /\ permissions \in Seq(A!Permission) /\ MaxPermissions \in Nat
  BY DEF A!Granted, DayInv, PickupInv, A!AttendanceConstants
<1> HIDE DEF new
<1>3. /\ permissions' \in Seq(A!Permission) /\ Len(permissions') <= MaxPermissions
      /\ DOMAIN permissions \subseteq DOMAIN permissions'
      /\ \A i \in DOMAIN permissions : permissions'[i] = permissions[i]
      /\ \A i \in DOMAIN permissions' : permissions'[i] = new \/ i \in DOMAIN permissions
  BY <1>1, <1>2
<1>4. ASSUME NEW i \in DOMAIN permissions', permissions'[i].person # A!Nobody
      PROVE  person'[permissions'[i].person] # "none"
  <2>1. CASE permissions'[i] = new
    BY <1>1, <1>4, <2>1
  <2>2. CASE i \in DOMAIN permissions
    <3>1. permissions[i] \in A!Permission /\ permissions'[i] = permissions[i]
      BY <1>2, <1>3, <2>2
    <3>2. permissions[i].person \in Persons
      BY <1>4, <3>1 DEF A!Permission
    <3> QED  BY <1>4, <2>2, <3>1, <3>2 DEF DayInv, PickupInv
  <2> QED  BY <1>3, <2>1, <2>2
<1> QED
  BY <1>3, <1>4 DEF PermissionsKept, PickupInv, DayInv

LEMMA CreatePersonStep ==
  ASSUME A!AttendanceConstants, DayInv, NEW p \in Persons, A!createPerson(p)
  PROVE  Right
<1>1. /\ person' = [person EXCEPT ![p] = "standing"] /\ linked' = linked /\ work' = work
      /\ UNCHANGED <<row, corrections, active, isToday>>
  BY DEF A!createPerson, A!day
<1>2. PICK covers \in BOOLEAN : A!Granted(p, covers)
  BY DEF A!createPerson
<1>3. /\ person' \in [Persons -> {"none", "standing", "revoked"}]
      /\ \A x \in Persons : person[x] # "none" => person'[x] # "none"
      /\ person'[p] # "none"
  BY <1>1 DEF DayInv, PickupInv
<1>4. PermissionsKept /\ PickupInv'
  BY <1>1, <1>2, <1>3, GrantedKeeps
<1>5. WorkInv'
  BY <1>1, <1>3 DEF DayInv, WorkInv
<1>6. WritingInv'
  <2>1. UNCHANGED A!lock /\ person[p] = "none"
    BY DEF A!createPerson
  <2>2. \A x \in Persons : person[x] = "standing" => person'[x] = "standing"
    BY <1>1, <2>1 DEF DayInv, PickupInv
  <2>3. \A i \in DOMAIN permissions : permissions'[i] = permissions[i]
    BY <1>1, <1>2, <1>3, GrantedKeeps
  <2>4. ASSUME NEW i \in DOMAIN permissions PROVE permissions[i].person \in Persons \cup {A!Nobody}
    <3>1. permissions[i] \in A!Permission
      BY DEF DayInv, PickupInv
    <3> QED
      BY <3>1 DEF A!Permission
  <2>5. ASSUME NEW i \in DOMAIN permissions, ~permissions[i].revoked,
               permissions[i].person # A!Nobody => person[permissions[i].person] = "standing"
        PROVE  /\ ~permissions'[i].revoked
               /\ permissions[i].person # A!Nobody => person'[permissions[i].person] = "standing"
    BY <2>2, <2>3, <2>4, <2>5
  <2>6. writing' = writing /\ ended' = ended /\ ended \subseteq Persons \cup Fetchers
    BY <2>1 DEF A!lock, DayInv, WritingInv
  <2> QED
    BY <1>1, <1>4, <2>5, <2>6, DecidedStays
<1> QED
  BY <1>1, <1>4, <1>5, <1>6, RowStays DEF DayInv

LEMMA RevokeStep ==
  ASSUME A!AttendanceConstants, DayInv, NEW p \in Persons, A!revokePerson(p)
  PROVE  Right
<1>1. /\ person' = [person EXCEPT ![p] = "revoked"] /\ linked' = linked /\ work' = work
      /\ UNCHANGED <<row, corrections, active, isToday>>
      /\ permissions' = [i \in DOMAIN permissions |->
            [permissions[i] EXCEPT !.revoked = permissions[i].revoked \/ permissions[i].person = p]]
  BY DEF A!revokePerson, A!day
<1>2. /\ person' \in [Persons -> {"none", "standing", "revoked"}]
      /\ \A x \in Persons : person[x] # "none" => person'[x] # "none"
  BY <1>1 DEF DayInv, PickupInv
<1>3. permissions \in Seq(A!Permission) /\ Len(permissions) \in Nat
      /\ DOMAIN permissions = 1..Len(permissions)
  BY DEF DayInv, PickupInv
<1>4. ASSUME NEW i \in 1..Len(permissions)
      PROVE  permissions'[i] \in A!Permission /\ permissions'[i].person = permissions[i].person
  <2>1. permissions[i] \in A!Permission
    BY <1>3
  <2>2. permissions'[i] = [permissions[i] EXCEPT !.revoked = permissions[i].revoked \/ permissions[i].person = p]
    BY <1>1, <1>3
  <2>3. (permissions[i].revoked \/ permissions[i].person = p) \in BOOLEAN
    OBVIOUS
  <2> QED  BY <2>1, <2>2, <2>3 DEF A!Permission
<1>5. permissions' \in Seq(A!Permission) /\ Len(permissions') = Len(permissions)
      /\ DOMAIN permissions' = DOMAIN permissions
  <2>1. permissions' \in [1..Len(permissions) -> A!Permission]
    <3>1. permissions' = [i \in 1..Len(permissions) |-> permissions'[i]]
      BY <1>1, <1>3
    <3>2. \A S, T, f : f = [i \in S |-> f[i]] /\ (\A i \in S : f[i] \in T) => f \in [S -> T]
      OBVIOUS
    <3>3. \A i \in 1..Len(permissions) : permissions'[i] \in A!Permission
      BY <1>4
    <3> QED  BY ONLY <3>1, <3>2, <3>3
  <2>2. \A n \in Nat : \A q \in [1..n -> A!Permission] :
          q \in Seq(A!Permission) /\ Len(q) = n /\ DOMAIN q = 1..n
    OBVIOUS
  <2> QED  BY <1>3, <2>1, <2>2
<1>6. PermissionsKept
  BY <1>3, <1>4, <1>5 DEF PermissionsKept
<1>7. ASSUME NEW i \in DOMAIN permissions', permissions'[i].person # A!Nobody
      PROVE  person'[permissions'[i].person] # "none"
  <2>1. permissions'[i].person = permissions[i].person /\ permissions'[i] \in A!Permission
    BY <1>3, <1>4, <1>5
  <2>2. permissions[i].person \in Persons
    BY <1>7, <2>1 DEF A!Permission
  <2> QED  BY <1>2, <1>5, <1>7, <2>1, <2>2 DEF DayInv, PickupInv
<1>8. PickupInv'
  BY <1>1, <1>2, <1>5, <1>7 DEF DayInv, PickupInv
<1>9. WorkInv'
  BY <1>1, <1>2 DEF DayInv, WorkInv
<1>10. WritingInv'
  <2>1. writing' = writing /\ ended' = IF A!Unlocked THEN ended
                                      ELSE ended \cup {x \in {p} : person[x] = "standing"}
    BY DEF A!revokePerson, A!Ends
  <2>2. ASSUME ~A!Unlocked, NEW i \in DOMAIN permissions,
               ~permissions[i].revoked, permissions[i].person \notin ended',
               permissions[i].person # A!Nobody => person[permissions[i].person] = "standing"
        PROVE  /\ ~permissions'[i].revoked
               /\ permissions[i].person # A!Nobody => person'[permissions[i].person] = "standing"
    <3>1. permissions[i] \in A!Permission /\ p # A!Nobody
      BY <1>3 DEF A!AttendanceConstants, A!Nobody
    <3>2. permissions[i].person # p
      BY <2>1, <2>2, <3>1
    <3>3. permissions'[i].revoked = permissions[i].revoked
      BY <1>1, <3>1, <3>2 DEF A!Permission
    <3>4. permissions[i].person \in Persons \cup {A!Nobody}
      BY <3>1 DEF A!Permission
    <3> QED
      BY <1>1, <2>2, <3>2, <3>3, <3>4 DEF DayInv, PickupInv
  <2>3. ended' \subseteq Persons \cup Fetchers /\ ended \subseteq ended'
    BY <2>1 DEF DayInv, WritingInv
  <2> QED
    BY <1>1, <1>6, <2>1, <2>2, <2>3, DecidedStays
<1> QED
  BY <1>1, <1>6, <1>8, <1>9, <1>10, RowStays DEF DayInv

LEMMA TemporaryStep ==
  ASSUME A!AttendanceConstants, DayInv, NEW s \in Clerks,
         A!CreateTemporary(s) \/ \E p \in Persons \cup {A!Nobody} : A!BeginTemporary(s, p)
  PROVE  Right
<1>1. CASE A!CreateTemporary(s)
  <2>1. PICK covers \in BOOLEAN : A!Granted(work[s], covers)
    BY <1>1 DEF A!CreateTemporary
  <2>2. /\ work[s] \in Persons \cup {A!Nobody} /\ A!Go(s, A!Idle)
        /\ UNCHANGED <<row, corrections, active, isToday>> /\ UNCHANGED <<person, linked>>
    BY <1>1 DEF A!CreateTemporary, A!day
  <2>3. /\ person' \in [Persons -> {"none", "standing", "revoked"}]
        /\ \A x \in Persons : person[x] # "none" => person'[x] # "none"
        /\ work[s] # A!Nobody => person'[work[s]] # "none"
    BY <2>2 DEF DayInv, PickupInv, WorkInv
  <2>4. PermissionsKept /\ PickupInv'
    BY <2>1, <2>2, <2>3, GrantedKeeps
  <2>5. WorkInv'
    BY <2>2, WorkGoes DEF DayInv
  <2>6. WritingInv'
    <3>1. UNCHANGED A!lock
      BY <1>1 DEF A!CreateTemporary
    <3>2. \A i \in DOMAIN permissions : permissions'[i] = permissions[i]
      BY <2>1, <2>2, <2>3, GrantedKeeps
    <3> QED
      BY <2>2, <2>4, <3>1, <3>2, DecidedStays DEF A!lock, DayInv, WritingInv
  <2> QED
    BY <2>2, <2>4, <2>5, <2>6, RowStays DEF DayInv
<1>2. ASSUME NEW p \in Persons \cup {A!Nobody}, A!BeginTemporary(s, p) PROVE Right
  <2>1. /\ work' = [work EXCEPT ![s] = p] /\ (p # A!Nobody => person[p] = "standing")
        /\ UNCHANGED <<row, corrections, active, isToday>> /\ UNCHANGED A!pickup
    BY <1>2 DEF A!BeginTemporary, A!day, A!Go
  <2>2. PermissionsKept /\ PickupInv'
    BY <2>1, PickupStays DEF DayInv
  <2>3. WorkInv'
    BY <2>1 DEF DayInv, WorkInv, A!pickup
  <2>4. WritingInv'
    BY <1>2, <2>1, LockStays DEF A!BeginTemporary
  <2> QED
    BY <2>1, <2>2, <2>3, <2>4, RowStays DEF DayInv
<1> QED
  BY <1>1, <1>2

LEMMA LinkStep ==
  ASSUME A!AttendanceConstants, DayInv, NEW g \in Fetchers, A!linkGuardian(g) \/ A!unlinkGuardian(g)
  PROVE  Right
<1>1. /\ linked' \subseteq Fetchers
      /\ UNCHANGED <<row, corrections, active, isToday, person, permissions, work>>
  BY DEF A!linkGuardian, A!unlinkGuardian, A!day, DayInv, PickupInv
<1>2. PermissionsKept /\ PickupInv' /\ WorkInv'
  BY <1>1 DEF PermissionsKept, DayInv, PickupInv, WorkInv
<1>3. WritingInv'
  <2>1. /\ writing' = writing
        /\ \/ linked' = linked \cup {g} /\ ended' = ended
           \/ /\ linked' = linked \ {g}
              /\ ended' = IF A!Unlocked THEN ended ELSE ended \cup ({g} \cap linked)
    BY DEF A!linkGuardian, A!unlinkGuardian, A!Ends, A!lock
  <2>2. /\ ended' \subseteq Persons \cup Fetchers /\ ended \subseteq ended'
        /\ A!Unlocked => ended' = ended
        /\ ~A!Unlocked => \A h \in linked : h \in linked' \cup ended'
    BY <2>1 DEF DayInv, WritingInv
  <2> QED
    BY <1>1, <1>2, <2>1, <2>2, DecidedStays
<1> QED
  BY <1>1, <1>2, <1>3, RowStays DEF DayInv

LEMMA DayStep ==
  ASSUME A!AttendanceConstants, DayInv, A!Next
  PROVE  Right
<1>1. ASSUME NEW s \in Clerks, A!Request(s) PROVE Right
  BY <1>1, CheckInStep, AbsenceStep, QuietStep, TemporaryStep DEF A!Request
<1>2. ASSUME NEW p \in Persons, A!createPerson(p) \/ A!revokePerson(p) PROVE Right
  BY <1>2, CreatePersonStep, RevokeStep
<1>3. ASSUME NEW g \in Fetchers, A!linkGuardian(g) \/ A!unlinkGuardian(g) PROVE Right
  BY <1>3, LinkStep
<1>4. CASE A!checkOut \/ A!correct \/ A!WriteRelease \/ A!Rollback \/ A!setChildStatus \/ A!EndOfDay
  BY <1>4, CheckOutStep, CorrectStep, ReleaseStep, QuietStep
<1> QED
  BY <1>1, <1>2, <1>3, <1>4 DEF A!Next

LEMMA DayInvariance ==
  ASSUME A!AttendanceConstants
  PROVE  A!Spec => []DayInv
<1>1. A!Init => DayInv
  BY DEF A!Init, DayInv, PickupInv, WorkInv, WritingInv, A!Unlocked, A!AttendanceConstants, A!Idle
<1>2. DayInv /\ [A!Next]_A!vars => DayInv'
  <2>1. ASSUME DayInv, A!Next PROVE DayInv'
    BY <2>1, DayStep DEF Right
  <2>2. ASSUME DayInv, UNCHANGED A!vars PROVE DayInv'
    <3>1. UNCHANGED <<row, corrections, active, isToday, work>>
          /\ UNCHANGED A!pickup /\ UNCHANGED A!lock
      BY <2>2 DEF A!vars, A!pickup, A!lock
    <3>2. WritingInv' /\ PermissionsKept /\ PickupInv' /\ WorkInv'
      BY <2>2, <3>1, LockStays, PickupStays DEF DayInv
    <3> QED
      BY <2>2, <3>1, <3>2, RowStays DEF Right, DayInv
  <2> QED  BY <2>1, <2>2
<1> QED
  BY <1>1, <1>2, PTL DEF A!Spec

\* Whatever the order of arrivals, absences and corrections: an absent child
\* has no arrival and is not billed, nobody leaves before arriving, and a child
\* that has left was released to one guardian or under one permission.
THEOREM TheDayIsConsistent ==
  ASSUME A!AttendanceConstants
  PROVE  A!Spec => []DayConsistent
<1>1. DayInv => A!DayConsistent
  <2> SUFFICES ASSUME DayInv PROVE A!DayConsistent
    OBVIOUS
  <2>1. row # A!NoRow => DayOK(row)
    BY DEF DayInv
  <2>2. A!TypeOK
    <3>1. ended \subseteq Persons \cup Fetchers /\ (A!Unlocked => ended = {})
      BY DayNotNoRow DEF DayInv, WritingInv, Decided, A!Unlocked, A!NotWriting
    <3>2. writing = A!NotWriting \/ (writing \in [row : A!Day, notes : 0..1] /\ DayOK(writing.row))
      BY DEF DayInv, WritingInv, Decided, A!Unlocked
    <3>3. \A d : DayOK(d) /\ d.to.permission # A!Null =>
            d.to.permission \in DOMAIN permissions /\ d.to.person = permissions[d.to.permission].person
      BY DEF DayOK, ReleaseOK, A!NotReleased
    <3>4. writing.row = A!NoRow \/ DayOK(writing.row)
      BY <3>2 DEF A!NotWriting
    <3>5. row \in A!Day \cup {A!NoRow}
      BY <2>1 DEF DayOK
    <3> QED
      BY <2>1, <3>1, <3>2, <3>3, <3>4, <3>5 DEF DayInv, PickupInv, WorkInv, A!TypeOK
  <2>3. row # A!NoRow /\ row.checkOut # A!Null =>
          (row.to.guardian # A!Nobody) # (row.to.permission # A!Null)
    <3> SUFFICES ASSUME row # A!NoRow, row.checkOut # A!Null
                 PROVE  (row.to.guardian # A!Nobody) # (row.to.permission # A!Null)
      OBVIOUS
    <3>1. ReleaseOK(row.to) /\ row.to # A!NotReleased
      BY <2>1 DEF DayOK
    <3>2. 0 \notin DOMAIN permissions
      BY DEF DayInv, PickupInv
    <3> QED  BY <3>1, <3>2 DEF ReleaseOK, A!Null
  <2> QED
    BY <2>1, <2>2, <2>3 DEF A!DayConsistent, DayOK
<1> QED
  BY <1>1, DayInvariance, PTL DEF DayConsistent

\* A right that ended before a departure or a release took the child's lock
\* releases nobody, whatever is granted and revoked without that lock, and a child
\* arrives only while active.
THEOREM ReleasedToTheEntitled ==
  ASSUME A!AttendanceConstants
  PROVE  A!Spec => HoldsWhenWritten
<1> DEFINE Held == ReleaseHolds /\ ArrivalHolds
<1>1. ASSUME DayInv, A!Next PROVE Held
  BY <1>1, DayStep DEF Right
<1>2. DayInv /\ [A!Next]_A!vars => [Held]_A!vars
  BY <1>1
<1> QED
  BY <1>2, DayInvariance, PTL DEF A!Spec, HoldsWhenWritten, A!HoldsWhenWritten, ReleaseHolds, ArrivalHolds

\* What was recorded of the day changes only with a row of the corrections.
THEOREM NothingIsErased ==
  ASSUME A!AttendanceConstants
  PROVE  A!Spec => ChangesAreNoted
<1>1. ASSUME DayInv, A!Next PROVE Noted
  BY <1>1, DayStep DEF Right
<1>2. DayInv /\ [A!Next]_A!vars => [Noted]_A!vars
  BY <1>1
<1> QED
  BY <1>2, DayInvariance, PTL DEF A!Spec, ChangesAreNoted, A!ChangesAreNoted, Noted
-----------------------------------------------------------------------------
\* Places in groups.

\* A child's assignments do not meet.
OneGroupADay ==
  \A a, b \in assigned : a # b /\ a.child = b.child => a.to < b.from \/ b.to < a.from

\* The request has read the child, the group and its capacity.
HasRead(q) ==
  /\ q.child \in Children /\ q.group \in Groups /\ q.from \in P!Days
  /\ q.capacity \in Capacities /\ q.reply = "none"

\* What Decide found still holds while the transaction has its locks: no
\* assignment of the child is to come, and there is a place on every day.
Holds(k) ==
  LET q == clerks[k] IN
  /\ HasRead(q)
  /\ \A a \in assigned : a.child = q.child => a.from <= q.from
  /\ ~q.force => \A e \in q.from..P!Forever : Cardinality(P!Occupants(q.group, e)) < q.capacity

\* The inductive invariant.
PlacesInv ==
  /\ P!TypeOK
  /\ OneGroupADay
  /\ \A k \in Clerks : clerks[k].at = "checked" => HasRead(clerks[k])
  /\ \A k \in Clerks : clerks[k].at = "write" => Holds(k)
  /\ \A k, j \in Clerks : k # j /\ clerks[k].at = "write" /\ clerks[j].at = "write" =>
       clerks[k].child # clerks[j].child /\ clerks[k].group # clerks[j].group

-----------------------------------------------------------------------------
\* Numbers up to n have a largest.
LEMMA HasLargest ==
  ASSUME NEW n \in Nat, NEW T \in SUBSET (0..n), T # {}
  PROVE  \E x \in T : \A y \in T : y <= x
<1> DEFINE R == {ss \in Nat \X Nat : ss[1] < ss[2]}
           gaps == {m \in Nat : n - m \in T}
<1>1. IsWellFoundedOn(R, Nat)
  BY NatLessThanWellFounded DEF OpToRel
<1>2. ASSUME NEW x \in T PROVE n - x \in gaps
  <2>1. n - x \in Nat /\ n - (n - x) = x
    OBVIOUS
  <2> QED  BY <2>1
<1>3. gaps \subseteq Nat /\ gaps # {}
  BY <1>2
<1> HIDE DEF R
<1>4. PICK m \in gaps : \A k \in gaps : ~(<<k, m>> \in R)
  <2> HIDE DEF gaps
  <2> QED  BY <1>1, <1>3, WFMin
<1>5. ASSUME NEW y \in T PROVE y <= n - m
  <2>1. ~(n - y < m)
    BY <1>2, <1>3, <1>4 DEF R
  <2> QED  BY <2>1
<1>6. n - m \in T
  OBVIOUS
<1> QED
  BY <1>5, <1>6


LEMMA SameCount == \A S : P!Cardinality(S) = Cardinality(S) /\ P!IsFiniteSet(S) = IsFiniteSet(S)
BY Zenon DEF P!Cardinality, Cardinality, P!IsFiniteSet, IsFiniteSet

\* Two sets of numbers of which each is below the other have the same largest.
LEMMA SameLargest ==
  ASSUME NEW n \in Nat, NEW S \in SUBSET (0..n), NEW T \in SUBSET (0..n), S # {},
         \A x \in S : \E y \in T : x <= y,
         \A y \in T : \E x \in S : y <= x
  PROVE  P!Max(S) = P!Max(T)
<1>1. T # {}
  OBVIOUS
<1>2. PICK x \in S : \A y \in S : y <= x
  BY HasLargest
<1>3. PICK y \in T : \A z \in T : z <= y
  BY <1>1, HasLargest
<1>4. x = y
  <2>1. x <= y /\ y <= x /\ x \in Nat /\ y \in Nat
    <3>1. PICK z \in T : x <= z
      OBVIOUS
    <3>2. PICK v \in S : y <= v
      OBVIOUS
    <3> QED
      BY <1>2, <1>3, <3>1, <3>2
  <2> QED
    BY <2>1
<1>5. P!Max(S) = x
  <2>1. \A v \in S : (\A z \in S : v >= z) => v = x
    BY <1>2
  <2> QED
    BY <1>2, <2>1 DEF P!Max
<1>6. P!Max(T) = y
  <2>1. \A v \in T : (\A z \in T : v >= z) => v = y
    BY <1>3
  <2> QED
    BY <1>3, <2>1 DEF P!Max
<1> QED
  BY <1>4, <1>5, <1>6

LEMMA OccupantsFinite ==
  ASSUME P!PlaceConstants, P!TypeOK, NEW g, NEW e
  PROVE  /\ IsFiniteSet(P!Occupants(g, e))
         /\ Cardinality(P!Occupants(g, e)) \in 0..Cardinality(Children)
         /\ Cardinality(Children) \in Nat
<1>1. IsFiniteSet(Children)
  BY SameCount DEF P!PlaceConstants
<1>2. P!Occupants(g, e) \in SUBSET Children
  BY DEF P!Occupants, P!TypeOK, P!Assignment
<1> QED
  BY <1>1, <1>2, FS_Subset, FS_CardinalityType

\* The rows that cover a day, one for each child with a place on it.
LEMMA OnePlaceEach ==
  ASSUME P!PlaceConstants, P!TypeOK, OneGroupADay, NEW g, NEW d \in P!Days,
         NEW e \in d..P!Forever
  PROVE  LET booked == {a \in P!Reserved(g, d) : a.from <= e /\ a.to >= e}
         IN  IsFiniteSet(booked) /\ Cardinality(booked) = Cardinality(P!Occupants(g, e))
<1> DEFINE booked == {a \in P!Reserved(g, d) : a.from <= e /\ a.to >= e}
           f == [a \in booked |-> a.child]
<1>0. LastDay \in Nat /\ d \in Nat /\ e \in Nat /\ d <= e
  BY DEF P!PlaceConstants, P!Days, P!Forever
<1>1. ASSUME NEW a \in assigned
      PROVE  a.from \in Nat /\ a.to \in Nat
  BY <1>0 DEF P!TypeOK, P!Assignment, P!Days, P!Forever
<1>2. booked = {a \in assigned : a.group = g /\ a.child \notin gone /\ a.from <= e /\ a.to >= e}
  BY <1>0, <1>1 DEF P!Reserved
<1>3. P!Occupants(g, e) = {a.child : a \in booked}
  BY <1>0, <1>1, <1>2 DEF P!Occupants, P!Covers
<1>4. \A a, b \in booked : a.child = b.child => a = b
  BY <1>0, <1>1, <1>2 DEF OneGroupADay
<1> HIDE DEF booked
<1>5. f \in Bijection(booked, P!Occupants(g, e))
  BY <1>3, <1>4 DEF Bijection, Injection, Surjection, IsInjective
<1>6. IsFiniteSet(P!Occupants(g, e))
  BY OccupantsFinite
<1>7. ExistsBijection(P!Occupants(g, e), booked)
  BY <1>5, Fun_ExistsBijSymmetric DEF ExistsBijection
<1> QED
  BY <1>6, <1>7, FS_Bijection DEF booked

LEMMA AssignedFinite ==
  ASSUME P!PlaceConstants, P!TypeOK, OneGroupADay
  PROVE  IsFiniteSet(assigned)
<1> DEFINE T == Children \X P!Days
           f == [a \in assigned |-> <<a.child, a.from>>]
<1>1. IsFiniteSet(T)
  <2>1. IsFiniteSet(Children) /\ IsFiniteSet(P!Days)
    BY SameCount, FS_Interval DEF P!PlaceConstants, P!Days
  <2> QED
    BY <2>1, FS_Product
<1>2. ASSUME NEW a \in assigned
      PROVE  a.child \in Children /\ a.from \in P!Days /\ a.from \in Nat /\ a.to \in Nat /\ a.from <= a.to
  BY DEF P!PlaceConstants, P!TypeOK, P!Assignment, P!Days, P!Forever
<1>3. \A a, b \in assigned : a.child = b.child /\ a.from = b.from => a = b
  BY <1>2 DEF OneGroupADay
<1>4. f \in Injection(assigned, T)
  BY <1>2, <1>3 DEF Injection, IsInjective
<1> QED
  BY <1>1, <1>4, FS_Injection

\* What the sweep has added up at an instant is the number of children with a
\* place on that day.
LEMMA SumIsOccupancy ==
  ASSUME P!PlaceConstants, P!TypeOK, OneGroupADay, NEW g, NEW d \in P!Days,
         NEW t \in d..P!Forever, NEW booked, booked = P!Reserved(g, d)
  PROVE  Cardinality({a \in booked : P!StartEvent(a, d) <= t})
           - Cardinality({a \in {x \in booked : x.to # P!Forever} : P!EndEvent(a) <= t})
         = Cardinality(P!Occupants(g, t))
<1> DEFINE begun == {a \in booked : P!StartEvent(a, d) <= t}
           over == {a \in {x \in booked : x.to # P!Forever} : P!EndEvent(a) <= t}
<1>0. LastDay \in Nat /\ d \in Nat /\ t \in Nat /\ d <= t /\ t <= P!Forever /\ P!Forever = LastDay + 1
  BY DEF P!PlaceConstants, P!Days, P!Forever
<1>1. ASSUME NEW a \in booked
      PROVE  a \in assigned /\ a.from \in Nat /\ a.to \in Nat /\ a.from <= a.to
             /\ (P!StartEvent(a, d) <= t <=> a.from <= t)
  <2>1. a \in assigned /\ a.from \in Nat /\ a.to \in Nat /\ a.from <= a.to
    BY <1>0 DEF P!Reserved, P!TypeOK, P!Assignment, P!Days, P!Forever
  <2>2. P!StartEvent(a, d) = IF a.from <= d THEN d ELSE a.from
    BY <2>1, <1>0 DEF P!StartEvent, P!Max
  <2> QED
    BY <2>1, <2>2, <1>0
<1>2. begun \ over = {a \in booked : a.from <= t /\ a.to >= t}
  BY <1>0, <1>1 DEF P!EndEvent
<1>3. over \subseteq begun
  BY <1>0, <1>1 DEF P!EndEvent
<1>4. IsFiniteSet(begun)
  <2>1. begun \in SUBSET assigned
    BY <1>1
  <2> QED
    BY <2>1, AssignedFinite, FS_Subset
<1>5. Cardinality(begun \ over) = Cardinality(begun) - Cardinality(over)
  <2>1. begun \cap over = over
    BY <1>3
  <2> HIDE DEF begun, over
  <2> QED
    BY <2>1, <1>4, FS_Difference
<1>6. Cardinality(begun \ over) = Cardinality(P!Occupants(g, t))
  BY <1>2, OnePlaceEach
<1> QED
  BY <1>5, <1>6

\* The count by events is the largest number of children on any one day: between
\* two events nobody comes or goes.
LEMMA PeakCounts ==
  ASSUME P!PlaceConstants, P!TypeOK, OneGroupADay, NEW g, NEW d \in P!Days
  PROVE  P!Peak(g, d) = P!Max({P!Cardinality(P!Occupants(g, e)) : e \in d..P!Forever})
<1> DEFINE booked == P!Reserved(g, d)
           ends == {a \in booked : a.to # P!Forever}
           events == {P!StartEvent(a, d) : a \in booked} \cup {P!EndEvent(a) : a \in ends}
           sum(t) == P!Cardinality({a \in booked : P!StartEvent(a, d) <= t})
                       - P!Cardinality({a \in ends : P!EndEvent(a) <= t})
           N(e) == Cardinality(P!Occupants(g, e))
           Peaks == {0} \cup {N(t) : t \in events}
           Days == {N(e) : e \in d..P!Forever}
           n == Cardinality(Children)
<1>0. LastDay \in Nat /\ d \in Nat /\ d <= LastDay /\ P!Forever = LastDay + 1
  BY DEF P!PlaceConstants, P!Days, P!Forever
<1>1. ASSUME NEW a \in booked
      PROVE  /\ a \in assigned /\ a.from \in Nat /\ a.to \in Nat /\ a.from <= a.to
             /\ a.from <= LastDay /\ a.to <= P!Forever /\ a.to >= d
             /\ a.group = g /\ a.child \notin gone
             /\ P!StartEvent(a, d) = IF a.from <= d THEN d ELSE a.from
  <2>1. /\ a \in assigned /\ a.from \in Nat /\ a.to \in Nat /\ a.from <= a.to
        /\ a.from <= LastDay /\ a.to <= P!Forever /\ a.to >= d
        /\ a.group = g /\ a.child \notin gone
    BY <1>0 DEF P!Reserved, P!TypeOK, P!Assignment, P!Days, P!Forever
  <2>2. P!StartEvent(a, d) = IF a.from <= d THEN d ELSE a.from
    BY <2>1, <1>0 DEF P!StartEvent, P!Max
  <2> QED
    BY <2>1, <2>2
<1>2. events \subseteq d..P!Forever
  BY <1>0, <1>1 DEF P!EndEvent
<1>3. ASSUME NEW t \in events PROVE sum(t) = N(t)
  BY <1>2, SumIsOccupancy, SameCount
<1>4. \A e : N(e) \in 0..n /\ n \in Nat
  BY OccupantsFinite
<1>5. P!Peak(g, d) = P!Max(Peaks)
  <2>1. {sum(t) : t \in events} = {N(t) : t \in events}
    BY <1>3
  <2> QED
    BY <2>1 DEF P!Peak
<1>6. {P!Cardinality(P!Occupants(g, e)) : e \in d..P!Forever} = Days
  BY SameCount
\* A day's occupants are those of the last event before it.
<1>7. ASSUME NEW e \in d..P!Forever PROVE \E x \in Peaks : N(e) <= x
  <2> DEFINE E == {t \in events : t <= e}
  <2>0. e \in Nat /\ d <= e /\ e <= P!Forever
    BY <1>0
  <2>c. \A x : x \in P!Occupants(g, e) <=> \E a \in booked : a.child = x /\ a.from <= e /\ a.to >= e
    BY <1>0, <1>1, <2>0 DEF P!Occupants, P!Covers, P!Reserved, P!TypeOK, P!Assignment, P!Days, P!Forever
  <2>1. CASE E = {}
    <3>1. ASSUME NEW a \in booked PROVE ~(a.from <= e)
      <4>1. P!StartEvent(a, d) \in events
        OBVIOUS
      <4> QED
        BY <4>1, <1>1, <2>0, <2>1
    <3>2. P!Occupants(g, e) = {}
      BY <2>c, <3>1
    <3>3. N(e) = 0
      BY <3>2, FS_EmptySet
    <3> QED
      BY <3>3
  <2>2. CASE E # {}
    <3>1. E \in SUBSET (0..P!Forever) /\ P!Forever \in Nat
      BY <1>0, <1>2
    <3>2. PICK t \in E : \A y \in E : y <= t
      <4> HIDE DEF E
      <4> QED
        BY <2>2, <3>1, HasLargest
    <3>3. t \in events /\ t \in Nat /\ t <= e /\ d <= t
      BY <1>0, <1>2, <3>2
    <3>t. \A x : x \in P!Occupants(g, t) <=> \E a \in booked : a.child = x /\ a.from <= t /\ a.to >= t
      BY <1>0, <1>1, <3>3 DEF P!Occupants, P!Covers, P!Reserved, P!TypeOK, P!Assignment, P!Days, P!Forever
    <3>4. ASSUME NEW a \in booked
          PROVE  (a.from <= e /\ a.to >= e) <=> (a.from <= t /\ a.to >= t)
      <4>1. P!StartEvent(a, d) \in events
        OBVIOUS
      <4>2. a.to # P!Forever => P!EndEvent(a) \in events /\ P!EndEvent(a) = a.to + 1
        BY DEF P!EndEvent
      <4>3. a.from <= e => a.from <= t
        <5> SUFFICES ASSUME a.from <= e PROVE a.from <= t
          OBVIOUS
        <5>1. P!StartEvent(a, d) = IF a.from <= d THEN d ELSE a.from
          BY <1>1
        <5>2. a.from \in Nat /\ P!StartEvent(a, d) <= e
          BY <5>1, <1>1, <2>0, <1>0
        <5>3. P!StartEvent(a, d) \in E
          BY <4>1, <5>2
        <5>4. P!StartEvent(a, d) <= t
          BY <5>3, <3>2
        <5> QED
          BY <5>1, <5>2, <5>4, <3>3, <1>0
      <4>4. a.to >= t => a.to >= e
        <5> SUFFICES ASSUME a.to >= t, a.to < e PROVE FALSE
          BY <1>1, <2>0
        <5>1. a.to + 1 \in E
          BY <4>2, <1>1, <1>0, <2>0
        <5> QED
          BY <5>1, <1>1, <3>2, <3>3
      <4> QED
        BY <4>3, <4>4, <1>1, <2>0, <3>3
    <3>5. P!Occupants(g, e) = P!Occupants(g, t)
      BY <2>c, <3>t, <3>4
    <3> QED
      BY <3>3, <3>5, <1>4
  <2> QED
    BY <2>1, <2>2
<1>8. ASSUME NEW x \in Peaks PROVE \E y \in Days : x <= y
  <2>1. d \in d..P!Forever
    BY <1>0
  <2>2. CASE x = 0
    BY <2>1, <2>2, <1>4
  <2>3. CASE x # 0
    <3>1. PICK t \in events : x = N(t)
      BY <2>3
    <3> QED
      BY <3>1, <1>2, <1>4
  <2> QED
    BY <2>2, <2>3
<1>9. Peaks \in SUBSET (0..n) /\ Days \in SUBSET (0..n) /\ Peaks # {} /\ n \in Nat
  BY <1>4
<1>10. \A y \in Days : \E x \in Peaks : y <= x
  BY <1>7
<1>11. \A x \in Peaks : \E y \in Days : x <= y
  BY <1>8
<1>12. P!Max(Peaks) = P!Max(Days)
  <2> HIDE DEF Peaks, Days, n
  <2> QED
    BY <1>9, <1>10, <1>11, SameLargest
<1> QED
  BY <1>5, <1>6, <1>12

-----------------------------------------------------------------------------
\* Every step keeps the invariant.

LEMMA PlacesInit == ASSUME P!PlaceConstants, P!Init PROVE PlacesInv
BY DEF P!Init, PlacesInv, P!TypeOK, OneGroupADay, P!NoRequest

\* Fewer children on a day leave the place that was found.
LEMMA StillHolds ==
  ASSUME P!PlaceConstants, PlacesInv, P!TypeOK', NEW k \in Clerks,
         clerks[k].at = "write", clerks'[k] = clerks[k],
         \A a \in assigned' : a.child = clerks[k].child => \E b \in assigned :
            b.child = a.child /\ b.from = a.from,
         \A e \in P!Days \cup {P!Forever} :
            P!Occupants(clerks[k].group, e)' \subseteq P!Occupants(clerks[k].group, e)
  PROVE  Holds(k)'
<1> DEFINE q == clerks[k]
<1>1. Holds(k) /\ P!TypeOK
  BY DEF PlacesInv
<1>2. HasRead(q)
  BY <1>1 DEF Holds
<1>3. \A a \in assigned' : a.child = q.child => a.from <= q.from
  BY <1>1 DEF Holds
<1>4. ASSUME ~q.force, NEW e \in q.from..P!Forever
      PROVE  Cardinality(P!Occupants(q.group, e)') < q.capacity
  <2>1. e \in P!Days \cup {P!Forever}
    BY <1>2, <1>4 DEF HasRead, P!Days, P!Forever, P!PlaceConstants
  <2>2. P!Occupants(q.group, e)' \in SUBSET P!Occupants(q.group, e)
    BY <2>1
  <2>3. IsFiniteSet(P!Occupants(q.group, e)) /\ Cardinality(P!Occupants(q.group, e)) \in Nat
    BY <1>1, OccupantsFinite
  <2>4. /\ Cardinality(P!Occupants(q.group, e)') <= Cardinality(P!Occupants(q.group, e))
        /\ Cardinality(P!Occupants(q.group, e)') \in Nat
    BY <2>2, <2>3, FS_Subset, FS_CardinalityType
  <2>5. Cardinality(P!Occupants(q.group, e)) < q.capacity /\ q.capacity \in Nat
    BY <1>1, <1>2, <1>4 DEF Holds, HasRead, P!PlaceConstants
  <2> QED
    BY <2>3, <2>4, <2>5
<1> QED
  BY <1>2, <1>3, <1>4 DEF Holds, HasRead, P!Days, P!Forever

LEMMA PeakBounds ==
  ASSUME P!PlaceConstants, P!TypeOK, OneGroupADay, NEW g, NEW d \in P!Days,
         NEW e \in d..P!Forever
  PROVE  Cardinality(P!Occupants(g, e)) <= P!Peak(g, d) /\ P!Peak(g, d) \in Nat
<1> DEFINE S == {P!Cardinality(P!Occupants(g, x)) : x \in d..P!Forever}
           n == Cardinality(Children)
<1>1. P!Peak(g, d) = P!Max(S)
  BY PeakCounts
<1>2. S \in SUBSET (0..n) /\ n \in Nat
  BY OccupantsFinite, SameCount
<1>3. Cardinality(P!Occupants(g, e)) \in S
  BY SameCount
<1> HIDE DEF S, n
<1>4. PICK m \in S : \A y \in S : y <= m
  BY <1>2, <1>3, HasLargest
<1>5. P!Max(S) \in S /\ \A y \in S : P!Max(S) >= y
  BY <1>2, <1>4 DEF P!Max
<1>6. P!Max(S) \in Nat /\ Cardinality(P!Occupants(g, e)) \in Nat
  <2>1. S \subseteq Nat
    BY <1>2
  <2> QED
    BY <2>1, <1>3, <1>5, Zenon
<1>7. P!Max(S) >= Cardinality(P!Occupants(g, e))
  BY <1>3, <1>5
<1> QED
  BY <1>1, <1>6, <1>7

RequestType ==
  [at : {"idle", "checked", "write"}, child : Children \cup {NoChild},
   group : Groups \cup {NoGroup}, from : P!Days \cup {0}, force : BOOLEAN,
   capacity : Capacities \cup {0}, reply : {"none", "done", "refused"}]

\* A step of one request that reads and decides, or ends.
LEMMA RequestStep ==
  ASSUME P!PlaceConstants, PlacesInv, NEW k \in Clerks, NEW q \in RequestType,
         clerks' = [clerks EXCEPT ![k] = q],
         UNCHANGED <<assigned, capacity, opened, home, gone>>,
         q.at = "checked" => HasRead(q),
         q.at = "write" =>
           /\ HasRead(q)
           /\ \A a \in assigned : a.child = q.child => a.from <= q.from
           /\ ~q.force => \A e \in q.from..P!Forever : Cardinality(P!Occupants(q.group, e)) < q.capacity
           /\ \A j \in Clerks : clerks[j].at = "write" =>
                clerks[j].child # q.child /\ clerks[j].group # q.group
  PROVE  PlacesInv'
<1>1. clerks' \in [Clerks -> RequestType]
  BY DEF PlacesInv, P!TypeOK, RequestType
<1>2. clerks'[k] = q /\ \A j \in Clerks : j # k => clerks'[j] = clerks[j]
  BY DEF PlacesInv, P!TypeOK
<1>3. P!TypeOK'
  BY <1>1 DEF PlacesInv, P!TypeOK, RequestType
<1>4. OneGroupADay'
  BY DEF PlacesInv, OneGroupADay
<1>5. ASSUME NEW j \in Clerks, clerks'[j].at = "checked" PROVE HasRead(clerks[j])'
  BY <1>2, <1>5 DEF PlacesInv, HasRead, P!Days
<1>6. ASSUME NEW j \in Clerks, clerks'[j].at = "write" PROVE Holds(j)'
  <2>1. CASE j = k
    BY <1>2, <1>6, <2>1 DEF Holds, HasRead, P!Occupants, P!Covers, P!Days, P!Forever
  <2>2. CASE j # k
    BY <1>2, <1>6, <2>2 DEF PlacesInv, Holds, HasRead, P!Occupants, P!Covers, P!Days, P!Forever
  <2> QED
    BY <2>1, <2>2
<1>7. ASSUME NEW i \in Clerks, NEW j \in Clerks, i # j, clerks'[i].at = "write", clerks'[j].at = "write"
      PROVE  clerks'[i].child # clerks'[j].child /\ clerks'[i].group # clerks'[j].group
  BY <1>2, <1>7 DEF PlacesInv
<1> QED
  BY <1>3, <1>4, <1>5, <1>6, <1>7 DEF PlacesInv

LEMMA CheckKeeps ==
  ASSUME P!PlaceConstants, PlacesInv, NEW k \in Clerks, NEW c \in Children, NEW g \in Groups,
         NEW d \in P!Days, NEW force \in BOOLEAN, P!Check(k, c, g, d, force)
  PROVE  PlacesInv'
<1> DEFINE q == [at |-> "checked", child |-> c, group |-> g, from |-> d, force |-> force,
                 capacity |-> capacity[g], reply |-> "none"]
<1>1. capacity[g] \in Capacities
  BY DEF PlacesInv, P!TypeOK
<1>2. q \in RequestType /\ q.at = "checked" /\ HasRead(q)
  BY <1>1 DEF RequestType, HasRead
<1>3. clerks' = [clerks EXCEPT ![k] = q] /\ UNCHANGED <<assigned, capacity, opened, home, gone>>
  BY DEF P!Check
<1> HIDE DEF q
<1> QED
  BY <1>2, <1>3, RequestStep

LEMMA Answered ==
  ASSUME NEW k \in Clerks, NEW r \in {"none", "done", "refused"}
  PROVE  P!Answer(r) \in RequestType /\ P!Answer(r).at = "idle"
BY DEF P!Answer, P!NoRequest, RequestType

LEMMA DecideKeeps ==
  ASSUME P!PlaceConstants, PlacesInv, NEW k \in Clerks, P!Decide(k)
  PROVE  PlacesInv'
<1> DEFINE c == clerks[k].child
           g == clerks[k].group
           d == clerks[k].from
           reply == IF \E a \in P!Current(c, d) : a.group = g THEN "done"
                    ELSE IF ~clerks[k].force /\ P!Peak(g, d) >= clerks[k].capacity THEN "refused"
                    ELSE IF \E a \in assigned : a.child = c /\ a.from > d THEN "refused"
                    ELSE "none"
           q == [clerks[k] EXCEPT !.at = "write"]
<1>1. /\ clerks[k].at = "checked" /\ P!Lockable(c, g)
      /\ clerks' = [clerks EXCEPT ![k] = IF reply = "none" THEN q ELSE P!Answer(reply)]
      /\ UNCHANGED <<assigned, capacity, opened, home, gone>>
  BY DEF P!Decide
<1>2. HasRead(clerks[k]) /\ clerks[k] \in RequestType
  BY <1>1 DEF PlacesInv, P!TypeOK, RequestType
<1>3. CASE reply # "none"
  <2>1. P!Answer(reply) \in RequestType /\ P!Answer(reply).at = "idle"
    BY Answered
  <2>2. clerks' = [clerks EXCEPT ![k] = P!Answer(reply)]
    BY <1>1, <1>3
  <2> QED
    BY <1>1, <2>1, <2>2, RequestStep
<1>4. CASE reply = "none"
  <2>1. clerks' = [clerks EXCEPT ![k] = q]
    BY <1>1, <1>4
  <2>2. /\ q \in RequestType /\ q.at = "write"
        /\ q.child = c /\ q.group = g /\ q.from = d /\ q.force = clerks[k].force
        /\ q.capacity = clerks[k].capacity /\ q.reply = clerks[k].reply
    BY <1>2 DEF RequestType
  <2>3. /\ ~clerks[k].force => ~(P!Peak(g, d) >= clerks[k].capacity)
        /\ ~ \E a \in assigned : a.child = c /\ a.from > d
    BY <1>4
  <2>4. \A a \in assigned : a.child = c => a.from <= d
    BY <1>2, <2>3 DEF PlacesInv, P!TypeOK, P!Assignment, HasRead, P!Days
  <2>5. ASSUME ~clerks[k].force, NEW e \in d..P!Forever
        PROVE  Cardinality(P!Occupants(g, e)) < clerks[k].capacity
    <3>1. clerks[k].capacity \in Nat /\ d \in P!Days
      BY <1>2 DEF HasRead, P!PlaceConstants
    <3>2. Cardinality(P!Occupants(g, e)) <= P!Peak(g, d) /\ P!Peak(g, d) \in Nat
      BY <3>1, PeakBounds DEF PlacesInv
    <3>3. Cardinality(P!Occupants(g, e)) \in Nat
      BY OccupantsFinite DEF PlacesInv
    <3> QED
      BY <2>3, <2>5, <3>1, <3>2, <3>3
  <2>6. HasRead(q)
    BY <1>2, <2>2 DEF HasRead
  <2>7. \A j \in Clerks : clerks[j].at = "write" => clerks[j].child # c /\ clerks[j].group # g
    BY <1>1 DEF P!Lockable, P!ChildIsFree, P!GroupIsFree
  <2> HIDE DEF q, c, g, d
  <2> QED
    BY <1>1, <2>1, <2>2, <2>4, <2>5, <2>6, <2>7, RequestStep
<1> QED
  BY <1>3, <1>4

LEMMA LoseKeeps ==
  ASSUME P!PlaceConstants, PlacesInv, NEW k \in Clerks, P!Lose(k)
  PROVE  PlacesInv'
<1>1. P!NoRequest \in RequestType /\ P!NoRequest.at = "idle"
  BY DEF P!NoRequest, RequestType
<1> QED
  BY <1>1, RequestStep DEF P!Lose

\* Rows that change are those of one child whose row no request holds; nobody
\* gets a place by it.
LEMMA ChildStep ==
  ASSUME P!PlaceConstants, PlacesInv, P!TypeOK', OneGroupADay', UNCHANGED clerks,
         NEW c \in Children, P!ChildIsFree(c),
         \A a \in assigned' : a.child # c => a \in assigned,
         \A g, e : e \in P!Days \cup {P!Forever} => P!Occupants(g, e)' \subseteq P!Occupants(g, e)
  PROVE  PlacesInv'
<1>1. ASSUME NEW j \in Clerks, clerks'[j].at = "checked" PROVE HasRead(clerks[j])'
  BY <1>1 DEF PlacesInv, HasRead, P!Days
<1>2. ASSUME NEW j \in Clerks, clerks'[j].at = "write" PROVE Holds(j)'
  <2>1. clerks[j].at = "write" /\ clerks'[j] = clerks[j] /\ clerks[j].child # c
    BY <1>2 DEF P!ChildIsFree
  <2> QED
    BY <2>1, StillHolds
<1> QED
  BY <1>1, <1>2 DEF PlacesInv

LEMMA LeaveKeeps ==
  ASSUME P!PlaceConstants, PlacesInv, NEW c \in Children, NEW d \in P!Days, P!Leave(c, d)
  PROVE  PlacesInv'
<1> DEFINE cut(a) == [a EXCEPT !.to = IF @ > d THEN d ELSE @]
           mine == {x \in assigned : x.child = c /\ x.from <= d}
<1>0. LastDay \in Nat /\ d \in 1..LastDay /\ P!Forever = LastDay + 1
  BY DEF P!PlaceConstants, P!Days, P!Forever
<1>1. /\ assigned' = {a \in assigned : a.child # c} \cup {cut(a) : a \in mine}
      /\ UNCHANGED <<capacity, opened, home, gone, clerks>> /\ P!ChildIsFree(c)
  BY DEF P!Leave
<1>2. ASSUME NEW a \in assigned
      PROVE  /\ a.child \in Children /\ a.group \in Groups /\ a.from \in P!Days
             /\ a.to \in P!Days \cup {P!Forever} /\ a.from \in Nat /\ a.to \in Nat /\ a.from <= a.to
             /\ a \in P!Assignment
  BY <1>0 DEF PlacesInv, P!TypeOK, P!Assignment, P!Days, P!Forever
<1>3. ASSUME NEW a \in mine
      PROVE  /\ cut(a) \in P!Assignment /\ cut(a).child = c /\ cut(a).group = a.group
             /\ cut(a).from = a.from /\ cut(a).to = (IF a.to > d THEN d ELSE a.to)
             /\ cut(a).from <= cut(a).to /\ cut(a).to <= a.to
  <2>1. a \in assigned /\ a \in P!Assignment /\ a.child = c /\ a.from <= d
    BY <1>2
  <2>2. cut(a) = [a EXCEPT !.to = IF a.to > d THEN d ELSE a.to]
    BY <2>1 DEF P!Assignment
  <2>3. (IF a.to > d THEN d ELSE a.to) \in P!Days \cup {P!Forever}
    BY <2>1, <1>2
  <2> DEFINE to == IF a.to > d THEN d ELSE a.to
  <2>4. to <= a.to /\ a.from <= to
    BY <2>1, <1>0, <1>2
  <2> HIDE DEF to, cut
  <2> QED
    BY <2>1, <2>2, <2>3, <2>4 DEF P!Assignment, to
<1> HIDE DEF cut
<1>4. P!TypeOK'
  BY <1>1, <1>2, <1>3 DEF PlacesInv, P!TypeOK, P!Days, P!Assignment, P!Forever
<1>5. ASSUME NEW a \in assigned'
      PROVE  \E b \in assigned : /\ a.child = b.child /\ a.group = b.group /\ a.from = b.from
                                 /\ a.to <= b.to /\ a.to \in Nat
                                 /\ a = IF b.child = c THEN cut(b) ELSE b
  BY <1>1, <1>2, <1>3, <1>0
<1>6. OneGroupADay'
  BY <1>2, <1>5 DEF PlacesInv, OneGroupADay
<1>7. ASSUME NEW g, NEW e \in P!Days \cup {P!Forever}
      PROVE  P!Occupants(g, e)' \subseteq P!Occupants(g, e)
  <2>1. e \in Nat
    BY <1>0 DEF P!Days, P!Forever
  <2> QED
    BY <1>1, <1>2, <1>5, <2>1 DEF P!Occupants, P!Covers
<1>8. \A a \in assigned' : a.child # c => a \in assigned
  BY <1>1, <1>3
<1> QED
  BY <1>1, <1>4, <1>6, <1>7, <1>8, ChildStep

LEMMA TransferKeeps ==
  ASSUME P!PlaceConstants, PlacesInv, NEW k \in Clerks, P!Transfer(k)
  PROVE  PlacesInv'
<1> DEFINE c == clerks[k].child
           d == clerks[k].from
           h == clerks[k].group
           new == [child |-> c, group |-> h, from |-> d, to |-> P!Forever]
           shortened(a) == [a EXCEPT !.to = d - 1]
           cut == {x \in P!Current(c, d) : x.from # d}
<1>1. /\ clerks[k].at = "write"
      /\ assigned' = ((assigned \ P!Current(c, d)) \cup {shortened(a) : a \in cut}) \cup {new}
      /\ clerks' = [clerks EXCEPT ![k] = P!Answer("done")]
      /\ UNCHANGED <<capacity, opened, home, gone>>
  BY DEF P!Transfer, P!OldPlaceEnded
<1>2. Holds(k) /\ c \in Children /\ h \in Groups /\ d \in P!Days
  BY <1>1 DEF PlacesInv, Holds, HasRead
<1>0. LastDay \in Nat /\ d \in 1..LastDay /\ P!Forever = LastDay + 1
  BY <1>2 DEF P!PlaceConstants, P!Days, P!Forever
<1>3. ASSUME NEW a \in assigned
      PROVE  /\ a.child \in Children /\ a.group \in Groups /\ a.from \in P!Days
             /\ a.to \in P!Days \cup {P!Forever} /\ a.from \in 1..LastDay /\ a.to \in Nat
             /\ a.from <= a.to /\ a \in P!Assignment
             /\ a.child = c => a.from <= d
  BY <1>0, <1>2 DEF PlacesInv, Holds, P!TypeOK, P!Assignment, P!Days, P!Forever
<1>4. ASSUME NEW a \in cut
      PROVE  /\ shortened(a) \in P!Assignment /\ shortened(a).child = c /\ shortened(a).group = a.group
             /\ shortened(a).from = a.from /\ shortened(a).to = d - 1 /\ d - 1 \in Nat
             /\ a.from <= d - 1 /\ d - 1 < a.to /\ a \in assigned /\ a.child = c
  <2>1. a \in assigned /\ a \in P!Assignment /\ a.child = c /\ a.from < d /\ d <= a.to
    BY <1>0, <1>3 DEF P!Current, P!Covers
  <2>2. d - 1 \in P!Days /\ a.from <= d - 1 /\ d - 1 < a.to /\ d - 1 \in Nat
    BY <2>1, <1>0, <1>3 DEF P!Days
  <2> QED
    BY <2>1, <2>2 DEF P!Assignment
<1>5. /\ new \in P!Assignment /\ new.child = c /\ new.group = h /\ new.from = d
      /\ new.to = P!Forever
  BY <1>2 DEF P!Assignment
<1> HIDE DEF new, shortened
\* An earlier row, or one that now ends earlier, or the new one.
<1>6. ASSUME NEW a \in assigned', a # new
      PROVE  \E b \in assigned : /\ a.child = b.child /\ a.group = b.group /\ a.from = b.from
                                 /\ a.to <= b.to /\ a.to \in Nat /\ a.from <= a.to
                                 /\ a.child = c => a.to < d
                                 /\ a \in P!Assignment
                                 /\ a = b \/ (a = shortened(b) /\ b \in cut)
  <2>1. CASE a \in assigned \ P!Current(c, d)
    BY <1>0, <1>3, <2>1 DEF P!Current, P!Covers
  <2>2. CASE a \in {shortened(b) : b \in cut}
    <3>1. PICK b \in cut : a = shortened(b)
      BY <2>2
    <3> QED
      BY <1>0, <1>3, <1>4, <3>1
  <2> QED
    BY <1>1, <1>6, <2>1, <2>2
<1>7. P!TypeOK'
  <2>1. clerks' \in [Clerks -> RequestType]
    BY <1>1, Answered DEF PlacesInv, P!TypeOK, RequestType
  <2>2. \A a \in assigned' : a \in P!Assignment /\ a.from <= a.to
    BY <1>0, <1>5, <1>6
  <2> QED
    BY <1>1, <2>1, <2>2 DEF PlacesInv, P!TypeOK, P!Assignment, P!Days, P!Forever, RequestType
<1>8. OneGroupADay'
  <2> SUFFICES ASSUME NEW a \in assigned', NEW b \in assigned', a # b, a.child = b.child
               PROVE  a.to < b.from \/ b.to < a.from
    BY DEF OneGroupADay
  <2>1. CASE a = new
    BY <1>5, <1>6, <2>1
  <2>2. CASE b = new
    BY <1>5, <1>6, <2>2
  <2>3. CASE a # new /\ b # new
    <3>1. PICK x \in assigned : /\ a.child = x.child /\ a.from = x.from /\ a.to <= x.to /\ a.to \in Nat
                                /\ a = x \/ a = shortened(x)
                                /\ a = x \/ x \in cut
      BY <1>6, <2>3
    <3>2. PICK y \in assigned : /\ b.child = y.child /\ b.from = y.from /\ b.to <= y.to /\ b.to \in Nat
                                /\ b = y \/ b = shortened(y)
                                /\ b = y \/ y \in cut
      BY <1>6, <2>3
    <3>3. x # y
      <4> SUFFICES ASSUME x = y PROVE FALSE
        OBVIOUS
      <4>1. x \in cut /\ (a = x \/ b = x)
        BY <3>1, <3>2
      <4>2. x.child = c /\ x.to >= d
        BY <4>1, <1>0, <1>3, <1>4
      <4> QED
        BY <4>1, <4>2, <1>0, <1>3, <1>6, <2>3
    <3>4. x.to < y.from \/ y.to < x.from
      BY <3>1, <3>2, <3>3 DEF PlacesInv, OneGroupADay
    <3> QED
      BY <1>3, <3>1, <3>2, <3>4
  <2> QED
    BY <2>1, <2>2, <2>3
<1>9. clerks'[k] = P!Answer("done") /\ \A j \in Clerks : j # k => clerks'[j] = clerks[j]
  BY <1>1 DEF PlacesInv, P!TypeOK
<1>10. clerks'[k].at = "idle"
  BY <1>9, Answered
<1>11. ASSUME NEW j \in Clerks, clerks'[j].at = "checked" PROVE HasRead(clerks[j])'
  BY <1>9, <1>10, <1>11 DEF PlacesInv, HasRead, P!Days
<1>12. ASSUME NEW j \in Clerks, clerks'[j].at = "write" PROVE Holds(j)'
  <2>1. j # k /\ clerks[j].at = "write" /\ clerks'[j] = clerks[j]
    BY <1>9, <1>10, <1>12
  <2>2. clerks[j].child # c /\ clerks[j].group # h
    BY <1>1, <2>1 DEF PlacesInv
  <2>3. ASSUME NEW a \in assigned', a.child = clerks[j].child
        PROVE  \E b \in assigned : b.child = a.child /\ b.from = a.from
    BY <1>5, <1>6, <2>2, <2>3
  <2>4. ASSUME NEW e \in P!Days \cup {P!Forever}
        PROVE  P!Occupants(clerks[j].group, e)' \subseteq P!Occupants(clerks[j].group, e)
    <3>1. e \in Nat
      BY <1>0 DEF P!Days, P!Forever
    <3>2. ASSUME NEW a \in assigned', a.group = clerks[j].group, P!Covers(a, e)
          PROVE  \E b \in assigned : b.child = a.child /\ b.group = a.group /\ P!Covers(b, e)
      <4>1. a # new
        BY <1>5, <2>2, <3>2
      <4> QED
        BY <1>3, <1>6, <3>1, <3>2, <4>1 DEF P!Covers
    <3> QED
      BY <1>1, <2>1, <3>2 DEF P!Occupants, P!Covers
  <2> QED
    BY <1>7, <2>1, <2>3, <2>4, StillHolds
<1>13. ASSUME NEW i \in Clerks, NEW j \in Clerks, i # j, clerks'[i].at = "write", clerks'[j].at = "write"
       PROVE  clerks'[i].child # clerks'[j].child /\ clerks'[i].group # clerks'[j].group
  BY <1>9, <1>10, <1>13 DEF PlacesInv
<1> QED
  BY <1>7, <1>8, <1>11, <1>12, <1>13 DEF PlacesInv

\* A step that changes neither the rows nor the requests, and removes children at
\* most.
LEMMA OtherStep ==
  ASSUME P!PlaceConstants, PlacesInv, P!TypeOK', UNCHANGED <<assigned, clerks>>,
         gone \subseteq gone'
  PROVE  PlacesInv'
<1>1. OneGroupADay'
  BY DEF PlacesInv, OneGroupADay
<1>2. ASSUME NEW j \in Clerks, clerks'[j].at = "checked" PROVE HasRead(clerks[j])'
  BY <1>2 DEF PlacesInv, HasRead, P!Days
<1>3. ASSUME NEW j \in Clerks, clerks'[j].at = "write" PROVE Holds(j)'
  <2>1. \A e : P!Occupants(clerks[j].group, e)' \subseteq P!Occupants(clerks[j].group, e)
    BY DEF P!Occupants, P!Covers
  <2> QED
    BY <1>3, <2>1, StillHolds
<1> QED
  BY <1>1, <1>2, <1>3 DEF PlacesInv

LEMMA PlacesStep ==
  ASSUME P!PlaceConstants, PlacesInv, [P!Next]_PlaceVars
  PROVE  PlacesInv'
<1>1. ASSUME NEW k \in Clerks, NEW c \in Children, NEW g \in Groups, NEW d \in P!Days,
             NEW force \in BOOLEAN, P!Check(k, c, g, d, force)
      PROVE  PlacesInv'
  BY <1>1, CheckKeeps
<1>2. ASSUME NEW k \in Clerks, P!Decide(k) \/ P!Transfer(k) \/ P!Lose(k)
      PROVE  PlacesInv'
  BY <1>2, DecideKeeps, TransferKeeps, LoseKeeps
<1>3. ASSUME NEW c \in Children, NEW d \in P!Days, P!Leave(c, d)
      PROVE  PlacesInv'
  BY <1>3, LeaveKeeps
<1>4. ASSUME NEW c \in Children, NEW b \in Branches, P!MoveBranch(c, b)
      PROVE  PlacesInv'
  <2>1. P!TypeOK'
    BY <1>4 DEF P!MoveBranch, PlacesInv, P!TypeOK, P!Assignment, P!Days, P!Forever
  <2> QED
    BY <1>4, <2>1, OtherStep DEF P!MoveBranch
<1>5. ASSUME NEW c \in Children, P!remove(c)
      PROVE  PlacesInv'
  <2>1. P!TypeOK'
    BY <1>5 DEF P!remove, PlacesInv, P!TypeOK, P!Assignment, P!Days, P!Forever
  <2> QED
    BY <1>5, <2>1, OtherStep DEF P!remove
<1>6. ASSUME NEW g \in Groups, NEW n \in Capacities, NEW isActive \in BOOLEAN,
             P!update(g, n, isActive)
      PROVE  PlacesInv'
  <2>1. P!TypeOK'
    BY <1>6 DEF P!update, PlacesInv, P!TypeOK, P!Assignment, P!Days, P!Forever
  <2> QED
    BY <1>6, <2>1, OtherStep DEF P!update
<1>7. ASSUME UNCHANGED PlaceVars
      PROVE  PlacesInv'
  <2>1. P!TypeOK'
    BY <1>7 DEF PlaceVars, PlacesInv, P!TypeOK, P!Assignment, P!Days, P!Forever
  <2> QED
    BY <1>7, <2>1, OtherStep DEF PlaceVars
<1> QED
  BY <1>1, <1>2, <1>3, <1>4, <1>5, <1>6, <1>7 DEF P!Next

LEMMA PlacesInvariance == ASSUME P!PlaceConstants PROVE P!Spec => []PlacesInv
<1>1. P!Init => PlacesInv
  BY PlacesInit
<1>2. PlacesInv /\ [P!Next]_PlaceVars => PlacesInv'
  BY PlacesStep
<1> QED
  BY <1>1, <1>2, PTL DEF P!Spec, P!vars, PlaceVars

\* At most one group for a child on a day, whichever requests race; so the count
\* of places by events is the largest number of children on any one day.
THEOREM CountIsExact == ASSUME P!PlaceConstants PROVE P!Spec => []PeakIsExact
<1>1. PlacesInv => PeakIsExact
  <2> SUFFICES ASSUME PlacesInv PROVE PeakIsExact
    OBVIOUS
  <2>1. P!TypeOK /\ OneGroupADay
    BY DEF PlacesInv
  <2>2. \A g \in Groups, d \in P!Days :
          P!Peak(g, d) = P!Max({P!Cardinality(P!Occupants(g, e)) : e \in d..P!Forever})
    BY <2>1, PeakCounts
  <2> QED
    BY <2>1, <2>2 DEF PeakIsExact, P!PeakIsExact, OneGroupADay
<1> QED
  BY <1>1, PlacesInvariance, PTL

\* When a transfer without force=true commits, no day from its first one on has
\* more children in the group than the capacity that was read.
THEOREM NobodyBeyondCapacity == ASSUME P!PlaceConstants PROVE P!Spec => AdmittedWithinRead
<1> DEFINE Admitted == \A k \in Clerks, g \in Groups : P!Commits(k, g) =>
                  \A d \in clerks[k].from..P!Forever :
                    P!Cardinality(P!Occupants(g, d)') <= clerks[k].capacity
<1>1. ASSUME PlacesInv, P!Next PROVE Admitted
  <2> SUFFICES ASSUME NEW k \in Clerks, NEW g \in Groups, P!Commits(k, g),
                      NEW d \in clerks[k].from..P!Forever
               PROVE  Cardinality(P!Occupants(g, d)') <= clerks[k].capacity
    BY SameCount
  <2>1. /\ clerks[k].at = "write" /\ clerks[k].group = g /\ ~clerks[k].force
        /\ clerks'[k].reply = "done" /\ Holds(k) /\ HasRead(clerks[k])
        /\ clerks[k] \in RequestType
    BY <1>1 DEF P!Commits, PlacesInv, Holds, P!TypeOK, RequestType
  <2>2. P!Transfer(k)
    <3>1. clerks[k].reply = "none" /\ clerks' # clerks
      BY <2>1 DEF HasRead
    <3>2. ASSUME NEW j \in Clerks, NEW c \in Children, NEW h \in Groups, NEW e \in P!Days,
                 NEW force \in BOOLEAN, P!Check(j, c, h, e, force)
          PROVE  FALSE
      BY <1>1, <2>1, <3>1, <3>2 DEF P!Check, PlacesInv, P!TypeOK
    <3>3. ASSUME NEW j \in Clerks, P!Decide(j) \/ P!Lose(j) PROVE FALSE
      BY <1>1, <2>1, <3>1, <3>3 DEF P!Decide, P!Lose, P!NoRequest, PlacesInv, P!TypeOK
    <3>4. ASSUME NEW j \in Clerks, j # k, P!Transfer(j) PROVE FALSE
      BY <1>1, <2>1, <3>1, <3>4 DEF P!Transfer, PlacesInv, P!TypeOK
    <3>5. ~UNCHANGED clerks
      BY <3>1
    <3> QED
      BY <1>1, <3>2, <3>3, <3>4, <3>5 DEF P!Next, P!Leave, P!MoveBranch, P!remove, P!update
  <2>3. P!Occupants(g, d)' \in SUBSET (P!Occupants(g, d) \cup {clerks[k].child})
    <3>1. \A a \in assigned' : a \in assigned \/ a.child = clerks[k].child
      BY <1>1, <2>2 DEF P!Transfer, P!OldPlaceEnded, P!Current, PlacesInv, P!TypeOK, P!Assignment
    <3> QED
      BY <2>2, <3>1 DEF P!Transfer, P!Occupants, P!Covers
  <2>4. /\ IsFiniteSet(P!Occupants(g, d)) /\ Cardinality(P!Occupants(g, d)) \in Nat
        /\ Cardinality(P!Occupants(g, d)) < clerks[k].capacity /\ clerks[k].capacity \in Nat
    <3>1. IsFiniteSet(P!Occupants(g, d)) /\ Cardinality(P!Occupants(g, d)) \in Nat
      BY <1>1, OccupantsFinite DEF PlacesInv
    <3>2. Cardinality(P!Occupants(g, d)) < clerks[k].capacity
      BY <2>1 DEF Holds
    <3>3. clerks[k].capacity \in Nat
      BY <2>1 DEF HasRead, P!PlaceConstants
    <3> QED
      BY <3>1, <3>2, <3>3
  <2> DEFINE before == P!Occupants(g, d)
             after == P!Occupants(g, d)'
  <2> HIDE DEF before, after
  <2>5. /\ IsFiniteSet(before \cup {clerks[k].child})
        /\ Cardinality(before \cup {clerks[k].child}) <= Cardinality(before) + 1
        /\ Cardinality(before \cup {clerks[k].child}) \in Nat
    <3>1. IsFiniteSet(before) /\ Cardinality(before) \in Nat
      BY <2>4 DEF before
    <3> DEFINE both == before \cup {clerks[k].child}
    <3>2. /\ IsFiniteSet(both)
          /\ Cardinality(both) = Cardinality(before) \/ Cardinality(both) = Cardinality(before) + 1
      BY <3>1, FS_AddElement, Zenon
    <3> QED
      BY <3>1, <3>2
  <2>6. /\ Cardinality(after) <= Cardinality(before \cup {clerks[k].child})
        /\ Cardinality(after) \in Nat
    BY <2>3, <2>5, FS_Subset, FS_CardinalityType DEF before, after
  <2> QED
    BY <2>4, <2>5, <2>6 DEF before, after
<1>2. PlacesInv /\ [P!Next]_PlaceVars => [Admitted]_PlaceVars
  BY <1>1
<1> QED
  BY <1>2, PlacesInvariance, PTL DEF P!Spec, P!vars, PlaceVars, AdmittedWithinRead, P!AdmittedWithinRead
===============================================================================
