------------------------------ MODULE MCOffice ------------------------------
\* TelegramBot, Exports and Landing for TLC.  They share no state: in each
\* behaviour one of them is at work while the others rest.
EXTENDS Exports, Sequences, TLC

CONSTANTS
    Parts,       \* which of "bot", "exports" and "page" the run is about
    Guardians, Chats, Tokens, Handlers, MaxUpdates, MaxCrashes, MaxFailures,
    b1, b2, g1, g2,
    Blocks, Contents, Seos, Editors, Publishers, MaxStops, MaxVersion, MaxNow

VARIABLES
    which,
    mode, sent, acked, bot, work, binding, token, inviting, bound, handled,
    failed, botFaults,
    draft, page, versions, edit, publishing, stops, behind, now

ASSUME ExportConstants

MCKeys == {"charge:read", "payment:read", "attendance:read"}

\* A scope of the money and one of the attendance.
Access(m, s, b, g) ==
    [scope |-> [k \in MCKeys |-> IF k = "attendance:read" THEN s ELSE m],
     branches |-> [k \in MCKeys |-> b], groups |-> g]

\* Access to all, to one or two branches, to one or two groups, to the present
\* day, and access in which one permission is wider or missing.
MCAccesses ==
    {Access("all", "all", {}, {}), Access("branch", "branch", {b1}, {g1}),
     Access("branch", "branch", {b1, b2}, {}), Access("branch", "own_group", {b1}, {}),
     Access("none", "own_group", {b1}, {g1}), Access("branch", "own_group", {b1}, {g1, g2}),
     Access("none", "own_group", {b1, b2}, {g2}), Access("none", "today", {b1}, {})}
        \cup {[Access("branch", "branch", {b1}, {g1}) EXCEPT !.scope["charge:read"] = s] :
                s \in {"none", "all"}}

Bot == INSTANCE TelegramBot WITH faults <- botFaults

L == INSTANCE Landing WITH work <- publishing

ASSUME L!LandingConstants

BotVars == <<mode, sent, acked, bot, work, binding, token, inviting, bound,
             handled, failed, botFaults>>

PageVars == <<draft, page, versions, edit, publishing, stops, behind, now>>

allVars == <<which, BotVars, vars, PageVars>>

OnlyBot == which = "bot" /\ UNCHANGED <<which, vars, PageVars>>
OnlyExports == which = "exports" /\ UNCHANGED <<which, BotVars, PageVars>>
OnlyPage == which = "page" /\ UNCHANGED <<which, BotVars, vars>>

MCInit ==
    /\ which \in Parts
    /\ Bot!Init /\ Init /\ L!Init
    /\ which # "bot" => mode = "polling"
    /\ which # "exports" => access = Access("all", "all", {}, {})
    /\ which # "page" => page.seo = CHOOSE s \in Seos : TRUE

MCNext ==
    \/ OnlyBot /\ Bot!Next
    \/ OnlyExports /\ Next
    \/ OnlyPage /\ L!Next

\* The fairness of TelegramBot and of Exports.
MCFairness ==
    /\ WF_allVars(OnlyBot /\ Bot!onApplicationBootstrap)
    /\ WF_allVars(OnlyBot /\ Bot!getUpdates)
    /\ \A h \in Handlers :
        WF_allVars(OnlyBot /\ Bot!Receive(h)) /\ WF_allVars(OnlyBot /\ Bot!Handle(h))
    /\ \A w \in Workers : WF_allVars(OnlyExports /\ Work(w))
    /\ \A i \in Exported : WF_allVars(OnlyExports /\ Retry(i))

MCSpec == MCInit /\ [][MCNext]_allVars /\ MCFairness

PageSymmetry ==
    Permutations(Blocks) \cup Permutations(Contents) \cup Permutations(Seos)
        \cup Permutations(Publishers) \cup Permutations(Editors)

-----------------------------------------------------------------------------
\* Bot!StopIsFinal, with the type invariants of both modules.
StopIsFinal == Bot!TypeOK /\ TypeOK /\ Bot!StopIsFinal

\* Every message a chat sends is handled in the end.
UpdatesHandled == Bot!UpdatesHandled

\* What visitors see is the last row of a history without gaps or rivals.
LiveIsLatest == L!LiveIsLatest

\* A draft that is not what visitors see is reported as unpublished.
DifferenceIsSeen == L!DifferenceIsSeen
=============================================================================
