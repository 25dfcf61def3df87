---------------------------- MODULE TelegramBot ----------------------------
(***************************************************************************)
(* How a guardian's chat is bound to the bot: link tokens, the shared      *)
(* contact, /stop and /language, and the two transports that bring these   *)
(* messages (src/src/telegram/telegram-binding.service.ts,                 *)
(* telegram-update-handler.service.ts, telegram-polling.service.ts,        *)
(* telegram-webhook.controller.ts, telegram-invite.controller.ts).         *)
(*                                                                         *)
(* Telegram keeps every update until it is acknowledged: by an offset      *)
(* beyond it in polling mode, by the answer to its delivery in webhook     *)
(* mode.  Replies to the chat are left out: nothing depends on them.  One  *)
(* tenant; a contact that matches no guardian or several is an update      *)
(* without effect.  Calls of setWebhook and deleteWebhook succeed: the     *)
(* README says what a failure of theirs does.                              *)
(***************************************************************************)
EXTENDS Integers, FiniteSetsExt, Sequences

CONSTANTS
    Guardians,
    Chats,
    Tokens,       \* the link tokens that may be created
    Handlers,     \* updates handled at once in webhook mode
    MaxUpdates,   \* bound on updates
    MaxCrashes,   \* bound on stops of the process
    MaxFailures   \* bound on failing handlers

VARIABLES
    mode,       \* TELEGRAM_MODE: polling or webhook
    sent,       \* every update the chats have sent; its id is its place
    acked,      \* ids Telegram will not deliver again
    bot,        \* the process: its transport, and the polling loop's offset and batch
    work,       \* the update each handler is at
    binding,    \* active rows of telegram_binding
    token,      \* telegram_link_token
    inviting,   \* guardians whose invitation has expired the older tokens
    bound,      \* pairs of a token and a chat it was accepted from
    handled,    \* ids whose handler has returned
    failed,     \* ids whose last handler threw
    faults      \* numbers of crashes and failures so far

vars == <<mode, sent, acked, bot, work, binding, token, inviting, bound, handled,
          failed, faults>>

Rows == <<binding, token, inviting, bound>>

Idle == [id |-> 0, pc |-> "idle"]
Down == [pc |-> "down", offset |-> 0, batch |-> {}]

Ids == DOMAIN sent
Update(h) == sent[work[h].id]
Of(h, kind) == work[h].pc = "handle" /\ Update(h).kind = kind

\* The handler of h returns: the answer to a webhook acknowledges its update.
Return(h) ==
    /\ work' = [work EXCEPT ![h] = Idle]
    /\ handled' = handled \cup {work[h].id}
    /\ acked' = IF mode = "polling" THEN acked ELSE acked \cup {work[h].id}
    /\ UNCHANGED <<mode, sent, bot>>

Succeed(h) == Return(h) /\ failed' = failed \ {work[h].id} /\ UNCHANGED faults

(***************************************************************************)
(* The people: chats write, time passes over a token, clerks invite.       *)
(***************************************************************************)
Updates ==
    [kind : {"start"}, chat : Chats, token : Tokens]
        \cup [kind : {"contact"}, chat : Chats, guardian : Guardians]
        \cup [kind : {"stop", "language"}, chat : Chats]

Write ==
    /\ Len(sent) < MaxUpdates
    /\ \E u \in Updates :
        /\ u.kind = "start" => token[u.token].state # "none"
        /\ sent' = Append(sent, u)
    /\ UNCHANGED <<mode, acked, bot, work, Rows, handled, failed, faults>>

Lapse ==
    /\ \E t \in Tokens :
        /\ token[t].state = "fresh"
        /\ token' = [token EXCEPT ![t].state = "expired"]
    /\ UNCHANGED <<mode, sent, acked, bot, work, binding, inviting, bound, handled, failed, faults>>

\* createInviteToken: the older tokens expire in one statement and the new one
\* is created in the next.
ExpireOlder(g) ==
    /\ \E t \in Tokens : token[t].state = "none"
    /\ token' = [t \in Tokens |->
                    IF token[t].guardian = g /\ token[t].state = "fresh"
                    THEN [token[t] EXCEPT !.state = "expired"] ELSE token[t]]
    /\ inviting' = inviting \cup {g}
    /\ UNCHANGED <<mode, sent, acked, bot, work, binding, bound, handled, failed, faults>>

CreateToken(g) ==
    /\ g \in inviting
    /\ \E t \in Tokens :
        /\ token[t].state = "none"
        /\ token' = [token EXCEPT ![t] = [state |-> "fresh", guardian |-> g]]
    /\ \/ inviting' = inviting \ {g}
       \/ inviting' = inviting      \* another clerk is at the same place
    /\ UNCHANGED <<mode, sent, acked, bot, work, binding, bound, handled, failed, faults>>

(***************************************************************************)
(* The handlers.                                                           *)
(***************************************************************************)
\* Both unique indexes hold for active rows: the chat's and the guardian's
\* rows are unbound before the new one is made.
Bind(g, c) ==
    binding' = {b \in binding : b.chat # c /\ b.guardian # g}
                 \cup {[guardian |-> g, chat |-> c, language |-> "ru"]}

\* bindWithToken: the token's row is read, and refused if it is used or over.
ReadToken(h) ==
    /\ Of(h, "start")
    /\ IF token[Update(h).token].state = "fresh"
       THEN /\ work' = [work EXCEPT ![h].pc = "bind"]
            /\ UNCHANGED <<mode, sent, acked, bot, handled, failed, faults>>
       ELSE Succeed(h)
    /\ UNCHANGED Rows

\* The update that marks it used holds the token's row until the commit, and
\* does not look at it again.
UseToken(h) ==
    LET u == Update(h) IN
    /\ work[h].pc = "bind"
    /\ token' = [token EXCEPT ![u.token].state = "used"]
    /\ Bind(token[u.token].guardian, u.chat)
    /\ bound' = bound \cup {<<u.token, u.chat>>}
    /\ Succeed(h) /\ UNCHANGED inviting

bindByPhone(h) ==
    /\ Of(h, "contact")
    /\ Bind(Update(h).guardian, Update(h).chat)
    /\ Succeed(h) /\ UNCHANGED <<token, inviting, bound>>

unbindByChatId(h) ==
    /\ Of(h, "stop")
    /\ binding' = {b \in binding : b.chat # Update(h).chat}
    /\ Succeed(h) /\ UNCHANGED <<token, inviting, bound>>

\* The language is read in one statement and set in the next.
ReadLanguage(h) ==
    /\ Of(h, "language")
    /\ LET mine == {b \in binding : b.chat = Update(h).chat} IN
       IF mine = {} THEN Succeed(h)
       ELSE /\ \E b \in mine :
                work' = [work EXCEPT ![h].pc = IF b.language = "uz" THEN "ru" ELSE "uz"]
            /\ UNCHANGED <<mode, sent, acked, bot, handled, failed, faults>>
    /\ UNCHANGED Rows

setLanguageByChatId(h) ==
    /\ work[h].pc \in {"uz", "ru"}
    /\ binding' = {IF b.chat = Update(h).chat THEN [b EXCEPT !.language = work[h].pc] ELSE b :
                    b \in binding}
    /\ Succeed(h) /\ UNCHANGED <<token, inviting, bound>>

\* The handler throws before its change is committed: it is logged.
Throw(h) ==
    /\ work[h].id # 0 /\ faults.failures < MaxFailures
    /\ faults' = [faults EXCEPT !.failures = @ + 1]
    /\ failed' = failed \cup {work[h].id}
    /\ Return(h) /\ UNCHANGED Rows

Handle(h) ==
    \/ ReadToken(h) \/ UseToken(h) \/ bindByPhone(h) \/ unbindByChatId(h)
    \/ ReadLanguage(h) \/ setLanguageByChatId(h)

(***************************************************************************)
(* The transports.                                                         *)
(***************************************************************************)
\* setWebhook, or deleteWebhook and then the loop.
onApplicationBootstrap ==
    /\ bot = Down
    /\ bot' = [Down EXCEPT !.pc = IF mode = "polling" THEN "poll" ELSE "webhook"]
    /\ UNCHANGED <<mode, sent, acked, work, Rows, handled, failed, faults>>

\* The loop handles one update at a time.
AllIdle == \A h \in Handlers : work[h] = Idle

Below(offset) == {i \in Ids : i < offset}

\* MUTANT: the updates of the answer are acknowledged by it.
getUpdatesForGood ==
    /\ bot.pc = "poll" /\ acked' = Ids
    /\ Ids \ (acked \cup Below(bot.offset)) # {}
    /\ bot' = [bot EXCEPT !.pc = "batch", !.batch = Ids \ (acked \cup Below(bot.offset))]
    /\ UNCHANGED <<mode, sent, work, Rows, handled, failed, faults>>

getUpdates ==
    /\ bot.pc = "poll"
    /\ acked' = acked \cup Below(bot.offset)
    /\ Ids \ acked' # {}
    /\ bot' = [bot EXCEPT !.pc = "batch", !.batch = Ids \ acked']
    /\ UNCHANGED <<mode, sent, work, Rows, handled, failed, faults>>

\* The long poll ends empty, or its answer is lost on the way.
EmptyPoll ==
    /\ bot.pc = "poll"
    /\ acked' = acked \cup Below(bot.offset)
    /\ UNCHANGED <<mode, sent, bot, work, Rows, handled, failed, faults>>

\* An answer brings its updates in the order of their ids.  The offset moves
\* before the update is handled.
Take(h) ==
    /\ bot.pc = "batch" /\ AllIdle
    /\ \E id \in bot.batch :
        /\ \A other \in bot.batch : id <= other
        /\ work' = [work EXCEPT ![h] = [id |-> id, pc |-> "handle"]]
        /\ bot' = [bot EXCEPT !.offset = id + 1, !.batch = bot.batch \ {id}]
    /\ UNCHANGED <<mode, sent, acked, Rows, handled, failed, faults>>

EndBatch(h) ==
    /\ bot.pc = "batch" /\ bot.batch = {} /\ AllIdle
    /\ bot' = [bot EXCEPT !.pc = "poll"]
    /\ UNCHANGED <<mode, sent, acked, work, Rows, handled, failed, faults>>

\* Telegram posts an update that is not acknowledged.
webhook(h) ==
    /\ bot.pc = "webhook" /\ work[h] = Idle
    /\ \E id \in Ids \ acked :
        /\ \A k \in Handlers : work[k].id # id
        /\ work' = [work EXCEPT ![h] = [id |-> id, pc |-> "handle"]]
    /\ UNCHANGED <<mode, sent, acked, bot, Rows, handled, failed, faults>>

\* The process stops: the offset and the batch are in memory.
Crash ==
    /\ bot # Down /\ faults.crashes < MaxCrashes
    /\ faults' = [faults EXCEPT !.crashes = @ + 1]
    /\ bot' = Down
    /\ work' = [h \in Handlers |-> Idle]
    /\ UNCHANGED <<mode, sent, acked, Rows, handled, failed>>

-----------------------------------------------------------------------------
Init ==
    /\ mode \in {"polling", "webhook"}
    /\ sent = << >> /\ acked = {} /\ handled = {} /\ failed = {}
    /\ bot = Down
    /\ work = [h \in Handlers |-> Idle]
    /\ binding = {} /\ bound = {} /\ inviting = {}
    /\ \E g \in Guardians : token = [t \in Tokens |-> [state |-> "none", guardian |-> g]]
    /\ faults = [crashes |-> 0, failures |-> 0]

People ==
    \/ Write \/ Lapse
    \/ \E g \in Guardians : ExpireOlder(g) \/ CreateToken(g)

Receive(h) == Take(h) \/ EndBatch(h) \/ webhook(h)

Next ==
    \/ People
    \/ \E h \in Handlers : Receive(h) \/ Handle(h) \/ Throw(h)
    \/ onApplicationBootstrap \/ getUpdates \/ EmptyPoll \/ Crash

\* The process is started again, the loop goes on and so does a handler.
Fairness ==
    /\ WF_vars(onApplicationBootstrap) /\ WF_vars(getUpdates)
    /\ \A h \in Handlers : WF_vars(Receive(h)) /\ WF_vars(Handle(h))

Spec == Init /\ [][Next]_vars /\ Fairness

-----------------------------------------------------------------------------
(***************************************************************************)
(* Properties                                                              *)
(***************************************************************************)
\* Every variable keeps its type; a chat and a guardian have one active row.
TypeOK ==
    /\ sent \in Seq(Updates)
    /\ acked \subseteq Ids /\ handled \subseteq Ids /\ failed \subseteq handled
    /\ bot.pc \in {"down", "poll", "batch", "webhook"}
    /\ \A h \in Handlers : work[h].id \in Ids \cup {0}
    /\ \A b, d \in binding : b.chat = d.chat \/ b.guardian = d.guardian => b = d

BindingKinds == {"start", "contact", "stop"}

\* "/stop: Unbind", in polling mode: once Telegram will not deliver a chat's
\* messages again, and the last of those that bind or unbind is a /stop whose
\* handler did not fail, the chat is not bound; whatever was delivered again
\* after a crash.
StopIsFinal ==
    mode = "polling" => \A c \in Chats :
        LET mine == {i \in Ids : sent[i].chat = c /\ sent[i].kind \in BindingKinds} IN
        /\ mine # {} /\ mine \subseteq acked
        /\ sent[Max(mine)].kind = "stop" /\ Max(mine) \notin failed
        => \A b \in binding : b.chat # c

\* "A one-time deep link": one chat at most is told that a token bound it, in
\* polling mode.
OneTimeLink ==
    mode = "polling" => \A p, q \in bound : p[1] = q[1] => p = q

\* "Regenerating an invite invalidates any outstanding token for that
\* guardian": two are never valid at once.
OneLiveToken ==
    \A s, t \in Tokens :
        /\ token[s].state = "fresh" /\ token[t].state = "fresh"
        /\ token[s].guardian = token[t].guardian
        => s = t

\* Every message a chat sends is handled in the end, though the process may
\* stop anywhere and poll answers may be lost: again and again none is left.
UpdatesHandled ==
    []<>(Ids \subseteq handled)
=============================================================================
