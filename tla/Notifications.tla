---------------------------- MODULE Notifications ----------------------------
(***************************************************************************)
(* From an event to Telegram: a row in the notification table, a job in    *)
(* pg-boss, a worker that holds the row's lock while it calls Telegram,    *)
(* retries with a limit, a sweep that queues rows again whose job was      *)
(* lost, and the administrator's retry of a failed row.                    *)
(*                                                                         *)
(* Callers are API requests and event hooks: they write the row and send   *)
(* the job in separate steps, and may be lost in between.  A job and the   *)
(* worker that runs it are one record.  pg-boss gives a job to one worker  *)
(* at a time and runs it again when it failed or expired; its singletonKey *)
(* does not merge jobs of a queue with the standard policy, so a row can   *)
(* have several jobs.                                                      *)
(***************************************************************************)
EXTENDS Naturals, FiniteSets

CONSTANTS
  Notes,         \* natural numbers: rows in the order of queued_at
  Announced,     \* the rows that belong to the announcement
  Callers,
  NoNote,
  Slots,         \* bound: jobs of one row that exist at a time
  RetryLimit,    \* retryLimit the code gives a job
  DefaultLimit,  \* retryLimit of a job sent without options
  SweepBatch,    \* rows one sweep looks at
  MaxUnknown,    \* bound: answers of Telegram that are lost, per row
  MaxLost,       \* bound: other losses of a worker, per row
  MaxLimited,    \* bound: '429 Too Many Requests', per row
  MaxRequeued    \* bound: manual retries, per row

ASSUME NotificationConstants ==
  /\ Notes \subseteq Nat /\ IsFiniteSet(Notes)
  /\ Announced \subseteq Notes
  /\ NoNote \notin Notes
  /\ {RetryLimit, DefaultLimit, SweepBatch, MaxUnknown, MaxLost, MaxLimited,
      MaxRequeued} \subseteq Nat

VARIABLES
  internal,      \* the rows on channel 'internal'
  status,        \* status of each row, "none" before it is inserted
  attempts,      \* the row's count of attempts
  jobs,          \* jobs of each row, and the place of the worker that runs one
  binding,       \* the recipient's Telegram binding
  announcement,  \* the announcement: scheduled, live or removed
  callers,       \* the requests: the row they write, and what is left to do
  delivered,     \* messages Telegram accepted, for each row
  unknown,       \* those of them whose acceptance the worker did not record
  late,          \* calls of Telegram under way whose transaction is over
  spent          \* how much of the bounds on losses, limits and retries is used

moving == <<status, attempts, jobs, binding, announcement, callers, delivered,
            unknown, late, spent>>
vars == <<internal, moving>>

-----------------------------------------------------------------------------
NoJob == [at |-> "none", count |-> 0, limit |-> 0, answer |-> "none"]
Waiting(count, limit) == [NoJob EXCEPT !.at = "waiting", !.count = count, !.limit = limit]

Idle == [at |-> "idle", note |-> NoNote]

\* No worker holds the lock of row n.
IsFree(n) == \A k \in Slots : jobs[n][k].at \notin {"sending", "answered"}

Spend(n, what) == spent' = [spent EXCEPT ![n][what] = @ + 1]

Init ==
  /\ internal \in SUBSET Notes
  /\ status = [n \in Notes |-> "none"]
  /\ attempts = [n \in Notes |-> 0]
  /\ jobs = [n \in Notes |-> [k \in Slots |-> NoJob]]
  /\ binding \in [Notes -> {"bound", "blocked", "unbound"}]
  /\ announcement \in {"scheduled", "live"}
  /\ callers = [s \in Callers |-> Idle]
  /\ delivered = [n \in Notes |-> 0]
  /\ unknown = [n \in Notes |-> 0]
  /\ late = [n \in Notes |-> 0]
  /\ spent = [n \in Notes |-> [lost |-> 0, limited |-> 0, requeued |-> 0]]

-----------------------------------------------------------------------------
\* Requests.

\* enqueueDeduped writes the row, or finds the row of an earlier call.
InsertRow(s, n) ==
  /\ callers[s] = Idle
  /\ \A m \in Notes : m < n => status[m] # "none"
  /\ IsFree(n)
  /\ status' = [status EXCEPT ![n] = IF @ = "none" THEN "queued" ELSE @]
  /\ callers' = [callers EXCEPT ![s] = [at |-> "send", note |-> n]]
  /\ UNCHANGED <<attempts, jobs, binding, announcement, delivered, unknown, spent, late>>

\* ... and then sends the job.
SendJob(s, k) ==
  /\ callers[s].at = "send"
  /\ LET n == callers[s].note
     IN /\ jobs[n][k] = NoJob
        /\ jobs' = [jobs EXCEPT ![n][k] = Waiting(0, RetryLimit)]
  /\ callers' = [callers EXCEPT ![s] = Idle]
  /\ UNCHANGED <<status, attempts, binding, announcement, delivered, unknown, spent, late>>

\* retry reads the row ...
CheckRetry(s, n) ==
  /\ callers[s] = Idle
  /\ status[n] = "failed"
  /\ callers' = [callers EXCEPT ![s] = [at |-> "retry", note |-> n]]
  /\ UNCHANGED <<status, attempts, jobs, binding, announcement, delivered, unknown, spent, late>>

\* ... updates it, whatever its status is by now, and sends a job.
UpdateRetry(s) ==
  /\ callers[s].at = "retry"
  /\ LET n == callers[s].note
     IN /\ IsFree(n)
        /\ spent[n].requeued < MaxRequeued
        /\ status' = [status EXCEPT ![n] = "queued"]
        /\ Spend(n, "requeued")
  /\ callers' = [callers EXCEPT ![s].at = "send"]
  /\ UNCHANGED <<attempts, jobs, binding, announcement, delivered, unknown, late>>

\* The process stops between two statements of a request.
LoseCaller(s) ==
  /\ callers[s] # Idle
  /\ callers' = [callers EXCEPT ![s] = Idle]
  /\ UNCHANGED <<status, attempts, jobs, binding, announcement, delivered, unknown, spent, late>>

-----------------------------------------------------------------------------
\* Workers.  A worker settles row n when it writes its last status.
Settle(n, to) == status' = [status EXCEPT ![n] = to]

\* The job in slot k of row n becomes job.
Job(n, k, job) == jobs' = [jobs EXCEPT ![n][k] = job]

\* MUTANT: the worker does not lock the row.
BeginUnlocked(n, k) ==
  /\ jobs[n][k].at = "waiting"
  /\ status[n] = "queued"
  /\ binding[n] = "bound"
  /\ Job(n, k, [jobs[n][k] EXCEPT !.at = "sending"])
  /\ UNCHANGED <<status, attempts, binding, announcement, callers, delivered, unknown, spent, late>>

\* MUTANT: the worker does not look at the row's status.
BeginUnread(n, k) ==
  /\ jobs[n][k].at = "waiting"
  /\ IsFree(n)
  /\ binding[n] = "bound"
  /\ Job(n, k, [jobs[n][k] EXCEPT !.at = "sending"])
  /\ UNCHANGED <<status, attempts, binding, announcement, callers, delivered, unknown, spent, late>>

\* Lock the row, read it, and end the job early or call Telegram.
Begin(n, k) ==
  /\ jobs[n][k].at = "waiting"
  /\ IsFree(n)
  /\ \/ /\ status[n] # "queued"
        /\ Job(n, k, NoJob)
        /\ UNCHANGED status
     \/ /\ status[n] = "queued"
        /\ \/ /\ n \in Announced /\ announcement = "removed"
              /\ Job(n, k, NoJob) /\ Settle(n, "skipped")
           \/ /\ n \in Announced /\ announcement = "scheduled"
              /\ Job(n, k, Waiting(0, DefaultLimit)) /\ UNCHANGED status
           \/ /\ n \in Announced => announcement = "live"
              /\ \/ /\ n \in internal
                    /\ Job(n, k, NoJob) /\ Settle(n, "sent")
                 \/ /\ n \notin internal /\ binding[n] # "bound"
                    /\ Job(n, k, NoJob)
                    /\ Settle(n, IF binding[n] = "blocked" THEN "failed" ELSE "skipped")
                 \/ /\ n \notin internal /\ binding[n] = "bound"
                    /\ Job(n, k, [jobs[n][k] EXCEPT !.at = "sending"])
                    /\ UNCHANGED status
  /\ UNCHANGED <<attempts, binding, announcement, callers, delivered, unknown, spent, late>>

Answered(n, k, answer) == Job(n, k, [jobs[n][k] EXCEPT !.at = "answered", !.answer = answer])

\* Telegram accepts the message.
Accept(n, k) ==
  /\ jobs[n][k].at = "sending"
  /\ Answered(n, k, "ok")
  /\ delivered' = [delivered EXCEPT ![n] = @ + 1]
  /\ UNCHANGED <<status, attempts, binding, announcement, callers, unknown, spent, late>>

\* markBlocked and markUnboundById commit on their own.
Mark(n, answer) ==
  CASE answer = "blocked" -> binding' = [binding EXCEPT ![n] = "blocked"]
    [] answer = "chat_not_found" -> binding' = [binding EXCEPT ![n] = "unbound"]
    [] answer \in {"rate_limited", "other"} -> UNCHANGED binding

Limited(n, answer) ==
  IF answer = "rate_limited" THEN spent[n].limited < MaxLimited /\ Spend(n, "limited")
  ELSE UNCHANGED spent

\* Telegram refuses.
Refuse(n, k, answer) ==
  /\ jobs[n][k].at = "sending"
  /\ Answered(n, k, answer)
  /\ Mark(n, answer)
  /\ Limited(n, answer)
  /\ UNCHANGED <<status, attempts, announcement, callers, delivered, unknown, late>>

\* Telegram accepts, but the answer does not arrive: fetch reports an error.
LoseAnswer(n, k) ==
  /\ jobs[n][k].at = "sending"
  /\ unknown[n] < MaxUnknown
  /\ Answered(n, k, "other")
  /\ delivered' = [delivered EXCEPT ![n] = @ + 1]
  /\ unknown' = [unknown EXCEPT ![n] = @ + 1]
  /\ UNCHANGED <<status, attempts, binding, announcement, callers, spent, late>>

\* The job failed: pg-boss runs it again, up to its limit.
Again(job) == IF job.count < job.limit THEN Waiting(job.count + 1, job.limit) ELSE NoJob

IsFinalAttempt(job) == job.count >= job.limit

\* '429 Too Many Requests': another job, after the time Telegram asks for.
Deferred(job) == Waiting(0, DefaultLimit)

\* The status a row gets by the answer, or "queued" if the job has more to do.
Outcome(job) ==
  CASE job.answer = "ok" -> "sent"
    [] job.answer = "rate_limited" -> "queued"
    [] job.answer \in {"blocked", "chat_not_found"} -> "failed"
    [] job.answer = "other" -> IF IsFinalAttempt(job) THEN "failed" ELSE "queued"

\* Write the outcome, commit, and end the job, fail it, or send another one.
Record(n, k) ==
  /\ jobs[n][k].at = "answered"
  /\ LET job == jobs[n][k]
     IN /\ Settle(n, Outcome(job))
        /\ IF job.answer = "rate_limited"
           THEN Job(n, k, Deferred(job)) /\ UNCHANGED attempts
           ELSE /\ Job(n, k, IF job.answer = "other" THEN Again(job) ELSE NoJob)
                /\ attempts' = [attempts EXCEPT ![n] = @ + 1]
  /\ UNCHANGED <<binding, announcement, callers, delivered, unknown, spent, late>>

\* The worker's transaction is rolled back: it took 60 seconds, or the process
\* stopped.  pg-boss runs the job again.  Nothing aborts the call of Telegram: it
\* goes on without the lock of the row.
LoseWorker(n, k) ==
  /\ jobs[n][k].at \in {"sending", "answered"}
  /\ IF jobs[n][k].answer = "ok"
     THEN /\ unknown[n] < MaxUnknown
          /\ unknown' = [unknown EXCEPT ![n] = @ + 1]
          /\ UNCHANGED spent
     ELSE /\ spent[n].lost < MaxLost
          /\ Spend(n, "lost")
          /\ UNCHANGED unknown
  /\ late' = IF jobs[n][k].at = "sending" THEN [late EXCEPT ![n] = @ + 1] ELSE late
  /\ Job(n, k, Again(jobs[n][k]))
  /\ UNCHANGED <<status, attempts, binding, announcement, callers, delivered>>

OneAnswered(n) == late[n] > 0 /\ late' = [late EXCEPT ![n] = @ - 1]

\* Telegram accepts the message of a late call, whose worker cannot record it ...
LateAccept(n) ==
  /\ OneAnswered(n)
  /\ unknown[n] < MaxUnknown
  /\ delivered' = [delivered EXCEPT ![n] = @ + 1]
  /\ unknown' = [unknown EXCEPT ![n] = @ + 1]
  /\ UNCHANGED <<status, attempts, jobs, binding, announcement, callers, spent>>

\* ... or refuses it, or the call ends without an answer.
LateRefuse(n, k, answer) ==
  /\ OneAnswered(n)
  /\ Mark(n, answer)
  /\ Limited(n, answer)
  /\ IF answer = "rate_limited" THEN jobs[n][k] = NoJob /\ Job(n, k, Waiting(0, DefaultLimit))
     ELSE UNCHANGED jobs
  /\ UNCHANGED <<status, attempts, announcement, callers, delivered, unknown>>

\* MUTANT: the sweep is not scheduled.
NeverSwept == {}

\* The sweep, every minute: a job for each of the oldest queued rows.
Swept == {n \in Notes : /\ status[n] = "queued"
                        /\ Cardinality({m \in Notes : m < n /\ status[m] = "queued"}) < SweepBatch}

recover(n, k) ==
  /\ n \in Swept
  /\ jobs[n][k] = NoJob
  /\ Job(n, k, Waiting(0, RetryLimit))
  /\ UNCHANGED <<status, attempts, binding, announcement, callers, delivered, unknown, spent, late>>

-----------------------------------------------------------------------------
\* The recipient binds a chat, or unbinds it; the announcement's hour comes,
\* or it is removed or expires.
Bind(n) ==
  /\ binding[n] # "bound"
  /\ binding' = [binding EXCEPT ![n] = "bound"]
  /\ UNCHANGED <<status, attempts, jobs, announcement, callers, delivered, unknown, spent, late>>

Unbind(n) ==
  /\ binding[n] # "unbound"
  /\ binding' = [binding EXCEPT ![n] = "unbound"]
  /\ UNCHANGED <<status, attempts, jobs, announcement, callers, delivered, unknown, spent, late>>

PublishAt ==
  /\ announcement = "scheduled"
  /\ announcement' = "live"
  /\ UNCHANGED <<status, attempts, jobs, binding, callers, delivered, unknown, spent, late>>

remove ==
  /\ announcement # "removed"
  /\ announcement' = "removed"
  /\ UNCHANGED <<status, attempts, jobs, binding, callers, delivered, unknown, spent, late>>

Refusals == {"rate_limited", "blocked", "chat_not_found", "other"}
AnswerOf(n, k) == Accept(n, k) \/ LoseAnswer(n, k) \/ \E a \in Refusals : Refuse(n, k, a)

Step ==
  \/ \E s \in Callers :
       \/ \E n \in Notes : InsertRow(s, n) \/ CheckRetry(s, n)
       \/ \E k \in Slots : SendJob(s, k)
       \/ UpdateRetry(s)
       \/ LoseCaller(s)
  \/ \E n \in Notes :
       \/ \E k \in Slots :
            \/ Begin(n, k) \/ AnswerOf(n, k) \/ Record(n, k) \/ LoseWorker(n, k)
            \/ recover(n, k) \/ \E a \in Refusals : LateRefuse(n, k, a)
       \/ LateAccept(n)
       \/ Bind(n) \/ Unbind(n)
  \/ PublishAt \/ remove

\* A row keeps its channel.
Next == Step /\ UNCHANGED internal

Spec == Init /\ [][Next]_vars

\* Workers fetch jobs and run them, Telegram or the network answers, cron
\* starts the sweep every minute, and the hour of an announcement comes.
FairSpec ==
  /\ Spec
  /\ \A n \in Notes, k \in Slots :
       WF_moving(Begin(n, k)) /\ WF_moving(AnswerOf(n, k)) /\ WF_moving(Record(n, k))
  /\ \A n \in Notes : WF_moving(\E k \in Slots : recover(n, k))
  /\ WF_moving(PublishAt)

-----------------------------------------------------------------------------
\* Properties.

JobType == [at : {"none", "waiting", "sending", "answered"}, answer : Refusals \cup {"none", "ok"},
            count : 0..(RetryLimit + DefaultLimit), limit : {0, RetryLimit, DefaultLimit}]

\* Every variable keeps its type, and a job is never run more often than its limit.
TypeOK ==
  /\ internal \subseteq Notes
  /\ status \in [Notes -> {"none", "queued", "sent", "failed", "skipped"}]
  /\ attempts \in [Notes -> Nat]
  /\ jobs \in [Notes -> [Slots -> JobType]]
  /\ \A n \in Notes, k \in Slots : jobs[n][k].count <= jobs[n][k].limit
  /\ binding \in [Notes -> {"bound", "blocked", "unbound"}]
  /\ announcement \in {"scheduled", "live", "removed"}
  /\ callers \in [Callers -> [at : {"idle", "send", "retry"}, note : Notes \cup {NoNote}]]
  /\ delivered \in [Notes -> Nat] /\ unknown \in [Notes -> 0..MaxUnknown]
  /\ late \in [Notes -> Nat]
  /\ spent \in [Notes -> [lost : 0..MaxLost, limited : 0..MaxLimited, requeued : 0..MaxRequeued]]

\* Repeated calls, jobs sent twice, sweeps and several workers do not repeat a
\* message: Telegram accepts a second one only if an acceptance went unrecorded or
\* after a manual retry, and a row is 'sent' only if Telegram accepted one.  Every
\* variable keeps its type.
DeliveredOnce ==
  TypeOK /\ \A n \in Notes :
    /\ delivered[n] <= 1 + unknown[n] + spent[n].requeued
    /\ status[n] = "sent" /\ n \notin internal => delivered[n] >= 1

\* No message leaves for a row that is settled, whatever jobs are left over, but
\* that of a call whose transaction was over before: every other worker has the
\* row to itself from its look at the status to the outcome.
NothingAfterSettled ==
  [][\A n \in Notes : delivered'[n] # delivered[n] => status[n] = "queued" \/ late'[n] < late[n]]_vars

\* The same without the exception.
SilentOnceSettled ==
  [][\A n \in Notes : delivered'[n] # delivered[n] => status[n] = "queued"]_vars

\* A row that was sent stays sent: "Only a failed notification can be retried".
SentStays ==
  [][\A n \in Notes : status[n] = "sent" => status'[n] = "sent"]_vars

\* A row gets at most three attempts.
ThreeAttempts == \A n \in Notes : attempts[n] <= 3

\* Every queued row is settled in the end, though requests and workers are lost
\* before they send the job or record the answer.
EveryRowSettled ==
  \A n \in Notes : status[n] = "queued" ~> status[n] # "queued"
=============================================================================
