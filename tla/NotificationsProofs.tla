------------------------ MODULE NotificationsProofs ------------------------
(***************************************************************************)
(* Proofs about Notifications: no message is repeated but after an         *)
(* acceptance that went unrecorded or a manual retry, and none leaves for  *)
(* a settled row but that of a call whose transaction was over, for any    *)
(* number of rows, requests, jobs and workers.                             *)
(*                                                                         *)
(* What carries the proof is the row's lock.  A worker holds it from the   *)
(* moment it has read the row as queued until it has written the outcome;  *)
(* so the row it reads cannot be settled, nor its message be sent again,   *)
(* by anybody else in between.                                             *)
(***************************************************************************)
EXTENDS Notifications, TLAPS

Statuses == {"none", "queued", "sent", "failed", "skipped"}
Bindings == {"bound", "blocked", "unbound"}
Places == {"scheduled", "live", "removed"}
CallerType == [at : {"idle", "send", "retry"}, note : Notes \cup {NoNote}]
SpentType == [lost : 0..MaxLost, limited : 0..MaxLimited, requeued : 0..MaxRequeued]

\* The job's worker holds the lock of its row.
Working(job) == job.at \in {"sending", "answered"}

\* Only a call of Telegram has an answer, and a job is run up to its limit.
Sound(job) ==
  /\ job \in JobType /\ job.count <= job.limit
  /\ job.at = "answered" <=> job.answer # "none"

\* A row whose lock is held is queued, and held by one worker.  Each message
\* that Telegram has accepted either went unrecorded, or has
\* been followed by a retry, or is the one that settled the row or that its
\* worker is about to record.
RowInv(n) ==
  /\ \A k \in Slots : Sound(jobs[n][k])
  /\ \A k \in Slots : Working(jobs[n][k]) => status[n] = "queued" /\ n \notin internal
  /\ \A k, l \in Slots : Working(jobs[n][k]) /\ Working(jobs[n][l]) => k = l
  /\ \A k \in Slots : jobs[n][k].answer = "ok" => delivered[n] >= 1
  /\ status[n] = "sent" /\ n \notin internal => delivered[n] >= 1
  /\ delivered[n] <= unknown[n] + spent[n].requeued + 1
  /\ \/ delivered[n] <= unknown[n] + spent[n].requeued
     \/ status[n] = "sent"
     \/ \E k \in Slots : jobs[n][k].answer = "ok"

CallersInv == \A s \in Callers : callers[s].at # "idle" => callers[s].note \in Notes

IInv == TypeOK /\ CallersInv /\ \A n \in Notes : RowInv(n)

-----------------------------------------------------------------------------
\* Jobs and the rows' fields.

\* What a job becomes is a job.
LEMMA NewJobs ==
  ASSUME NotificationConstants
  PROVE  /\ Sound(NoJob) /\ ~Working(NoJob) /\ NoJob.answer = "none"
         /\ \A limit \in {RetryLimit, DefaultLimit} :
               /\ Sound(Waiting(0, limit)) /\ ~Working(Waiting(0, limit))
               /\ Waiting(0, limit).answer = "none"
<1>1. RetryLimit \in Nat /\ DefaultLimit \in Nat
  BY DEF NotificationConstants
<1>2. Sound(NoJob) /\ ~Working(NoJob) /\ NoJob.answer = "none"
  BY <1>1 DEF Sound, JobType, Working, NoJob
<1>3. ASSUME NEW limit \in {RetryLimit, DefaultLimit}
      PROVE  Sound(Waiting(0, limit)) /\ ~Working(Waiting(0, limit)) /\ Waiting(0, limit).answer = "none"
  <2>1. NoJob \in JobType /\ NoJob.answer = "none"
    BY <1>2 DEF Sound
  <2>2. Waiting(0, limit) \in JobType /\ Waiting(0, limit).at = "waiting" /\ Waiting(0, limit).answer = "none"
        /\ Waiting(0, limit).count = 0 /\ Waiting(0, limit).limit = limit
    <3> DEFINE a == [NoJob EXCEPT !.at = "waiting"]
               b == [a EXCEPT !.count = 0]
    <3>1. a \in JobType /\ a.at = "waiting" /\ a.answer = "none"
      BY <2>1 DEF JobType
    <3>2. 0 \in 0..(RetryLimit + DefaultLimit)
      BY <1>1
    <3> HIDE DEF a
    <3>3. b \in JobType /\ b.at = "waiting" /\ b.answer = "none" /\ b.count = 0
      BY <3>1, <3>2 DEF JobType
    <3>4. Waiting(0, limit) = [b EXCEPT !.limit = limit]
      BY DEF Waiting, a
    <3> HIDE DEF b
    <3> QED  BY <3>3, <3>4 DEF JobType
  <2> QED  BY <1>1, <2>2 DEF Sound, Working
<1> QED  BY <1>2, <1>3

\* A job that failed is run again up to its limit.
LEMMA NextRuns ==
  ASSUME NotificationConstants, NEW job, Sound(job)
  PROVE  Sound(Again(job)) /\ ~Working(Again(job)) /\ Again(job).answer = "none"
<1>1. CASE job.count < job.limit
  <2>1. job.count \in Nat /\ job.limit \in {0, RetryLimit, DefaultLimit} /\ job.limit \in Nat
    BY DEF Sound, JobType, NotificationConstants
  <2>2. job.count + 1 \in 0..(RetryLimit + DefaultLimit) /\ job.count + 1 <= job.limit
    BY <1>1, <2>1 DEF NotificationConstants
  <2>3. Again(job) = Waiting(job.count + 1, job.limit)
    BY <1>1 DEF Again
  <2> QED  BY <2>1, <2>2, <2>3 DEF Waiting, NoJob, Sound, JobType, Working
<1>2. CASE ~(job.count < job.limit)
  BY <1>2, NewJobs DEF Again
<1> QED  BY <1>1, <1>2

\* A worker that goes on keeps what its job is.
LEMMA NextPlaces ==
  ASSUME NEW job, Sound(job)
  PROVE  /\ job.answer = "none" => /\ Sound([job EXCEPT !.at = "sending"])
                                   /\ [job EXCEPT !.at = "sending"].answer = "none"
         /\ \A a \in Refusals \cup {"ok"} :
              /\ Sound([job EXCEPT !.at = "answered", !.answer = a])
              /\ [job EXCEPT !.at = "answered", !.answer = a].answer = a
BY DEF Sound, JobType, Refusals

\* A step that concerns row n leaves the others as they are.
LEMMA OtherRows ==
  ASSUME IInv, NEW n \in Notes, internal' = internal,
         \A m \in Notes : m # n => /\ status'[m] = status[m] /\ jobs'[m] = jobs[m]
                                   /\ delivered'[m] = delivered[m] /\ unknown'[m] = unknown[m]
                                   /\ spent'[m] = spent[m]
  PROVE  \A m \in Notes : m # n => RowInv(m)'
BY DEF IInv, RowInv

\* The other rows, and the row's other jobs, are left as they are.
OneSlot(n, k) ==
  /\ internal' = internal
  /\ \A m \in Notes : m # n => /\ status'[m] = status[m] /\ jobs'[m] = jobs[m]
                               /\ delivered'[m] = delivered[m] /\ unknown'[m] = unknown[m]
                               /\ spent'[m] = spent[m]
  /\ \A l \in Slots : l # k => jobs'[n][l] = jobs[n][l]

\* A step of one slot of one row keeps the invariant, if the row's lock was
\* free, or held by that slot, wherever the row changes its status or the slot
\* takes it, and if it counts what it delivers.
LEMMA SlotStep ==
  ASSUME IInv, NEW n \in Notes, NEW k \in Slots, OneSlot(n, k),
         TypeOK', CallersInv', Sound(jobs'[n][k]),
         Working(jobs'[n][k]) => status'[n] = "queued" /\ n \notin internal,
         (Working(jobs'[n][k]) \/ status'[n] # status[n])
           => \A l \in Slots : l # k => ~Working(jobs[n][l]),
         delivered'[n] >= delivered[n],
         jobs'[n][k].answer = "ok" => delivered'[n] >= 1,
         status'[n] = "sent" /\ n \notin internal => delivered'[n] >= 1,
         delivered'[n] <= unknown'[n] + spent'[n].requeued + 1,
         \/ delivered'[n] <= unknown'[n] + spent'[n].requeued
         \/ status'[n] = "sent"
         \/ jobs'[n][k].answer = "ok"
         \/ \E l \in Slots : l # k /\ jobs[n][l].answer = "ok"
  PROVE  IInv'
<1>1. RowInv(n) /\ delivered[n] \in Nat /\ delivered'[n] \in Nat
  BY DEF IInv, TypeOK
<1>2. RowInv(n)'
  <2>1. \A l \in Slots : Sound(jobs'[n][l])
    BY <1>1 DEF OneSlot, RowInv
  <2>2. \A l \in Slots : Working(jobs'[n][l]) => status'[n] = "queued" /\ n \notin internal'
    BY <1>1 DEF OneSlot, RowInv
  <2>3. \A l, o \in Slots : Working(jobs'[n][l]) /\ Working(jobs'[n][o]) => l = o
    BY <1>1 DEF OneSlot, RowInv
  <2>4. \A l \in Slots : jobs'[n][l].answer = "ok" => delivered'[n] >= 1
    BY <1>1 DEF OneSlot, RowInv
  <2>5. \/ delivered'[n] <= unknown'[n] + spent'[n].requeued
        \/ status'[n] = "sent"
        \/ \E l \in Slots : jobs'[n][l].answer = "ok"
    BY DEF OneSlot
  <2> QED  BY <2>1, <2>2, <2>3, <2>4, <2>5 DEF OneSlot, RowInv
<1>3. \A m \in Notes : m # n => RowInv(m)'
  BY OtherRows DEF OneSlot
<1> QED  BY <1>2, <1>3 DEF IInv

\* What a step of one slot writes.
LEMMA SlotWrites ==
  ASSUME IInv, NEW n \in Notes, NEW k \in Slots, NEW job, Sound(job), Job(n, k, job)
  PROVE  /\ jobs' \in [Notes -> [Slots -> JobType]] /\ jobs'[n][k] = job
         /\ \A m \in Notes : m # n => jobs'[m] = jobs[m]
         /\ \A l \in Slots : l # k => jobs'[n][l] = jobs[n][l]
         /\ \A m \in Notes, l \in Slots : jobs'[m][l].count <= jobs'[m][l].limit
<1>1. jobs \in [Notes -> [Slots -> JobType]] /\ job \in JobType
  BY DEF IInv, TypeOK, Sound
<1>2. /\ jobs' \in [Notes -> [Slots -> JobType]] /\ jobs'[n][k] = job
      /\ \A m \in Notes : m # n => jobs'[m] = jobs[m]
      /\ \A l \in Slots : l # k => jobs'[n][l] = jobs[n][l]
  BY <1>1 DEF Job
<1> QED  BY <1>2 DEF IInv, TypeOK, Sound

-----------------------------------------------------------------------------
\* The steps.

LEMMA InvInit == ASSUME NotificationConstants, Init PROVE IInv
<1>1. TypeOK
  BY NewJobs DEF Init, TypeOK, Idle, NotificationConstants, Sound
<1>2. CallersInv
  BY DEF Init, CallersInv, Idle
<1>3. \A n \in Notes : RowInv(n)
  BY NewJobs, <1>1 DEF Init, RowInv, TypeOK
<1> QED  BY <1>1, <1>2, <1>3 DEF IInv

\* The fields of a row have their types, and the bound on what it delivered.
LEMMA Fields ==
  ASSUME IInv, NEW n \in Notes
  PROVE  /\ status[n] \in Statuses /\ delivered[n] \in Nat /\ unknown[n] \in 0..MaxUnknown
         /\ spent[n] \in SpentType /\ spent[n].requeued \in Nat /\ unknown[n] \in Nat
         /\ RowInv(n) /\ \A k \in Slots : Sound(jobs[n][k])
         /\ status = [status EXCEPT ![n] = status[n]]
         /\ delivered = [delivered EXCEPT ![n] = delivered[n]]
         /\ unknown = [unknown EXCEPT ![n] = unknown[n]]
         /\ spent = [spent EXCEPT ![n] = spent[n]]
BY DEF IInv, TypeOK, RowInv, Statuses, SpentType

\* A step of one slot that delivers nothing, spends nothing and leaves the
\* row's status.
LEMMA QuietStep ==
  ASSUME NotificationConstants, IInv, NEW n \in Notes, NEW k \in Slots,
         NEW job, Sound(job), Job(n, k, job), job.answer = "none", jobs[n][k].answer = "none",
         UNCHANGED <<internal, status, delivered, unknown, late, spent, attempts, binding, announcement>>,
         callers' \in [Callers -> CallerType], CallersInv',
         Working(job) => /\ status[n] = "queued" /\ n \notin internal
                         /\ \A l \in Slots : l # k => ~Working(jobs[n][l])
  PROVE  IInv'
<1>1. OneSlot(n, k) /\ jobs'[n][k] = job
  BY SlotWrites DEF OneSlot
<1>2. TypeOK'
  BY SlotWrites DEF IInv, TypeOK, CallerType
<1>3. RowInv(n) /\ delivered[n] \in Nat
  BY Fields
<1>4. /\ status'[n] = status[n] /\ delivered'[n] = delivered[n] /\ unknown'[n] = unknown[n]
      /\ spent'[n] = spent[n]
  OBVIOUS
<1>5. /\ delivered[n] >= delivered[n] /\ (status[n] = "sent" /\ n \notin internal => delivered[n] >= 1)
      /\ delivered[n] <= unknown[n] + spent[n].requeued + 1
  BY <1>3 DEF RowInv
<1>6. \/ delivered[n] <= unknown[n] + spent[n].requeued \/ status[n] = "sent"
      \/ \E l \in Slots : l # k /\ jobs[n][l].answer = "ok"
  <2>1. \/ delivered[n] <= unknown[n] + spent[n].requeued \/ status[n] = "sent"
        \/ \E l \in Slots : jobs[n][l].answer = "ok"
    BY <1>3 DEF RowInv
  <2>2. \A l \in Slots : jobs[n][l].answer = "ok" => l # k
    OBVIOUS
  <2> QED  BY <2>1, <2>2
<1> QED  BY <1>1, <1>2, <1>4, <1>5, <1>6, SlotStep

LEMMA SendJobStep ==
  ASSUME NotificationConstants, IInv, internal' = internal, NEW s \in Callers, NEW k \in Slots, SendJob(s, k)
  PROVE  IInv'
<1> DEFINE n == callers[s].note
<1>1. n \in Notes
  BY DEF SendJob, IInv, CallersInv
<1>2. jobs[n][k] = NoJob /\ Job(n, k, Waiting(0, RetryLimit))
  BY DEF SendJob, Job
<1>3. callers' \in [Callers -> CallerType] /\ CallersInv'
  BY DEF SendJob, IInv, TypeOK, CallersInv, CallerType, Idle
<1> HIDE DEF n
<1> QED  BY <1>1, <1>2, <1>3, NewJobs, QuietStep DEF SendJob

LEMMA recoverStep ==
  ASSUME NotificationConstants, IInv, internal' = internal, NEW n \in Notes, NEW k \in Slots, recover(n, k)
  PROVE  IInv'
<1>1. jobs[n][k] = NoJob /\ Job(n, k, Waiting(0, RetryLimit))
  BY DEF recover
<1>2. callers' \in [Callers -> CallerType] /\ CallersInv'
  BY DEF recover, IInv, TypeOK, CallersInv, CallerType
<1> QED  BY <1>1, <1>2, NewJobs, QuietStep DEF recover

\* Requests that touch no row.
LEMMA CallerStep ==
  ASSUME IInv, internal' = internal, NEW s \in Callers,
         LoseCaller(s) \/ \E n \in Notes : CheckRetry(s, n)
  PROVE  IInv'
<1>1. UNCHANGED <<internal, status, attempts, jobs, binding, announcement, delivered, unknown, late, spent>>
  BY DEF LoseCaller, CheckRetry
<1>2. callers' \in [Callers -> CallerType] /\ CallersInv'
  <2>1. PICK c \in CallerType : callers' = [callers EXCEPT ![s] = c] /\ (c.at # "idle" => c.note \in Notes)
    BY DEF LoseCaller, CheckRetry, Idle, CallerType
  <2> QED  BY <2>1 DEF IInv, TypeOK, CallersInv, CallerType
<1> QED  BY <1>1, <1>2 DEF IInv, TypeOK, RowInv, CallerType

\* A row is put into the queue, or back into it, while nobody holds its lock.
LEMMA QueueStep ==
  ASSUME NotificationConstants, IInv, internal' = internal, NEW s \in Callers, NEW n \in Notes, IsFree(n),
         UNCHANGED <<attempts, jobs, binding, announcement, delivered, unknown, late>>,
         callers' \in [Callers -> CallerType], CallersInv',
         NEW st \in Statuses, status' = [status EXCEPT ![n] = st],
         NEW w \in SpentType, spent' = [spent EXCEPT ![n] = w],
         \/ st = status[n] /\ w = spent[n]
         \/ status[n] # "sent" /\ st = "queued" /\ w = spent[n]
         \/ st = "queued" /\ w.requeued = spent[n].requeued + 1
  PROVE  IInv'
<1>1. \A k \in Slots : ~Working(jobs[n][k])
  BY DEF IsFree, Working
<1>2. status' \in [Notes -> Statuses] /\ spent' \in [Notes -> SpentType]
      /\ status'[n] = st /\ spent'[n] = w
      /\ \A m \in Notes : m # n => status'[m] = status[m] /\ spent'[m] = spent[m]
  BY DEF IInv, TypeOK, Statuses, SpentType
<1>3. TypeOK'
  BY <1>2 DEF IInv, TypeOK, Statuses, SpentType, CallerType
<1>4. RowInv(n)'
  <2>1. \A k \in Slots : jobs[n][k].answer # "ok"
    BY <1>1, Fields DEF Sound, Working
  <2>2. /\ delivered[n] \in Nat /\ unknown[n] \in Nat /\ spent[n].requeued \in Nat
        /\ w.requeued \in Nat /\ RowInv(n)
    BY Fields DEF SpentType
  <2> QED  BY <1>1, <1>2, <2>1, <2>2 DEF RowInv
<1>5. \A m \in Notes : m # n => RowInv(m)'
  BY <1>2, OtherRows
<1> QED  BY <1>3, <1>4, <1>5 DEF IInv

LEMMA InsertRowStep ==
  ASSUME NotificationConstants, IInv, internal' = internal, NEW s \in Callers, NEW n \in Notes, InsertRow(s, n)
  PROVE  IInv'
<1>1. callers' \in [Callers -> CallerType] /\ CallersInv'
  BY DEF InsertRow, IInv, TypeOK, CallersInv, CallerType
<1>5. status[n] \in Statuses
  BY DEF IInv, TypeOK, Statuses
<1> DEFINE st == IF status[n] = "none" THEN "queued" ELSE status[n]
<1>2. st \in Statuses /\ (st = status[n] \/ (status[n] # "sent" /\ st = "queued"))
  BY <1>5 DEF Statuses
<1>4. status' = [status EXCEPT ![n] = st]
  BY DEF InsertRow
<1>3. spent' = [spent EXCEPT ![n] = spent[n]] /\ spent[n] \in SpentType
  BY Fields DEF InsertRow
<1> HIDE DEF st
<1> QED  BY <1>1, <1>2, <1>3, <1>4, QueueStep, ZenonT(60) DEF InsertRow

LEMMA UpdateRetryStep ==
  ASSUME NotificationConstants, IInv, internal' = internal, NEW s \in Callers, UpdateRetry(s)
  PROVE  IInv'
<1> DEFINE n == callers[s].note
           w == [spent[n] EXCEPT !["requeued"] = @ + 1]
<1>1. n \in Notes
  BY DEF UpdateRetry, IInv, CallersInv
<1>2. callers' \in [Callers -> CallerType] /\ CallersInv'
  <2>1. callers \in [Callers -> CallerType] /\ callers' = [callers EXCEPT ![s].at = "send"]
    BY DEF UpdateRetry, IInv, TypeOK, CallerType
  <2>2. callers' \in [Callers -> CallerType] /\ \A r \in Callers : callers'[r].note = callers[r].note
    BY <2>1 DEF CallerType
  <2>3. \A r \in Callers : r # s => callers'[r] = callers[r]
    BY <2>1
  <2> QED  BY <1>1, <2>2, <2>3 DEF IInv, CallersInv
<1>3. IsFree(n) /\ status' = [status EXCEPT ![n] = "queued"] /\ spent' = [spent EXCEPT ![n] = w]
  BY DEF UpdateRetry, Spend
<1>4. w \in SpentType /\ w.requeued = spent[n].requeued + 1
  <2>1. spent[n] \in SpentType /\ spent[n].requeued < MaxRequeued /\ MaxRequeued \in Nat
    BY <1>1, Fields DEF UpdateRetry, NotificationConstants
  <2> QED  BY <2>1 DEF SpentType
<1> HIDE DEF n, w
<1>5. "queued" \in Statuses
  BY DEF Statuses
<1> QED  BY <1>1, <1>2, <1>3, <1>4, <1>5, QueueStep DEF UpdateRetry

\* The row's lock is free, or this slot holds it.
LEMMA Alone ==
  ASSUME IInv, NEW n \in Notes, NEW k \in Slots, IsFree(n) \/ Working(jobs[n][k])
  PROVE  /\ \A l \in Slots : l # k => ~Working(jobs[n][l])
         /\ \A l \in Slots : l # k => jobs[n][l].answer = "none"
<1>1. RowInv(n)
  BY Fields
<1>2. \A l \in Slots : l # k => ~Working(jobs[n][l])
  BY <1>1 DEF IsFree, Working, RowInv
<1>3. \A l \in Slots : jobs[n][l].at # "answered" => jobs[n][l].answer = "none"
  BY <1>1 DEF RowInv, Sound
<1> QED  BY <1>2, <1>3 DEF Working

\* The worker reads the row under its lock.
LEMMA BeginStep ==
  ASSUME NotificationConstants, IInv, internal' = internal, NEW n \in Notes, NEW k \in Slots, Begin(n, k)
  PROVE  IInv'
<1>1. RowInv(n) /\ Sound(jobs[n][k]) /\ status[n] \in Statuses /\ delivered[n] \in Nat
      /\ IsFree(n) /\ jobs[n][k].at = "waiting"
  BY Fields DEF Begin
<1>2. jobs[n][k].answer = "none"
  BY <1>1 DEF Sound
<1>3. PICK job : /\ Sound(job) /\ Job(n, k, job) /\ job.answer = "none"
                 /\ Working(job) => n \notin internal /\ status[n] = "queued" /\ status' = status
  <2>1. \/ Job(n, k, NoJob) \/ Job(n, k, Waiting(0, DefaultLimit))
        \/ /\ Job(n, k, [jobs[n][k] EXCEPT !.at = "sending"])
           /\ n \notin internal /\ status[n] = "queued" /\ status' = status
    BY DEF Begin
  <2> QED  BY <2>1, <1>1, <1>2, NewJobs, NextPlaces
<1>4. \/ status' = status
      \/ /\ \E st \in {"skipped", "failed"} : Settle(n, st)
      \/ n \in internal /\ Settle(n, "sent")
  BY DEF Begin
<1>5. /\ status' \in [Notes -> Statuses] /\ \A m \in Notes : m # n => status'[m] = status[m]
      /\ status'[n] = status[n] \/ status'[n] \in {"skipped", "failed"}
         \/ (status'[n] = "sent" /\ n \in internal)
      /\ status[n] = "sent" => status'[n] = "sent"
  <2>1. status \in [Notes -> Statuses]
    BY DEF IInv, TypeOK, Statuses
  <2>2. status[n] = "queued" \/ status' = status
    BY DEF Begin
  <2> QED  BY <1>4, <2>1, <2>2 DEF Settle, Statuses
<1>6. OneSlot(n, k) /\ jobs'[n][k] = job
  BY <1>3, <1>5, SlotWrites DEF OneSlot, Begin
<1>7. TypeOK' /\ CallersInv'
  BY <1>3, <1>5, SlotWrites DEF Begin, IInv, TypeOK, Statuses, CallersInv
<1>8. /\ delivered'[n] = delivered[n] /\ unknown'[n] = unknown[n] /\ spent'[n] = spent[n]
  BY DEF Begin
<1>9. \A l \in Slots : jobs[n][l].answer # "ok"
  BY <1>1, <1>2, Alone
<1>10. /\ delivered[n] >= delivered[n] /\ (status'[n] = "sent" /\ n \notin internal => delivered[n] >= 1)
       /\ delivered[n] <= unknown[n] + spent[n].requeued + 1
       /\ delivered[n] <= unknown[n] + spent[n].requeued \/ status'[n] = "sent"
  BY <1>1, <1>5, <1>9 DEF RowInv
<1>11. \A l \in Slots : l # k => ~Working(jobs[n][l])
  BY <1>1, Alone
<1>12. Working(jobs'[n][k]) => status'[n] = "queued" /\ n \notin internal
  BY <1>3, <1>6
<1> QED  BY <1>3, <1>6, <1>7, <1>8, <1>10, <1>11, <1>12, SlotStep

\* Telegram's answer arrives, or an error in its place.
LEMMA AnswerStep ==
  ASSUME NotificationConstants, IInv, internal' = internal, NEW n \in Notes, NEW k \in Slots, AnswerOf(n, k)
  PROVE  IInv'
<1>1. RowInv(n) /\ Sound(jobs[n][k]) /\ Working(jobs[n][k]) /\ status[n] = "queued" /\ n \notin internal
  BY Fields DEF AnswerOf, Accept, LoseAnswer, Refuse, Working, RowInv
<1>2. /\ delivered[n] \in Nat /\ unknown[n] \in Nat /\ spent[n] \in SpentType
      /\ spent[n].requeued \in Nat /\ unknown[n] \in 0..MaxUnknown
      /\ delivered \in [Notes -> Nat] /\ unknown \in [Notes -> 0..MaxUnknown]
      /\ spent \in [Notes -> SpentType] /\ MaxUnknown \in Nat /\ MaxLimited \in Nat
  BY Fields DEF IInv, TypeOK, SpentType, NotificationConstants
<1>3. PICK a \in Refusals \cup {"ok"} :
        /\ Answered(n, k, a)
        /\ \/ a = "ok" /\ delivered' = [delivered EXCEPT ![n] = @ + 1] /\ UNCHANGED <<unknown, spent>>
           \/ a = "other" /\ delivered' = [delivered EXCEPT ![n] = @ + 1] /\ UNCHANGED spent
              /\ unknown[n] < MaxUnknown /\ unknown' = [unknown EXCEPT ![n] = @ + 1]
           \/ UNCHANGED <<delivered, unknown>> /\ a # "ok"
              /\ (UNCHANGED spent \/ (spent[n].limited < MaxLimited /\ Spend(n, "limited")))
  BY DEF AnswerOf, Accept, LoseAnswer, Refuse, Limited, Refusals
<1>4. UNCHANGED <<status, attempts, announcement, callers, late>>
  BY DEF AnswerOf, Accept, LoseAnswer, Refuse
<1>5. binding' \in [Notes -> Bindings]
  BY DEF AnswerOf, Accept, LoseAnswer, Refuse, Mark, Refusals, IInv, TypeOK, Bindings
<1> DEFINE job == [jobs[n][k] EXCEPT !.at = "answered", !.answer = a]
<1>6. Sound(job) /\ job.answer = a /\ Job(n, k, job)
  BY <1>1, <1>3, NextPlaces DEF Answered
<1> HIDE DEF job
<1>7. /\ delivered' \in [Notes -> Nat] /\ unknown' \in [Notes -> 0..MaxUnknown]
      /\ \A m \in Notes : m # n => delivered'[m] = delivered[m] /\ unknown'[m] = unknown[m]
      /\ \/ a = "ok" /\ delivered'[n] = delivered[n] + 1 /\ unknown'[n] = unknown[n]
         \/ a # "ok" /\ delivered'[n] = delivered[n] + 1 /\ unknown'[n] = unknown[n] + 1
         \/ a # "ok" /\ delivered'[n] = delivered[n] /\ unknown'[n] = unknown[n]
  BY <1>2, <1>3
<1>8. /\ spent' \in [Notes -> SpentType] /\ spent'[n].requeued = spent[n].requeued
      /\ \A m \in Notes : m # n => spent'[m] = spent[m]
  <2>1. CASE spent' = spent
    BY <2>1, <1>2
  <2>2. CASE spent[n].limited < MaxLimited /\ Spend(n, "limited")
    <3> DEFINE w == [spent[n] EXCEPT !["limited"] = @ + 1]
    <3>1. w \in SpentType /\ w.requeued = spent[n].requeued
      BY <2>2, <1>2 DEF SpentType
    <3>2. spent' = [spent EXCEPT ![n] = w]
      BY <2>2 DEF Spend
    <3> HIDE DEF w
    <3> QED  BY <3>1, <3>2, <1>2
  <2> QED  BY <2>1, <2>2, <1>3
<1>9. OneSlot(n, k) /\ jobs'[n][k] = job
  BY <1>4, <1>6, <1>7, <1>8, SlotWrites DEF OneSlot
<1>10. TypeOK' /\ CallersInv'
  BY <1>4, <1>5, <1>6, <1>7, <1>8, SlotWrites DEF IInv, TypeOK, Bindings, SpentType, CallersInv
<1>11. \A l \in Slots : l # k => ~Working(jobs[n][l]) /\ jobs[n][l].answer = "none"
  BY <1>1, Alone
<1>12. jobs[n][k].answer = "none"
  BY <1>1 DEF AnswerOf, Accept, LoseAnswer, Refuse, Sound
<1>13. delivered[n] <= unknown[n] + spent[n].requeued
  BY <1>1, <1>11, <1>12 DEF RowInv
<1>14. /\ delivered'[n] >= delivered[n] /\ (a = "ok" => delivered'[n] >= 1)
       /\ delivered'[n] <= unknown'[n] + spent'[n].requeued + 1
       /\ delivered'[n] <= unknown'[n] + spent'[n].requeued \/ a = "ok"
  BY <1>2, <1>7, <1>8, <1>13
<1>15. status'[n] = status[n] /\ status'[n] = "queued"
  BY <1>1, <1>4
<1> QED  BY <1>1, <1>6, <1>9, <1>10, <1>11, <1>14, <1>15, SlotStep

\* The worker records the outcome.
LEMMA RecordStep ==
  ASSUME NotificationConstants, IInv, internal' = internal, NEW n \in Notes, NEW k \in Slots, Record(n, k)
  PROVE  IInv'
<1> DEFINE job == jobs[n][k]
<1>1. RowInv(n) /\ Sound(job) /\ Working(job) /\ status[n] = "queued" /\ n \notin internal
  BY Fields DEF Record, Working, RowInv
<1>2. /\ delivered[n] \in Nat /\ unknown[n] \in Nat /\ spent[n].requeued \in Nat
      /\ status \in [Notes -> Statuses] /\ attempts \in [Notes -> Nat]
      /\ job.answer \in Refusals \cup {"ok"}
  BY <1>1, Fields DEF IInv, TypeOK, Statuses, Record, Sound, JobType
<1>3. /\ Settle(n, Outcome(job)) /\ Outcome(job) \in Statuses
      /\ Outcome(job) = "sent" <=> job.answer = "ok"
  <2>1. Settle(n, Outcome(job))
    BY DEF Record
  <2> QED  BY <1>2, <2>1 DEF Outcome, Refusals, Statuses
<1>4. PICK next : Sound(next) /\ ~Working(next) /\ next.answer = "none" /\ Job(n, k, next)
  <2>1. Job(n, k, Deferred(job)) \/ Job(n, k, Again(job)) \/ Job(n, k, NoJob)
    BY DEF Record
  <2> QED  BY <1>1, <2>1, NewJobs, NextRuns DEF Deferred
<1>5. attempts' \in [Notes -> Nat]
  BY <1>2 DEF Record
<1>6. /\ status' \in [Notes -> Statuses] /\ status'[n] = Outcome(job)
      /\ \A m \in Notes : m # n => status'[m] = status[m]
  BY <1>2, <1>3 DEF Settle
<1>7. UNCHANGED <<binding, announcement, callers, delivered, unknown, late, spent>>
  BY DEF Record
<1>8. OneSlot(n, k) /\ jobs'[n][k] = next
  BY <1>4, <1>6, <1>7, SlotWrites DEF OneSlot
<1>9. TypeOK' /\ CallersInv'
  BY <1>4, <1>5, <1>6, <1>7, SlotWrites DEF IInv, TypeOK, Statuses, CallersInv
<1>10. \A l \in Slots : l # k => ~Working(jobs[n][l]) /\ jobs[n][l].answer = "none"
  BY <1>1, Alone
<1>11. /\ delivered[n] <= unknown[n] + spent[n].requeued + 1
       /\ delivered[n] <= unknown[n] + spent[n].requeued \/ job.answer = "ok"
       /\ job.answer = "ok" => delivered[n] >= 1
  BY <1>1, <1>10 DEF RowInv
<1>12. /\ delivered[n] >= delivered[n]
       /\ delivered'[n] = delivered[n] /\ unknown'[n] = unknown[n] /\ spent'[n] = spent[n]
  BY <1>2, <1>7
<1> HIDE DEF job
<1> QED  BY <1>3, <1>4, <1>6, <1>8, <1>9, <1>10, <1>11, <1>12, SlotStep

\* The worker's transaction is rolled back.
LEMMA LoseWorkerStep ==
  ASSUME NotificationConstants, IInv, internal' = internal, NEW n \in Notes, NEW k \in Slots, LoseWorker(n, k)
  PROVE  IInv'
<1> DEFINE job == jobs[n][k]
<1>1. RowInv(n) /\ Sound(job) /\ Working(job) /\ status[n] = "queued" /\ n \notin internal
  BY Fields DEF LoseWorker, Working, RowInv
<1>2. /\ delivered[n] \in Nat /\ unknown[n] \in Nat /\ spent[n] \in SpentType /\ spent[n].requeued \in Nat
      /\ unknown \in [Notes -> 0..MaxUnknown] /\ spent \in [Notes -> SpentType]
      /\ MaxUnknown \in Nat /\ MaxLost \in Nat
  BY Fields DEF IInv, TypeOK, SpentType, NotificationConstants
<1>3. Sound(Again(job)) /\ ~Working(Again(job)) /\ Again(job).answer = "none" /\ Job(n, k, Again(job))
  BY <1>1, NextRuns DEF LoseWorker
<1>4. /\ UNCHANGED <<status, attempts, binding, announcement, callers, delivered>>
      /\ late' \in [Notes -> Nat]
  BY DEF LoseWorker, IInv, TypeOK
<1>5. /\ unknown' \in [Notes -> 0..MaxUnknown] /\ \A m \in Notes : m # n => unknown'[m] = unknown[m]
      /\ \/ job.answer = "ok" /\ unknown'[n] = unknown[n] + 1
         \/ job.answer # "ok" /\ unknown'[n] = unknown[n]
  BY <1>2 DEF LoseWorker
<1>6. /\ spent' \in [Notes -> SpentType] /\ spent'[n].requeued = spent[n].requeued
      /\ \A m \in Notes : m # n => spent'[m] = spent[m]
  <2>1. CASE spent' = spent
    BY <2>1, <1>2
  <2>2. CASE spent[n].lost < MaxLost /\ Spend(n, "lost")
    <3> DEFINE w == [spent[n] EXCEPT !["lost"] = @ + 1]
    <3>1. w \in SpentType /\ w.requeued = spent[n].requeued
      BY <2>2, <1>2 DEF SpentType
    <3>2. spent' = [spent EXCEPT ![n] = w]
      BY <2>2 DEF Spend
    <3> HIDE DEF w
    <3> QED  BY <3>1, <3>2, <1>2
  <2> QED  BY <2>1, <2>2 DEF LoseWorker
<1>7. OneSlot(n, k) /\ jobs'[n][k] = Again(job)
  BY <1>3, <1>4, <1>5, <1>6, SlotWrites DEF OneSlot
<1>8. TypeOK' /\ CallersInv'
  BY <1>3, <1>4, <1>5, <1>6, SlotWrites DEF IInv, TypeOK, SpentType, CallersInv
<1>9. \A l \in Slots : l # k => ~Working(jobs[n][l]) /\ jobs[n][l].answer = "none"
  BY <1>1, Alone
<1>10. /\ delivered[n] <= unknown[n] + spent[n].requeued + 1
       /\ delivered[n] <= unknown[n] + spent[n].requeued \/ job.answer = "ok"
  BY <1>1, <1>9 DEF RowInv
<1>11. /\ delivered[n] >= delivered[n]
       /\ delivered[n] <= unknown'[n] + spent'[n].requeued
       /\ delivered[n] <= unknown'[n] + spent'[n].requeued + 1
  BY <1>2, <1>5, <1>6, <1>10
<1>12. delivered'[n] = delivered[n] /\ status'[n] = "queued" /\ status'[n] = status[n]
  BY <1>1, <1>4
<1> HIDE DEF job
<1> QED  BY <1>3, <1>7, <1>8, <1>9, <1>11, <1>12, SlotStep

\* Telegram accepts the message of a late call: it counts as unrecorded.
LEMMA LateAcceptStep ==
  ASSUME IInv, internal' = internal, NEW n \in Notes, LateAccept(n)
  PROVE  IInv'
<1>1. /\ UNCHANGED <<internal, status, attempts, jobs, binding, announcement, callers, spent>>
      /\ delivered' = [delivered EXCEPT ![n] = @ + 1] /\ unknown' = [unknown EXCEPT ![n] = @ + 1]
      /\ unknown[n] < MaxUnknown
  BY DEF LateAccept
<1>2. late' \in [Notes -> Nat]
  BY DEF LateAccept, OneAnswered, IInv, TypeOK
<1>3. /\ delivered' \in [Notes -> Nat] /\ unknown' \in [Notes -> 0..MaxUnknown]
      /\ delivered'[n] = delivered[n] + 1 /\ unknown'[n] = unknown[n] + 1
      /\ \A m \in Notes : m # n => delivered'[m] = delivered[m] /\ unknown'[m] = unknown[m]
  BY <1>1, NotificationConstants DEF IInv, TypeOK, NotificationConstants
<1>4. TypeOK' /\ CallersInv'
  BY <1>1, <1>2, <1>3 DEF IInv, TypeOK, CallersInv
<1>5. RowInv(n)'
  <2>1. /\ RowInv(n) /\ delivered[n] \in Nat /\ unknown[n] \in Nat
        /\ spent[n].requeued \in Nat
    BY Fields
  <2> QED  BY <1>1, <1>3, <2>1 DEF RowInv
<1>6. \A m \in Notes : m # n => RowInv(m)'
  BY <1>1, <1>3, OtherRows
<1> QED  BY <1>4, <1>5, <1>6 DEF IInv

\* Telegram refuses a late call, or it ends without an answer.
LEMMA LateRefuseStep ==
  ASSUME NotificationConstants, IInv, internal' = internal, NEW n \in Notes, NEW k \in Slots,
         NEW a \in Refusals, LateRefuse(n, k, a)
  PROVE  IInv'
<1>1. /\ UNCHANGED <<internal, status, attempts, announcement, callers, delivered, unknown>>
      /\ late' \in [Notes -> Nat] /\ binding' \in [Notes -> Bindings]
  <2>1. binding \in [Notes -> Bindings] /\ late \in [Notes -> Nat] /\ late[n] > 0
    BY DEF IInv, TypeOK, Bindings, LateRefuse, OneAnswered
  <2>2. binding' \in [Notes -> Bindings]
    BY <2>1 DEF LateRefuse, Mark, Refusals, Bindings
  <2>3. late' \in [Notes -> Nat]
    BY <2>1 DEF LateRefuse, OneAnswered
  <2> QED  BY <2>2, <2>3 DEF LateRefuse
<1>2. /\ spent' \in [Notes -> SpentType] /\ spent'[n].requeued = spent[n].requeued
      /\ \A m \in Notes : m # n => spent'[m] = spent[m]
  <2>1. spent \in [Notes -> SpentType] /\ spent[n] \in SpentType /\ MaxLimited \in Nat
    BY DEF IInv, TypeOK, SpentType, NotificationConstants
  <2>2. CASE spent' = spent
    BY <2>1, <2>2
  <2>3. CASE spent[n].limited < MaxLimited /\ Spend(n, "limited")
    <3> DEFINE w == [spent[n] EXCEPT !["limited"] = @ + 1]
    <3>1. w \in SpentType /\ w.requeued = spent[n].requeued
      BY <2>1, <2>3 DEF SpentType
    <3>2. spent' = [spent EXCEPT ![n] = w]
      BY <2>3 DEF Spend
    <3> HIDE DEF w
    <3> QED  BY <2>1, <3>1, <3>2
  <2> QED  BY <2>2, <2>3 DEF LateRefuse, Limited
<1>3. PICK job : /\ Sound(job) /\ jobs' \in [Notes -> [Slots -> JobType]] /\ jobs'[n][k] = job
                 /\ job = jobs[n][k] \/ (~Working(job) /\ job.answer = "none" /\ jobs[n][k] = NoJob)
                 /\ \A m \in Notes : m # n => jobs'[m] = jobs[m]
                 /\ \A l \in Slots : l # k => jobs'[n][l] = jobs[n][l]
                 /\ \A m \in Notes, l \in Slots : jobs'[m][l].count <= jobs'[m][l].limit
  <2>1. CASE jobs[n][k] = NoJob /\ Job(n, k, Waiting(0, DefaultLimit))
    BY <2>1, NewJobs, SlotWrites
  <2>2. CASE jobs' = jobs
    BY <2>2, Fields DEF IInv, TypeOK
  <2> QED  BY <2>1, <2>2 DEF LateRefuse
<1>4. OneSlot(n, k)
  BY <1>1, <1>2, <1>3 DEF OneSlot
<1>5. TypeOK' /\ CallersInv'
  BY <1>1, <1>2, <1>3 DEF IInv, TypeOK, SpentType, Bindings, CallersInv
<1>6. /\ RowInv(n) /\ delivered[n] \in Nat /\ status'[n] = status[n]
      /\ delivered'[n] = delivered[n] /\ unknown'[n] = unknown[n]
  BY <1>1, Fields
<1>7. Working(job) => /\ status'[n] = "queued" /\ n \notin internal
                      /\ \A l \in Slots : l # k => ~Working(jobs[n][l])
  BY <1>3, <1>6 DEF RowInv
<1>8. /\ delivered[n] >= delivered[n] /\ (job.answer = "ok" => delivered[n] >= 1)
      /\ status[n] = "sent" /\ n \notin internal => delivered[n] >= 1
      /\ delivered[n] <= unknown[n] + spent[n].requeued + 1
  BY <1>3, <1>6 DEF RowInv
<1>9. \/ delivered[n] <= unknown[n] + spent[n].requeued
      \/ status[n] = "sent" \/ job.answer = "ok"
      \/ \E l \in Slots : l # k /\ jobs[n][l].answer = "ok"
  <2>1. NoJob.answer # "ok"
    BY NewJobs
  <2> QED  BY <1>3, <1>6, <2>1 DEF RowInv
<1> QED  BY <1>2, <1>3, <1>4, <1>5, <1>6, <1>7, <1>8, <1>9, SlotStep

\* The recipient and the announcement.
LEMMA WorldStep ==
  ASSUME IInv, internal' = internal,
         PublishAt \/ remove \/ \E n \in Notes : Bind(n) \/ Unbind(n)
  PROVE  IInv'
<1>1. UNCHANGED <<internal, status, attempts, jobs, callers, delivered, unknown, late, spent>>
  BY DEF PublishAt, remove, Bind, Unbind
<1>2. binding' \in [Notes -> Bindings] /\ announcement' \in Places
  BY DEF PublishAt, remove, Bind, Unbind, IInv, TypeOK, Bindings, Places
<1> QED  BY <1>1, <1>2 DEF IInv, TypeOK, CallersInv, RowInv, Bindings, Places

LEMMA InvNext == ASSUME NotificationConstants, IInv, [Next]_vars PROVE IInv'
<1>1. CASE UNCHANGED vars
  BY <1>1 DEF vars, moving, IInv, TypeOK, CallersInv, RowInv
<1>2. CASE Next
  BY <1>2, InsertRowStep, CallerStep, SendJobStep, UpdateRetryStep, BeginStep, AnswerStep, RecordStep,
     LoseWorkerStep, LateAcceptStep, LateRefuseStep, recoverStep, WorldStep DEF Next, Step
<1> QED  BY <1>1, <1>2

LEMMA Inductive == Spec => []IInv
<1>1. Init => IInv
  BY NotificationConstants, InvInit
<1>2. IInv /\ [Next]_vars => IInv'
  BY NotificationConstants, InvNext
<1> QED  BY <1>1, <1>2, PTL DEF Spec

-----------------------------------------------------------------------------
\* The theorems.

\* However many requests write a row, however many jobs it has, and whatever is
\* lost in between, Telegram accepts a second message of a row only if an
\* acceptance went unrecorded or after a manual retry, and a row is 'sent' only if it
\* accepted one.  Every variable keeps its type.
THEOREM NoMessageTwice == Spec => []DeliveredOnce
<1>1. ASSUME IInv PROVE DeliveredOnce
  <2>1. \A n \in Notes : /\ RowInv(n) /\ delivered[n] \in Nat /\ unknown[n] \in Nat
                         /\ spent[n].requeued \in Nat
    BY <1>1, Fields
  <2>2. \A n \in Notes : delivered[n] <= 1 + unknown[n] + spent[n].requeued
    BY <2>1 DEF RowInv
  <2> QED  BY <1>1, <2>1, <2>2 DEF IInv, RowInv, DeliveredOnce
<1> QED  BY <1>1, Inductive, PTL

\* No message leaves for a row that is settled, but that of a call whose
\* transaction was over: any other worker has read the row as queued, and still
\* holds its lock.
THEOREM SettledIsSilent == Spec => NothingAfterSettled
<1> DEFINE Silent == \A n \in Notes : delivered'[n] # delivered[n]
                                       => status[n] = "queued" \/ late'[n] < late[n]
<1>1. ASSUME IInv, Next PROVE Silent
  <2> SUFFICES ASSUME NEW n \in Notes, delivered'[n] # delivered[n]
               PROVE  status[n] = "queued" \/ late'[n] < late[n]
    OBVIOUS
  <2>1. \/ \E m \in Notes, k \in Slots : Accept(m, k) \/ LoseAnswer(m, k)
        \/ \E m \in Notes : LateAccept(m)
    <3>1. ASSUME NEW s \in Callers, NEW m \in Notes,
                 InsertRow(s, m) \/ CheckRetry(s, m)
          PROVE  FALSE
      BY <3>1 DEF InsertRow, CheckRetry
    <3>2. ASSUME NEW m \in Notes, NEW k \in Slots,
                 Begin(m, k) \/ Record(m, k) \/ LoseWorker(m, k) \/ recover(m, k)
                 \/ \E a \in Refusals : Refuse(m, k, a) \/ LateRefuse(m, k, a)
          PROVE  FALSE
      BY <3>2 DEF Begin, Record, LoseWorker, recover, Refuse, LateRefuse
    <3>3. ASSUME NEW m \in Notes, Bind(m) \/ Unbind(m) \/ PublishAt \/ remove
          PROVE  FALSE
      BY <3>3 DEF Bind, Unbind, PublishAt, remove
    <3>4. ASSUME NEW s \in Callers, UpdateRetry(s) \/ LoseCaller(s) PROVE FALSE
      BY <3>4 DEF UpdateRetry, LoseCaller
    <3>5. ASSUME NEW s \in Callers, NEW k \in Slots, SendJob(s, k) PROVE FALSE
      <4>1. delivered' = delivered
        BY <3>5 DEF SendJob
      <4> QED  BY <4>1
    <3> QED  BY <1>1, <3>1, <3>2, <3>3, <3>4, <3>5 DEF Next, Step, AnswerOf
  <2>2. ASSUME NEW m \in Notes, NEW k \in Slots, Accept(m, k) \/ LoseAnswer(m, k)
        PROVE  status[n] = "queued"
    <3>1. Working(jobs[m][k]) /\ delivered' = [delivered EXCEPT ![m] = @ + 1]
      BY <2>2 DEF Accept, LoseAnswer, Working
    <3>2. m = n
      BY <1>1, <3>1 DEF IInv, TypeOK
    <3> QED  BY <1>1, <3>1, <3>2 DEF IInv, RowInv
  <2>3. ASSUME NEW m \in Notes, LateAccept(m) PROVE late'[n] < late[n]
    <3>1. /\ delivered' = [delivered EXCEPT ![m] = @ + 1]
          /\ late[m] > 0 /\ late' = [late EXCEPT ![m] = @ - 1]
      BY <2>3 DEF LateAccept, OneAnswered
    <3>2. m = n /\ late \in [Notes -> Nat]
      BY <1>1, <3>1 DEF IInv, TypeOK
    <3> QED  BY <3>1, <3>2
  <2> QED  BY <2>1, <2>2, <2>3
<1>2. IInv /\ [Next]_vars => [Silent]_vars
  BY <1>1
<1> QED  BY <1>2, Inductive, PTL DEF Spec, NothingAfterSettled

=============================================================================
