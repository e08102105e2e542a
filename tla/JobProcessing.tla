--------------------------- MODULE JobProcessing ---------------------------
(***************************************************************************)
(* The life of background jobs: the HTTP handler that records and enqueues *)
(* a job (job.service.ts), the BullMQ queue, the workers that run          *)
(* processFileJob and their "failed" listener (job.processor.ts), and the  *)
(* Redis record of the job they all write (job.repository.ts).             *)
(*                                                                         *)
(* Every handler is cut at its awaits: one action runs from one Redis      *)
(* reply to the effect of the next command.  The record and the queue live *)
(* in Redis and survive a crash of an instance; everything an instance     *)
(* holds in memory does not.                                               *)
(***************************************************************************)
EXTENDS Naturals, FiniteSets, BullMQ

CONSTANTS
    Jobs,            \* job ids: each names one POST /jobs
    NoJob,
    Instances,       \* processes running main.ts
    Home,            \* the instance whose worker owns a slot
    MaxCrashes,      \* bounds on the faults of one behaviour
    MaxRedisErrors,
    MaxLockLosses,
    MaxBoardRetries,
    MaxBoardRemovals

ASSUME NoJobAssumption == NoJob \notin Jobs
ASSUME HomeAssumption == Home \in [Slots -> Instances]
ASSUME BoundsAssumption ==
    /\ MaxCrashes \in Nat /\ MaxRedisErrors \in Nat
    /\ MaxLockLosses \in Nat
    /\ MaxBoardRetries \in Nat /\ MaxBoardRemovals \in Nat

VARIABLES
    record,   \* the JobEntity stored under job:<id>
    queue,    \* the BullMQ entry of each job
    request,  \* where the POST that creates the job stands
    exec,     \* what each slot is executing
    late,     \* updates started by the "failed" listener and not awaited
    up,       \* the instances that are running
    faults    \* how many faults have happened

vars == <<record, queue, request, exec, late, up, faults>>

-----------------------------------------------------------------------------
(* The record and the two operations of the repository.                    *)

JobStatus == {"queued", "active", "completed", "failed"}
Terminal == {"completed", "failed"}

\* "none" and "expired" are both the null of findById; they are told apart to
\* state properties.  stamps: which of completedAt and failedAt are set.
JobEntity == [status : JobStatus \cup {"none", "expired"}, attempts : Nat,
              stamps : SUBSET {"completedAt", "failedAt"}, ttl : BOOLEAN]

Vacant(why) == [status |-> why, attempts |-> 0, stamps |-> {}, ttl |-> FALSE]

NewEntity == [status |-> "queued", attempts |-> 0, stamps |-> {}, ttl |-> FALSE]

Exists(entity) == entity.status \in JobStatus

\* Bug: SET for every status.
Updated_NoTtl(existing, status, attempts, stamps) ==
    [status |-> status, attempts |-> attempts,
     stamps |-> existing.stamps \cup stamps, ttl |-> FALSE]

\* { ...existing, ...updates, status }, with a TTL iff the status is terminal.
Updated(existing, status, attempts, stamps) ==
    [status |-> status, attempts |-> attempts,
     stamps |-> existing.stamps \cup stamps, ttl |-> status \in Terminal]

-----------------------------------------------------------------------------
(* Processes.                                                              *)

\* A slot between awaits: pc names what it waits to do, atm is the value of
\* job.attemptsMade it was given, snap the entity its last GET returned.
ExecPcs == {"idle", "claimed", "marking", "working", "saving", "saved", "doomed"}
Idle == [pc |-> "idle", job |-> NoJob, atm |-> 0, snap |-> Vacant("none")]
Execution == [pc : ExecPcs, job : Jobs \cup {NoJob}, atm : Nat, snap : JobEntity]

Pending == [at : Instances, job : Jobs, attempts : Nat, pc : {"get", "set"},
            snap : JobEntity]

Request == [pc : {"unsent", "storing", "adding", "accepted", "rejected", "aborted"},
            at : Instances]

FaultKinds == {"crash", "redisError", "lockLoss", "boardRetry", "boardRemoval"}
Limit == [crash |-> MaxCrashes, redisError |-> MaxRedisErrors,
          lockLoss |-> MaxLockLosses, boardRetry |-> MaxBoardRetries,
          boardRemoval |-> MaxBoardRemovals]

Spend(kind) ==
    /\ faults[kind] < Limit[kind]
    /\ faults' = [faults EXCEPT ![kind] = @ + 1]

TypeOK ==
    /\ record \in [Jobs -> JobEntity]
    /\ queue \in [Jobs -> Entry]
    /\ request \in [Jobs -> Request]
    /\ exec \in [Slots -> Execution]
    /\ late \in SUBSET Pending
    /\ up \in SUBSET Instances
    /\ faults \in [FaultKinds -> Nat]

Init ==
    /\ record = [j \in Jobs |-> Vacant("none")]
    /\ queue = [j \in Jobs |-> Absent]
    /\ request \in [Jobs -> [pc : {"unsent"}, at : Instances]]
    /\ exec = [s \in Slots |-> Idle]
    /\ late = {}
    /\ up = Instances
    /\ faults = [k \in FaultKinds |-> 0]

-----------------------------------------------------------------------------
(* POST /jobs: JobService.createJob.                                       *)

Advance(j, from, to) ==
    /\ request[j].pc = from
    /\ request' = [request EXCEPT ![j].pc = to]

\* The request reaches an instance, which generates the id and the entity.
Submit(j) ==
    /\ request[j].at \in up
    /\ Advance(j, "unsent", "storing")
    /\ UNCHANGED <<record, queue, exec, late, up, faults>>

\* jobRepository.create
Store(j) ==
    /\ Advance(j, "storing", "adding")
    /\ record' = [record EXCEPT ![j] = NewEntity]
    /\ UNCHANGED <<queue, exec, late, up, faults>>

\* Bugs: answering without waiting for queue.add, and queue.add without waiting
\* for the record.
Enqueue_Unconfirmed(j) ==
    /\ Advance(j, "adding", "accepted")
    /\ queue' \in {queue, [queue EXCEPT ![j] = Added]}
    /\ UNCHANGED <<record, exec, late, up, faults>>
Enqueue_NotAwaited(j) ==
    /\ \/ Advance(j, "adding", "accepted")
       \/ request[j].pc = "storing" /\ queue[j] = Absent /\ UNCHANGED request
    /\ queue' = [queue EXCEPT ![j] = Added]
    /\ UNCHANGED <<record, exec, late, up, faults>>

\* queue.add, and the 201 answer.
Enqueue(j) ==
    /\ Advance(j, "adding", "accepted")
    /\ queue' = [queue EXCEPT ![j] = Added]
    /\ UNCHANGED <<record, exec, late, up, faults>>

\* Either call rejects: the handler does not undo the other, the client gets
\* a 500.
CreateFails(j) ==
    /\ Advance(j, "storing", "rejected") \/ Advance(j, "adding", "rejected")
    /\ Spend("redisError")
    /\ UNCHANGED <<record, queue, exec, late, up>>

-----------------------------------------------------------------------------
(* The worker: BullMQ hands a job to a free slot, which runs               *)
(* processFileJob.  A slot whose lock was lost keeps running.              *)

At(s, pc) == exec[s].pc = pc /\ Home[s] \in up

Goto(s, pc) == exec' = [exec EXCEPT ![s].pc = pc]

HoldsLock(s) == queue[exec[s].job].lock = s

\* The script that ends an execution: the lock's holder leaves its job with an
\* entry e and removes what is outdated by it; anybody else changes nothing.
MoveTo(s, e) ==
    \/ /\ HoldsLock(s)
       /\ \E old \in Outdated(queue, exec[s].job, e) :
            queue' = [Trimmed(queue, old) EXCEPT ![exec[s].job] = e]
    \/ ~HoldsLock(s) /\ UNCHANGED queue

Claim(s, j) ==
    /\ At(s, "idle")
    /\ queue[j].state = "wait"
    /\ queue' = [queue EXCEPT ![j] = Claimed(@, s)]
    /\ exec' = [exec EXCEPT ![s] =
                  [pc |-> IF queue[j].doomed THEN "doomed" ELSE "claimed",
                   job |-> j, atm |-> queue[j].made, snap |-> Vacant("none")]]
    /\ UNCHANGED <<record, request, late, up, faults>>

\* updateStatus(ACTIVE): GET; nothing is written when there is no record.
ReadForActive(s) ==
    LET entity == record[exec[s].job] IN
    /\ At(s, "claimed")
    /\ exec' = [exec EXCEPT
                  ![s].pc = IF Exists(entity) THEN "marking" ELSE "working",
                  ![s].snap = IF Exists(entity) THEN entity ELSE @]
    /\ UNCHANGED <<record, queue, request, late, up, faults>>

\* Bug: attemptsMade does not count the attempt that is running.
MarkActive_OldCount(s) ==
    /\ At(s, "marking")
    /\ record' = [record EXCEPT ![exec[s].job] =
                    Updated(exec[s].snap, "active", exec[s].atm, {})]
    /\ Goto(s, "working")
    /\ UNCHANGED <<queue, request, late, up, faults>>

\* Bug: the name of BullMQ's state instead of a JobStatus.
MarkActive_QueueState(s) ==
    /\ At(s, "marking")
    /\ record' = [record EXCEPT ![exec[s].job] =
                    Updated(exec[s].snap, "wait", exec[s].atm + 1, {})]
    /\ Goto(s, "working")
    /\ UNCHANGED <<queue, request, late, up, faults>>

\* updateStatus(ACTIVE): SET
MarkActive(s) ==
    /\ At(s, "marking")
    /\ record' = [record EXCEPT ![exec[s].job] =
                    Updated(exec[s].snap, "active", exec[s].atm + 1, {})]
    /\ Goto(s, "working")
    /\ UNCHANGED <<queue, request, late, up, faults>>

\* Bug: merge into the entity read for ACTIVE.
ReadForCompleted_Cached(s) ==
    /\ At(s, "working")
    /\ Goto(s, IF Exists(record[exec[s].job]) THEN "saving" ELSE "saved")
    /\ UNCHANGED <<record, queue, request, late, up, faults>>

\* The work is done and did not fail; updateStatus(COMPLETED): GET
ReadForCompleted(s) ==
    LET entity == record[exec[s].job] IN
    /\ At(s, "working")
    /\ exec' = [exec EXCEPT
                  ![s].pc = IF Exists(entity) THEN "saving" ELSE "saved",
                  ![s].snap = IF Exists(entity) THEN entity ELSE @]
    /\ UNCHANGED <<record, queue, request, late, up, faults>>

\* Bug: attemptsMade does not count the attempt that succeeds.
SaveCompleted_OldCount(s) ==
    /\ At(s, "saving")
    /\ record' = [record EXCEPT ![exec[s].job] =
                    Updated(exec[s].snap, "completed", exec[s].atm,
                            {"completedAt"})]
    /\ Goto(s, "saved")
    /\ UNCHANGED <<queue, request, late, up, faults>>

\* updateStatus(COMPLETED): SETEX
SaveCompleted(s) ==
    /\ At(s, "saving")
    /\ record' = [record EXCEPT ![exec[s].job] =
                    Updated(exec[s].snap, "completed", exec[s].atm + 1,
                            {"completedAt"})]
    /\ Goto(s, "saved")
    /\ UNCHANGED <<queue, request, late, up, faults>>

\* Bug: the processor returns without awaiting the write.
FinishJob_NotAwaited(s) ==
    /\ At(s, "saving") \/ At(s, "saved")
    /\ MoveTo(s, Completed(queue[exec[s].job]))
    /\ exec' = [exec EXCEPT ![s] = Idle]
    /\ UNCHANGED <<record, request, late, up, faults>>

\* Bug: completing a job does not ask for its lock.
FinishJob_Unlocked(s) ==
    /\ At(s, "saved")
    /\ queue' = [queue EXCEPT ![exec[s].job] = Completed(@)]
    /\ exec' = [exec EXCEPT ![s] = Idle]
    /\ UNCHANGED <<record, request, late, up, faults>>

\* The processor returned: BullMQ completes the job, or notices that the lock
\* is gone and leaves the job to whoever holds it.
FinishJob(s) ==
    /\ At(s, "saved")
    /\ MoveTo(s, Completed(queue[exec[s].job]))
    /\ exec' = [exec EXCEPT ![s] = Idle]
    /\ UNCHANGED <<record, request, late, up, faults>>

\* Bugs: attemptsMade taken for the number of earlier attempts, or compared
\* strictly.
IsLastAttempt_OffByOne(attemptsMade) == attemptsMade + 1 >= MaxAttempts
IsLastAttempt_Strict(attemptsMade) == attemptsMade > MaxAttempts

\* The test of the "failed" listener; job.attemptsMade already counts the
\* attempt that failed.
IsLastAttempt(attemptsMade) == attemptsMade >= MaxAttempts

\* The listener starts an update of the record and returns without awaiting it.
OnFailed(s, attemptsMade) ==
    IF IsLastAttempt(attemptsMade)
    THEN late \cup {[at |-> Home[s], job |-> exec[s].job, attempts |-> attemptsMade,
                     pc |-> "get", snap |-> Vacant("none")]}
    ELSE late

\* The attempt ends in an error: BullMQ moves the job to entry, releases it and
\* emits "failed"; without the lock it only emits "error".
Release(s, entry) ==
    /\ MoveTo(s, entry)
    /\ late' = IF HoldsLock(s) THEN OnFailed(s, exec[s].atm + 1) ELSE late
    /\ exec' = [exec EXCEPT ![s] = Idle]

Throw(s) ==
    LET entry == queue[exec[s].job] IN
    Release(s, IF Retries(entry.made) THEN BackedOff(entry) ELSE GivenUp(entry))

\* The simulated failure.
FailAttempt(s) ==
    /\ At(s, "working")
    /\ Throw(s)
    /\ UNCHANGED <<record, request, up, faults>>

\* A Redis command of the attempt is answered with an error.
ExecError(s) ==
    /\ \E pc \in {"claimed", "marking", "saving", "saved"} : At(s, pc)
    /\ Spend("redisError")
    /\ Throw(s)
    /\ UNCHANGED <<record, request, up>>

\* A job past its stall limit is failed without running the processor and
\* without regard to the attempts that remain.
FailDoomed(s) ==
    /\ At(s, "doomed")
    /\ Release(s, GivenUp(queue[exec[s].job]))
    /\ UNCHANGED <<record, request, up, faults>>

\* The pending update of the listener, updateStatus(FAILED): GET, then SETEX.
LateRead(t) ==
    /\ t.pc = "get"
    /\ late' = (late \ {t}) \cup
               (IF Exists(record[t.job])
                THEN {[t EXCEPT !.pc = "set", !.snap = record[t.job]]} ELSE {})
    /\ UNCHANGED <<record, queue, request, exec, up, faults>>

LateWrite(t) ==
    /\ t.pc = "set"
    /\ record' = [record EXCEPT ![t.job] =
                    Updated(t.snap, "failed", t.attempts, {"failedAt"})]
    /\ late' = late \ {t}
    /\ UNCHANGED <<queue, request, exec, up, faults>>

\* Its .catch only logs.
LateError(t) ==
    /\ Spend("redisError")
    /\ late' = late \ {t}
    /\ UNCHANGED <<record, queue, request, exec, up>>

-----------------------------------------------------------------------------
(* Redis and BullMQ housekeeping, faults, and the operator.                *)

\* A backoff delay passes.
Promote(j) ==
    /\ queue[j].state = "delayed"
    /\ queue' = [queue EXCEPT ![j] = Promoted(@)]
    /\ UNCHANGED <<record, request, exec, late, up, faults>>

\* The TTL of the record runs out.
Expire(j) ==
    /\ record[j].ttl
    /\ record' = [record EXCEPT ![j] = Vacant("expired")]
    /\ UNCHANGED <<queue, request, exec, late, up, faults>>

Locked(j) == queue[j].state = "active" /\ queue[j].lock # NoSlot

\* Nobody renews the lock of a job whose slot was lost in a crash.
LockExpires(j) ==
    /\ Locked(j)
    /\ exec[queue[j].lock].job # j
    /\ queue' = [queue EXCEPT ![j] = Unlocked(@)]
    /\ UNCHANGED <<record, request, exec, late, up, faults>>

\* A slot that is still running is too slow to renew its lock.
LockLost(j) ==
    /\ Locked(j)
    /\ exec[queue[j].lock].job = j
    /\ Spend("lockLoss")
    /\ queue' = [queue EXCEPT ![j] = Unlocked(@)]
    /\ UNCHANGED <<record, request, exec, late, up>>

\* The stalled check of any running worker.
StalledCheck(j) ==
    /\ up # {}
    /\ queue[j].state = "active" /\ queue[j].lock = NoSlot
    /\ queue' = [queue EXCEPT ![j] = Stalled(@)]
    /\ UNCHANGED <<record, request, exec, late, up, faults>>

\* "Retry" on the Bull Board.
BoardRetry(j) ==
    /\ up # {}
    /\ queue[j].state \in Finished
    /\ Spend("boardRetry")
    /\ queue' = [queue EXCEPT ![j] = Requeued(@)]
    /\ UNCHANGED <<record, request, exec, late, up>>

\* "Clean" on the Bull Board, which refuses a job that is locked.  The record is
\* not told.
BoardRemove(j) ==
    /\ up # {}
    /\ queue[j].state \notin {"absent", "removed"} /\ ~Locked(j)
    /\ Spend("boardRemoval")
    /\ queue' = [queue EXCEPT ![j] = Removed]
    /\ UNCHANGED <<record, request, exec, late, up>>

Crash(p) ==
    /\ p \in up
    /\ Spend("crash")
    /\ up' = up \ {p}
    /\ exec' = [s \in Slots |-> IF Home[s] = p THEN Idle ELSE exec[s]]
    /\ late' = {t \in late : t.at # p}
    /\ request' = [j \in Jobs |->
                     IF request[j].at = p /\ request[j].pc \in {"storing", "adding"}
                     THEN [request[j] EXCEPT !.pc = "aborted"] ELSE request[j]]
    /\ UNCHANGED <<record, queue>>

\* docker-compose: restart: unless-stopped
Restart(p) ==
    /\ p \notin up
    /\ up' = up \cup {p}
    /\ UNCHANGED <<record, queue, request, exec, late, faults>>

-----------------------------------------------------------------------------

RequestStep(j) == Store(j) \/ Enqueue(j)

ExecStep(s) ==
    \/ ReadForActive(s) \/ MarkActive(s)
    \/ ReadForCompleted(s) \/ SaveCompleted(s) \/ FinishJob(s)
    \/ FailAttempt(s) \/ FailDoomed(s)

LateStep(t) == LateRead(t) \/ LateWrite(t)

Fault ==
    \/ \E j \in Jobs : CreateFails(j) \/ LockLost(j) \/ BoardRetry(j) \/ BoardRemove(j)
    \/ \E s \in Slots : ExecError(s)
    \/ \E t \in late : LateError(t)
    \/ \E p \in Instances : Crash(p)

Next ==
    \/ \E j \in Jobs : \/ Submit(j) \/ RequestStep(j)
                       \/ Promote(j) \/ Expire(j)
                       \/ LockExpires(j) \/ StalledCheck(j)
    \/ \E s \in Slots : ExecStep(s) \/ \E j \in Jobs : Claim(s, j)
    \/ \E t \in late : LateStep(t)
    \/ \E p \in Instances : Restart(p)
    \/ Fault

\* A running process takes its next step, a timer fires, a crashed container is
\* restarted, and an idle worker takes a job that waits.  Clients, operators
\* and faults are under no obligation.
Fairness ==
    /\ \A j \in Jobs :
         /\ WF_vars(RequestStep(j))
         /\ WF_vars(Promote(j))
         /\ WF_vars(Expire(j))
         /\ WF_vars(LockExpires(j))
         /\ WF_vars(StalledCheck(j))
         /\ WF_vars(\E s \in Slots : Claim(s, j))
    /\ \A s \in Slots : WF_vars(ExecStep(s))
    /\ WF_vars(\E t \in late : LateStep(t))
    /\ \A p \in Instances : WF_vars(Restart(p))

Spec == Init /\ [][Next]_vars
FairSpec == Spec /\ Fairness

-----------------------------------------------------------------------------
(* Properties.                                                             *)

\* No processor was too slow to keep its lock and no operator retried a job.
Exclusive == faults.lockLoss = 0 /\ faults.boardRetry = 0

\* Nor was there a crash or a Redis error.
Undisturbed == \A k \in FaultKinds : faults[k] = 0

\* While the locks hold, at most one party is about to write the record of a
\* job: one slot, or one pending update of a listener, across all instances.
\* updateStatus (job.repository.ts) reads, merges and writes without a
\* transaction, and relies on this.
SingleWriter ==
    Exclusive =>
        /\ \A s1, s2 \in Slots :
             exec[s1].job = exec[s2].job => exec[s1].job = NoJob \/ s1 = s2
        /\ \A t1, t2 \in late : t1.job = t2.job => t1 = t2
        /\ \A s \in Slots, t \in late : exec[s].job # t.job

\* While the locks hold, what updateStatus read is still what is stored when
\* it writes: no update is lost.  Only the TTL may intervene.
FreshSnapshot ==
    Exclusive =>
        /\ \A s \in Slots :
             exec[s].pc \in {"marking", "saving"} =>
                 record[exec[s].job] \in {exec[s].snap, Vacant("expired")}
        /\ \A t \in late :
             t.pc = "set" => record[t.job] \in {t.snap, Vacant("expired")}

\* A job that is in the queue has had a record: the silent return of
\* updateStatus for a missing record hides nothing but an expiry.
QueuedHasRecord ==
    \A j \in Jobs : queue[j].state # "absent" => record[j].status # "none"

\* While the locks hold, and whatever crashes or Redis errors there were, a
\* slot that works on a job has made the client see it: active, with the number
\* of this attempt.
WorkIsVisible ==
    Exclusive =>
        \A s \in Slots :
            exec[s].pc \in {"working", "saving"} =>
                \/ record[exec[s].job].status = "active"
                   /\ record[exec[s].job].attempts = exec[s].atm + 1
                \/ record[exec[s].job].status = "expired"

\* While the locks hold, a job that the queue completed is recorded as
\* completed with the attempts it took: moveToCompleted never gets ahead of
\* the write of processFileJob.
CompletedIsRecorded ==
    Exclusive =>
        \A j \in Jobs :
            queue[j].state = "completed" =>
                \/ record[j].status = "completed"
                   /\ record[j].attempts = queue[j].made
                \/ record[j].status = "expired"

\* The listener prepares the permanent failure of a job only when the queue
\* gave it up, never while BullMQ is going to retry it; by the time it is written
\* the job may have been removed as the oldest.
OnlyPermanentFailures ==
    Exclusive => \A t \in late : queue[t.job].state \in {"failed", "removed"}

\* No job is attempted more often than "attempts" says, and no record claims
\* so, even when crashes and lost locks make two slots run it at once.
AttemptsBounded ==
    faults.boardRetry = 0 =>
        /\ \A j \in Jobs :
             queue[j].made <= MaxAttempts /\ record[j].attempts <= MaxAttempts
        /\ \A s \in Slots : exec[s].atm < MaxAttempts

Busy(j) == \/ \E s \in Slots : exec[s].job = j
           \/ \E t \in late : t.job = j

\* BullMQ will not work on the job again by itself.
Gone == Finished \cup {"removed"}

\* Without faults, the record of a job that nobody is working on is the one its
\* queue entry calls for, timestamps included; and BullMQ forgets a job only when
\* its record tells the outcome or has expired.
RecordMatchesQueue ==
    Undisturbed =>
        \A j \in Jobs :
            \/ Busy(j)
            \/ queue[j].state = "absent"
            \/ queue[j].state \in Gone /\ record[j].status = "expired"
            \/ queue[j].state = "removed" /\ record[j].status \in Terminal
            \/ record[j] =
                 CASE queue[j].state \in Finished ->
                        Updated(Vacant("none"), queue[j].state, queue[j].made,
                                IF queue[j].state = "failed" THEN {"failedAt"}
                                                             ELSE {"completedAt"})
                   [] queue[j].made = 0 -> NewEntity
                   [] OTHER -> Updated(NewEntity, "active", queue[j].made, {})

\* While the locks hold, a job recorded as failed stays so until it expires,
\* through crashes and Redis errors.
FailedIsFinal ==
    [][Exclusive' =>
         \A j \in Jobs : record[j].status = "failed" =>
                            record'[j].status \in {"failed", "expired"}]_vars

\* While the locks hold, the attempts a client sees never go down.
AttemptsNeverDecrease ==
    [][Exclusive' =>
         \A j \in Jobs : Exists(record[j]) /\ Exists(record'[j]) =>
                            record[j].attempts <= record'[j].attempts]_vars

\* Unless an operator retries it, a job in the queue is decided once and then only
\* removed, even when a slot that lost its lock returns after another one took
\* the job over or the operator removed it.
OutcomeIsFinal ==
    [][faults'.boardRetry = 0 =>
         \A j \in Jobs :
             queue[j].state \in Gone => queue'[j] \in {queue[j], Removed}]_vars

\* README.md: "jobs are not lost on worker crashes".  An accepted job is
\* completed or given up by the queue, through finitely many faults, unless an
\* operator removes it.
AcceptedJobSettles ==
    \A j \in Jobs :
        request[j].pc = "accepted" ~>
            \/ queue[j].state \in Finished
            \/ queue[j].state = "removed" /\ faults.boardRemoval > 0

\* createJob undoes nothing and a queued record has no TTL.  It stays queued for
\* ever only when the POST failed, an operator removed the job, or every execution
\* stalled before it got to the record; the client was told 201 in the last two.
QueuedMovesOn ==
    \A j \in Jobs :
        record[j].status = "queued" ~>
            \/ record[j].status # "queued"
            \/ request[j].pc \in {"rejected", "aborted"}
            \/ queue[j].state = "removed" /\ faults.boardRemoval > 0
            \/ queue[j].state = "failed" /\ queue[j].stalls > MaxStalledCount

\* Without faults the records implement the lifecycle of README.md.
Lifecycle == INSTANCE JobLifecycle WITH status <- [j \in Jobs |-> record[j].status]
ImplementsLifecycle == Lifecycle!Spec

\* job.processor.ts: listeners for "permanent failure handling".  Whenever the
\* queue gives a job up, the listener starts to record that.
EveryFailureHandled ==
    [][\A j \in Jobs :
          queue[j].state # "failed" /\ queue'[j].state = "failed" =>
              \E t \in late' : t.job = j]_vars

\* README.md: the lifecycle ends in completed or failed.  A job that failed for
\* good is eventually shown as failed.
PermanentFailureRecorded ==
    \A j \in Jobs : queue[j].state = "failed" ~>
                       record[j].status \in {"failed", "expired"}
=============================================================================
