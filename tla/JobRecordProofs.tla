-------------------------- MODULE JobRecordProofs --------------------------
(***************************************************************************)
(* Proofs about the records of jobs, for any number of jobs, slots,        *)
(* instances, attempts and faults: every job in the queue has had a        *)
(* record; while the queue's locks hold no update of a record is lost, and *)
(* what clients are shown of a job never goes back.                        *)
(***************************************************************************)
EXTENDS JobProcessingProofs

USE DEF Terminal, JobStatus, FaultKinds, ExecPcs, EntryStates

-----------------------------------------------------------------------------
(* QueuedHasRecord is not inductive: it does not say that a job about to   *)
(* be enqueued has its record.                                             *)

HasRecord(j) ==
    request[j].pc = "adding" \/ queue[j].state # "absent" => record[j].status # "none"

Unstored == {"unsent", "storing"}

\* No step deletes a record, and a request gets to the point of adding its job only
\* by storing one.
RecordStep(j) ==
    /\ record'[j].status = "none" => record[j].status = "none"
    /\ request'[j].pc = "adding" => request[j].pc = "adding" \/ record'[j] = NewEntity
    /\ request'[j].pc \in Unstored => request[j].pc \in Unstored

LEMMA RecordKept ==
    ASSUME NEW j \in Jobs, HasRecord(j), RecordStep(j), EntryStep(j)
    PROVE  HasRecord(j)'
<1>1. NewEntity.status # "none"
  BY DEF NewEntity
<1> QED
  BY <1>1 DEF HasRecord, RecordStep, EntryStep, Moves, Finished

\* The values written to a record are not the empty one.
LEMMA WrittenStatus ==
    /\ NewEntity.status # "none" /\ Vacant("expired").status # "none"
    /\ \A e, status, n, stamps : Updated(e, status, n, stamps).status = status
  BY DEF NewEntity, Vacant, Updated

LEMMA EachRecord == TypeInv /\ [Next]_vars => \A j \in Jobs : RecordStep(j)
<1> DEFINE Each == \A j \in Jobs : RecordStep(j)
<1> SUFFICES ASSUME TypeInv, [Next]_vars PROVE Each
  OBVIOUS
<1>1. ASSUME record' = record,
             \A j \in Jobs :
                 /\ request'[j].pc = "adding" => request[j].pc = "adding"
                 /\ request'[j].pc \in Unstored => request[j].pc \in Unstored
      PROVE  Each
  BY <1>1 DEF RecordStep
<1>2. ASSUME request' = request, NEW j, NEW e, e.status # "none",
             record' = [record EXCEPT ![j] = e]
      PROVE  Each
  BY <1>2 DEF RecordStep, TypeInv, TypeOK
<1>3. ASSUME NEW j \in Jobs, Store(j) PROVE Each
  <2>1. /\ record'[j] = NewEntity /\ request'[j].pc = "adding"
        /\ \A k \in Jobs \ {j} : record'[k] = record[k] /\ request'[k] = request[k]
    BY <1>3 DEF Store, Advance, TypeInv, TypeOK, Request
  <2> QED
    BY <2>1, WrittenStatus DEF RecordStep, Unstored
<1> HIDE DEF Each
<1>4. ASSUME NEW j \in Jobs, Submit(j) \/ Enqueue(j) \/ CreateFails(j) PROVE Each
  <2>1. /\ record' = record
        /\ \E from, to : /\ to # "adding" /\ (to \in Unstored => from \in Unstored)
                         /\ Advance(j, from, to)
    BY <1>4 DEF Submit, Enqueue, CreateFails, Unstored
  <2>2. \A k \in Jobs :
          /\ request'[k].pc = "adding" => request[k].pc = "adding"
          /\ request'[k].pc \in Unstored => request[k].pc \in Unstored
    BY <2>1 DEF Advance, TypeInv, TypeOK, Request
  <2> QED
    BY <1>1, <2>1, <2>2
<1>5. ASSUME NEW s \in Slots, MarkActive(s) \/ SaveCompleted(s) PROVE Each
  <2>1. PICK status, n, stamps :
          /\ status \in {"active", "completed"}
          /\ record' = [record EXCEPT ![exec[s].job] =
                          Updated(exec[s].snap, status, n, stamps)]
    BY <1>5 DEF MarkActive, SaveCompleted
  <2>2. request' = request
    BY <1>5 DEF MarkActive, SaveCompleted
  <2>3. Updated(exec[s].snap, status, n, stamps).status # "none"
    BY <2>1, WrittenStatus
  <2> QED
    BY <1>2, <2>1, <2>2, <2>3
<1>6. ASSUME NEW t \in late, LateWrite(t) PROVE Each
  <2>1. Updated(t.snap, "failed", t.attempts, {"failedAt"}).status # "none"
    BY WrittenStatus
  <2> QED
    BY <1>2, <1>6, <2>1 DEF LateWrite
<1>7. ASSUME NEW j \in Jobs, Expire(j) PROVE Each
  BY <1>2, <1>7, WrittenStatus DEF Expire
<1>8. ASSUME NEW p \in Instances, Crash(p) PROVE Each
  BY <1>1, <1>8 DEF Crash, Unstored, TypeInv, TypeOK, Request
<1>9. ASSUME UNCHANGED <<record, request>> PROVE Each
  BY <1>1, <1>9
<1> QED
  BY <1>3, <1>4, <1>5, <1>6, <1>7, <1>8, <1>9
  DEF Next, RequestStep, ExecStep, LateStep, Fault, Claim, ReadForActive,
      ReadForCompleted, FinishJob, FailAttempt, ExecError, FailDoomed, LateRead,
      LateError, Promote, LockExpires, LockLost, StalledCheck, BoardRetry,
      BoardRemove, Restart, vars

\* Whatever fails, a job is in the queue only if its record was stored first;
\* a missing record means that it has expired.
THEOREM RecordFirst == Spec => []QueuedHasRecord
<1> DEFINE RecordInv == \A j \in Jobs : HasRecord(j)
<1>1. Init => RecordInv
  BY NewEntries DEF Init, HasRecord
<1>2. TypeInv /\ LockInv /\ RecordInv /\ [Next]_vars => RecordInv'
  BY EachRecord, EachEntry, RecordKept DEF LockInv, QueueInv
<1>3. RecordInv => QueuedHasRecord
  BY DEF HasRecord, QueuedHasRecord
<1> QED
  BY <1>1, <1>2, <1>3, LockInvariant, PTL DEF Spec

-----------------------------------------------------------------------------
(* What a step does to a record, to a slot, and to the updates of the      *)
(* listeners.                                                              *)

\* A slot writes the record of job j as active, or as completed; a listener's
\* update writes it as failed.
Marks(s, j) ==
    /\ exec[s].job = j /\ exec[s].pc = "marking" /\ exec'[s].pc = "working"
    /\ record'[j] = Updated(exec[s].snap, "active", exec[s].atm + 1, {})
Saves(s, j) ==
    /\ exec[s].job = j /\ exec[s].pc = "saving" /\ exec'[s].pc = "saved"
    /\ record'[j] = Updated(exec[s].snap, "completed", exec[s].atm + 1, {"completedAt"})
Fails(t, j) ==
    /\ t.job = j /\ t.pc = "set" /\ t \notin late'
    /\ record'[j] = Updated(t.snap, "failed", t.attempts, {"failedAt"})

Written(j) ==
    \/ record'[j] = record[j]
    \/ request[j].pc = "storing" /\ request'[j].pc = "adding" /\ record'[j] = NewEntity
    \/ \E s \in Slots : Marks(s, j) \/ Saves(s, j)
    \/ \E t \in late : Fails(t, j)
    \/ record[j].ttl /\ record'[j] = Vacant("expired")

LEMMA EachWritten == TypeInv /\ [Next]_vars => \A j \in Jobs : Written(j)
<1> DEFINE Each == \A j \in Jobs : Written(j)
<1> SUFFICES ASSUME TypeInv, [Next]_vars PROVE Each
  OBVIOUS
<1>1. ASSUME UNCHANGED record PROVE Each
  BY <1>1 DEF Written
<1>2. ASSUME NEW j \in Jobs, NEW e, record' = [record EXCEPT ![j] = e],
             record'[j] = e => Written(j)
      PROVE  Each
  BY <1>2 DEF Written, TypeInv, TypeOK
<1> HIDE DEF Each
<1>3. ASSUME NEW j \in Jobs, Store(j) PROVE Each
  <2>1. record' = [record EXCEPT ![j] = NewEntity] /\ request[j].pc = "storing"
        /\ request'[j].pc = "adding"
    BY <1>3 DEF Store, Advance, TypeInv, TypeOK, Request
  <2> QED
    BY <1>2, <2>1 DEF Written
<1>4. ASSUME NEW s \in Slots, MarkActive(s) PROVE Each
  <2> DEFINE e == Updated(exec[s].snap, "active", exec[s].atm + 1, {})
  <2>1. exec[s].pc = "marking" /\ exec[s].job \in Jobs /\ exec'[s].pc = "working"
    BY <1>4, BusyJob DEF MarkActive, At, Goto, TypeInv, TypeOK, Execution
  <2>2. record'[exec[s].job] = e => Written(exec[s].job)
    BY <2>1 DEF Written, Marks
  <2> QED
    BY <1>2, <1>4, <2>1, <2>2 DEF MarkActive
<1>5. ASSUME NEW s \in Slots, SaveCompleted(s) PROVE Each
  <2> DEFINE e == Updated(exec[s].snap, "completed", exec[s].atm + 1, {"completedAt"})
  <2>1. exec[s].pc = "saving" /\ exec[s].job \in Jobs /\ exec'[s].pc = "saved"
    BY <1>5, BusyJob DEF SaveCompleted, At, Goto, TypeInv, TypeOK, Execution
  <2>2. record'[exec[s].job] = e => Written(exec[s].job)
    BY <2>1 DEF Written, Saves
  <2> QED
    BY <1>2, <1>5, <2>1, <2>2 DEF SaveCompleted
<1>6. ASSUME NEW t \in late, LateWrite(t) PROVE Each
  <2> DEFINE e == Updated(t.snap, "failed", t.attempts, {"failedAt"})
  <2>1. t.pc = "set" /\ t \notin late' /\ t.job \in Jobs
    BY <1>6 DEF LateWrite, TypeInv, TypeOK, Pending
  <2>2. record'[t.job] = e => Written(t.job)
    BY <2>1 DEF Written, Fails
  <2> QED
    BY <1>2, <1>6, <2>1, <2>2 DEF LateWrite
<1>7. ASSUME NEW j \in Jobs, Expire(j) PROVE Each
  BY <1>2, <1>7 DEF Expire, Written
<1> QED
  BY <1>1, <1>3, <1>4, <1>5, <1>6, <1>7
  DEF Next, RequestStep, ExecStep, LateStep, Fault, Submit, Enqueue, CreateFails, Claim,
      ReadForActive, ReadForCompleted, FinishJob, FailAttempt, ExecError, FailDoomed,
      LateRead, LateError, Promote, LockExpires, LockLost, StalledCheck, BoardRetry,
      BoardRemove, Crash, Restart, vars

\* A slot takes the job it names after the step.
Takes(s) ==
    LET x == exec'[s] IN
    /\ exec[s].pc = "idle" /\ x.pc = IF queue[x.job].doomed THEN "doomed" ELSE "claimed"
    /\ x.job \in Jobs /\ queue[x.job].state = "wait" /\ x.atm = queue[x.job].made
    /\ UNCHANGED record

\* A slot reads the record of its job and goes to found or to missing.
Reads(s, from, found, missing) ==
    LET entity == record[exec[s].job] IN
    /\ exec[s].pc = from /\ UNCHANGED record
    /\ \/ Exists(entity) /\ exec'[s].pc = found /\ exec'[s].snap = entity
       \/ ~Exists(entity) /\ exec'[s].pc = missing

Proceeds(s) ==
    /\ exec'[s].job = exec[s].job /\ exec'[s].atm = exec[s].atm
    /\ \/ Reads(s, "claimed", "marking", "working")
       \/ Marks(s, exec[s].job)
       \/ Reads(s, "working", "saving", "saved")
       \/ Saves(s, exec[s].job)

SlotStep(s) == exec'[s] = exec[s] \/ exec'[s] = Idle \/ Takes(s) \/ Proceeds(s)

LEMMA EachSlot == TypeInv /\ [Next]_vars => \A s \in Slots : SlotStep(s)
<1> DEFINE Each == \A s \in Slots : SlotStep(s)
<1> SUFFICES ASSUME TypeInv, [Next]_vars PROVE Each
  OBVIOUS
<1>1. ASSUME NEW s \in Slots, \A x \in Slots \ {s} : exec'[x] = exec[x], SlotStep(s)
      PROVE  Each
  BY <1>1 DEF SlotStep
<1>2. ASSUME UNCHANGED exec PROVE Each
  BY <1>2 DEF SlotStep
<1>3. ASSUME NEW s \in Slots, exec' = [exec EXCEPT ![s] = Idle] PROVE Each
  BY <1>3 DEF SlotStep, TypeInv, TypeOK
<1> HIDE DEF Each
<1>4. ASSUME NEW s \in Slots, NEW j \in Jobs, Claim(s, j) PROVE Each
  <2>1. /\ exec'[s].pc = IF queue[j].doomed THEN "doomed" ELSE "claimed"
        /\ exec'[s].job = j /\ exec'[s].atm = queue[j].made
        /\ \A x \in Slots \ {s} : exec'[x] = exec[x]
    BY <1>4 DEF Claim, TypeInv, TypeOK
  <2>2. Takes(s)
    BY <1>4, <2>1 DEF Claim, Takes, At
  <2> QED
    BY <1>1, <2>1, <2>2 DEF SlotStep
<1>5. ASSUME NEW s \in Slots, NEW from, NEW found, NEW missing,
             exec[s].pc = from, UNCHANGED record,
             exec' = [exec EXCEPT
                        ![s].pc = IF Exists(record[exec[s].job]) THEN found ELSE missing,
                        ![s].snap = IF Exists(record[exec[s].job])
                                    THEN record[exec[s].job] ELSE @]
      PROVE  /\ exec'[s].job = exec[s].job /\ exec'[s].atm = exec[s].atm
             /\ Reads(s, from, found, missing)
             /\ \A x \in Slots \ {s} : exec'[x] = exec[x]
  BY <1>5 DEF Reads, TypeInv, TypeOK, Execution
<1>6. ASSUME NEW s \in Slots, ReadForActive(s) PROVE Each
  BY <1>1, <1>5, <1>6 DEF ReadForActive, At, SlotStep, Proceeds
<1>7. ASSUME NEW s \in Slots, ReadForCompleted(s) PROVE Each
  BY <1>1, <1>5, <1>7 DEF ReadForCompleted, At, SlotStep, Proceeds
<1>8. ASSUME NEW s \in Slots, MarkActive(s) \/ SaveCompleted(s) PROVE Each
  <2>1. /\ exec'[s].job = exec[s].job /\ exec'[s].atm = exec[s].atm
        /\ \A x \in Slots \ {s} : exec'[x] = exec[x]
    BY <1>8 DEF MarkActive, SaveCompleted, Goto, TypeInv, TypeOK, Execution
  <2>2. Marks(s, exec[s].job) \/ Saves(s, exec[s].job)
    BY <1>8, BusyJob
    DEF MarkActive, SaveCompleted, At, Goto, Marks, Saves, TypeInv, TypeOK, Execution
  <2> QED
    BY <1>1, <2>1, <2>2 DEF SlotStep, Proceeds
<1>9. ASSUME NEW s \in Slots,
             FinishJob(s) \/ FailAttempt(s) \/ ExecError(s) \/ FailDoomed(s)
      PROVE  Each
  BY <1>3, <1>9 DEF FinishJob, FailAttempt, ExecError, FailDoomed, Throw, Release
<1>10. ASSUME NEW p \in Instances, Crash(p) PROVE Each
  BY <1>10 DEF Each, Crash, SlotStep
<1> QED
  BY <1>2, <1>4, <1>6, <1>7, <1>8, <1>9, <1>10
  DEF Next, RequestStep, ExecStep, LateStep, Fault, Submit, Store, Enqueue, CreateFails,
      LateRead, LateWrite, LateError, Promote, Expire, LockExpires, LockLost,
      StalledCheck, BoardRetry, BoardRemove, Restart, vars

\* An update that is pending after the step was pending, or is started for the job a
\* slot leaves, or has just read its record.
Starts(t) ==
    /\ t.pc = "get" /\ UNCHANGED record
    /\ \E s \in Slots : /\ exec[s].pc # "idle" /\ exec[s].job = t.job
                        /\ t.attempts = exec[s].atm + 1
Continues(t) ==
    /\ Exists(record[t.job]) /\ t.snap = record[t.job] /\ UNCHANGED record
    /\ \E u \in late : u.job = t.job /\ u.attempts = t.attempts

UpdateStep(t) == t \in late \/ Starts(t) \/ Continues(t)

LEMMA EachUpdate == TypeInv /\ [Next]_vars => \A t \in late' : UpdateStep(t)
<1> DEFINE Each == \A t \in late' : UpdateStep(t)
<1> SUFFICES ASSUME TypeInv, [Next]_vars PROVE Each
  OBVIOUS
<1>1. ASSUME late' \subseteq late PROVE Each
  BY <1>1 DEF UpdateStep
<1>2. ASSUME NEW s \in Slots, exec[s].pc # "idle", UNCHANGED record, NEW e, Release(s, e)
      PROVE  Each
  <2>1. \A t \in late' :
          \/ t \in late
          \/ t.pc = "get" /\ t.job = exec[s].job /\ t.attempts = exec[s].atm + 1
    BY <1>2 DEF Release, OnFailed
  <2> QED
    BY <1>2, <2>1 DEF UpdateStep, Starts
<1>3. ASSUME NEW t \in late, LateRead(t) PROVE Each
  <2>1. \A x \in late' :
          \/ x \in late
          \/ /\ Exists(record[t.job])
             /\ x.job = t.job /\ x.attempts = t.attempts /\ x.snap = record[t.job]
    BY <1>3 DEF LateRead, TypeInv, TypeOK, Pending
  <2> QED
    BY <1>3, <2>1 DEF LateRead, UpdateStep, Continues
<1> HIDE DEF Each
<1>4. ASSUME NEW s \in Slots, FailAttempt(s) \/ ExecError(s) \/ FailDoomed(s) PROVE Each
  <2>1. exec[s].pc # "idle" /\ UNCHANGED record
    BY <1>4 DEF FailAttempt, ExecError, FailDoomed, At
  <2>2. \E e : Release(s, e)
    BY <1>4 DEF FailAttempt, ExecError, FailDoomed, Throw
  <2> QED
    BY <1>2, <2>1, <2>2
<1>5. ASSUME NEW t \in late, LateWrite(t) \/ LateError(t) PROVE Each
  BY <1>1, <1>5 DEF LateWrite, LateError
<1>6. ASSUME NEW p \in Instances, Crash(p) PROVE Each
  BY <1>1, <1>6 DEF Crash
<1>7. ASSUME UNCHANGED late PROVE Each
  BY <1>1, <1>7
<1> QED
  BY <1>3, <1>4, <1>5, <1>6, <1>7
  DEF Next, RequestStep, ExecStep, LateStep, Fault, Submit, Store, Enqueue, CreateFails,
      Claim, ReadForActive, MarkActive, ReadForCompleted, SaveCompleted, FinishJob,
      Promote, Expire, LockExpires, LockLost, StalledCheck, BoardRetry, BoardRemove,
      Restart, vars

\* Only a slot that saved a job completes it.
Completes(j) ==
    /\ UNCHANGED record /\ queue'[j] = Completed(queue[j])
    /\ \E s \in Slots : exec[s].pc = "saved" /\ exec[s].job = j

LEMMA EachCompleted ==
    ASSUME TypeInv, [Next]_vars, NEW j \in Jobs, queue'[j].state = "completed"
    PROVE  queue'[j] = queue[j] \/ Completes(j)
<1> USE DEF Finished
<1>1. ASSUME NEW k \in Jobs, NEW e, e.state # "completed",
             queue' = [queue EXCEPT ![k] = e]
      PROVE  queue'[j] = queue[j]
  BY <1>1 DEF TypeInv, TypeOK
<1>2. ASSUME NEW s \in Slots, exec[s].pc # "idle", NEW e, MoveTo(s, e),
             e.state # "completed"
      PROVE  queue'[j] = queue[j]
  BY <1>2, BusyJob, MoveToEffect, NewEntries DEF TypeInv, TypeOK
<1>3. ASSUME NEW s \in Slots, FinishJob(s) PROVE queue'[j] = queue[j] \/ Completes(j)
  <2>1. /\ exec[s].pc = "saved" /\ MoveTo(s, Completed(queue[exec[s].job]))
        /\ UNCHANGED record
    BY <1>3 DEF FinishJob, At
  <2>2. CASE exec[s].job = j
    BY <2>1, <2>2, MoveToEffect DEF Completes, TypeInv, TypeOK
  <2>3. CASE exec[s].job # j
    BY <2>1, <2>3, BusyJob, MoveToEffect, NewEntries DEF TypeInv, TypeOK
  <2> QED
    BY <2>2, <2>3
<1>4. ASSUME NEW s \in Slots, FailAttempt(s) \/ ExecError(s) \/ FailDoomed(s)
      PROVE  queue'[j] = queue[j]
  <2>1. exec[s].pc # "idle" /\ queue[exec[s].job] \in Entry
    BY <1>4, BusyJob DEF FailAttempt, ExecError, FailDoomed, At, TypeInv, TypeOK
  <2>2. \E e : e.state # "completed" /\ MoveTo(s, e)
    BY <1>4, <2>1, EntryChanges DEF FailAttempt, ExecError, FailDoomed, Throw, Release
  <2> QED
    BY <1>2, <2>1, <2>2
<1>5. \A k \in Jobs : queue[k] \in Entry
  BY DEF TypeInv, TypeOK
<1>6. ASSUME NEW k \in Jobs, Enqueue(k) \/ Promote(k) \/ StalledCheck(k) \/ BoardRetry(k)
                             \/ BoardRemove(k) \/ LockExpires(k) \/ LockLost(k)
      PROVE  queue'[j] = queue[j]
  BY <1>1, <1>5, <1>6, NewEntries, EntryChanges
  DEF Enqueue, Promote, StalledCheck, BoardRetry, BoardRemove, LockExpires, LockLost,
      Locked
<1>7. ASSUME NEW s \in Slots, NEW k \in Jobs, Claim(s, k) PROVE queue'[j] = queue[j]
  BY <1>1, <1>5, <1>7, EntryChanges DEF Claim
<1> QED
  BY <1>3, <1>4, <1>6, <1>7
  DEF Next, RequestStep, ExecStep, LateStep, Fault, Submit, Store, CreateFails,
      ReadForActive, MarkActive, ReadForCompleted, SaveCompleted, LateRead, LateWrite,
      LateError, Expire, Crash, Restart, vars

-----------------------------------------------------------------------------
(* No lost update.  FreshSnapshot, WorkIsVisible and CompletedIsRecorded   *)
(* are not inductive: they follow a slot from its GET to the end of the    *)
(* job only together, and only with what the record of a job may be before *)
(* a slot takes it: not yet stored, never failed, and not ahead of the     *)
(* attempts that the queue has counted.                                    *)

\* What somebody read of the record of j is still there, or has expired.
Unchanged(snap, j) == Exists(snap) /\ record[j] \in {snap, Vacant("expired")}

Shows(j, status, attempts) ==
    \/ record[j].status = status /\ record[j].attempts = attempts
    \/ record[j].status = "expired"

SlotRecord(s) ==
    LET x == exec[s] IN
    /\ x.pc \in {"marking", "saving"} => Unchanged(x.snap, x.job)
    /\ x.pc \in {"working", "saving"} => Shows(x.job, "active", x.atm + 1)
    /\ x.pc = "saved" => Shows(x.job, "completed", x.atm + 1)

LateRecord(t) ==
    /\ record[t.job].attempts <= t.attempts
    /\ t.pc = "set" => Unchanged(t.snap, t.job)

JobRecord(j) ==
    /\ queue[j].state = "absent" => queue[j] = Absent
    /\ request[j].pc \in Unstored => record[j] = Vacant("none")
    /\ queue[j].state \notin Gone => record[j].attempts <= queue[j].made + 1
    /\ record[j].status = "failed" => queue[j].state \in {"failed", "removed"}
    /\ queue[j].state = "completed" => Shows(j, "completed", queue[j].made)

Records ==
    /\ \A s \in Slots : SlotRecord(s)
    /\ \A t \in late : LateRecord(t)
    /\ \A j \in Jobs : JobRecord(j)

RecordsHeld == Exclusive => Records

\* No lock was lost after a step, so none before.
LEMMA ExclusiveBefore == TypeInv /\ [Next]_vars /\ Exclusive' => Exclusive
<1>1. ASSUME TypeInv, UNCHANGED faults, Exclusive' PROVE Exclusive
  BY <1>1 DEF Exclusive
<1> QED
  BY <1>1, SpendCounts
  DEF Next, RequestStep, ExecStep, LateStep, Fault, Submit, Store, Enqueue, CreateFails,
      Claim, ReadForActive, MarkActive, ReadForCompleted, SaveCompleted, FinishJob,
      FailAttempt, ExecError, FailDoomed, LateRead, LateWrite, LateError, Promote,
      Expire, LockExpires, LockLost, StalledCheck, BoardRetry, BoardRemove, Crash,
      Restart, vars

\* The attempts a job has made are only counted up while it is in the queue.
LEMMA MadeGrows ==
    ASSUME TypeInv, QueueInv, [Next]_vars, faults'.boardRetry = 0, NEW j \in Jobs,
           queue[j].state = "absent" => queue[j] = Absent, queue'[j].state \notin Gone
    PROVE  queue[j].state \notin Gone /\ queue[j].made <= queue'[j].made
<1>1. EntryStep(j) /\ queue[j] \in Entry
  BY EachEntry DEF TypeInv, TypeOK
<1>2. queue[j].made \in Nat
  BY <1>1 DEF Entry
<1>3. Removed.state = "removed" /\ Absent.made = 0 /\ Added.made = 0
  BY DEF Removed, Added, Absent
<1>4. CASE queue'[j] = queue[j]
  BY <1>2, <1>4
<1>5. CASE queue[j].state = "absent" /\ queue'[j] = Added
  BY <1>3, <1>5 DEF Gone, Finished
<1>6. CASE Moves(queue[j], queue'[j])
  <2>1. /\ BackedOff(queue[j]).made = queue[j].made + 1
        /\ Unlocked(queue[j]).made = queue[j].made
        /\ Stalled(queue[j]).made = queue[j].made
        /\ Promoted(queue[j]).made = queue[j].made
    BY <1>1 DEF Entry, BackedOff, Unlocked, Stalled, Promoted
  <2>2. queue'[j].made \in {queue[j].made, queue[j].made + 1}
    BY <1>1, <1>6, <2>1, EntryChanges DEF Moves, Gone, Finished
  <2> QED
    BY <1>2, <1>6, <2>2 DEF Moves, Gone, Finished
<1> QED
  BY <1>1, <1>3, <1>4, <1>5, <1>6 DEF EntryStep, Gone

Held == TypeInv /\ LockInv /\ Exclusive /\ Records /\ QueuedHasRecord

\* A job is with one slot, or with one listener, or not in the queue yet.
LEMMA OnePlace ==
    ASSUME Held, NEW j \in Jobs
    PROVE  /\ \A s \in Slots :
                exec[s].job = j =>
                    /\ exec[s].pc # "idle" /\ queue[j].state = "active"
                    /\ queue[j].made = exec[s].atm
                    /\ request[j].pc \notin NotAdded
                    /\ \A x \in Slots : exec[x].job = j => x = s
                    /\ \A t \in late : t.job # j
           /\ \A t \in late :
                t.job = j =>
                    /\ queue[j].state \in {"failed", "removed"}
                    /\ request[j].pc \notin NotAdded
                    /\ \A u \in late : u.job = j => u = t
<1>1. SlotsHold /\ LateAreFailed /\ AddedLast
  BY DEF Held, LockInv
<1>2. \A s \in Slots :
        exec[s].job = j =>
            exec[s].pc # "idle" /\ queue[j].state = "active" /\ queue[j].lock = s
            /\ queue[j].made = exec[s].atm
  BY <1>1, NoJobAssumption DEF Held, TypeInv, ExecJobs, SlotsHold
<1>3. \A t \in late :
        t.job = j => /\ queue[j].state \in {"failed", "removed"}
                     /\ \A u \in late : u.job = j => u = t
  BY <1>1 DEF LateAreFailed
<1>4. request[j].pc \in NotAdded => queue[j].state = "absent"
  BY <1>1 DEF AddedLast, NotAdded
<1> QED
  BY <1>2, <1>3, <1>4

\* While whoever is concerned with a job does nothing, its record can only expire.
LEMMA Undisputed ==
    ASSUME TypeInv, [Next]_vars, NEW j \in Jobs, request[j].pc # "storing",
           \A s \in Slots : exec[s].job = j => exec'[s] = exec[s],
           \A t \in late : t.job = j => t \in late'
    PROVE  /\ record'[j] \in {record[j], Vacant("expired")}
           /\ ~record[j].ttl => record'[j] = record[j]
  BY EachWritten DEF Written, Marks, Saves, Fails

\* What a status or a snapshot says of a record, it still says when the record
\* expires.
LEMMA ExpiryShows ==
    ASSUME NEW j \in Jobs, record'[j] \in {record[j], Vacant("expired")}
    PROVE  /\ \A status, n : Shows(j, status, n) => Shows(j, status, n)'
           /\ \A snap : Unchanged(snap, j) => Unchanged(snap, j)'
<1>1. Vacant("expired").status = "expired"
  BY DEF Vacant
<1> QED
  BY <1>1 DEF Shows, Unchanged

LEMMA SlotRecordStep ==
    ASSUME Held, [Next]_vars, Exclusive', NEW s \in Slots
    PROVE  SlotRecord(s)'
<1> DEFINE j == exec[s].job
<1>1. SlotRecord(s) /\ SlotStep(s) /\ TypeInv /\ TypeInv'
  BY EachSlot, TypeStep DEF Held, Records
<1>2. CASE exec'[s] = Idle
  BY <1>2, IdleExecution DEF SlotRecord
<1>3. CASE Takes(s)
  BY <1>3 DEF Takes, SlotRecord
<1>4. ASSUME exec[s].pc # "idle"
      PROVE  /\ j \in Jobs /\ queue[j].state = "active" /\ record[j].status # "none"
             /\ request[j].pc # "storing"
             /\ \A x \in Slots : exec[x].job = j => x = s
             /\ \A t \in late : t.job # j
  <2>1. j \in Jobs
    BY <1>1, <1>4, BusyJob
  <2>2. /\ queue[j].state = "active" /\ request[j].pc \notin NotAdded
        /\ \A x \in Slots : exec[x].job = j => x = s
        /\ \A t \in late : t.job # j
    BY <2>1, OnePlace
  <2> QED
    BY <2>1, <2>2 DEF Held, QueuedHasRecord, NotAdded
<1>5. CASE exec'[s] = exec[s]
  <2>1. CASE exec[s].pc = "idle"
    BY <1>5, <2>1 DEF SlotRecord
  <2>2. CASE exec[s].pc # "idle"
    <3>1. record'[j] \in {record[j], Vacant("expired")}
      BY <1>1, <1>4, <1>5, <2>2, Undisputed
    <3> QED
      BY <1>1, <1>4, <1>5, <2>2, <3>1, ExpiryShows DEF SlotRecord
  <2> QED
    BY <2>1, <2>2
<1>6. CASE Proceeds(s)
  <2>1. exec'[s].job = j /\ exec'[s].atm = exec[s].atm
    BY <1>6 DEF Proceeds
  <2>2. CASE Reads(s, "claimed", "marking", "working")
    <3>1. record[j].status \in JobStatus \cup {"expired"}
      BY <1>1, <1>4, <2>2 DEF Reads, TypeInv, TypeOK, JobEntity
    <3> QED
      BY <2>1, <2>2, <3>1 DEF Reads, SlotRecord, Unchanged, Shows, Exists
  <2>3. CASE Marks(s, j)
    <3>1. record'[j].status = "active" /\ record'[j].attempts = exec[s].atm + 1
      BY <2>3 DEF Marks, Updated
    <3> QED
      BY <2>1, <2>3, <3>1 DEF Marks, SlotRecord, Shows
  <2>4. CASE Reads(s, "working", "saving", "saved")
    <3>1. Shows(j, "active", exec[s].atm + 1)
      BY <1>1, <2>4 DEF Reads, SlotRecord
    <3>2. CASE Exists(record[j])
      BY <2>1, <2>4, <3>1, <3>2 DEF Reads, SlotRecord, Unchanged, Shows
    <3>3. CASE ~Exists(record[j])
      BY <2>1, <2>4, <3>1, <3>3 DEF Reads, SlotRecord, Shows, Exists
    <3> QED
      BY <3>2, <3>3
  <2>5. CASE Saves(s, j)
    <3>1. record'[j].status = "completed" /\ record'[j].attempts = exec[s].atm + 1
      BY <2>5 DEF Saves, Updated
    <3> QED
      BY <2>1, <2>5, <3>1 DEF Saves, SlotRecord, Shows
  <2> QED
    BY <1>6, <2>2, <2>3, <2>4, <2>5 DEF Proceeds
<1> QED
  BY <1>1, <1>2, <1>3, <1>5, <1>6 DEF SlotStep

LEMMA LateRecordStep ==
    ASSUME Held, [Next]_vars, NEW t \in late'
    PROVE  LateRecord(t)'
<1>1. TypeInv /\ UpdateStep(t) /\ \A u \in late : LateRecord(u)
  BY EachUpdate DEF Held, Records
<1>2. Vacant("expired").attempts = 0
  BY DEF Vacant
<1>3. CASE t \in late
  <2>1. t.job \in Jobs /\ t.attempts \in Nat
    BY <1>1, <1>3 DEF TypeInv, TypeOK, Pending
  <2>2. /\ request[t.job].pc # "storing" /\ \A s \in Slots : exec[s].job # t.job
        /\ \A u \in late : u.job = t.job => u = t
    BY <1>3, <2>1, OnePlace DEF NotAdded
  <2>3. record'[t.job] \in {record[t.job], Vacant("expired")}
    BY <1>1, <2>1, <2>2, Undisputed
  <2> QED
    BY <1>1, <1>2, <1>3, <2>1, <2>3, ExpiryShows DEF LateRecord
<1>4. CASE Starts(t)
  <2>1. PICK s \in Slots : /\ exec[s].pc # "idle" /\ exec[s].job = t.job
                           /\ t.attempts = exec[s].atm + 1
    BY <1>4 DEF Starts
  <2>2. t.job \in Jobs
    BY <1>1, <2>1, BusyJob
  <2>3. queue[t.job].state = "active" /\ queue[t.job].made = exec[s].atm
    BY <2>1, <2>2, OnePlace
  <2>4. record[t.job].attempts <= t.attempts
    BY <2>1, <2>2, <2>3 DEF Held, Records, JobRecord, Gone, Finished
  <2> QED
    BY <1>4, <2>4 DEF Starts, LateRecord
<1>5. CASE Continues(t)
  BY <1>1, <1>5 DEF Continues, LateRecord, Unchanged
<1> QED
  BY <1>1, <1>3, <1>4, <1>5 DEF UpdateStep

LEMMA JobRecordStep ==
    ASSUME Held, [Next]_vars, Exclusive', NEW j \in Jobs
    PROVE  JobRecord(j)'
<1>1. /\ TypeInv /\ TypeInv' /\ QueueInv /\ faults'.boardRetry = 0
      /\ JobRecord(j) /\ EntryStep(j) /\ RecordStep(j) /\ Written(j)
  BY TypeStep, EachEntry, EachRecord, EachWritten
  DEF Held, Records, LockInv, QueueInv, Exclusive
<1>2. /\ Vacant("expired").attempts = 0 /\ Vacant("expired").status = "expired"
      /\ NewEntity.attempts = 0 /\ NewEntity.status = "queued"
  BY DEF Vacant, NewEntity
<1>3. ASSUME NEW s \in Slots, Marks(s, j) \/ Saves(s, j)
      PROVE  /\ queue[j].state = "active" /\ request[j].pc \notin NotAdded
             /\ record'[j].attempts = queue[j].made + 1
             /\ record'[j].status \in {"active", "completed"}
  BY <1>3, OnePlace DEF Marks, Saves, Updated
<1>4. ASSUME NEW t \in late, Fails(t, j)
      PROVE  /\ queue[j].state \in {"failed", "removed"} /\ request[j].pc \notin NotAdded
             /\ record'[j].status = "failed" /\ record'[j].attempts = t.attempts
  BY <1>4, OnePlace DEF Fails, Updated
<1>5. /\ record[j].attempts \in Nat /\ queue[j].made \in Nat /\ queue'[j].made \in Nat
      /\ queue'[j] \in Entry
  BY <1>1 DEF TypeInv, TypeOK, JobEntity, Entry
<1>6. queue'[j].state = "absent" => queue'[j] = Absent
  <2>1. queue[j] \in Entry
    BY <1>1 DEF TypeInv, TypeOK
  <2>2. Moves(queue[j], queue'[j]) => queue'[j].state # "absent"
    BY <2>1, EntryChanges DEF Moves
  <2>3. Requeued(queue[j]).state # "absent"
    BY <2>1, EntryChanges
  <2> QED
    BY <1>1, <2>2, <2>3, NewEntries DEF EntryStep, JobRecord
<1>7. request'[j].pc \in Unstored => record'[j] = Vacant("none")
  <2> SUFFICES ASSUME request'[j].pc \in Unstored PROVE record'[j] = Vacant("none")
    OBVIOUS
  <2>1. request[j].pc \in Unstored /\ record[j] = Vacant("none")
    BY <1>1 DEF RecordStep, JobRecord
  <2>2. ~record[j].ttl /\ request[j].pc \in NotAdded /\ request'[j].pc # "adding"
    BY <2>1 DEF Vacant, Unstored, NotAdded
  <2> QED
    BY <1>1, <1>3, <1>4, <2>1, <2>2 DEF Written
<1>8. queue'[j].state \notin Gone => record'[j].attempts <= queue'[j].made + 1
  <2> SUFFICES ASSUME queue'[j].state \notin Gone
               PROVE  record'[j].attempts <= queue'[j].made + 1
    OBVIOUS
  <2>1. queue[j].state \notin Gone /\ queue[j].made <= queue'[j].made
    BY <1>1, MadeGrows DEF JobRecord
  <2>2. record'[j].attempts \in Nat /\ record'[j].attempts <= queue[j].made + 1
    <3>1. \A t \in late : ~Fails(t, j)
      BY <1>4, <2>1 DEF Gone, Finished
    <3>2. record[j].attempts <= queue[j].made + 1
      BY <1>1, <2>1 DEF JobRecord
    <3>3. CASE record'[j].attempts = 0
      BY <1>5, <3>3
    <3>4. CASE record'[j].attempts = queue[j].made + 1
      BY <1>5, <3>4
    <3>5. CASE record'[j] = record[j]
      BY <1>5, <3>2, <3>5
    <3> QED
      BY <1>1, <1>2, <1>3, <3>1, <3>3, <3>4, <3>5 DEF Written
  <2> QED
    BY <1>5, <2>1, <2>2
<1>9. record'[j].status = "failed" => queue'[j].state \in {"failed", "removed"}
  <2> SUFFICES ASSUME record'[j].status = "failed"
               PROVE  queue'[j].state \in {"failed", "removed"}
    OBVIOUS
  <2>1. queue[j].state \in {"failed", "removed"}
    BY <1>1, <1>2, <1>3, <1>4 DEF Written, JobRecord
  <2> QED
    BY <1>1, <2>1, DecidedOnce, NewEntries DEF Gone, Finished
<1>10. queue'[j].state = "completed" => Shows(j, "completed", queue[j].made)'
  <2> SUFFICES ASSUME queue'[j].state = "completed"
               PROVE  Shows(j, "completed", queue[j].made)'
    OBVIOUS
  <2>1. CASE queue'[j] = queue[j]
    <3>1. /\ request[j].pc # "storing" /\ \A s \in Slots : exec[s].job # j
          /\ \A t \in late : t.job # j
      BY <2>1, OnePlace DEF Held, LockInv, AddedLast
    <3>2. record'[j] \in {record[j], Vacant("expired")}
      BY <1>1, <3>1, Undisputed
    <3>3. Shows(j, "completed", queue[j].made)
      BY <1>1, <2>1 DEF JobRecord
    <3>4. CASE record'[j] = record[j]
      BY <2>1, <3>3, <3>4 DEF Shows
    <3>5. CASE record'[j] = Vacant("expired")
      BY <1>2, <3>5 DEF Shows
    <3> QED
      BY <3>2, <3>4, <3>5
  <2>2. CASE Completes(j)
    <3>1. PICK s \in Slots : exec[s].pc = "saved" /\ exec[s].job = j
      BY <2>2 DEF Completes
    <3>2. queue[j].made = exec[s].atm /\ SlotRecord(s)
      BY <3>1, OnePlace DEF Held, Records
    <3>3. queue'[j].made = exec[s].atm + 1
      <4>1. queue[j] \in Entry
        BY <1>1 DEF TypeInv, TypeOK
      <4> QED
        BY <2>2, <3>2, <4>1 DEF Completes, Completed, Entry
    <3> QED
      BY <2>2, <3>1, <3>2, <3>3 DEF Completes, SlotRecord, Shows
  <2> QED
    BY <1>1, <2>1, <2>2, EachCompleted
<1> QED
  BY <1>6, <1>7, <1>8, <1>9, <1>10 DEF JobRecord

LEMMA RecordsStep ==
    TypeInv /\ LockInv /\ QueuedHasRecord /\ RecordsHeld /\ [Next]_vars => RecordsHeld'
<1> SUFFICES ASSUME TypeInv, LockInv, QueuedHasRecord, RecordsHeld, [Next]_vars, Exclusive'
             PROVE  Records'
  BY DEF RecordsHeld
<1>1. Held
  BY ExclusiveBefore DEF Held, RecordsHeld
<1>2. \A s \in Slots : SlotRecord(s)'
  BY <1>1, SlotRecordStep
<1>3. \A t \in late' : LateRecord(t)'
  BY <1>1, LateRecordStep
<1>4. \A j \in Jobs : JobRecord(j)'
  BY <1>1, JobRecordStep
<1> QED
  BY <1>2, <1>3, <1>4 DEF Records

LEMMA InitRecords == Init => RecordsHeld
<1> SUFFICES ASSUME Init PROVE Records
  BY DEF RecordsHeld
<1>1. \A s \in Slots : SlotRecord(s)
  BY IdleExecution DEF Init, SlotRecord
<1>2. /\ Vacant("none").attempts = 0 /\ Vacant("none").status = "none"
      /\ Absent.state = "absent" /\ Absent.made = 0
  BY DEF Vacant, Absent
<1>3. \A j \in Jobs : JobRecord(j)
  BY <1>2 DEF Init, JobRecord
<1> QED
  BY <1>1, <1>3 DEF Init, Records

LEMMA RecordInvariant ==
    Spec => [](TypeInv /\ LockInv /\ QueuedHasRecord /\ RecordsHeld)
  BY RecordFirst, LockInvariant, InitRecords, RecordsStep, PTL DEF Spec

\* While the locks hold, a write of updateStatus replaces the entity it was merged
\* with or one that has expired: no update of a record is lost.
THEOREM NoLostUpdate == Spec => []FreshSnapshot
<1>1. RecordsHeld => FreshSnapshot
  BY DEF RecordsHeld, Records, SlotRecord, LateRecord, Unchanged, FreshSnapshot
<1> QED
  BY <1>1, RecordInvariant, PTL

\* Whoever looks up a job that a slot works on sees that attempt, after any crashes
\* and Redis errors before it.
THEOREM WorkIsShown == Spec => []WorkIsVisible
<1>1. RecordsHeld => WorkIsVisible
  BY DEF RecordsHeld, Records, SlotRecord, Shows, WorkIsVisible
<1> QED
  BY <1>1, RecordInvariant, PTL

\* The queue completes a job only after its record says so.
THEOREM RecordedFirst == Spec => []CompletedIsRecorded
<1>1. RecordsHeld => CompletedIsRecorded
  BY DEF RecordsHeld, Records, JobRecord, Shows, CompletedIsRecorded
<1> QED
  BY <1>1, RecordInvariant, PTL

\* A job shown as failed is never shown as anything else until it expires.
THEOREM FailedForGood == Spec => FailedIsFinal
<1>1. /\ TypeInv /\ LockInv /\ QueuedHasRecord /\ RecordsHeld
      /\ [Next]_vars
      => [Exclusive' =>
            \A j \in Jobs : record[j].status = "failed" =>
                               record'[j].status \in {"failed", "expired"}]_vars
  <2> SUFFICES ASSUME TypeInv, LockInv, QueuedHasRecord, RecordsHeld, [Next]_vars,
                      Exclusive', NEW j \in Jobs, record[j].status = "failed"
               PROVE  record'[j].status \in {"failed", "expired"}
    OBVIOUS
  <2>1. Held
    BY ExclusiveBefore DEF Held, RecordsHeld
  <2>2. queue[j].state \in {"failed", "removed"}
    BY <2>1 DEF Held, Records, JobRecord
  <2>3. request[j].pc # "storing" /\ \A s \in Slots : exec[s].job # j
    BY <2>1, <2>2, OnePlace DEF Held, LockInv, AddedLast
  <2>4. Vacant("expired").status = "expired"
    BY DEF Vacant
  <2>5. \A t \in late : Fails(t, j) => record'[j].status = "failed"
    BY DEF Fails, Updated
  <2> QED
    BY <2>3, <2>4, <2>5, EachWritten DEF Written, Marks, Saves
<1> QED
  BY <1>1, RecordInvariant, PTL DEF Spec, FailedIsFinal

\* Whatever is retried and by whom, the attempts a client sees never go down.
THEOREM AttemptsOnlyGrow == Spec => AttemptsNeverDecrease
<1>1. /\ TypeInv /\ LockInv /\ QueuedHasRecord /\ RecordsHeld
      /\ [Next]_vars
      => [Exclusive' =>
            \A j \in Jobs : Exists(record[j]) /\ Exists(record'[j]) =>
                               record[j].attempts <= record'[j].attempts]_vars
  <2> SUFFICES ASSUME TypeInv, LockInv, QueuedHasRecord, RecordsHeld, [Next]_vars,
                      Exclusive', NEW j \in Jobs, Exists(record[j]), Exists(record'[j])
               PROVE  record[j].attempts <= record'[j].attempts
    OBVIOUS
  <2>1. Held /\ JobRecord(j)
    BY ExclusiveBefore DEF Held, RecordsHeld, Records
  <2>2. record[j].attempts \in Nat /\ Written(j)
    BY EachWritten DEF TypeInv, TypeOK, JobEntity
  <2>3. request[j].pc # "storing" /\ ~Exists(Vacant("expired"))
    BY <2>1 DEF JobRecord, Unstored, Exists, Vacant
  <2>4. CASE record'[j] = record[j]
    BY <2>2, <2>4
  <2>5. ASSUME NEW s \in Slots, Marks(s, j) \/ Saves(s, j)
        PROVE  record[j].attempts <= record'[j].attempts
    <3>1. queue[j].state = "active" /\ queue[j].made = exec[s].atm
      BY <2>1, <2>5, OnePlace DEF Marks, Saves
    <3>2. record'[j].attempts = exec[s].atm + 1
      BY <2>5 DEF Marks, Saves, Updated
    <3> QED
      BY <2>1, <3>1, <3>2 DEF JobRecord, Gone, Finished
  <2>6. ASSUME NEW t \in late, Fails(t, j)
        PROVE  record[j].attempts <= record'[j].attempts
    BY <2>1, <2>6 DEF Held, Records, LateRecord, Fails, Updated
  <2> QED
    BY <2>2, <2>3, <2>4, <2>5, <2>6 DEF Written
<1> QED
  BY <1>1, RecordInvariant, PTL DEF Spec, AttemptsNeverDecrease

-----------------------------------------------------------------------------
(* Without faults.  RecordMatchesQueue says nothing of a job that somebody *)
(* works on, so it is not inductive: what the record is then depends on    *)
(* how far the slot, or the listener, has come.                            *)

\* The record after n attempts, while the job is not decided; and once it is.
After(n) == IF n = 0 THEN NewEntity ELSE Updated(NewEntity, "active", n, {})

Outcome(status, n) ==
    Updated(Vacant("none"), status, n,
            IF status = "failed" THEN {"failedAt"} ELSE {"completedAt"})

SlotQuiet(s) ==
    LET x == exec[s] IN
    /\ x.pc # "doomed"
    /\ x.pc \in {"claimed", "marking"} => record[x.job] = After(x.atm)
    /\ x.pc \in {"working", "saving"} => record[x.job] = After(x.atm + 1)
    /\ x.pc = "saved" =>
         record[x.job] \in {Outcome("completed", x.atm + 1), Vacant("expired")}

LateQuiet(t) ==
    /\ t.attempts # 0 /\ record[t.job] = After(t.attempts)
    /\ queue[t.job].state = "failed" => queue[t.job].made = t.attempts

JobQuiet(j) ==
    LET q == queue[j] IN
    /\ request[j].pc = "adding" => record[j] = NewEntity
    /\ record[j].ttl => record[j].status \in Terminal
    /\ ~q.doomed
    /\ q.state \in {"wait", "delayed"} => record[j] = After(q.made)
    /\ q.state = "active" => q.lock \in Slots /\ exec[q.lock].job = j
    /\ q.state \in Finished => q.made # 0
    /\ q.state \in Finished => \/ record[j] \in {Outcome(q.state, q.made), Vacant("expired")}
                               \/ \E t \in late : t.job = j
    /\ q.state = "removed" => \/ record[j].status \in Terminal \cup {"expired"}
                              \/ \E t \in late : t.job = j

Quiet ==
    /\ \A s \in Slots : SlotQuiet(s)
    /\ \A t \in late : LateQuiet(t)
    /\ \A j \in Jobs : JobQuiet(j)

QuietHeld == Undisturbed => Quiet

Still == Held /\ Undisturbed /\ Quiet

\* The steps that are left: no job stalls or is doomed.
QuietNext ==
    \/ \E j \in Jobs : \/ Submit(j) \/ Store(j) \/ Enqueue(j)
                       \/ Promote(j) \/ Expire(j)
    \/ \E s \in Slots :
         \/ ReadForActive(s) \/ MarkActive(s) \/ ReadForCompleted(s)
         \/ SaveCompleted(s) \/ FinishJob(s) \/ FailAttempt(s)
         \/ \E j \in Jobs : Claim(s, j)
    \/ \E t \in late : LateRead(t) \/ LateWrite(t)
    \/ \E p \in Instances : Restart(p)
    \/ UNCHANGED vars

LEMMA SpendDisturbs ==
    ASSUME TypeInv, NEW k \in FaultKinds, Spend(k)
    PROVE  ~Undisturbed'
  BY DEF Spend, Undisturbed, TypeInv, TypeOK

LEMMA NextIsQuiet ==
    ASSUME Still, [Next]_vars, Undisturbed'
    PROVE  QuietNext
<1>1. ASSUME NEW j \in Jobs, LockExpires(j) \/ StalledCheck(j) PROVE FALSE
  <2>1. JobQuiet(j)
    BY DEF Still, Quiet
  <2> QED
    BY <1>1, <2>1, NoSlotAssumption DEF LockExpires, StalledCheck, Locked, JobQuiet
<1>2. ASSUME NEW s \in Slots, FailDoomed(s) PROVE FALSE
  BY <1>2 DEF FailDoomed, At, Still, Quiet, SlotQuiet
<1>3. ~Fault
  BY SpendDisturbs
  DEF Still, Held, Fault, CreateFails, LockLost, BoardRetry, BoardRemove, ExecError,
      LateError, Crash
<1> QED
  BY <1>1, <1>2, <1>3 DEF Next, RequestStep, ExecStep, LateStep, QuietNext

LEMMA UndisturbedBefore == TypeInv /\ [Next]_vars /\ Undisturbed' => Undisturbed
<1>1. ASSUME TypeInv, UNCHANGED faults, Undisturbed' PROVE Undisturbed
  BY <1>1 DEF Undisturbed
<1> QED
  BY <1>1, SpendDisturbs
  DEF Next, RequestStep, ExecStep, LateStep, Fault, Submit, Store, Enqueue, CreateFails,
      Claim, ReadForActive, MarkActive, ReadForCompleted, SaveCompleted, FinishJob,
      FailAttempt, ExecError, FailDoomed, LateRead, LateWrite, LateError, Promote,
      Expire, LockExpires, LockLost, StalledCheck, BoardRetry, BoardRemove, Crash,
      Restart, vars

\* The values a record takes.
LEMMA QuietValues ==
    /\ \A n : After(n).status = (IF n = 0 THEN "queued" ELSE "active")
    /\ \A n : After(n).attempts = n /\ After(n).stamps = {} /\ ~After(n).ttl
    /\ \A n : Updated(After(n), "failed", n, {"failedAt"}) = Outcome("failed", n)
    /\ \A n, m : Updated(After(n), "completed", m, {"completedAt"}) = Outcome("completed", m)
    /\ \A n \in Nat : Updated(After(n), "active", n + 1, {}) = After(n + 1)
    /\ \A status, n : Outcome(status, n).status = status
    /\ Vacant("expired").status = "expired" /\ ~Vacant("expired").ttl
    /\ Vacant("none").status = "none" /\ ~Vacant("none").ttl
    /\ ~NewEntity.ttl /\ NewEntity.status = "queued"
<1> USE DEF Updated, NewEntity, Vacant
<1>1. /\ \A n : After(n).status = (IF n = 0 THEN "queued" ELSE "active")
      /\ \A n : After(n).attempts = n /\ After(n).stamps = {} /\ ~After(n).ttl
  BY DEF After
<1>2. \A n : Updated(After(n), "failed", n, {"failedAt"}) = Outcome("failed", n)
  BY <1>1 DEF Outcome
<1>3. \A n, m : Updated(After(n), "completed", m, {"completedAt"}) = Outcome("completed", m)
  BY <1>1 DEF Outcome
<1>4. \A n \in Nat : Updated(After(n), "active", n + 1, {}) = After(n + 1)
  BY <1>1 DEF After
<1>5. \A status, n : Outcome(status, n).status = status
  BY DEF Outcome
<1> QED
  BY <1>1, <1>2, <1>3, <1>4, <1>5

\* The job a failing attempt gives up, and the update the listener starts for it.
GivesUp(j) ==
    /\ queue'[j] = GivenUp(queue[j])
    /\ \E s \in Slots, t \in late' :
         /\ exec[s].pc = "working" /\ exec[s].job = j
         /\ t.job = j /\ t.attempts = exec[s].atm + 1

\* How the entry of a job changes: always in a step that leaves the record alone.
QuietEntry(j) ==
    \/ queue'[j] = queue[j]
    \/ /\ UNCHANGED record
       /\ \/ request[j].pc = "adding" /\ queue'[j] = Added
          \/ queue[j].state = "delayed" /\ queue'[j] = Promoted(queue[j])
          \/ /\ queue[j].state = "wait"
             /\ \E s \in Slots : queue'[j] = Claimed(queue[j], s) /\ exec'[s].job = j
          \/ \E s \in Slots : /\ exec[s].pc = "saved" /\ exec[s].job = j
                              /\ queue'[j] = Completed(queue[j])
          \/ \E s \in Slots : /\ exec[s].pc = "working" /\ exec[s].job = j
                              /\ queue'[j] = BackedOff(queue[j])
          \/ GivesUp(j)
          \/ queue[j].state \in Finished /\ queue'[j] = Removed

\* What a slot that holds its lock does when its attempt ends.
LEMMA QuietMove ==
    ASSUME Still, NEW s \in Slots, exec[s].pc # "idle", NEW e, MoveTo(s, e)
    PROVE  /\ exec[s].job \in Jobs /\ queue'[exec[s].job] = e
           /\ \A k \in Jobs \ {exec[s].job} :
                queue'[k] = queue[k] \/ (queue[k].state \in Finished /\ queue'[k] = Removed)
<1>1. exec[s].job \in Jobs /\ queue \in [Jobs -> Entry]
  BY BusyJob DEF Still, Held, TypeInv, TypeOK
<1>2. HoldsLock(s)
  BY DEF Still, Held, LockInv, SlotsHold, HoldsLock
<1> QED
  BY <1>1, <1>2, MoveToEffect

\* The failing attempt, in the terms of its slot.
LEMMA QuietThrow ==
    ASSUME Still, NEW s \in Slots, FailAttempt(s)
    PROVE  /\ exec[s].job \in Jobs /\ exec[s].pc = "working" /\ UNCHANGED record
           /\ \A k \in Jobs \ {exec[s].job} :
                queue'[k] = queue[k] \/ (queue[k].state \in Finished /\ queue'[k] = Removed)
           /\ \/ /\ queue'[exec[s].job] = BackedOff(queue[exec[s].job])
                 /\ late' = late
              \/ /\ GivesUp(exec[s].job)
                 /\ \A t \in late' :
                      t \in late \/ (t.job = exec[s].job /\ t.attempts = exec[s].atm + 1)
                 /\ late \subseteq late'
<1> DEFINE j == exec[s].job
<1>1. exec[s].pc = "working" /\ Throw(s) /\ UNCHANGED record
  BY DEF FailAttempt, At
<1>2. queue[j].made = exec[s].atm /\ exec[s].atm \in Nat /\ HoldsLock(s)
  BY <1>1, BusyJob
  DEF Still, Held, LockInv, SlotsHold, HoldsLock, TypeInv, TypeOK, Execution
<1>3. /\ MoveTo(s, IF Retries(queue[j].made) THEN BackedOff(queue[j]) ELSE GivenUp(queue[j]))
      /\ late' = OnFailed(s, exec[s].atm + 1)
  BY <1>1, <1>2 DEF Throw, Release
<1>4. Retries(queue[j].made) <=> ~IsLastAttempt(exec[s].atm + 1)
  BY <1>2, AttemptsAssumption DEF Retries, IsLastAttempt
<1>5. /\ j \in Jobs
      /\ queue'[j] = IF Retries(queue[j].made) THEN BackedOff(queue[j]) ELSE GivenUp(queue[j])
      /\ \A k \in Jobs \ {j} :
           queue'[k] = queue[k] \/ (queue[k].state \in Finished /\ queue'[k] = Removed)
  BY <1>1, <1>3, QuietMove
<1>6. CASE Retries(queue[j].made)
  BY <1>1, <1>3, <1>4, <1>5, <1>6 DEF OnFailed
<1>7. CASE ~Retries(queue[j].made)
  <2> DEFINE u == [at |-> Home[s], job |-> j, attempts |-> exec[s].atm + 1,
                   pc |-> "get", snap |-> Vacant("none")]
  <2>1. late' = late \cup {u} /\ u.job = j /\ u.attempts = exec[s].atm + 1
    BY <1>3, <1>4, <1>7 DEF OnFailed
  <2> HIDE DEF u
  <2>2. PICK t : late' = late \cup {t} /\ t.job = j /\ t.attempts = exec[s].atm + 1
    BY <2>1
  <2>3. GivesUp(j)
    BY <1>1, <1>5, <1>7, <2>2 DEF GivesUp
  <2> QED
    BY <1>1, <1>5, <2>2, <2>3
<1> QED
  BY <1>6, <1>7

LEMMA EachQuietEntry ==
    ASSUME Still, [Next]_vars, Undisturbed'
    PROVE  \A j \in Jobs : QuietEntry(j)
<1> DEFINE Each == \A j \in Jobs : QuietEntry(j)
<1> SUFFICES Each
  OBVIOUS
<1>1. ASSUME UNCHANGED queue PROVE Each
  BY <1>1 DEF QuietEntry
<1>2. ASSUME NEW j \in Jobs, NEW e, queue' = [queue EXCEPT ![j] = e],
             queue'[j] = e => QuietEntry(j)
      PROVE  Each
  BY <1>2 DEF QuietEntry, Still, Held, TypeInv, TypeOK
<1>3. ASSUME NEW j \in Jobs, Enqueue(j) \/ Promote(j) PROVE Each
  BY <1>2, <1>3 DEF Enqueue, Advance, Promote, QuietEntry
<1>4. ASSUME NEW s \in Slots, NEW j \in Jobs, Claim(s, j) PROVE Each
  <2>1. exec'[s].job = j
    BY <1>4 DEF Claim, Still, Held, TypeInv, TypeOK
  <2> QED
    BY <1>2, <1>4, <2>1 DEF Claim, QuietEntry
<1>5. ASSUME NEW s \in Slots, FinishJob(s) PROVE Each
  <2>1. /\ exec[s].pc = "saved" /\ UNCHANGED record
        /\ MoveTo(s, Completed(queue[exec[s].job]))
    BY <1>5 DEF FinishJob, At
  <2> QED
    BY <2>1, QuietMove DEF QuietEntry
<1>6. ASSUME NEW s \in Slots, FailAttempt(s) PROVE Each
  BY <1>6, QuietThrow DEF QuietEntry
<1> HIDE DEF Each
<1> QED
  BY <1>1, <1>3, <1>4, <1>5, <1>6, NextIsQuiet
  DEF QuietNext, Submit, Store, Expire, ReadForActive, MarkActive, ReadForCompleted,
      SaveCompleted, LateRead, LateWrite, Restart, vars

\* A slot stays with its job until the queue has it back.
LEMMA BusyStays ==
    ASSUME Still, [Next]_vars, Undisturbed', NEW s \in Slots, exec[s].pc # "idle"
    PROVE  exec'[s].job = exec[s].job \/ queue'[exec[s].job].state # "active"
<1>1. exec \in [Slots -> Execution] /\ queue[exec[s].job] \in Entry
  BY BusyJob DEF Still, Held, TypeInv, TypeOK
<1>2. ASSUME FinishJob(s) \/ FailAttempt(s) PROVE queue'[exec[s].job].state # "active"
  <2>1. CASE FinishJob(s)
    BY <1>1, <2>1, QuietMove, EntryChanges DEF FinishJob
  <2>2. CASE FailAttempt(s)
    BY <1>1, <2>2, QuietThrow, EntryChanges DEF GivesUp
  <2> QED
    BY <1>2, <2>1, <2>2
<1>3. ASSUME NEW x \in Slots \ {s}, FinishJob(x) \/ FailAttempt(x)
      PROVE  exec'[s] = exec[s]
  BY <1>1, <1>3 DEF FinishJob, FailAttempt, Throw, Release
<1>4. ASSUME NEW x \in Slots,
             \/ ReadForActive(x) \/ MarkActive(x) \/ ReadForCompleted(x) \/ SaveCompleted(x)
             \/ \E j \in Jobs : Claim(x, j)
      PROVE  exec'[s].job = exec[s].job
  BY <1>1, <1>4
  DEF ReadForActive, MarkActive, ReadForCompleted, SaveCompleted, Goto, Claim, At,
      Execution
<1> QED
  BY <1>2, <1>3, <1>4, NextIsQuiet
  DEF QuietNext, Submit, Store, Enqueue, Promote, Expire, LateRead, LateWrite, Restart,
      vars

\* An update that is started belongs to a job given up after its last attempt.
LEMMA QuietUpdate ==
    ASSUME Still, [Next]_vars, Undisturbed', NEW t \in late'
    PROVE  \/ t \in late \/ Continues(t)
           \/ /\ UNCHANGED record /\ queue'[t.job] = GivenUp(queue[t.job])
              /\ \E s \in Slots : /\ exec[s].pc = "working" /\ exec[s].job = t.job
                                  /\ t.attempts = exec[s].atm + 1
<1>1. UpdateStep(t)
  BY EachUpdate DEF Still, Held
<1>2. ASSUME NEW s \in Slots, FailAttempt(s)
      PROVE  \/ t \in late
             \/ /\ UNCHANGED record /\ queue'[t.job] = GivenUp(queue[t.job])
                /\ exec[s].pc = "working" /\ exec[s].job = t.job
                /\ t.attempts = exec[s].atm + 1
  BY <1>2, QuietThrow DEF GivesUp
<1>3. ASSUME NEW u \in late, LateRead(u) PROVE t \in late \/ Continues(t)
  BY <1>1, <1>3 DEF UpdateStep, Starts, LateRead, Still, Held, TypeInv, TypeOK, Pending
<1> QED
  BY <1>2, <1>3, NextIsQuiet
  DEF QuietNext, Submit, Store, Enqueue, Promote, Expire, ReadForActive, MarkActive,
      ReadForCompleted, SaveCompleted, FinishJob, Claim, LateWrite, Restart, vars

\* The update of a listener goes on until it has written the record.
LEMMA UpdateStays ==
    ASSUME Still, [Next]_vars, Undisturbed', NEW t \in late
    PROVE  (\E u \in late' : u.job = t.job) \/ Fails(t, t.job)
<1>1. Exists(record[t.job])
  <2>1. record[t.job] = After(t.attempts)
    BY DEF Still, Quiet, LateQuiet
  <2> QED
    BY <2>1, QuietValues DEF Exists
<1>2. ASSUME NEW s \in Slots, FailAttempt(s) PROVE t \in late'
  BY <1>2, QuietThrow
<1>3. ASSUME NEW u \in late, LateRead(u) PROVE \E x \in late' : x.job = t.job
  <2>1. CASE u # t
    BY <1>3, <2>1 DEF LateRead
  <2>2. CASE u = t
    <3>1. [t EXCEPT !.pc = "set", !.snap = record[t.job]] \in late'
      BY <1>1, <1>3, <2>2 DEF LateRead
    <3>2. [t EXCEPT !.pc = "set", !.snap = record[t.job]].job = t.job
      BY DEF Still, Held, TypeInv, TypeOK, Pending
    <3> QED
      BY <3>1, <3>2
  <2> QED
    BY <2>1, <2>2
<1>4. ASSUME NEW u \in late, LateWrite(u) PROVE t \in late' \/ Fails(t, t.job)
  <2>1. t.job \in Jobs /\ record \in [Jobs -> JobEntity]
    BY DEF Still, Held, TypeInv, TypeOK, Pending
  <2> QED
    BY <1>4, <2>1 DEF LateWrite, Fails
<1> QED
  BY <1>2, <1>3, <1>4, NextIsQuiet
  DEF QuietNext, Submit, Store, Enqueue, Promote, Expire, ReadForActive, MarkActive,
      ReadForCompleted, SaveCompleted, FinishJob, Claim, Restart, vars

LEMMA SlotQuietStep ==
    ASSUME Still, [Next]_vars, NEW s \in Slots
    PROVE  SlotQuiet(s)'
<1> DEFINE j == exec[s].job
<1>1. /\ TypeInv /\ SlotStep(s) /\ SlotQuiet(s) /\ SlotRecord(s)
      /\ \A k \in Jobs : JobQuiet(k)
  BY EachSlot DEF Still, Held, Quiet, Records
<1>2. CASE exec'[s] = Idle
  BY <1>2, IdleExecution DEF SlotQuiet
<1>3. CASE Takes(s)
  BY <1>1, <1>3 DEF Takes, SlotQuiet, JobQuiet
<1>4. CASE exec'[s] = exec[s]
  <2>1. CASE exec[s].pc = "idle"
    BY <1>4, <2>1 DEF SlotQuiet
  <2>2. CASE exec[s].pc # "idle"
    <3>1. j \in Jobs
      BY <1>1, <2>2, BusyJob
    <3>2. /\ record'[j] \in {record[j], Vacant("expired")}
          /\ ~record[j].ttl => record'[j] = record[j]
      BY <1>1, <1>4, <3>1, OnePlace, Undisputed DEF Still, NotAdded
    <3> QED
      BY <1>1, <1>4, <3>2, QuietValues DEF SlotQuiet
  <2> QED
    BY <2>1, <2>2
<1>5. CASE Proceeds(s)
  <2>1. exec'[s].job = j /\ exec'[s].atm = exec[s].atm
    BY <1>5 DEF Proceeds
  <2>2. CASE Reads(s, "claimed", "marking", "working")
    BY <1>1, <2>1, <2>2, QuietValues DEF Reads, SlotQuiet, Exists
  <2>3. CASE Reads(s, "working", "saving", "saved")
    BY <1>1, <2>1, <2>3, QuietValues DEF Reads, SlotQuiet, Exists
  <2>4. ASSUME NEW n, exec[s].pc \in {"marking", "saving"}, record[j] = After(n)
        PROVE  exec[s].snap = After(n)
    <3>1. record[j] # Vacant("expired")
      BY <2>4, QuietValues
    <3> QED
      BY <1>1, <2>4, <3>1 DEF SlotRecord, Unchanged
  <2>5. CASE Marks(s, j)
    <3>1. exec[s].snap = After(exec[s].atm) /\ exec[s].atm \in Nat
      BY <1>1, <2>4, <2>5 DEF Marks, SlotQuiet, TypeInv, TypeOK, Execution
    <3>2. record'[j] = After(exec[s].atm + 1)
      BY <2>5, <3>1, QuietValues DEF Marks
    <3> QED
      BY <2>1, <2>5, <3>2 DEF Marks, SlotQuiet
  <2>6. CASE Saves(s, j)
    <3>1. exec[s].snap = After(exec[s].atm + 1)
      BY <1>1, <2>4, <2>6 DEF Saves, SlotQuiet
    <3>2. record'[j] = Outcome("completed", exec[s].atm + 1)
      BY <2>6, <3>1, QuietValues DEF Saves
    <3> QED
      BY <2>1, <2>6, <3>2 DEF Saves, SlotQuiet
  <2> QED
    BY <1>5, <2>2, <2>3, <2>5, <2>6 DEF Proceeds
<1> QED
  BY <1>1, <1>2, <1>3, <1>4, <1>5 DEF SlotStep

LEMMA LateQuietStep ==
    ASSUME Still, [Next]_vars, Undisturbed', NEW t \in late'
    PROVE  LateQuiet(t)'
<1>1. /\ TypeInv /\ QueueInv /\ faults'.boardRetry = 0
      /\ \A u \in late : LateQuiet(u)
  BY DEF Still, Held, LockInv, QueueInv, Quiet, Undisturbed
<1>2. ASSUME NEW u \in late
      PROVE  /\ u.job \in Jobs /\ queue[u.job].state \in {"failed", "removed"}
             /\ queue'[u.job].state = "failed" => queue'[u.job] = queue[u.job]
  <2>1. u.job \in Jobs
    BY <1>1 DEF TypeInv, TypeOK, Pending
  <2>2. queue[u.job].state \in {"failed", "removed"}
    BY <2>1, OnePlace DEF Still
  <2>3. queue'[u.job] \in {queue[u.job], Removed}
    BY <1>1, <2>1, <2>2, DecidedOnce DEF Gone, Finished
  <2> QED
    BY <2>1, <2>2, <2>3, NewEntries
<1>3. CASE t \in late
  <2>1. record'[t.job] = record[t.job]
    <3>1. ~record[t.job].ttl
      BY <1>1, <1>3, QuietValues DEF LateQuiet
    <3> QED
      BY <1>1, <1>2, <1>3, <3>1, OnePlace, Undisputed DEF Still, NotAdded
  <2> QED
    BY <1>1, <1>2, <1>3, <2>1 DEF LateQuiet
<1>4. CASE Continues(t)
  BY <1>1, <1>2, <1>4 DEF Continues, LateQuiet
<1>5. ASSUME UNCHANGED record, queue'[t.job] = GivenUp(queue[t.job]),
             NEW s \in Slots, exec[s].pc = "working", exec[s].job = t.job,
             t.attempts = exec[s].atm + 1
      PROVE  LateQuiet(t)'
  <2>1. t.job \in Jobs /\ exec[s].atm \in Nat /\ queue[t.job] \in Entry
    BY <1>1, <1>5, BusyJob DEF TypeInv, TypeOK, Execution
  <2>2. queue[t.job].made = exec[s].atm
    BY <1>5, <2>1, OnePlace DEF Still
  <2>3. queue'[t.job].made = t.attempts
    BY <1>5, <2>1, <2>2 DEF GivenUp, Entry
  <2>4. record[t.job] = After(t.attempts)
    BY <1>5 DEF Still, Quiet, SlotQuiet
  <2>5. t.attempts # 0
    BY <1>5, <2>1
  <2> QED
    BY <1>5, <2>3, <2>4, <2>5 DEF LateQuiet
<1> QED
  BY <1>3, <1>4, <1>5, QuietUpdate

\* What a fault-free change leaves in an entry.
LEMMA QuietFields ==
    ASSUME NEW e \in Entry, ~e.doomed
    PROVE  /\ ~Added.doomed /\ Added.made = 0 /\ ~Removed.doomed
           /\ ~Promoted(e).doomed /\ Promoted(e).made = e.made
           /\ ~BackedOff(e).doomed /\ BackedOff(e).made = e.made + 1
           /\ ~GivenUp(e).doomed /\ GivenUp(e).made = e.made + 1
           /\ ~Completed(e).doomed /\ Completed(e).made = e.made + 1
           /\ \A s \in Slots : ~Claimed(e, s).doomed
<1> USE DEF Entry
<1>1. ~Added.doomed /\ Added.made = 0 /\ ~Removed.doomed
  BY DEF Added, Removed, Absent
<1>2. /\ ~Promoted(e).doomed /\ Promoted(e).made = e.made
      /\ ~BackedOff(e).doomed /\ BackedOff(e).made = e.made + 1
  BY DEF Promoted, BackedOff
<1>3. /\ ~GivenUp(e).doomed /\ GivenUp(e).made = e.made + 1
      /\ ~Completed(e).doomed /\ Completed(e).made = e.made + 1
  BY DEF GivenUp, Completed
<1>4. \A s \in Slots : ~Claimed(e, s).doomed
  BY DEF Claimed
<1> QED
  BY <1>1, <1>2, <1>3, <1>4

\* The job of a listener's update stays with it, or its failure is recorded.
LEMMA QuietLate ==
    ASSUME Still, [Next]_vars, Undisturbed', NEW t \in late
    PROVE  \/ \E u \in late' : u.job = t.job
           \/ /\ record'[t.job] = Outcome("failed", t.attempts)
              /\ queue[t.job].state = "failed" => queue[t.job].made = t.attempts
<1>1. CASE Fails(t, t.job)
  <2>1. t.snap \in {record[t.job]} /\ record[t.job] = After(t.attempts)
    <3>1. LateQuiet(t) /\ LateRecord(t)
      BY DEF Still, Quiet, Held, Records
    <3>2. record[t.job] # Vacant("expired")
      BY <3>1, QuietValues DEF LateQuiet
    <3> QED
      BY <1>1, <3>1, <3>2 DEF Fails, LateQuiet, LateRecord, Unchanged
  <2> QED
    BY <1>1, <2>1, QuietValues DEF Fails, Still, Quiet, LateQuiet
<1> QED
  BY <1>1, UpdateStays

LEMMA JobQuietStep ==
    ASSUME Still, [Next]_vars, Undisturbed', NEW j \in Jobs
    PROVE  JobQuiet(j)'
<1>1. /\ TypeInv /\ queue[j] \in Entry
      /\ AddedLast /\ JobQuiet(j) /\ JobRecord(j)
      /\ QuietEntry(j) /\ RecordStep(j) /\ Written(j)
  BY EachQuietEntry, EachRecord, EachWritten
  DEF Still, Held, LockInv, Quiet, Records, TypeInv, TypeOK
<1>2. ~queue[j].doomed
  BY <1>1 DEF JobQuiet
\* The record of a job that nobody is concerned with.
<1>3. ASSUME request[j].pc # "storing", queue[j].state # "active",
             \A t \in late : t.job # j
      PROVE  /\ record'[j] \in {record[j], Vacant("expired")}
             /\ ~record[j].ttl => record'[j] = record[j]
  <2>1. \A s \in Slots : exec[s].job # j
    BY <1>3, OnePlace DEF Still
  <2> QED
    BY <1>1, <1>3, <2>1, Undisputed
<1>4. queue[j].state \notin {"failed", "removed"} => \A t \in late : t.job # j
  BY OnePlace DEF Still
<1>5. ASSUME NEW s \in Slots, exec[s].job = j
      PROVE  queue[j].made = exec[s].atm /\ SlotQuiet(s) /\ queue[j].state = "active"
  BY <1>5, OnePlace DEF Still, Quiet
<1>6. request'[j].pc = "adding" => record'[j] = NewEntity
  <2> SUFFICES ASSUME request'[j].pc = "adding", request[j].pc = "adding"
               PROVE  record'[j] = NewEntity
    BY <1>1 DEF RecordStep
  <2>1. queue[j].state = "absent" /\ record[j] = NewEntity
    BY <1>1 DEF AddedLast, JobQuiet
  <2> QED
    BY <1>3, <1>4, <2>1, QuietValues
<1>7. record'[j].ttl => record'[j].status \in Terminal
  <2>1. /\ \A s \in Slots : Marks(s, j) => ~record'[j].ttl
        /\ \A s \in Slots : Saves(s, j) => record'[j].status \in Terminal
        /\ \A t \in late : Fails(t, j) => record'[j].status \in Terminal
    <3>1. \A e, n : ~Updated(e, "active", n, {}).ttl
      BY DEF Updated
    <3> QED
      BY <3>1, WrittenStatus DEF Marks, Saves, Fails
  <2> QED
    BY <1>1, <2>1, QuietValues DEF Written, JobQuiet
<1>8. ~queue'[j].doomed
  BY <1>1, <1>2, QuietFields DEF QuietEntry, GivesUp
<1>9. queue'[j].state \in {"wait", "delayed"} => record'[j] = After(queue'[j].made)
  <2> SUFFICES ASSUME queue'[j].state \in {"wait", "delayed"}
               PROVE  record'[j] = After(queue'[j].made)
    OBVIOUS
  <2>1. CASE queue'[j] = queue[j]
    <3>1. record[j] = After(queue[j].made) /\ request[j].pc # "storing"
      BY <1>1, <2>1 DEF JobQuiet, AddedLast
    <3> QED
      BY <1>3, <1>4, <2>1, <3>1, QuietValues
  <2>2. CASE UNCHANGED record /\ request[j].pc = "adding" /\ queue'[j] = Added
    <3>1. record'[j] = NewEntity /\ queue'[j].made = 0
      BY <1>1, <1>2, <2>2, QuietFields DEF JobQuiet
    <3> QED
      BY <3>1 DEF After
  <2>3. CASE UNCHANGED record /\ queue[j].state = "delayed" /\ queue'[j] = Promoted(queue[j])
    BY <1>1, <1>2, <2>3, QuietFields DEF JobQuiet
  <2>4. ASSUME UNCHANGED record, NEW s \in Slots, exec[s].pc = "working",
               exec[s].job = j, queue'[j] = BackedOff(queue[j])
        PROVE  record'[j] = After(queue'[j].made)
    BY <1>1, <1>2, <1>5, <2>4, QuietFields DEF SlotQuiet
  <2> QED
    BY <1>1, <2>1, <2>2, <2>3, <2>4, EntryChanges, NewEntries DEF QuietEntry, GivesUp
<1>10. queue'[j].state = "active" => queue'[j].lock \in Slots /\ exec'[queue'[j].lock].job = j
  <2> SUFFICES ASSUME queue'[j].state = "active"
               PROVE  queue'[j].lock \in Slots /\ exec'[queue'[j].lock].job = j
    OBVIOUS
  <2>1. CASE queue'[j] = queue[j]
    <3>1. queue[j].lock \in Slots /\ exec[queue[j].lock].job = j
      BY <1>1, <2>1 DEF JobQuiet
    <3>2. exec[queue[j].lock].pc # "idle"
      BY <3>1, NoJobAssumption, OnePlace DEF Still
    <3> QED
      BY <2>1, <3>1, <3>2, BusyStays
  <2>2. ASSUME NEW s \in Slots, queue'[j] = Claimed(queue[j], s), exec'[s].job = j
        PROVE  queue'[j].lock \in Slots /\ exec'[queue'[j].lock].job = j
    BY <1>1, <2>2, EntryChanges
  <2> QED
    BY <1>1, <2>1, <2>2, EntryChanges, NewEntries DEF QuietEntry, GivesUp
<1>11. ASSUME queue'[j] = queue[j], NEW t \in late, t.job = j
       PROVE  \/ \E u \in late' : u.job = j
              \/ /\ queue'[j].state \in {"failed", "removed"}
                 /\ record'[j] = Outcome("failed", t.attempts)
                 /\ queue'[j].state = "failed" => queue'[j].made = t.attempts
  BY <1>4, <1>11, QuietLate
<1>12. queue'[j].state \in Finished =>
         \/ record'[j] \in {Outcome(queue'[j].state, queue'[j].made), Vacant("expired")}
         \/ \E t \in late' : t.job = j
  <2> SUFFICES ASSUME queue'[j].state \in Finished
               PROVE  \/ record'[j] \in {Outcome(queue'[j].state, queue'[j].made),
                                         Vacant("expired")}
                      \/ \E t \in late' : t.job = j
    OBVIOUS
  <2>1. CASE queue'[j] = queue[j] /\ \E t \in late : t.job = j
    BY <1>11, <2>1 DEF Finished
  <2>2. CASE queue'[j] = queue[j] /\ \A t \in late : t.job # j
    BY <1>1, <1>3, <2>2 DEF JobQuiet, AddedLast, Finished
  <2>3. ASSUME UNCHANGED record, NEW s \in Slots, exec[s].pc = "saved", exec[s].job = j,
               queue'[j] = Completed(queue[j])
        PROVE  record'[j] \in {Outcome(queue'[j].state, queue'[j].made), Vacant("expired")}
    <3>1. queue'[j].state = "completed" /\ queue'[j].made = exec[s].atm + 1
      BY <1>1, <1>2, <1>5, <2>3, QuietFields, EntryChanges
    <3> QED
      BY <1>5, <2>3, <3>1 DEF SlotQuiet
  <2> QED
    BY <1>1, <2>1, <2>2, <2>3, EntryChanges, NewEntries DEF QuietEntry, GivesUp, Finished
<1>13. queue'[j].state = "removed" =>
         \/ record'[j].status \in Terminal \cup {"expired"}
         \/ \E t \in late' : t.job = j
  <2> SUFFICES ASSUME queue'[j].state = "removed"
               PROVE  \/ record'[j].status \in Terminal \cup {"expired"}
                      \/ \E t \in late' : t.job = j
    OBVIOUS
  <2>1. CASE \E t \in late : t.job = j
    BY <2>1, QuietLate, QuietValues
  <2>2. CASE queue'[j] = queue[j] /\ \A t \in late : t.job # j
    BY <1>1, <1>3, <2>2, QuietValues DEF JobQuiet, AddedLast
  <2>3. CASE UNCHANGED record /\ queue[j].state \in Finished /\ \A t \in late : t.job # j
    BY <1>1, <2>3, QuietValues DEF JobQuiet, Finished
  <2> QED
    BY <1>1, <2>1, <2>2, <2>3, EntryChanges, NewEntries DEF QuietEntry, GivesUp
<1>14. queue'[j].state \in Finished => queue'[j].made # 0
  <2>1. queue[j].made \in Nat
    BY <1>1 DEF Entry
  <2>2. Completed(queue[j]).made # 0 /\ GivenUp(queue[j]).made # 0
    BY <1>1, <1>2, <2>1, QuietFields
  <2> QED
    BY <1>1, <2>2, EntryChanges, NewEntries DEF QuietEntry, GivesUp, Finished, JobQuiet
<1> QED
  BY <1>6, <1>7, <1>8, <1>9, <1>10, <1>12, <1>13, <1>14 DEF JobQuiet

LEMMA QuietKept ==
    /\ TypeInv /\ LockInv /\ QueuedHasRecord /\ RecordsHeld /\ QuietHeld /\ [Next]_vars
    => QuietHeld'
<1> SUFFICES ASSUME TypeInv, LockInv, QueuedHasRecord, RecordsHeld, QuietHeld,
                    [Next]_vars, Undisturbed'
             PROVE  Quiet'
  BY DEF QuietHeld
<1>1. Still
  <2>1. Undisturbed /\ Exclusive
    BY UndisturbedBefore DEF Undisturbed, Exclusive
  <2> QED
    BY <2>1 DEF Still, Held, RecordsHeld, QuietHeld
<1>2. \A s \in Slots : SlotQuiet(s)'
  BY <1>1, SlotQuietStep
<1>3. \A t \in late' : LateQuiet(t)'
  BY <1>1, LateQuietStep
<1>4. \A j \in Jobs : JobQuiet(j)'
  BY <1>1, JobQuietStep
<1> QED
  BY <1>2, <1>3, <1>4 DEF Quiet

LEMMA InitQuiet == Init => QuietHeld
<1> SUFFICES ASSUME Init PROVE Quiet
  BY DEF QuietHeld
<1>1. Absent.state = "absent" /\ ~Absent.doomed
  BY DEF Absent
<1>2. \A j \in Jobs : JobQuiet(j)
  BY <1>1, QuietValues DEF Init, JobQuiet, Finished
<1>3. \A s \in Slots : SlotQuiet(s)
  BY IdleExecution DEF Init, SlotQuiet
<1> QED
  BY <1>2, <1>3 DEF Init, Quiet

LEMMA QuietInvariant ==
    Spec => [](TypeInv /\ LockInv /\ QueuedHasRecord /\ RecordsHeld /\ QuietHeld)
  BY RecordInvariant, InitQuiet, QuietKept, PTL DEF Spec

\* Until something fails, the record of a job at rest is the one its queue entry calls
\* for, and BullMQ forgets no job whose outcome is not recorded.
THEOREM RecordsAgree == Spec => []RecordMatchesQueue
<1>1. TypeInv /\ QuietHeld => RecordMatchesQueue
  <2> SUFFICES ASSUME TypeInv, Quiet, NEW j \in Jobs, ~Busy(j), queue[j].state # "absent",
                      ~(queue[j].state \in Gone /\ record[j].status = "expired"),
                      ~(queue[j].state = "removed" /\ record[j].status \in Terminal)
               PROVE  record[j] =
                        CASE queue[j].state \in Finished ->
                               Updated(Vacant("none"), queue[j].state, queue[j].made,
                                       IF queue[j].state = "failed" THEN {"failedAt"}
                                                                    ELSE {"completedAt"})
                          [] queue[j].made = 0 -> NewEntity
                          [] OTHER -> Updated(NewEntity, "active", queue[j].made, {})
    BY DEF QuietHeld, RecordMatchesQueue
  <2>1. /\ JobQuiet(j) /\ queue[j].state \in EntryStates
        /\ \A s \in Slots : exec[s].job # j
        /\ \A t \in late : t.job # j
    BY DEF Quiet, Busy, TypeInv, TypeOK, Entry
  <2>2. queue[j].state \in {"wait", "delayed", "completed", "failed"}
    BY <2>1 DEF JobQuiet, Gone
  <2>3. CASE queue[j].state \in Finished
    <3>1. record[j] = Outcome(queue[j].state, queue[j].made)
      BY <2>1, <2>3, QuietValues DEF JobQuiet, Gone
    <3>2. queue[j].made # 0
      BY <2>1, <2>3 DEF JobQuiet
    <3> QED
      BY <2>3, <3>1, <3>2 DEF Outcome
  <2>4. CASE queue[j].state \in {"wait", "delayed"}
    <3>1. record[j] = After(queue[j].made) /\ queue[j].state \notin Finished
      BY <2>1, <2>4 DEF JobQuiet, Finished
    <3> QED
      BY <3>1 DEF After
  <2> QED
    BY <2>2, <2>3, <2>4 DEF Finished
<1> QED
  BY <1>1, QuietInvariant, PTL

-----------------------------------------------------------------------------
(* The records implement the lifecycle promised to clients.                *)

\* What GET /jobs/:id answers for each job.
Statuses == [j \in Jobs |-> record[j].status]

LEMMA LifecycleStep == Still /\ [Next]_vars => [Lifecycle!Next]_Statuses
<1> SUFFICES ASSUME Still, [Next]_vars, Statuses' # Statuses PROVE Lifecycle!Next
  OBVIOUS
<1>1. ASSUME NEW j \in Jobs, NEW e, record' = [record EXCEPT ![j] = e]
      PROVE  /\ record'[j] = e
             /\ Statuses' = [Statuses EXCEPT ![j] = e.status]
             /\ Statuses[j] = record[j].status
  BY <1>1 DEF Statuses, Still, Held, TypeInv, TypeOK
\* One job's status changes, so the step is one of the lifecycle if the two
\* statuses are.
<1>2. ASSUME NEW j \in Jobs, NEW e, record' = [record EXCEPT ![j] = e],
             \/ record[j].status = "none" /\ e.status = "queued"
             \/ record[j].status \in {"queued", "active"} /\ e.status = "active"
             \/ record[j].status = "active" /\ e.status \in {"completed", "failed"}
             \/ record[j].status \in {"completed", "failed"} /\ e.status = "expired"
      PROVE  Lifecycle!Next
  <2>1. record[j].status # e.status
    BY <1>1, <1>2 DEF Statuses, Still, Held, TypeInv, TypeOK
  <2>2. Lifecycle!Become(j, record[j].status, e.status)
    BY <1>1, <1>2 DEF Lifecycle!Become, Statuses
  <2> QED
    BY <1>2, <2>1, <2>2
    DEF Lifecycle!Next, Lifecycle!Create, Lifecycle!Start, Lifecycle!Settle, Lifecycle!Expire
<1>3. ASSUME NEW j \in Jobs, Store(j) PROVE Lifecycle!Next
  <2>1. record[j] = Vacant("none")
    BY <1>3 DEF Store, Advance, Still, Held, Records, JobRecord, Unstored
  <2> QED
    BY <1>2, <1>3, <2>1, QuietValues DEF Store
<1>4. ASSUME NEW s \in Slots, MarkActive(s) PROVE Lifecycle!Next
  <2>1. exec[s].job \in Jobs /\ record[exec[s].job] = After(exec[s].atm)
    BY <1>4, BusyJob DEF MarkActive, At, Still, Held, Quiet, SlotQuiet
  <2>2. record[exec[s].job].status \in {"queued", "active"}
    BY <2>1, QuietValues
  <2> QED
    <3> DEFINE e == Updated(exec[s].snap, "active", exec[s].atm + 1, {})
    <3>1. record' = [record EXCEPT ![exec[s].job] = e] /\ e.status = "active"
      BY <1>4, WrittenStatus DEF MarkActive
    <3> HIDE DEF e
    <3> QED
      BY <1>2, <2>1, <2>2, <3>1
<1>5. ASSUME NEW s \in Slots, SaveCompleted(s) PROVE Lifecycle!Next
  <2>1. /\ exec[s].job \in Jobs /\ record[exec[s].job] = After(exec[s].atm + 1)
        /\ exec[s].atm + 1 # 0
    BY <1>5, BusyJob
    DEF SaveCompleted, At, Still, Held, Quiet, SlotQuiet, TypeInv, TypeOK, Execution
  <2>2. record[exec[s].job].status = "active"
    BY <2>1, QuietValues
  <2> QED
    <3> DEFINE e == Updated(exec[s].snap, "completed", exec[s].atm + 1, {"completedAt"})
    <3>1. record' = [record EXCEPT ![exec[s].job] = e] /\ e.status = "completed"
      BY <1>5, WrittenStatus DEF SaveCompleted
    <3> HIDE DEF e
    <3> QED
      BY <1>2, <2>1, <2>2, <3>1
<1>6. ASSUME NEW t \in late, LateWrite(t) PROVE Lifecycle!Next
  <2>1. t.job \in Jobs /\ LateQuiet(t)
    BY DEF Still, Held, Quiet, TypeInv, TypeOK, Pending
  <2>2. record[t.job].status = "active"
    BY <2>1, QuietValues DEF LateQuiet
  <2> QED
    <3> DEFINE e == Updated(t.snap, "failed", t.attempts, {"failedAt"})
    <3>1. record' = [record EXCEPT ![t.job] = e] /\ e.status = "failed"
      BY <1>6, WrittenStatus DEF LateWrite
    <3> HIDE DEF e
    <3> QED
      BY <1>2, <2>1, <2>2, <3>1
<1>7. ASSUME NEW j \in Jobs, Expire(j) PROVE Lifecycle!Next
  <2>1. record[j].status \in {"completed", "failed"}
    BY <1>7 DEF Expire, Still, Quiet, JobQuiet
  <2> QED
    BY <1>2, <1>7, <2>1, QuietValues DEF Expire
<1>8. record' # record
  BY DEF Statuses
<1> QED
  BY <1>3, <1>4, <1>5, <1>6, <1>7, <1>8
  DEF Next, RequestStep, ExecStep, LateStep, Fault, Submit, Enqueue, CreateFails, Claim,
      ReadForActive, ReadForCompleted, FinishJob, FailAttempt, ExecError, FailDoomed,
      LateRead, LateError, Promote, LockExpires, LockLost, StalledCheck, BoardRetry,
      BoardRemove, Crash, Restart, vars

\* As long as nothing fails, the records of all jobs take only the steps of the
\* lifecycle: created, started, settled, expired, one job at a time.
THEOREM FollowsLifecycle ==
    Spec /\ []Undisturbed => Lifecycle!Init /\ [][Lifecycle!Next]_Statuses
<1>1. Init => Lifecycle!Init
  BY QuietValues DEF Init, Lifecycle!Init
<1>2. /\ TypeInv /\ LockInv /\ QueuedHasRecord /\ RecordsHeld /\ QuietHeld
      /\ Undisturbed /\ [Next]_vars
      => [Lifecycle!Next]_Statuses
  <2>1. Undisturbed => Exclusive
    BY DEF Undisturbed, Exclusive
  <2> QED
    BY <2>1, LifecycleStep DEF Still, Held, RecordsHeld, QuietHeld
<1> QED
  BY <1>1, <1>2, QuietInvariant, PTL DEF Spec
=============================================================================
