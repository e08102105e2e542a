------------------------ MODULE JobProcessingProofs ------------------------
(***************************************************************************)
(* Proofs about JobProcessing, for any number of jobs, slots, instances,   *)
(* attempts, crashes and Redis errors: it keeps its type invariant; while  *)
(* the queue's locks hold only one party writes the record of a job; and,  *)
(* lost locks included, a job is decided once and is not attempted too     *)
(* often, since every step changes an entry in one of a few ways.          *)
(***************************************************************************)
EXTENDS JobProcessing, TLAPS

USE DEF Terminal, JobStatus, FaultKinds, ExecPcs, EntryStates

-----------------------------------------------------------------------------
(* The operators the actions are built from return values of their types.  *)

\* An entry stays an entry when one field is given a value of its type.
LEMMA SetField ==
    /\ \A e \in Entry, st \in EntryStates : [e EXCEPT !.state = st] \in Entry
    /\ \A e \in Entry, n \in Nat : [e EXCEPT !.made = n] \in Entry
    /\ \A e \in Entry, n \in Nat : [e EXCEPT !.stalls = n] \in Entry
    /\ \A e \in Entry, b \in BOOLEAN : [e EXCEPT !.doomed = b] \in Entry
    /\ \A e \in Entry, s \in Slots \cup {NoSlot} : [e EXCEPT !.lock = s] \in Entry
    /\ \A e \in Entry : e.made + 1 \in Nat /\ e.stalls + 1 \in Nat
<1>1. \A e \in Entry, st \in EntryStates : [e EXCEPT !.state = st] \in Entry
  BY DEF Entry
<1>2. \A e \in Entry, n \in Nat : [e EXCEPT !.made = n] \in Entry
  BY DEF Entry
<1>3. \A e \in Entry, n \in Nat : [e EXCEPT !.stalls = n] \in Entry
  BY DEF Entry
<1>4. \A e \in Entry, b \in BOOLEAN : [e EXCEPT !.doomed = b] \in Entry
  BY DEF Entry
<1>5. \A e \in Entry, s \in Slots \cup {NoSlot} : [e EXCEPT !.lock = s] \in Entry
  BY DEF Entry
<1>6. \A e \in Entry : e.made + 1 \in Nat /\ e.stalls + 1 \in Nat
  BY DEF Entry
<1> QED
  BY <1>1, <1>2, <1>3, <1>4, <1>5, <1>6

\* Every change of a queue entry yields a queue entry.
LEMMA EntryTypes ==
    /\ Absent \in Entry /\ Added \in Entry /\ Removed \in Entry
    /\ \A e \in Entry :
         /\ \A s \in Slots : Claimed(e, s) \in Entry
         /\ Completed(e) \in Entry /\ BackedOff(e) \in Entry
         /\ GivenUp(e) \in Entry /\ Promoted(e) \in Entry
         /\ Unlocked(e) \in Entry /\ Stalled(e) \in Entry
         /\ Requeued(e) \in Entry
<1>1. Absent \in Entry /\ Added \in Entry /\ Removed \in Entry
  <2>1. Absent \in Entry
    BY DEF Absent, Entry
  <2> QED
    BY <2>1, SetField DEF Added, Removed
<1> SUFFICES ASSUME NEW e \in Entry
             PROVE  /\ \A s \in Slots : Claimed(e, s) \in Entry
                    /\ Completed(e) \in Entry /\ BackedOff(e) \in Entry
                    /\ GivenUp(e) \in Entry /\ Promoted(e) \in Entry
                    /\ Unlocked(e) \in Entry /\ Stalled(e) \in Entry
                    /\ Requeued(e) \in Entry
  BY <1>1
<1>2. \A s \in Slots : Claimed(e, s) \in Entry
  BY SetField DEF Claimed
<1>3. Completed(e) \in Entry
  BY SetField DEF Completed
<1>4. BackedOff(e) \in Entry
  BY SetField DEF BackedOff
<1>5. GivenUp(e) \in Entry
  BY SetField DEF GivenUp
<1>6. Promoted(e) \in Entry /\ Unlocked(e) \in Entry /\ Requeued(e) \in Entry
  BY SetField DEF Promoted, Unlocked, Requeued
<1>7. Stalled(e) \in Entry
  <2>1. (e.stalls + 1 > MaxStalledCount) \in BOOLEAN
    OBVIOUS
  <2> QED
    BY <2>1, SetField, Zenon DEF Stalled
<1> QED
  BY <1>2, <1>3, <1>4, <1>5, <1>6, <1>7

\* The merge of updateStatus yields an entity.
LEMMA UpdatedType ==
    ASSUME NEW e \in JobEntity, NEW status \in JobStatus, NEW n \in Nat,
           NEW stamps \in SUBSET {"completedAt", "failedAt"}
    PROVE  Updated(e, status, n, stamps) \in JobEntity
<1> DEFINE ttl == status \in Terminal
<1>1. ttl \in BOOLEAN
  OBVIOUS
<1>2. e.stamps \cup stamps \in SUBSET {"completedAt", "failedAt"}
  BY DEF JobEntity
<1> HIDE DEF ttl
<1>3. [status |-> status, attempts |-> n, stamps |-> e.stamps \cup stamps,
       ttl |-> ttl] \in JobEntity
  BY <1>1, <1>2 DEF JobEntity
<1> QED
  BY <1>3 DEF ttl, Updated

LEMMA VacantType ==
    Vacant("none") \in JobEntity /\ Vacant("expired") \in JobEntity
  BY DEF Vacant, JobEntity

LEMMA SpendType ==
    ASSUME faults \in [FaultKinds -> Nat], NEW k \in FaultKinds, Spend(k)
    PROVE  faults' \in [FaultKinds -> Nat]
  BY DEF Spend

LEMMA AdvanceType ==
    ASSUME request \in [Jobs -> Request], NEW j \in Jobs, NEW from,
           NEW to \in {"storing", "adding", "accepted", "rejected"},
           Advance(j, from, to)
    PROVE  request' \in [Jobs -> Request]
  BY DEF Advance, Request

\* What the end of an execution does to the queue: nothing without the lock;
\* otherwise it changes the entry of its own job, and of others only removes
\* some that were finished.
\* (The equation with EXCEPT says that the queue stays a function.)
LEMMA MoveToEffect ==
    ASSUME queue \in [Jobs -> Entry], NEW s \in Slots, exec[s].job \in Jobs,
           NEW e, MoveTo(s, e)
    PROVE  /\ ~HoldsLock(s) => queue' = queue
           /\ HoldsLock(s) =>
                /\ queue' = [queue' EXCEPT ![exec[s].job] = e]
                /\ queue'[exec[s].job] = e
                /\ \A k \in Jobs \ {exec[s].job} :
                     \/ queue'[k] = queue[k]
                     \/ queue[k].state \in Finished /\ queue'[k] = Removed
           /\ DOMAIN queue' = Jobs
<1> DEFINE j == exec[s].job
<1>1. CASE ~HoldsLock(s)
  BY <1>1 DEF MoveTo
<1>2. CASE HoldsLock(s)
  <2>1. PICK old \in Outdated(queue, j, e) :
               queue' = [Trimmed(queue, old) EXCEPT ![j] = e]
    BY <1>2 DEF MoveTo
  <2>2. \A k \in old : k # j /\ queue[k].state \in Finished
    <3>1. e.state \notin Finished => old = {}
      BY DEF Outdated
    <3>2. \A k \in old : k # j /\ queue[k].state = e.state
      BY DEF Outdated
    <3> QED
      BY <3>1, <3>2
  <2>3. /\ DOMAIN Trimmed(queue, old) = Jobs
        /\ \A k \in Jobs :
             Trimmed(queue, old)[k] = IF k \in old THEN Removed ELSE queue[k]
    BY DEF Trimmed
  <2> HIDE DEF j
  <2>4. j \in Jobs
    BY DEF j
  <2>5. /\ DOMAIN queue' = Jobs /\ queue'[j] = e
        /\ queue' = [queue' EXCEPT ![j] = e]
        /\ \A k \in Jobs \ {j} : queue'[k] = Trimmed(queue, old)[k]
    BY <2>1, <2>3, <2>4
  <2> QED
    BY <1>2, <2>2, <2>3, <2>5 DEF j
<1> QED
  BY <1>1, <1>2

LEMMA MoveToType ==
    ASSUME queue \in [Jobs -> Entry], NEW s \in Slots, exec[s].job \in Jobs,
           NEW e \in Entry, MoveTo(s, e)
    PROVE  queue' \in [Jobs -> Entry]
<1>1. CASE ~HoldsLock(s)
  BY <1>1, MoveToEffect
<1>2. CASE HoldsLock(s)
  <2>1. \A k \in Jobs : queue'[k] \in Entry
    BY <1>2, MoveToEffect, EntryTypes
  <2>2. DOMAIN queue' = Jobs
    BY MoveToEffect
  <2>3. queue' = [k \in Jobs |-> queue'[k]]
    BY <1>2, <2>2, MoveToEffect
  <2> QED
    BY <2>1, <2>3
<1> QED
  BY <1>1, <1>2

\* Releasing a slot, with any entry for the job it ran.
LEMMA ReleaseType ==
    ASSUME TypeOK, NEW s \in Slots, exec[s].job \in Jobs, NEW e \in Entry,
           Release(s, e)
    PROVE  /\ queue' \in [Jobs -> Entry]
           /\ late' \in SUBSET Pending
           /\ exec' \in [Slots -> Execution]
<1>1. Home[s] \in Instances
  BY HomeAssumption
<1>2. queue' \in [Jobs -> Entry]
  BY MoveToType DEF Release, TypeOK
<1>3. exec[s].atm + 1 \in Nat
  BY DEF TypeOK, Execution
<1>4. OnFailed(s, exec[s].atm + 1) \in SUBSET Pending
  BY <1>1, <1>3, VacantType DEF OnFailed, TypeOK, Pending
<1>5. late' \in SUBSET Pending
  BY <1>4 DEF Release, TypeOK
<1>6. Idle \in Execution
  BY VacantType DEF Idle, Execution
<1>7. exec' \in [Slots -> Execution]
  BY <1>6 DEF Release, TypeOK
<1> QED
  BY <1>2, <1>5, <1>7

-----------------------------------------------------------------------------
(* Type correctness.                                                       *)

\* A slot names a job exactly while it executes one.
ExecJobs == \A s \in Slots : exec[s].job = NoJob <=> exec[s].pc = "idle"

TypeInv == TypeOK /\ ExecJobs

LEMMA BusyJob ==
    ASSUME TypeInv, NEW s \in Slots, exec[s].pc # "idle"
    PROVE  exec[s].job \in Jobs /\ exec[s].snap \in JobEntity /\ exec[s].atm + 1 \in Nat
  BY DEF TypeInv, TypeOK, ExecJobs, Execution

LEMMA IdleExecution == Idle \in Execution /\ Idle.pc = "idle" /\ Idle.job = NoJob
  BY VacantType DEF Idle, Execution

\* A slot may go to any state but idle and keep its job.
LEMMA GotoType ==
    ASSUME TypeInv, NEW s \in Slots, exec[s].pc # "idle",
           NEW pc \in ExecPcs \ {"idle"}, NEW snap \in JobEntity,
           \/ exec' = [exec EXCEPT ![s].pc = pc]
           \/ exec' = [exec EXCEPT ![s].pc = pc, ![s].snap = snap]
    PROVE  exec' \in [Slots -> Execution] /\ ExecJobs'
<1>1. exec' \in [Slots -> Execution]
  <2>1. [exec[s] EXCEPT !.pc = pc] \in Execution
    BY DEF TypeInv, TypeOK, Execution
  <2>2. \A x \in Execution : [x EXCEPT !.snap = snap] \in Execution
    BY DEF Execution
  <2>3. CASE exec' = [exec EXCEPT ![s].pc = pc]
    BY <2>1, <2>3 DEF TypeInv, TypeOK
  <2>4. CASE exec' = [exec EXCEPT ![s].pc = pc, ![s].snap = snap]
    <3>1. [exec EXCEPT ![s].pc = pc] \in [Slots -> Execution]
      BY <2>1 DEF TypeInv, TypeOK
    <3> QED
      BY <3>1, <2>2, <2>4
  <2> QED
    BY <2>3, <2>4
<1>2. ExecJobs'
  <2>1. exec[s].job # NoJob
    BY DEF TypeInv, ExecJobs
  <2>2. /\ exec'[s].pc = pc /\ exec'[s].job = exec[s].job
        /\ \A x \in Slots \ {s} : exec'[x] = exec[x]
    BY DEF TypeInv, TypeOK, Execution
  <2> QED
    BY <2>1, <2>2 DEF TypeInv, ExecJobs
<1> QED
  BY <1>1, <1>2

LEMMA InitType == Init => TypeInv
<1> SUFFICES ASSUME Init PROVE TypeInv
  OBVIOUS
<1>1. record \in [Jobs -> JobEntity]
  BY VacantType DEF Init
<1>2. queue \in [Jobs -> Entry]
  BY EntryTypes DEF Init
<1>3. request \in [Jobs -> Request]
  BY DEF Init, Request
<1>4. exec \in [Slots -> Execution] /\ ExecJobs
  BY IdleExecution DEF Init, ExecJobs
<1>5. late \in SUBSET Pending /\ up \in SUBSET Instances
  BY DEF Init
<1>6. faults \in [FaultKinds -> Nat]
  BY DEF Init
<1> QED
  BY <1>1, <1>2, <1>3, <1>4, <1>5, <1>6 DEF TypeInv, TypeOK

LEMMA TypeStep == TypeInv /\ [Next]_vars => TypeInv'
<1> SUFFICES ASSUME TypeInv, [Next]_vars PROVE TypeInv'
  OBVIOUS
<1> USE DEF TypeInv, TypeOK
<1>1. ASSUME NEW j \in Jobs, Submit(j) PROVE TypeInv'
  BY <1>1, AdvanceType DEF Submit, ExecJobs
<1>2. ASSUME NEW j \in Jobs, Store(j) PROVE TypeInv'
  <2>1. NewEntity \in JobEntity
    BY DEF NewEntity, JobEntity
  <2> QED
    BY <1>2, <2>1, AdvanceType DEF Store, ExecJobs
<1>3. ASSUME NEW j \in Jobs, Enqueue(j) PROVE TypeInv'
  BY <1>3, EntryTypes, AdvanceType DEF Enqueue, ExecJobs
<1>4. ASSUME NEW j \in Jobs, CreateFails(j) PROVE TypeInv'
  <2>1. request' \in [Jobs -> Request]
    BY <1>4, AdvanceType DEF CreateFails
  <2>2. faults' \in [FaultKinds -> Nat]
    BY <1>4, SpendType DEF CreateFails
  <2> QED
    BY <1>4, <2>1, <2>2 DEF CreateFails, ExecJobs
<1>5. ASSUME NEW s \in Slots, NEW j \in Jobs, Claim(s, j) PROVE TypeInv'
  <2> DEFINE pc == IF queue[j].doomed THEN "doomed" ELSE "claimed"
             e == [pc |-> pc, job |-> j, atm |-> queue[j].made, snap |-> Vacant("none")]
  <2>1. queue' \in [Jobs -> Entry]
    BY <1>5, EntryTypes DEF Claim
  <2>2. queue[j].made \in Nat
    BY DEF Entry
  <2>3. pc \in ExecPcs \ {"idle"}
    OBVIOUS
  <2> HIDE DEF pc
  <2>4. e \in Execution /\ e.job # NoJob /\ e.pc # "idle"
    BY <2>2, <2>3, VacantType, NoJobAssumption DEF Execution
  <2>5. exec' = [exec EXCEPT ![s] = e]
    BY <1>5 DEF Claim, pc
  <2> HIDE DEF e
  <2>6. exec' \in [Slots -> Execution] /\ ExecJobs'
    BY <2>4, <2>5 DEF ExecJobs
  <2> QED
    BY <1>5, <2>1, <2>6 DEF Claim
<1>6. ASSUME NEW s \in Slots, ReadForActive(s) PROVE TypeInv'
  <2>1. exec' \in [Slots -> Execution] /\ ExecJobs'
    <3> DEFINE entity == record[exec[s].job]
               pc == IF Exists(entity) THEN "marking" ELSE "working"
               snap == IF Exists(entity) THEN entity ELSE exec[s].snap
    <3>1. pc \in ExecPcs \ {"idle"} /\ snap \in JobEntity
      BY <1>6, BusyJob DEF ReadForActive, At
    <3>2. exec' = [exec EXCEPT ![s].pc = pc, ![s].snap = snap]
      BY <1>6 DEF ReadForActive
    <3>3. exec[s].pc # "idle"
      BY <1>6 DEF ReadForActive, At
    <3> HIDE DEF pc, snap
    <3> QED
      BY <3>1, <3>2, <3>3, GotoType
  <2> QED
    BY <1>6, <2>1 DEF ReadForActive
<1>7. ASSUME NEW s \in Slots, MarkActive(s) PROVE TypeInv'
  <2>1. exec[s].pc # "idle"
    BY <1>7 DEF MarkActive, At
  <2>2. exec' \in [Slots -> Execution] /\ ExecJobs'
    BY <1>7, <2>1, BusyJob, GotoType DEF MarkActive, Goto
  <2>3. record' \in [Jobs -> JobEntity]
    BY <1>7, <2>1, BusyJob, UpdatedType DEF MarkActive
  <2> QED
    BY <1>7, <2>2, <2>3 DEF MarkActive
<1>8. ASSUME NEW s \in Slots, ReadForCompleted(s) PROVE TypeInv'
  <2>1. exec' \in [Slots -> Execution] /\ ExecJobs'
    <3> DEFINE entity == record[exec[s].job]
               pc == IF Exists(entity) THEN "saving" ELSE "saved"
               snap == IF Exists(entity) THEN entity ELSE exec[s].snap
    <3>1. pc \in ExecPcs \ {"idle"} /\ snap \in JobEntity
      BY <1>8, BusyJob DEF ReadForCompleted, At
    <3>2. exec' = [exec EXCEPT ![s].pc = pc, ![s].snap = snap]
      BY <1>8 DEF ReadForCompleted
    <3>3. exec[s].pc # "idle"
      BY <1>8 DEF ReadForCompleted, At
    <3> HIDE DEF pc, snap
    <3> QED
      BY <3>1, <3>2, <3>3, GotoType
  <2> QED
    BY <1>8, <2>1 DEF ReadForCompleted
<1>9. ASSUME NEW s \in Slots, SaveCompleted(s) PROVE TypeInv'
  <2>1. exec[s].pc # "idle"
    BY <1>9 DEF SaveCompleted, At
  <2>2. exec' \in [Slots -> Execution] /\ ExecJobs'
    BY <1>9, <2>1, BusyJob, GotoType DEF SaveCompleted, Goto
  <2>3. record' \in [Jobs -> JobEntity]
    BY <1>9, <2>1, BusyJob, UpdatedType DEF SaveCompleted
  <2> QED
    BY <1>9, <2>2, <2>3 DEF SaveCompleted
<1>10. ASSUME NEW s \in Slots, FinishJob(s) PROVE TypeInv'
  <2>1. exec[s].job \in Jobs
    BY <1>10, BusyJob DEF FinishJob, At
  <2>2. queue' \in [Jobs -> Entry]
    BY <1>10, <2>1, EntryTypes, MoveToType DEF FinishJob
  <2> QED
    BY <1>10, <2>2, IdleExecution DEF FinishJob, ExecJobs
<1>11. ASSUME NEW s \in Slots, exec[s].pc # "idle", NEW e \in Entry, Release(s, e)
       PROVE  /\ queue' \in [Jobs -> Entry] /\ late' \in SUBSET Pending
              /\ exec' \in [Slots -> Execution] /\ ExecJobs'
  BY <1>11, BusyJob, ReleaseType, IdleExecution DEF Release, ExecJobs
<1>12. ASSUME NEW s \in Slots, exec[s].pc # "idle", Throw(s)
       PROVE  /\ queue' \in [Jobs -> Entry] /\ late' \in SUBSET Pending
              /\ exec' \in [Slots -> Execution] /\ ExecJobs'
  <2> DEFINE entry == queue[exec[s].job]
             next == IF Retries(entry.made) THEN BackedOff(entry) ELSE GivenUp(entry)
  <2>1. next \in Entry
    BY <1>12, BusyJob, EntryTypes
  <2>2. Release(s, next)
    BY <1>12 DEF Throw
  <2> HIDE DEF next
  <2> QED
    BY <1>11, <1>12, <2>1, <2>2
<1>13. ASSUME NEW s \in Slots, FailAttempt(s) PROVE TypeInv'
  BY <1>12, <1>13 DEF FailAttempt, At
<1>14. ASSUME NEW s \in Slots, ExecError(s) PROVE TypeInv'
  <2>1. exec[s].pc # "idle"
    BY <1>14 DEF ExecError, At
  <2>2. faults' \in [FaultKinds -> Nat]
    BY <1>14, SpendType DEF ExecError
  <2> QED
    BY <1>12, <1>14, <2>1, <2>2 DEF ExecError
<1>15. ASSUME NEW s \in Slots, FailDoomed(s) PROVE TypeInv'
  <2>1. exec[s].pc # "idle"
    BY <1>15 DEF FailDoomed, At
  <2>2. GivenUp(queue[exec[s].job]) \in Entry
    BY <2>1, BusyJob, EntryTypes
  <2> QED
    BY <1>11, <1>15, <2>1, <2>2 DEF FailDoomed
<1>16. ASSUME NEW t \in late, LateRead(t) PROVE TypeInv'
  <2>1. ASSUME Exists(record[t.job])
        PROVE  [t EXCEPT !.pc = "set", !.snap = record[t.job]] \in Pending
    BY DEF Pending
  <2>2. late' \in SUBSET Pending
    BY <1>16, <2>1 DEF LateRead
  <2> QED
    BY <1>16, <2>2 DEF LateRead, ExecJobs
<1>17. ASSUME NEW t \in late, LateWrite(t) PROVE TypeInv'
  <2>1. Updated(t.snap, "failed", t.attempts, {"failedAt"}) \in JobEntity
    BY UpdatedType DEF Pending
  <2>2. record' \in [Jobs -> JobEntity]
    BY <1>17, <2>1 DEF LateWrite
  <2> QED
    BY <1>17, <2>2 DEF LateWrite, ExecJobs
<1>18. ASSUME NEW t \in late, LateError(t) PROVE TypeInv'
  <2>1. faults' \in [FaultKinds -> Nat]
    BY <1>18, SpendType DEF LateError
  <2> QED
    BY <1>18, <2>1 DEF LateError, ExecJobs
<1>19. ASSUME NEW j \in Jobs, Promote(j) PROVE TypeInv'
  BY <1>19, EntryTypes DEF Promote, ExecJobs
<1>20. ASSUME NEW j \in Jobs, Expire(j) PROVE TypeInv'
  BY <1>20, VacantType DEF Expire, ExecJobs
<1>21. ASSUME NEW j \in Jobs, LockExpires(j) PROVE TypeInv'
  BY <1>21, EntryTypes DEF LockExpires, ExecJobs
<1>22. ASSUME NEW j \in Jobs, LockLost(j) PROVE TypeInv'
  <2>1. faults' \in [FaultKinds -> Nat]
    BY <1>22, SpendType DEF LockLost
  <2> QED
    BY <1>22, <2>1, EntryTypes DEF LockLost, ExecJobs
<1>23. ASSUME NEW j \in Jobs, StalledCheck(j) PROVE TypeInv'
  BY <1>23, EntryTypes DEF StalledCheck, ExecJobs
<1>24. ASSUME NEW j \in Jobs, BoardRetry(j) PROVE TypeInv'
  <2>1. faults' \in [FaultKinds -> Nat]
    BY <1>24, SpendType DEF BoardRetry
  <2> QED
    BY <1>24, <2>1, EntryTypes DEF BoardRetry, ExecJobs
<1>25. ASSUME NEW j \in Jobs, BoardRemove(j) PROVE TypeInv'
  <2>1. faults' \in [FaultKinds -> Nat]
    BY <1>25, SpendType DEF BoardRemove
  <2> QED
    BY <1>25, <2>1, EntryTypes DEF BoardRemove, ExecJobs
<1>26. ASSUME NEW p \in Instances, Crash(p) PROVE TypeInv'
  <2>1. faults' \in [FaultKinds -> Nat]
    BY <1>26, SpendType DEF Crash
  <2>2. exec' \in [Slots -> Execution] /\ ExecJobs'
    BY <1>26, IdleExecution DEF Crash, ExecJobs
  <2>3. \A r \in Request : [r EXCEPT !.pc = "aborted"] \in Request
    BY DEF Request
  <2>4. request' \in [Jobs -> Request]
    BY <1>26, <2>3 DEF Crash
  <2> QED
    BY <1>26, <2>1, <2>2, <2>4 DEF Crash
<1>27. ASSUME NEW p \in Instances, Restart(p) PROVE TypeInv'
  BY <1>27 DEF Restart, ExecJobs
<1>28. CASE UNCHANGED vars
  BY <1>28 DEF vars, ExecJobs
<1> QED
  BY <1>1, <1>2, <1>3, <1>4, <1>5, <1>6, <1>7, <1>8, <1>9, <1>10, <1>13, <1>14,
     <1>15, <1>16, <1>17, <1>18, <1>19, <1>20, <1>21, <1>22, <1>23, <1>24, <1>25,
     <1>26, <1>27, <1>28
  DEF Next, RequestStep, ExecStep, LateStep, Fault

\* Every variable keeps its type, whatever faults happen.
THEOREM TypeCorrect == Spec => []TypeOK
<1>1. TypeInv => TypeOK
  BY DEF TypeInv
<1> QED
  BY <1>1, InitType, TypeStep, PTL DEF Spec

-----------------------------------------------------------------------------
(* One writer at a time.  SingleWriter is not inductive: nothing in it     *)
(* says that a job somebody works on cannot be claimed again.  The queue   *)
(* entry says so, as long as locks are kept: the job of a busy slot is     *)
(* active and locked by that slot, and a job with a pending update of a    *)
(* listener has failed for good, or was removed since.                     *)

SlotsHold ==
    \A s \in Slots :
        exec[s].pc # "idle" =>
            /\ queue[exec[s].job].state = "active"
            /\ queue[exec[s].job].lock = s
            /\ queue[exec[s].job].made = exec[s].atm

LateAreFailed ==
    /\ \A t \in late : queue[t.job].state \in {"failed", "removed"}
    /\ \A t1, t2 \in late : t1.job = t2.job => t1 = t2

\* A job is added to the queue at the end of its request.
AddedLast ==
    \A j \in Jobs :
        request[j].pc \in {"unsent", "storing", "adding"} => queue[j].state = "absent"

\* Only active jobs are locked: what a slot does under its lock, it does to an
\* active job, even if other locks were lost.
LockedAreActive ==
    \A j \in Jobs : queue[j].lock # NoSlot => queue[j].state = "active"

LockInv == AddedLast /\ LockedAreActive /\ (Exclusive => SlotsHold /\ LateAreFailed)

\* A job that was not added, and one that was, are not locked.
LEMMA NewEntries ==
    /\ Absent.state = "absent" /\ Absent.lock = NoSlot
    /\ Added.state = "wait" /\ Added.lock = NoSlot
    /\ Removed.state = "removed" /\ Removed.lock = NoSlot
  BY DEF Absent, Added, Removed

\* What the actions do to the state of an entry.
LEMMA EntryChanges ==
    ASSUME NEW e \in Entry
    PROVE  /\ \A s \in Slots : /\ Claimed(e, s).state = "active"
                               /\ Claimed(e, s).lock = s
                               /\ Claimed(e, s).made = e.made
           /\ Completed(e).state = "completed" /\ BackedOff(e).state = "delayed"
           /\ GivenUp(e).state = "failed" /\ Promoted(e).state = "wait"
           /\ Stalled(e).state = "wait" /\ Requeued(e).state = "wait"
           /\ Unlocked(e).state = e.state
           /\ Completed(e).lock = NoSlot /\ BackedOff(e).lock = NoSlot
           /\ GivenUp(e).lock = NoSlot /\ Promoted(e).lock = e.lock
           /\ Stalled(e).lock = e.lock /\ Requeued(e).lock = e.lock
           /\ Unlocked(e).lock = NoSlot
<1> USE DEF Entry
<1>1. \A s \in Slots : /\ Claimed(e, s).state = "active"
                       /\ Claimed(e, s).lock = s
                       /\ Claimed(e, s).made = e.made
  BY DEF Claimed
<1>2. /\ Completed(e).state = "completed" /\ BackedOff(e).state = "delayed"
      /\ Completed(e).lock = NoSlot /\ BackedOff(e).lock = NoSlot
  BY DEF Completed, BackedOff
<1>3. /\ GivenUp(e).state = "failed" /\ Promoted(e).state = "wait"
      /\ GivenUp(e).lock = NoSlot /\ Promoted(e).lock = e.lock
  BY DEF GivenUp, Promoted
<1>4. /\ Stalled(e).state = "wait" /\ Requeued(e).state = "wait"
      /\ Stalled(e).lock = e.lock /\ Requeued(e).lock = e.lock
  BY DEF Stalled, Requeued
<1>5. Unlocked(e).state = e.state /\ Unlocked(e).lock = NoSlot
  BY DEF Unlocked
<1> QED
  BY <1>1, <1>2, <1>3, <1>4, <1>5

\* Faults are counted, never forgotten.
LEMMA SpendCounts ==
    ASSUME TypeInv, NEW k \in FaultKinds, Spend(k)
    PROVE  /\ Exclusive' => Exclusive
           /\ k \in {"lockLoss", "boardRetry"} => ~Exclusive'
  BY DEF Spend, Exclusive, TypeInv, TypeOK

\* A step that leaves the queue alone and starts nothing keeps the locks.
LEMMA LocksUntouched ==
    ASSUME SlotsHold /\ LateAreFailed, queue' = queue, late' \subseteq late,
           \A s \in Slots :
               exec'[s].pc # "idle" =>
                   /\ exec[s].pc # "idle"
                   /\ exec'[s].job = exec[s].job /\ exec'[s].atm = exec[s].atm
    PROVE  (SlotsHold /\ LateAreFailed)'
  BY DEF SlotsHold, LateAreFailed

\* A change to the entry of a job that no slot and no listener is concerned
\* with keeps the locks, and so does the removal of any job without a slot.
LEMMA EntryOfNobody ==
    ASSUME TypeInv, SlotsHold /\ LateAreFailed, NEW j \in Jobs, NEW e \in Entry,
           queue' = [queue EXCEPT ![j] = e], exec' = exec, late' = late,
           queue[j].state \notin {"failed", "removed"} \/ e = Removed,
           \A s \in Slots : exec[s].job # j
    PROVE  (SlotsHold /\ LateAreFailed)'
<1>1. \A s \in Slots : exec[s].pc # "idle" => queue'[exec[s].job] = queue[exec[s].job]
  BY BusyJob DEF TypeInv, TypeOK
<1>2. \A t \in late : queue'[t.job].state \in {queue[t.job].state, "removed"}
  BY NewEntries DEF LateAreFailed, TypeInv, TypeOK, Pending
<1> QED
  BY <1>1, <1>2 DEF SlotsHold, LateAreFailed

\* A slot that leaves its job with an entry e keeps the locks of the others; a
\* pending update may be added for it when e is failed.
LEMMA SlotLeaves ==
    ASSUME TypeInv, SlotsHold /\ LateAreFailed, NEW s \in Slots, NEW e \in Entry,
           exec[s].pc # "idle", MoveTo(s, e),
           exec' = [exec EXCEPT ![s] = Idle],
           \/ late' = late
           \/ /\ e.state = "failed"
              /\ \E t : t.job = exec[s].job /\ late' = late \cup {t}
    PROVE  (SlotsHold /\ LateAreFailed)'
<1> DEFINE j == exec[s].job
<1>1. j \in Jobs /\ queue[j].state = "active" /\ queue[j].lock = s
  BY BusyJob DEF SlotsHold
<1>2. /\ queue'[j] = e
      /\ \A k \in Jobs \ {j} :
           \/ queue'[k] = queue[k]
           \/ queue[k].state \in Finished /\ queue'[k].state = "removed"
  BY <1>1, MoveToEffect, NewEntries DEF HoldsLock, TypeInv, TypeOK
<1>3. \A t \in late : t.job \in Jobs \ {j}
  BY <1>1 DEF LateAreFailed, TypeInv, TypeOK, Pending
<1>4. SlotsHold'
  <2>1. exec'[s].pc = "idle" /\ \A x \in Slots \ {s} : exec'[x] = exec[x]
    BY IdleExecution DEF TypeInv, TypeOK
  <2>2. \A x \in Slots \ {s} : exec[x].pc # "idle" => exec[x].job \in Jobs \ {j}
    BY <1>1, BusyJob DEF SlotsHold
  <2> QED
    BY <1>2, <2>1, <2>2 DEF SlotsHold, Finished
<1>5. LateAreFailed'
  BY <1>2, <1>3 DEF LateAreFailed
<1> QED
  BY <1>4, <1>5

LEMMA InitLock == Init => LockInv
  BY IdleExecution, NewEntries
  DEF Init, LockInv, AddedLast, LockedAreActive, SlotsHold, LateAreFailed

\* A failing attempt of a slot that holds its lock.
LEMMA ReleaseLock ==
    ASSUME TypeInv, SlotsHold /\ LateAreFailed, NEW s \in Slots, NEW e \in Entry,
           exec[s].pc # "idle", Release(s, e),
           exec[s].atm + 1 >= MaxAttempts => e.state = "failed"
    PROVE  (SlotsHold /\ LateAreFailed)'
<1>1. HoldsLock(s)
  BY DEF HoldsLock, SlotsHold
<1>2. /\ MoveTo(s, e)
      /\ exec' = [exec EXCEPT ![s] = Idle]
      /\ late' = OnFailed(s, exec[s].atm + 1)
  BY <1>1 DEF Release
<1>3. CASE IsLastAttempt(exec[s].atm + 1)
  <2>1. e.state = "failed"
    BY <1>3 DEF IsLastAttempt
  <2>2. \E t : t.job = exec[s].job /\ late' = late \cup {t}
    BY <1>2, <1>3 DEF OnFailed
  <2> QED
    BY <1>2, <2>1, <2>2, SlotLeaves
<1>4. CASE ~IsLastAttempt(exec[s].atm + 1)
  BY <1>2, <1>4, SlotLeaves DEF OnFailed
<1> QED
  BY <1>3, <1>4

LEMMA ThrowLock ==
    ASSUME TypeInv, SlotsHold /\ LateAreFailed, NEW s \in Slots,
           exec[s].pc # "idle", Throw(s)
    PROVE  (SlotsHold /\ LateAreFailed)'
<1> DEFINE entry == queue[exec[s].job]
           next == IF Retries(entry.made) THEN BackedOff(entry) ELSE GivenUp(entry)
<1>1. entry \in Entry /\ entry.made = exec[s].atm
  BY BusyJob DEF SlotsHold, TypeInv, TypeOK
<1>2. next \in Entry
  BY <1>1, EntryTypes
<1>3. exec[s].atm + 1 >= MaxAttempts => next.state = "failed"
  <2>1. Retries(entry.made) <=> ~(exec[s].atm + 1 >= MaxAttempts)
    BY <1>1, BusyJob, AttemptsAssumption DEF Retries
  <2> QED
    BY <1>1, <2>1, EntryChanges
<1>4. Release(s, next)
  BY DEF Throw
<1> HIDE DEF next
<1> QED
  BY <1>2, <1>3, <1>4, ReleaseLock

QueueInv == AddedLast /\ LockedAreActive

\* Changing an entry that was added keeps what holds of all entries.
LEMMA QueueKept ==
    ASSUME TypeInv, QueueInv, request' = request, NEW j \in Jobs, NEW e,
           queue[j].state # "absent", e.lock # NoSlot => e.state = "active",
           queue' = queue \/ queue' = [queue EXCEPT ![j] = e]
    PROVE  QueueInv'
  BY DEF QueueInv, AddedLast, LockedAreActive, TypeInv, TypeOK

\* The end of an execution keeps it too.
LEMMA MoveToKept ==
    ASSUME TypeInv, QueueInv, request' = request, NEW s \in Slots,
           exec[s].pc # "idle", NEW e, e.lock = NoSlot, MoveTo(s, e)
    PROVE  QueueInv'
<1>1. exec[s].job \in Jobs
  BY BusyJob
<1>2. CASE ~HoldsLock(s)
  BY <1>1, <1>2, MoveToEffect DEF QueueInv, AddedLast, LockedAreActive, TypeInv, TypeOK
<1>3. CASE HoldsLock(s)
  <2>1. queue[exec[s].job].state # "absent"
    BY <1>1, <1>3, NoSlotAssumption DEF HoldsLock, QueueInv, LockedAreActive
  <2>2. /\ queue'[exec[s].job].lock = NoSlot
        /\ \A k \in Jobs \ {exec[s].job} :
             \/ queue'[k] = queue[k]
             \/ queue[k].state \in Finished /\ queue'[k] = Removed
    BY <1>1, <1>3, MoveToEffect DEF TypeInv, TypeOK
  <2>3. \A k \in Jobs :
          \/ queue'[k] = queue[k]
          \/ queue[k].state # "absent" /\ queue'[k].lock = NoSlot
    BY <2>1, <2>2, NewEntries DEF Finished
  <2> QED
    BY <2>3 DEF QueueInv, AddedLast, LockedAreActive
<1> QED
  BY <1>2, <1>3

\* A slot that works without changing the queue.
LEMMA WorkLock ==
    ASSUME TypeInv, LockInv, NEW s \in Slots, exec[s].pc # "idle",
           UNCHANGED <<queue, request, late, faults>>,
           /\ exec'[s].job = exec[s].job /\ exec'[s].atm = exec[s].atm
           /\ \A x \in Slots \ {s} : exec'[x] = exec[x]
    PROVE  LockInv'
<1>1. AddedLast' /\ LockedAreActive'
  BY DEF LockInv, AddedLast, LockedAreActive
<1>2. ASSUME Exclusive' PROVE (SlotsHold /\ LateAreFailed)'
  BY <1>2, LocksUntouched DEF LockInv, Exclusive
<1> QED
  BY <1>1, <1>2 DEF LockInv

LEMMA LockStep == TypeInv /\ LockInv /\ [Next]_vars => LockInv'
<1> SUFFICES ASSUME TypeInv, LockInv, [Next]_vars PROVE LockInv'
  OBVIOUS
<1> USE DEF LockInv
<1>1. ASSUME NEW j \in Jobs, Submit(j) PROVE LockInv'
  <2>1. AddedLast' /\ LockedAreActive'
    BY <1>1
    DEF Submit, Advance, AddedLast, LockedAreActive, TypeInv, TypeOK, Request
  <2>2. Exclusive' => (SlotsHold /\ LateAreFailed)'
    BY <1>1, LocksUntouched DEF Submit, Exclusive
  <2> QED
    BY <2>1, <2>2
<1>2. ASSUME NEW j \in Jobs, Store(j) PROVE LockInv'
  <2>1. AddedLast' /\ LockedAreActive'
    BY <1>2
    DEF Store, Advance, AddedLast, LockedAreActive, TypeInv, TypeOK, Request
  <2>2. Exclusive' => (SlotsHold /\ LateAreFailed)'
    BY <1>2, LocksUntouched DEF Store, Exclusive
  <2> QED
    BY <2>1, <2>2
<1>3. ASSUME NEW j \in Jobs, Enqueue(j) PROVE LockInv'
  <2>1. AddedLast' /\ LockedAreActive'
    BY <1>3, NewEntries
    DEF Enqueue, Advance, AddedLast, LockedAreActive, TypeInv, TypeOK, Request
  <2>2. queue[j].state = "absent"
    BY <1>3 DEF Enqueue, Advance, AddedLast
  <2>3. ASSUME Exclusive' PROVE (SlotsHold /\ LateAreFailed)'
    <3>1. SlotsHold /\ LateAreFailed
      BY <1>3, <2>3 DEF Enqueue, Exclusive
    <3>2. \A s \in Slots : exec[s].job # j
      BY <2>2, <3>1, NoJobAssumption DEF SlotsHold, TypeInv, ExecJobs
    <3> QED
      BY <1>3, <2>2, <3>1, <3>2, EntryOfNobody, EntryTypes DEF Enqueue
  <2> QED
    BY <2>1, <2>3
<1>4. ASSUME NEW j \in Jobs, CreateFails(j) PROVE LockInv'
  <2>1. AddedLast' /\ LockedAreActive'
    BY <1>4
    DEF CreateFails, Advance, AddedLast, LockedAreActive, TypeInv, TypeOK, Request
  <2>2. Exclusive' => (SlotsHold /\ LateAreFailed)'
    BY <1>4, LocksUntouched, SpendCounts DEF CreateFails
  <2> QED
    BY <2>1, <2>2
<1>5. ASSUME NEW s \in Slots, NEW j \in Jobs, Claim(s, j) PROVE LockInv'
  <2>1. /\ queue[j].state = "wait" /\ queue[j] \in Entry
        /\ queue'[j] = Claimed(queue[j], s)
        /\ \A k \in Jobs \ {j} : queue'[k] = queue[k]
    BY <1>5 DEF Claim, TypeInv, TypeOK
  <2>2. AddedLast' /\ LockedAreActive'
    BY <1>5, <2>1, EntryChanges DEF Claim, AddedLast, LockedAreActive
  <2>3. ASSUME Exclusive' PROVE (SlotsHold /\ LateAreFailed)'
    <3>1. SlotsHold /\ LateAreFailed
      BY <1>5, <2>3 DEF Claim, Exclusive
    <3>2. \A x \in Slots : exec[x].pc # "idle" => exec[x].job \in Jobs \ {j}
      BY <2>1, <3>1, BusyJob DEF SlotsHold
    <3>3. /\ exec'[s].job = j /\ exec'[s].atm = queue[j].made
          /\ \A x \in Slots \ {s} : exec'[x] = exec[x]
      BY <1>5 DEF Claim, TypeInv, TypeOK
    <3>4. SlotsHold'
      BY <2>1, <3>1, <3>2, <3>3, EntryChanges DEF SlotsHold
    <3>5. LateAreFailed'
      BY <1>5, <2>1, <3>1 DEF Claim, LateAreFailed, TypeInv, TypeOK, Pending
    <3> QED
      BY <3>4, <3>5
  <2> QED
    BY <2>2, <2>3
<1>6. ASSUME NEW s \in Slots, ReadForActive(s) PROVE LockInv'
  BY <1>6, WorkLock DEF ReadForActive, At, TypeInv, TypeOK, Execution
<1>7. ASSUME NEW s \in Slots, MarkActive(s) PROVE LockInv'
  BY <1>7, WorkLock DEF MarkActive, At, Goto, TypeInv, TypeOK, Execution
<1>8. ASSUME NEW s \in Slots, ReadForCompleted(s) PROVE LockInv'
  BY <1>8, WorkLock DEF ReadForCompleted, At, TypeInv, TypeOK, Execution
<1>9. ASSUME NEW s \in Slots, SaveCompleted(s) PROVE LockInv'
  BY <1>9, WorkLock DEF SaveCompleted, At, Goto, TypeInv, TypeOK, Execution
<1>10. ASSUME NEW s \in Slots, FinishJob(s) PROVE LockInv'
  <2>1. exec[s].pc # "idle" /\ exec[s].job \in Jobs /\ queue[exec[s].job] \in Entry
    BY <1>10, BusyJob DEF FinishJob, At, TypeInv, TypeOK
  <2>2. QueueInv'
    <3>1. Completed(queue[exec[s].job]).lock = NoSlot
      BY <2>1, EntryChanges
    <3> QED
      BY <1>10, <2>1, <3>1, MoveToKept DEF FinishJob, QueueInv
  <2>3. ASSUME Exclusive' PROVE (SlotsHold /\ LateAreFailed)'
    <3>1. SlotsHold /\ LateAreFailed
      BY <1>10, <2>3 DEF FinishJob, Exclusive
    <3> QED
      BY <1>10, <2>1, <3>1, SlotLeaves, EntryTypes DEF FinishJob
  <2> QED
    BY <2>2, <2>3 DEF QueueInv
<1>11. ASSUME NEW s \in Slots, exec[s].pc # "idle", NEW e \in Entry, Release(s, e),
              e.lock = NoSlot, request' = request
       PROVE  QueueInv'
  BY <1>11, MoveToKept DEF Release, QueueInv
<1>12. ASSUME NEW s \in Slots, exec[s].pc # "idle", Throw(s), request' = request
       PROVE  QueueInv'
  <2> DEFINE entry == queue[exec[s].job]
             next == IF Retries(entry.made) THEN BackedOff(entry) ELSE GivenUp(entry)
  <2>1. next \in Entry /\ next.lock = NoSlot
    <3>1. entry \in Entry
      BY <1>12, BusyJob DEF TypeInv, TypeOK
    <3>2. /\ BackedOff(entry) \in Entry /\ BackedOff(entry).lock = NoSlot
          /\ GivenUp(entry) \in Entry /\ GivenUp(entry).lock = NoSlot
      BY <3>1, EntryTypes, EntryChanges
    <3> QED
      BY <3>2
  <2>2. Release(s, next)
    BY <1>12 DEF Throw
  <2> HIDE DEF next
  <2> QED
    BY <1>11, <1>12, <2>1, <2>2
<1>13. ASSUME NEW s \in Slots, FailAttempt(s) PROVE LockInv'
  <2>1. exec[s].pc # "idle"
    BY <1>13 DEF FailAttempt, At
  <2>2. QueueInv'
    BY <1>12, <1>13, <2>1 DEF FailAttempt
  <2>3. Exclusive' => (SlotsHold /\ LateAreFailed)'
    BY <1>13, <2>1, ThrowLock DEF FailAttempt, Exclusive
  <2> QED
    BY <2>2, <2>3 DEF QueueInv
<1>14. ASSUME NEW s \in Slots, ExecError(s) PROVE LockInv'
  <2>1. exec[s].pc # "idle"
    BY <1>14 DEF ExecError, At
  <2>2. QueueInv'
    BY <1>12, <1>14, <2>1 DEF ExecError
  <2>3. Exclusive' => (SlotsHold /\ LateAreFailed)'
    BY <1>14, <2>1, ThrowLock, SpendCounts DEF ExecError
  <2> QED
    BY <2>2, <2>3 DEF QueueInv
<1>15. ASSUME NEW s \in Slots, FailDoomed(s) PROVE LockInv'
  <2>1. exec[s].pc # "idle" /\ exec[s].job \in Jobs /\ queue[exec[s].job] \in Entry
    BY <1>15, BusyJob DEF FailDoomed, At, TypeInv, TypeOK
  <2>2. /\ GivenUp(queue[exec[s].job]) \in Entry
        /\ GivenUp(queue[exec[s].job]).state = "failed"
        /\ GivenUp(queue[exec[s].job]).lock = NoSlot
    BY <2>1, EntryTypes, EntryChanges
  <2>3. QueueInv'
    BY <1>11, <1>15, <2>1, <2>2 DEF FailDoomed
  <2>4. Exclusive' => (SlotsHold /\ LateAreFailed)'
    BY <1>15, <2>1, <2>2, ReleaseLock DEF FailDoomed, Exclusive
  <2> QED
    BY <2>3, <2>4 DEF QueueInv
<1>16. ASSUME NEW t \in late, LateRead(t) PROVE LockInv'
  <2>1. AddedLast' /\ LockedAreActive'
    BY <1>16 DEF LateRead, AddedLast, LockedAreActive
  <2>2. \A u \in late' : u \in late \/ (u.job = t.job /\ t \notin late')
    <3>1. [t EXCEPT !.pc = "set", !.snap = record[t.job]].job = t.job
      BY DEF TypeInv, TypeOK, Pending
    <3>2. [t EXCEPT !.pc = "set", !.snap = record[t.job]].pc = "set"
      BY DEF TypeInv, TypeOK, Pending
    <3> QED
      BY <1>16, <3>1, <3>2 DEF LateRead
  <2>3. \A u1, u2 \in late' : u1 \notin late /\ u2 \notin late => u1 = u2
    BY <1>16 DEF LateRead
  <2>4. Exclusive' => (SlotsHold /\ LateAreFailed)'
    BY <1>16, <2>2, <2>3 DEF LateRead, Exclusive, SlotsHold, LateAreFailed
  <2> QED
    BY <2>1, <2>4
<1>17. ASSUME NEW t \in late, LateWrite(t) PROVE LockInv'
  BY <1>17, LocksUntouched DEF LateWrite, Exclusive, AddedLast, LockedAreActive
<1>18. ASSUME NEW t \in late, LateError(t) PROVE LockInv'
  BY <1>18, LocksUntouched, SpendCounts DEF LateError, AddedLast, LockedAreActive
<1>19. ASSUME NEW j \in Jobs, NEW e \in Entry, queue[j].state # "absent",
              e.lock = NoSlot, queue' = [queue EXCEPT ![j] = e],
              UNCHANGED <<request, exec, late>>, Exclusive' => Exclusive,
              \/ queue[j].state \in {"wait", "delayed"}
              \/ queue[j].state = "active" /\ \A s \in Slots : exec[s].job # j
              \/ ~Exclusive'
       PROVE  LockInv'
  <2>1. QueueInv'
    BY <1>19, QueueKept DEF QueueInv
  <2>2. ASSUME Exclusive' PROVE (SlotsHold /\ LateAreFailed)'
    <3>1. \A s \in Slots : exec[s].job # j
      BY <1>19, <2>2, NoJobAssumption DEF SlotsHold, TypeInv, ExecJobs
    <3> QED
      BY <1>19, <2>2, <3>1, EntryOfNobody
  <2> QED
    BY <2>1, <2>2 DEF QueueInv
<1>20. ASSUME NEW j \in Jobs, Promote(j) PROVE LockInv'
  <2>1. queue[j] \in Entry /\ queue[j].lock = NoSlot
    BY <1>20 DEF Promote, TypeInv, TypeOK, LockedAreActive
  <2> QED
    BY <1>19, <1>20, <2>1, EntryTypes, EntryChanges DEF Promote, Exclusive
<1>21. ASSUME NEW j \in Jobs, Expire(j) PROVE LockInv'
  BY <1>21, LocksUntouched DEF Expire, Exclusive, AddedLast, LockedAreActive
<1>22. ASSUME NEW j \in Jobs, LockExpires(j) PROVE LockInv'
  <2>1. queue[j] \in Entry
    BY DEF TypeInv, TypeOK
  <2>2. Exclusive' => \A s \in Slots : exec[s].job # j
    BY <1>22, NoJobAssumption
    DEF LockExpires, Locked, Exclusive, SlotsHold, TypeInv, ExecJobs
  <2> QED
    BY <1>19, <1>22, <2>1, <2>2, EntryTypes, EntryChanges
    DEF LockExpires, Locked, Exclusive
<1>23. ASSUME NEW j \in Jobs, LockLost(j) PROVE LockInv'
  <2>1. queue[j] \in Entry /\ ~Exclusive'
    BY <1>23, SpendCounts DEF LockLost, TypeInv, TypeOK
  <2> QED
    BY <1>19, <1>23, <2>1, EntryTypes, EntryChanges DEF LockLost, Locked
<1>24. ASSUME NEW j \in Jobs, StalledCheck(j) PROVE LockInv'
  <2>1. queue[j] \in Entry
    BY DEF TypeInv, TypeOK
  <2>2. Exclusive' => \A s \in Slots : exec[s].job # j
    BY <1>24, NoJobAssumption, NoSlotAssumption
    DEF StalledCheck, Exclusive, SlotsHold, TypeInv, ExecJobs
  <2> QED
    BY <1>19, <1>24, <2>1, <2>2, EntryTypes, EntryChanges DEF StalledCheck, Exclusive
<1>25. ASSUME NEW j \in Jobs, BoardRetry(j) PROVE LockInv'
  <2>1. queue[j] \in Entry /\ queue[j].lock = NoSlot /\ ~Exclusive'
    BY <1>25, SpendCounts DEF BoardRetry, Finished, TypeInv, TypeOK, LockedAreActive
  <2> QED
    BY <1>19, <1>25, <2>1, EntryTypes, EntryChanges DEF BoardRetry, Finished
<1>26. ASSUME NEW j \in Jobs, BoardRemove(j) PROVE LockInv'
  <2>1. QueueInv'
    BY <1>26, NewEntries, QueueKept DEF BoardRemove, QueueInv
  <2>2. ASSUME Exclusive' PROVE (SlotsHold /\ LateAreFailed)'
    <3>1. SlotsHold /\ LateAreFailed
      BY <1>26, <2>2, SpendCounts DEF BoardRemove
    <3>2. \A s \in Slots : exec[s].job # j
      BY <1>26, <3>1, NoJobAssumption, NoSlotAssumption
      DEF BoardRemove, Locked, SlotsHold, TypeInv, ExecJobs
    <3> QED
      BY <1>26, <3>1, <3>2, EntryOfNobody, EntryTypes DEF BoardRemove
  <2> QED
    BY <2>1, <2>2 DEF QueueInv
<1>27. ASSUME NEW p \in Instances, Crash(p) PROVE LockInv'
  <2>1. AddedLast' /\ LockedAreActive'
    BY <1>27 DEF Crash, AddedLast, LockedAreActive, TypeInv, TypeOK, Request
  <2>2. \A s \in Slots : exec'[s].pc # "idle" => exec'[s] = exec[s]
    BY <1>27, IdleExecution DEF Crash
  <2>3. Exclusive' => (SlotsHold /\ LateAreFailed)'
    BY <1>27, <2>2, LocksUntouched, SpendCounts DEF Crash
  <2> QED
    BY <2>1, <2>3
<1>28. ASSUME NEW p \in Instances, Restart(p) PROVE LockInv'
  BY <1>28, LocksUntouched DEF Restart, Exclusive, AddedLast, LockedAreActive
<1>29. CASE UNCHANGED vars
  BY <1>29, LocksUntouched DEF vars, Exclusive, AddedLast, LockedAreActive
<1> QED
  BY <1>1, <1>2, <1>3, <1>4, <1>5, <1>6, <1>7, <1>8, <1>9, <1>10, <1>13, <1>14,
     <1>15, <1>16, <1>17, <1>18, <1>20, <1>21, <1>22, <1>23, <1>24, <1>25, <1>26,
     <1>27, <1>28, <1>29
  DEF Next, RequestStep, ExecStep, LateStep, Fault

LEMMA LockInvariant == Spec => [](TypeInv /\ LockInv)
  BY InitType, TypeStep, InitLock, LockStep, PTL DEF Spec

\* While the locks hold there is never more than one party about to write the
\* record of a job, on any number of instances.
THEOREM OneWriter == Spec => []SingleWriter
<1>1. TypeInv /\ LockInv => SingleWriter
  <2> SUFFICES ASSUME TypeInv, SlotsHold, LateAreFailed PROVE SingleWriter
    BY DEF LockInv, SingleWriter
  <2>1. \A s1, s2 \in Slots :
          exec[s1].job = exec[s2].job => exec[s1].job = NoJob \/ s1 = s2
    BY DEF SlotsHold, TypeInv, ExecJobs
  <2>2. \A s \in Slots, t \in late : exec[s].job # t.job
    BY NoJobAssumption DEF SlotsHold, LateAreFailed, TypeInv, TypeOK, ExecJobs, Pending
  <2> QED
    BY <2>1, <2>2 DEF SingleWriter, LateAreFailed
<1> QED
  BY <1>1, LockInvariant, PTL

\* A listener records a permanent failure only of a job BullMQ gave up.
THEOREM FailuresArePermanent == Spec => []OnlyPermanentFailures
<1>1. TypeInv /\ LockInv => OnlyPermanentFailures
  BY DEF LockInv, OnlyPermanentFailures, LateAreFailed
<1> QED
  BY <1>1, LockInvariant, PTL

-----------------------------------------------------------------------------
(* What a step does to an entry.                                           *)

NotAdded == {"unsent", "storing", "adding"}

\* BullMQ moves a job on, from an entry e to f.
Moves(e, f) ==
    \/ e.state = "wait" /\ \E s \in Slots : f = Claimed(e, s)
    \/ e.state = "active" /\ \/ f = Completed(e) \/ f = GivenUp(e)
                             \/ Retries(e.made) /\ f = BackedOff(e)
                             \/ f = Unlocked(e)
                             \/ e.lock = NoSlot /\ f = Stalled(e)
    \/ e.state = "delayed" /\ f = Promoted(e)

EntryStep(j) ==
    \/ queue'[j] = queue[j]
    \/ Moves(queue[j], queue'[j])
    \/ queue[j].state # "absent" /\ queue'[j] = Removed
    \/ /\ queue[j].state = "absent" /\ queue'[j] = Added
       /\ request[j].pc = "adding" /\ request'[j].pc = "accepted"
    \/ /\ queue[j].state \in Finished /\ queue'[j] = Requeued(queue[j])
       /\ faults'.boardRetry # 0

RequestKept(j) == request'[j].pc \in NotAdded => request[j].pc \in NotAdded

\* A step that leaves the requests alone and changes at most one entry.
LEMMA OneEntry ==
    ASSUME TypeInv, NEW j \in Jobs, NEW f, request' = request,
           queue' = [queue EXCEPT ![j] = f],
           \/ Moves(queue[j], f)
           \/ queue[j].state # "absent" /\ f = Removed
           \/ /\ queue[j].state \in Finished /\ f = Requeued(queue[j])
              /\ faults'.boardRetry # 0
    PROVE  \A k \in Jobs : EntryStep(k) /\ RequestKept(k)
<1>1. queue'[j] = f /\ \A k \in Jobs \ {j} : queue'[k] = queue[k]
  BY DEF TypeInv, TypeOK
<1>2. EntryStep(j)
  BY <1>1 DEF EntryStep
<1>3. \A k \in Jobs \ {j} : EntryStep(k)
  BY <1>1 DEF EntryStep
<1> QED
  BY <1>2, <1>3 DEF RequestKept

LEMMA NoEntry ==
    ASSUME queue' = queue, \A k \in Jobs : RequestKept(k)
    PROVE  \A k \in Jobs : EntryStep(k) /\ RequestKept(k)
  BY DEF EntryStep

\* The end of an execution: under its lock a slot moves an active job.
LEMMA MoveToEntries ==
    ASSUME TypeInv, LockedAreActive, NEW s \in Slots, exec[s].pc # "idle", NEW f,
           MoveTo(s, f), request' = request,
           queue[exec[s].job].state = "active" => Moves(queue[exec[s].job], f)
    PROVE  \A k \in Jobs : EntryStep(k) /\ RequestKept(k)
<1> DEFINE j == exec[s].job
<1>1. j \in Jobs /\ queue \in [Jobs -> Entry]
  BY BusyJob DEF TypeInv, TypeOK
<1>2. CASE ~HoldsLock(s)
  BY <1>1, <1>2, MoveToEffect, NoEntry DEF RequestKept
<1>3. CASE HoldsLock(s)
  <2>1. queue[j].state = "active"
    BY <1>1, <1>3, NoSlotAssumption DEF HoldsLock, LockedAreActive
  <2>2. EntryStep(j)
    BY <1>1, <1>3, <2>1, MoveToEffect DEF EntryStep
  <2>3. \A k \in Jobs \ {j} :
          \/ queue'[k] = queue[k]
          \/ queue[k].state \in Finished /\ queue'[k] = Removed
    BY <1>1, <1>3, MoveToEffect
  <2>4. \A k \in Jobs \ {j} : EntryStep(k)
    BY <2>3 DEF EntryStep, Finished
  <2> QED
    BY <2>2, <2>4 DEF RequestKept
<1> QED
  BY <1>2, <1>3

LEMMA ThrowEntries ==
    ASSUME TypeInv, LockedAreActive, NEW s \in Slots, exec[s].pc # "idle", Throw(s),
           request' = request
    PROVE  \A k \in Jobs : EntryStep(k) /\ RequestKept(k)
<1> DEFINE e == queue[exec[s].job]
           f == IF Retries(e.made) THEN BackedOff(e) ELSE GivenUp(e)
<1>1. e.state = "active" => Moves(e, f)
  BY DEF Moves
<1>2. MoveTo(s, f)
  BY DEF Throw, Release
<1> HIDE DEF f
<1> QED
  BY <1>1, <1>2, MoveToEntries

LEMMA EachEntry ==
    TypeInv /\ QueueInv /\ [Next]_vars => \A j \in Jobs : EntryStep(j) /\ RequestKept(j)
<1> DEFINE Each == \A j \in Jobs : EntryStep(j) /\ RequestKept(j)
<1> SUFFICES ASSUME TypeInv, AddedLast, LockedAreActive, [Next]_vars PROVE Each
  BY DEF QueueInv
<1>1. ASSUME queue' = queue, NEW j \in Jobs, NEW from \in NotAdded, NEW to,
             Advance(j, from, to)
      PROVE  Each
  <2>1. \A k \in Jobs : RequestKept(k)
    BY <1>1 DEF Advance, RequestKept, NotAdded, TypeInv, TypeOK, Request
  <2> QED
    BY <1>1, <2>1, NoEntry
<1>2. ASSUME queue' = queue, request' = request PROVE Each
  BY <1>2, NoEntry DEF RequestKept
<1>3. ASSUME NEW j \in Jobs, Enqueue(j) PROVE Each
  <2>1. request[j].pc = "adding" /\ queue[j].state = "absent"
    BY <1>3 DEF Enqueue, Advance, AddedLast
  <2>2. /\ request'[j].pc = "accepted" /\ queue'[j] = Added
        /\ \A k \in Jobs \ {j} : queue'[k] = queue[k] /\ request'[k] = request[k]
    BY <1>3 DEF Enqueue, Advance, TypeInv, TypeOK, Request
  <2> QED
    BY <2>1, <2>2 DEF EntryStep, RequestKept, NotAdded
<1>4. ASSUME NEW s \in Slots, FinishJob(s) PROVE Each
  <2>1. /\ exec[s].pc # "idle" /\ MoveTo(s, Completed(queue[exec[s].job]))
        /\ request' = request
    BY <1>4 DEF FinishJob, At
  <2>2. queue[exec[s].job].state = "active" =>
          Moves(queue[exec[s].job], Completed(queue[exec[s].job]))
    BY DEF Moves
  <2> QED
    BY <2>1, <2>2, MoveToEntries
<1>5. ASSUME NEW s \in Slots, FailDoomed(s) PROVE Each
  <2>1. /\ exec[s].pc # "idle" /\ MoveTo(s, GivenUp(queue[exec[s].job]))
        /\ request' = request
    BY <1>5 DEF FailDoomed, Release, At
  <2>2. queue[exec[s].job].state = "active" =>
          Moves(queue[exec[s].job], GivenUp(queue[exec[s].job]))
    BY DEF Moves
  <2> QED
    BY <2>1, <2>2, MoveToEntries
<1>6. ASSUME NEW p \in Instances, Crash(p) PROVE Each
  <2>1. \A k \in Jobs : RequestKept(k)
    BY <1>6 DEF Crash, RequestKept, NotAdded, TypeInv, TypeOK, Request
  <2> QED
    BY <1>6, <2>1, NoEntry DEF Crash
<1> HIDE DEF Each
<1>7. ASSUME NEW j \in Jobs, Submit(j) \/ Store(j) \/ CreateFails(j) PROVE Each
  BY <1>1, <1>7 DEF Submit, Store, CreateFails, NotAdded
<1>8. ASSUME NEW s \in Slots, FailAttempt(s) \/ ExecError(s) PROVE Each
  BY <1>8, ThrowEntries DEF FailAttempt, ExecError, At, Each
<1>9. ASSUME NEW s \in Slots,
             ReadForActive(s) \/ MarkActive(s) \/ ReadForCompleted(s) \/ SaveCompleted(s)
      PROVE  Each
  BY <1>2, <1>9 DEF ReadForActive, MarkActive, ReadForCompleted, SaveCompleted
<1>10. ASSUME NEW t \in late, LateRead(t) \/ LateWrite(t) \/ LateError(t) PROVE Each
  BY <1>2, <1>10 DEF LateRead, LateWrite, LateError
<1>11. CASE (\E j \in Jobs : Expire(j)) \/ (\E p \in Instances : Restart(p)) \/ UNCHANGED vars
  BY <1>2, <1>11 DEF Expire, Restart, vars
<1>12. ASSUME NEW j \in Jobs, NEW f, request' = request,
              queue' = [queue EXCEPT ![j] = f],
              \/ Moves(queue[j], f)
              \/ queue[j].state # "absent" /\ f = Removed
              \/ /\ queue[j].state \in Finished /\ f = Requeued(queue[j])
                 /\ faults'.boardRetry # 0
       PROVE  Each
  BY <1>12, OneEntry DEF Each
<1>13. ASSUME NEW s \in Slots, NEW j \in Jobs, Claim(s, j) PROVE Each
  BY <1>12, <1>13 DEF Claim, Moves
<1>14. ASSUME NEW j \in Jobs, Promote(j) \/ StalledCheck(j) PROVE Each
  BY <1>12, <1>14 DEF Promote, StalledCheck, Moves
<1>15. ASSUME NEW j \in Jobs, LockExpires(j) \/ LockLost(j) PROVE Each
  BY <1>12, <1>15 DEF LockExpires, LockLost, Locked, Moves
<1>16. ASSUME NEW j \in Jobs, BoardRemove(j) PROVE Each
  BY <1>12, <1>16 DEF BoardRemove
<1>17. ASSUME NEW j \in Jobs, BoardRetry(j) PROVE Each
  <2>1. faults'.boardRetry # 0
    BY <1>17 DEF BoardRetry, Spend, TypeInv, TypeOK
  <2> QED
    BY <1>12, <1>17, <2>1 DEF BoardRetry
<1> QED
  BY <1>3, <1>4, <1>5, <1>6, <1>7, <1>8, <1>9, <1>10, <1>11, <1>13, <1>14, <1>15,
     <1>16, <1>17
  DEF Next, RequestStep, ExecStep, LateStep, Fault

-----------------------------------------------------------------------------
(* A job is decided once.                                                  *)

\* What a step leaves of an entry that says it is not locked, or not active.
LEMMA QueueStep == TypeInv /\ QueueInv /\ [Next]_vars => QueueInv'
<1> SUFFICES ASSUME TypeInv, QueueInv, [Next]_vars, NEW j \in Jobs
             PROVE  /\ request'[j].pc \in NotAdded => queue'[j].state = "absent"
                    /\ queue'[j].lock # NoSlot => queue'[j].state = "active"
  BY DEF QueueInv, AddedLast, LockedAreActive, NotAdded
<1>1. EntryStep(j) /\ RequestKept(j)
  BY EachEntry
<1>2. /\ queue[j] \in Entry
      /\ request[j].pc \in NotAdded => queue[j].state = "absent"
      /\ queue[j].lock # NoSlot => queue[j].state = "active"
  BY DEF QueueInv, AddedLast, LockedAreActive, NotAdded, TypeInv, TypeOK
<1>3. CASE queue'[j] = queue[j]
  BY <1>1, <1>2, <1>3 DEF RequestKept
<1>4. CASE Moves(queue[j], queue'[j])
  <2>1. request'[j].pc \notin NotAdded
    BY <1>1, <1>2, <1>4 DEF RequestKept, Moves
  <2>2. queue'[j].lock # NoSlot => queue'[j].state = "active"
    BY <1>2, <1>4, EntryChanges DEF Moves
  <2> QED
    BY <2>1, <2>2
<1>5. CASE queue[j].state # "absent" /\ queue'[j] = Removed
  BY <1>1, <1>2, <1>5, NewEntries DEF RequestKept
<1>6. CASE queue'[j] = Added /\ request'[j].pc = "accepted"
  BY <1>6, NewEntries DEF NotAdded
<1>7. CASE queue[j].state \in Finished /\ queue'[j] = Requeued(queue[j])
  BY <1>1, <1>2, <1>7, EntryChanges DEF RequestKept, Finished
<1> QED
  BY <1>1, <1>3, <1>4, <1>5, <1>6, <1>7 DEF EntryStep

LEMMA DecidedOnce ==
    ASSUME TypeInv, QueueInv, [Next]_vars, faults'.boardRetry = 0, NEW j \in Jobs,
           queue[j].state \in Gone
    PROVE  queue'[j] \in {queue[j], Removed}
  BY EachEntry DEF EntryStep, Moves, Gone, Finished

\* Whatever locks are lost and however late a slot returns, a job that is completed
\* or given up is not decided again.
THEOREM DecidedForGood == Spec => OutcomeIsFinal
<1>1. TypeInv /\ LockInv /\ [Next]_vars =>
        [faults'.boardRetry = 0 =>
           \A j \in Jobs : queue[j].state \in Gone => queue'[j] \in {queue[j], Removed}]_vars
  BY DecidedOnce DEF LockInv, QueueInv
<1> QED
  BY <1>1, LockInvariant, PTL DEF Spec, OutcomeIsFinal

-----------------------------------------------------------------------------
(* Attempts.  AttemptsBounded is not inductive: it does not say that a job *)
(* which is going to run has an attempt left.                              *)

WithinAttempts(e) ==
    /\ e.made <= MaxAttempts
    /\ e.state \in {"wait", "active", "delayed"} => e.made < MaxAttempts

AttemptsInv ==
    /\ \A j \in Jobs : WithinAttempts(queue[j]) /\ record[j].attempts <= MaxAttempts
    /\ \A s \in Slots : exec[s].atm < MaxAttempts
    /\ \A t \in late : t.attempts <= MaxAttempts

\* A move counts an attempt only when one was left.
LEMMA MovesWithin ==
    ASSUME NEW e \in Entry, NEW f, WithinAttempts(e), Moves(e, f)
    PROVE  WithinAttempts(f)
<1> USE DEF Entry, WithinAttempts
<1>1. e.made \in Nat /\ MaxAttempts \in Nat
  BY AttemptsAssumption
<1>2. CASE \E s \in Slots : e.state = "wait" /\ f = Claimed(e, s)
  BY <1>1, <1>2 DEF Claimed
<1>3. CASE e.state = "active" /\ f = Completed(e)
  <2>1. f.made = e.made + 1 /\ f.state = "completed"
    BY <1>3 DEF Completed
  <2> QED
    BY <1>1, <1>3, <2>1
<1>4. CASE e.state = "active" /\ f = GivenUp(e)
  <2>1. f.made = e.made + 1 /\ f.state = "failed"
    BY <1>4 DEF GivenUp
  <2> QED
    BY <1>1, <1>4, <2>1
<1>5. CASE Retries(e.made) /\ f = BackedOff(e)
  <2>1. f.made = e.made + 1
    BY <1>5 DEF BackedOff
  <2> QED
    BY <1>1, <1>5, <2>1 DEF Retries
<1>6. CASE f = Unlocked(e)
  BY <1>1, <1>6 DEF Unlocked
<1>7. CASE e.state = "active" /\ f = Stalled(e)
  BY <1>1, <1>7 DEF Stalled
<1>8. CASE e.state = "delayed" /\ f = Promoted(e)
  BY <1>1, <1>8 DEF Promoted
<1> QED
  BY <1>2, <1>3, <1>4, <1>5, <1>6, <1>7, <1>8 DEF Moves

LEMMA EntriesWithin ==
    ASSUME TypeInv, QueueInv, [Next]_vars, faults'.boardRetry = 0, AttemptsInv
    PROVE  \A j \in Jobs : WithinAttempts(queue'[j])
<1> SUFFICES ASSUME NEW j \in Jobs PROVE WithinAttempts(queue'[j])
  OBVIOUS
<1>1. queue[j] \in Entry /\ WithinAttempts(queue[j])
  BY DEF AttemptsInv, TypeInv, TypeOK
<1>2. WithinAttempts(Added) /\ WithinAttempts(Removed)
  BY AttemptsAssumption DEF WithinAttempts, Added, Removed, Absent
<1>3. CASE Moves(queue[j], queue'[j])
  BY <1>1, <1>3, MovesWithin
<1> QED
  BY <1>1, <1>2, <1>3, EachEntry DEF EntryStep

\* A write of as many attempts as a slot or a pending update may claim.
LEMMA WriteWithin ==
    ASSUME TypeInv, AttemptsInv, NEW j, NEW e, NEW status, NEW n, NEW stamps,
           n <= MaxAttempts, record' = [record EXCEPT ![j] = Updated(e, status, n, stamps)]
    PROVE  \A k \in Jobs : record'[k].attempts <= MaxAttempts
  BY DEF AttemptsInv, Updated, TypeInv, TypeOK

LEMMA OthersWithin ==
    ASSUME TypeInv, AttemptsInv, [Next]_vars
    PROVE  /\ \A j \in Jobs : record'[j].attempts <= MaxAttempts
           /\ \A s \in Slots : exec'[s].atm < MaxAttempts
           /\ \A t \in late' : t.attempts <= MaxAttempts
<1> DEFINE Records == \A j \in Jobs : record'[j].attempts <= MaxAttempts
           Execs == \A s \in Slots : exec'[s].atm < MaxAttempts
           Lates == \A t \in late' : t.attempts <= MaxAttempts
           Others == Records /\ Execs /\ Lates
<1> SUFFICES Others
  OBVIOUS
<1>1. /\ MaxAttempts \in Nat \ {0} /\ Idle.atm = 0
      /\ Vacant("expired").attempts = 0 /\ NewEntity.attempts = 0
  BY AttemptsAssumption DEF Idle, Vacant, NewEntity
<1>2. /\ UNCHANGED record => Records
      /\ UNCHANGED exec => Execs
      /\ late' \subseteq late => Lates
  BY DEF AttemptsInv
<1>3. ASSUME NEW s \in Slots, exec' = [exec EXCEPT ![s] = Idle] PROVE Execs
  BY <1>1, <1>3 DEF AttemptsInv, TypeInv, TypeOK
<1>4. ASSUME NEW s \in Slots, NEW pc, NEW snap,
             \/ exec' = [exec EXCEPT ![s].pc = pc]
             \/ exec' = [exec EXCEPT ![s].pc = pc, ![s].snap = snap]
      PROVE  Execs
  <2>1. \A x \in Slots : exec'[x].atm = exec[x].atm
    BY <1>4 DEF TypeInv, TypeOK, Execution
  <2> QED
    BY <2>1 DEF AttemptsInv
<1>5. ASSUME NEW s \in Slots PROVE exec[s].atm \in Nat /\ exec[s].atm + 1 <= MaxAttempts
  BY <1>1 DEF AttemptsInv, TypeInv, TypeOK, Execution
<1>6. ASSUME NEW j, NEW e, NEW status, NEW n, NEW stamps, n <= MaxAttempts,
             record' = [record EXCEPT ![j] = Updated(e, status, n, stamps)]
      PROVE  Records
  BY <1>6, WriteWithin
<1>7. ASSUME NEW s \in Slots, NEW e, Release(s, e) PROVE Execs /\ Lates
  <2>1. Execs
    BY <1>3, <1>7 DEF Release
  <2>2. \A t \in late' : t \in late \/ t.attempts = exec[s].atm + 1
    BY <1>7 DEF Release, OnFailed
  <2>3. Lates
    BY <2>2, <1>5 DEF AttemptsInv
  <2> QED
    BY <2>1, <2>3
<1>8. ASSUME NEW j \in Jobs, Store(j) \/ Expire(j) PROVE Records
  BY <1>1, <1>8 DEF Store, Expire, AttemptsInv, TypeInv, TypeOK
<1>9. ASSUME NEW s \in Slots, NEW j \in Jobs, Claim(s, j) PROVE Execs
  <2>1. queue[j].made < MaxAttempts
    BY <1>9 DEF Claim, AttemptsInv, WithinAttempts
  <2>2. exec'[s].atm = queue[j].made /\ \A x \in Slots \ {s} : exec'[x] = exec[x]
    BY <1>9 DEF Claim, TypeInv, TypeOK
  <2> QED
    BY <2>1, <2>2 DEF AttemptsInv
<1>10. ASSUME NEW p \in Instances, Crash(p) PROVE Execs
  BY <1>1, <1>10 DEF Crash, AttemptsInv, TypeInv, TypeOK
<1>11. ASSUME NEW t \in late, LateRead(t) PROVE Lates
  <2>1. \A x \in late' : x \in late \/ x.attempts = t.attempts
    BY <1>11 DEF LateRead, TypeInv, TypeOK, Pending
  <2> QED
    BY <2>1 DEF AttemptsInv
<1> HIDE DEF Records, Execs, Lates
<1>12. ASSUME NEW s \in Slots, MarkActive(s) \/ SaveCompleted(s) PROVE Others
  <2>1. Execs /\ Lates
    BY <1>2, <1>4, <1>12 DEF MarkActive, SaveCompleted, Goto
  <2>2. PICK status, stamps :
          record' = [record EXCEPT ![exec[s].job] =
                       Updated(exec[s].snap, status, exec[s].atm + 1, stamps)]
    BY <1>12 DEF MarkActive, SaveCompleted
  <2> QED
    BY <1>5, <1>6, <2>1, <2>2
<1>13. ASSUME NEW s \in Slots, ReadForActive(s) \/ ReadForCompleted(s) PROVE Others
  BY <1>2, <1>4, <1>13 DEF ReadForActive, ReadForCompleted
<1>14. ASSUME NEW s \in Slots, FinishJob(s) PROVE Others
  BY <1>2, <1>3, <1>14 DEF FinishJob
<1>15. ASSUME NEW s \in Slots, FailAttempt(s) \/ ExecError(s) \/ FailDoomed(s)
       PROVE  Others
  BY <1>2, <1>7, <1>15 DEF FailAttempt, ExecError, FailDoomed, Throw
<1>16. ASSUME NEW t \in late, LateWrite(t) PROVE Others
  <2>1. t.attempts <= MaxAttempts
    BY DEF AttemptsInv
  <2> QED
    BY <1>2, <1>6, <1>16, <2>1 DEF LateWrite
<1>17. ASSUME NEW t \in late, LateRead(t) \/ LateError(t) PROVE Others
  <2>1. CASE LateRead(t)
    BY <1>2, <1>11, <2>1 DEF LateRead
  <2>2. CASE LateError(t)
    BY <1>2, <2>2 DEF LateError
  <2> QED
    BY <1>17, <2>1, <2>2
<1>18. ASSUME NEW j \in Jobs,
              \/ Submit(j) \/ Store(j) \/ Enqueue(j) \/ CreateFails(j)
              \/ Promote(j) \/ Expire(j) \/ LockExpires(j) \/ LockLost(j)
              \/ StalledCheck(j) \/ BoardRetry(j) \/ BoardRemove(j)
       PROVE  Others
  BY <1>2, <1>8, <1>18
  DEF Submit, Store, Enqueue, CreateFails, Promote, Expire, LockExpires, LockLost,
      StalledCheck, BoardRetry, BoardRemove
<1>19. ASSUME NEW s \in Slots, NEW j \in Jobs, Claim(s, j) PROVE Others
  BY <1>2, <1>9, <1>19 DEF Claim
<1>20. ASSUME NEW p \in Instances, Crash(p) \/ Restart(p) PROVE Others
  BY <1>2, <1>10, <1>20 DEF Crash, Restart
<1>21. CASE UNCHANGED vars
  BY <1>2, <1>21 DEF vars
<1> QED
  BY <1>12, <1>13, <1>14, <1>15, <1>16, <1>17, <1>18, <1>19, <1>20, <1>21
  DEF Next, RequestStep, ExecStep, LateStep, Fault

\* Faults are counted and never forgotten: no retry now, none before.
LEMMA NoRetryBefore ==
    TypeInv /\ [Next]_vars /\ faults'.boardRetry = 0 => faults.boardRetry = 0
<1>1. ASSUME TypeInv, NEW k \in FaultKinds, Spend(k), faults'.boardRetry = 0
      PROVE  faults.boardRetry = 0
  BY <1>1 DEF Spend, TypeInv, TypeOK
<1> QED
  BY <1>1
  DEF Next, RequestStep, ExecStep, LateStep, Fault, Submit, Store, Enqueue, CreateFails,
      Claim, ReadForActive, MarkActive, ReadForCompleted, SaveCompleted, FinishJob,
      FailAttempt, ExecError, FailDoomed, LateRead, LateWrite, LateError, Promote,
      Expire, LockExpires, LockLost, StalledCheck, BoardRetry, BoardRemove, Crash,
      Restart, vars

AttemptsHeld == faults.boardRetry = 0 => AttemptsInv

LEMMA AttemptsStep == TypeInv /\ QueueInv /\ AttemptsHeld /\ [Next]_vars => AttemptsHeld'
<1> SUFFICES ASSUME TypeInv, QueueInv, AttemptsHeld, [Next]_vars, faults'.boardRetry = 0
             PROVE  AttemptsInv'
  BY DEF AttemptsHeld
<1>1. AttemptsInv
  BY NoRetryBefore DEF AttemptsHeld
<1>2. \A j \in Jobs : WithinAttempts(queue'[j])
  BY <1>1, EntriesWithin
<1> QED
  BY <1>1, <1>2, OthersWithin DEF AttemptsInv, WithinAttempts

LEMMA InitAttempts == Init => AttemptsHeld
<1>1. MaxAttempts \in Nat \ {0} /\ WithinAttempts(Absent) /\ Idle.atm = 0
      /\ Vacant("none").attempts = 0
  BY AttemptsAssumption DEF WithinAttempts, Absent, Idle, Vacant
<1> QED
  BY <1>1 DEF Init, AttemptsHeld, AttemptsInv

LEMMA HeldIsBounded == AttemptsHeld => AttemptsBounded
  BY DEF AttemptsHeld, AttemptsInv, AttemptsBounded, WithinAttempts

\* No job is attempted more often than "attempts" says, nor recorded to be, with any
\* number of crashes, stalls and lost locks.
THEOREM AttemptsLimited == Spec => []AttemptsBounded
  BY InitType, TypeStep, InitLock, LockStep, InitAttempts, AttemptsStep, HeldIsBounded,
     PTL DEF Spec, LockInv, QueueInv
=============================================================================
