------------------------- MODULE RedisRestartProofs -------------------------
(***************************************************************************)
(* Proofs about RedisRestart: what survives that Redis forgets, for any    *)
(* number of jobs, slots, instances, faults and restarts of Redis.         *)
(***************************************************************************)
EXTENDS RedisRestart, JobRecordProofs

USE DEF FaultKinds

-----------------------------------------------------------------------------
(* What the job system keeps, the last save has kept too; together they    *)
(* are inductive over restarts.  The promises to a job whose POST was      *)
(* between its two writes are the exception.                               *)

RedisTypeInv == RedisTypeOK /\ TypeInv

SavedQueue ==
    \A j \in Jobs :
        /\ request[j].pc \in NotAdded => saved.queue[j].state = "absent"
        /\ saved.queue[j].lock # NoSlot => saved.queue[j].state = "active"

SavedAttempts ==
    faults.boardRetry = 0 =>
        \A j \in Jobs : /\ WithinAttempts(saved.queue[j])
                        /\ saved.record[j].attempts <= MaxAttempts

SavedHasRecord(j) == saved.queue[j].state # "absent" => saved.record[j].status # "none"

UntornHaveRecord == \A j \in Jobs \ torn : HasRecord(j) /\ SavedHasRecord(j)

RedisInv ==
    /\ RedisTypeInv
    /\ QueueInv /\ SavedQueue
    /\ AttemptsHeld /\ SavedAttempts
    /\ UntornHaveRecord

\* An entry that comes back is the saved one, perhaps without its lock.
LEMMA RestoredEntry ==
    ASSUME RedisTypeInv, NEW j \in Jobs, NEW e \in Restored(j)
    PROVE  /\ e \in Entry
           /\ e.state = saved.queue[j].state /\ e.made = saved.queue[j].made
           /\ e.lock \in {NoSlot, saved.queue[j].lock}
<1>1. saved.queue[j] \in Entry
  BY DEF RedisTypeInv, RedisTypeOK
<1>2. e = saved.queue[j] \/ e = Unlocked(saved.queue[j])
  BY DEF Restored
<1>3. /\ Unlocked(saved.queue[j]).state = saved.queue[j].state
      /\ Unlocked(saved.queue[j]).lock = NoSlot
      /\ Unlocked(saved.queue[j]).made = saved.queue[j].made
  BY <1>1 DEF Unlocked, Entry
<1> QED
  BY <1>1, <1>2, <1>3, EntryTypes

LEMMA RestoredQueue ==
    ASSUME RedisTypeInv, RedisRestart
    PROVE  queue' \in [Jobs -> Entry] /\ \A j \in Jobs : queue'[j] \in Restored(j)
<1>1. /\ queue' \in [Jobs -> UNION {Restored(j) : j \in Jobs}]
      /\ \A j \in Jobs : queue'[j] \in Restored(j)
  BY DEF RedisRestart
<1> QED
  BY <1>1, RestoredEntry

LEMMA RedisInitInv == RedisInit => RedisInv
<1> SUFFICES ASSUME RedisInit PROVE RedisInv
  OBVIOUS
<1>1. Init /\ saved = Stored /\ kept = {} /\ restarts = 0 /\ torn = {}
  BY DEF RedisInit
<1>2. TypeInv /\ LockInv /\ AttemptsHeld
  BY <1>1, InitType, InitLock, InitAttempts
<1>3. RedisTypeInv
  BY <1>1, <1>2, RestartsAssumption DEF RedisTypeInv, RedisTypeOK, TypeInv, TypeOK, Stored
<1>4. QueueInv /\ SavedQueue
  BY <1>1, <1>2 DEF LockInv, QueueInv, SavedQueue, Stored, AddedLast, LockedAreActive, NotAdded
<1>5. SavedAttempts
  BY <1>1, <1>2 DEF SavedAttempts, Stored, AttemptsHeld, AttemptsInv
<1>6. UntornHaveRecord
  BY <1>1, NewEntries DEF UntornHaveRecord, HasRecord, SavedHasRecord, Stored, Init
<1> QED
  BY <1>2, <1>3, <1>4, <1>5, <1>6 DEF RedisInv

LEMMA SaveKeeps == ASSUME RedisInv, Save PROVE RedisInv'
<1>1. UNCHANGED vars /\ UNCHANGED <<restarts, torn>> /\ saved' = Stored
  BY DEF Save
<1>2. RedisTypeInv'
  <2>1. TypeInv'
    BY <1>1, TypeStep DEF RedisInv, RedisTypeInv
  <2>2. kept' \in SUBSET Slots
    BY DEF Save
  <2> QED
    BY <1>1, <2>1, <2>2
    DEF RedisInv, RedisTypeInv, RedisTypeOK, TypeInv, TypeOK, Stored, vars
<1>3. QueueInv' /\ AttemptsHeld'
  BY <1>1, QueueStep, AttemptsStep DEF RedisInv, RedisTypeInv
<1>4. SavedQueue'
  BY <1>1 DEF RedisInv, QueueInv, AddedLast, LockedAreActive, SavedQueue, NotAdded,
              Stored, vars
<1>5. SavedAttempts'
  BY <1>1 DEF RedisInv, AttemptsHeld, AttemptsInv, SavedAttempts, Stored, vars
<1>6. UntornHaveRecord'
  BY <1>1 DEF RedisInv, UntornHaveRecord, HasRecord, SavedHasRecord, Stored, vars
<1> QED
  BY <1>2, <1>3, <1>4, <1>5, <1>6 DEF RedisInv

LEMMA RestartKeeps == ASSUME RedisInv, RedisRestart PROVE RedisInv'
<1>1. /\ UNCHANGED <<request, exec, late, up, faults, saved, kept>>
      /\ record' = saved.record
      /\ torn' = torn \cup {j \in Jobs : request[j].pc = "adding"}
      /\ restarts < MaxRestarts /\ restarts' = restarts + 1
  BY DEF RedisRestart
<1>2. /\ queue' \in [Jobs -> Entry]
      /\ \A j \in Jobs :
           /\ queue'[j].state = saved.queue[j].state
           /\ queue'[j].made = saved.queue[j].made
           /\ queue'[j].lock \in {NoSlot, saved.queue[j].lock}
  BY RestoredQueue, RestoredEntry DEF RedisInv
<1>3. RedisTypeInv'
  <2>1. saved.record \in [Jobs -> JobEntity]
    BY DEF RedisInv, RedisTypeInv, RedisTypeOK
  <2>2. TypeInv'
    BY <1>1, <1>2, <2>1 DEF RedisInv, RedisTypeInv, TypeInv, TypeOK, ExecJobs
  <2>3. restarts' \in 0..MaxRestarts
    BY <1>1, RestartsAssumption DEF RedisInv, RedisTypeInv, RedisTypeOK
  <2>4. torn' \in SUBSET Jobs
    BY <1>1 DEF RedisInv, RedisTypeInv, RedisTypeOK
  <2> QED
    BY <1>1, <2>2, <2>3, <2>4 DEF RedisInv, RedisTypeInv, RedisTypeOK, TypeInv
<1>4. QueueInv' /\ SavedQueue'
  BY <1>1, <1>2 DEF RedisInv, SavedQueue, QueueInv, AddedLast, LockedAreActive, NotAdded
<1>5. AttemptsHeld' /\ SavedAttempts'
  BY <1>1, <1>2
  DEF RedisInv, AttemptsHeld, AttemptsInv, SavedAttempts, WithinAttempts
<1>6. UntornHaveRecord'
  <2> SUFFICES ASSUME NEW j \in Jobs, j \notin torn'
               PROVE  HasRecord(j)' /\ SavedHasRecord(j)'
    BY DEF UntornHaveRecord
  <2>1. j \notin torn /\ request[j].pc # "adding"
    BY <1>1
  <2>2. SavedHasRecord(j)
    BY <2>1 DEF RedisInv, UntornHaveRecord
  <2> QED
    BY <1>1, <1>2, <2>1, <2>2 DEF HasRecord, SavedHasRecord
<1> QED
  BY <1>3, <1>4, <1>5, <1>6 DEF RedisInv

LEMMA WorkKeeps ==
    ASSUME RedisInv, [Next]_vars, UNCHANGED <<saved, restarts, torn>>,
           kept' \in SUBSET kept
    PROVE  RedisInv'
<1>1. \A j \in Jobs : EntryStep(j) /\ RequestKept(j) /\ RecordStep(j)
  BY EachEntry, EachRecord DEF RedisInv, RedisTypeInv
<1>2. TypeInv' /\ QueueInv' /\ AttemptsHeld'
  BY TypeStep, QueueStep, AttemptsStep DEF RedisInv, RedisTypeInv
<1>3. RedisTypeInv'
  BY <1>2 DEF RedisInv, RedisTypeInv, RedisTypeOK, TypeInv
<1>4. SavedQueue'
  BY <1>1 DEF RedisInv, SavedQueue, RequestKept
<1>5. SavedAttempts'
  BY NoRetryBefore DEF RedisInv, RedisTypeInv, SavedAttempts
<1>6. UntornHaveRecord'
  <2> SUFFICES ASSUME NEW j \in Jobs \ torn PROVE HasRecord(j)' /\ SavedHasRecord(j)'
    BY DEF UntornHaveRecord
  <2>1. HasRecord(j) /\ SavedHasRecord(j)
    BY DEF RedisInv, UntornHaveRecord
  <2> QED
    BY <1>1, <2>1, RecordKept DEF SavedHasRecord
<1> QED
  BY <1>2, <1>3, <1>4, <1>5, <1>6 DEF RedisInv

LEMMA RedisStep == RedisInv /\ [RedisNext]_redisVars => RedisInv'
<1> SUFFICES ASSUME RedisInv, [RedisNext]_redisVars PROVE RedisInv'
  OBVIOUS
<1>1. CASE Work
  BY <1>1, WorkKeeps DEF Work
<1>2. CASE UNCHANGED redisVars
  BY <1>2, WorkKeeps DEF redisVars
<1> QED
  BY <1>1, <1>2, SaveKeeps, RestartKeeps DEF RedisNext

LEMMA RedisInvariant == RedisSpec => []RedisInv
  BY RedisInitInv, RedisStep, PTL DEF RedisSpec

\* What Redis stores and restores keeps its type.
THEOREM RedisTypeCorrect == RedisSpec => []RedisTypeOK
<1>1. RedisInv => RedisTypeOK
  BY DEF RedisInv, RedisTypeInv
<1> QED
  BY <1>1, RedisInvariant, PTL

\* However often Redis loses its last writes, a job that never gets a record had
\* its POST torn by a restart.
THEOREM OnlyTornLack == RedisSpec => []OnlyTornJobsLackRecord
<1>1. RedisInv => OnlyTornJobsLackRecord
  BY DEF RedisInv, UntornHaveRecord, HasRecord, OnlyTornJobsLackRecord
<1> QED
  BY <1>1, RedisInvariant, PTL

\* Nor do restarts of Redis add attempts to a job.
THEOREM RestartsAddNoAttempt == RedisSpec => []AttemptsBounded
<1>1. RedisInv => AttemptsBounded
  BY HeldIsBounded DEF RedisInv
<1> QED
  BY <1>1, RedisInvariant, PTL

\* Between two restarts of Redis a decided job is not decided again.
THEOREM DecidedBetweenRestarts == RedisSpec => DecidedOnceBetweenRestarts
<1>1. RedisInv /\ [RedisNext]_redisVars =>
        [restarts' = restarts /\ faults'.boardRetry = 0 =>
           \A j \in Jobs :
               queue[j].state \in Gone => queue'[j] \in {queue[j], Removed}]_redisVars
  <2> SUFFICES ASSUME RedisInv, [RedisNext]_redisVars, restarts' = restarts,
                      faults'.boardRetry = 0, NEW j \in Jobs, queue[j].state \in Gone
               PROVE  queue'[j] \in {queue[j], Removed}
    OBVIOUS
  <2>1. ~RedisRestart
    BY DEF RedisRestart, RedisInv, RedisTypeInv, RedisTypeOK
  <2>2. [Next]_vars
    BY <2>1 DEF RedisNext, Work, Save, redisVars
  <2> QED
    BY <2>2, DecidedOnce DEF RedisInv, RedisTypeInv
<1> QED
  BY <1>1, RedisInvariant, PTL DEF RedisSpec, DecidedOnceBetweenRestarts
=============================================================================
