---------------------------- MODULE RedisRestart ----------------------------
(***************************************************************************)
(* The job system over a Redis that forgets.  docker-compose.yml starts    *)
(* Redis with "--save 60 1" and no append-only file, so a Redis that dies  *)
(* comes back with the records and the queue of its last save, while the   *)
(* app instances go on from what they hold in memory: redis.client.ts and  *)
(* queue.factory.ts ask ioredis to repeat a command for ever               *)
(* (maxRetriesPerRequest is null), so no handler hears of the restart.     *)
(*                                                                         *)
(* A command is executed once: one whose reply was lost in the restart is  *)
(* repeated on the restored state only.                                    *)
(***************************************************************************)
EXTENDS JobProcessing

CONSTANT MaxRestarts   \* bound on the restarts of one behaviour

ASSUME RestartsAssumption == MaxRestarts \in Nat

VARIABLES
    saved,     \* what the last save wrote
    kept,      \* the slots that run the same execution since the last save
    restarts,  \* how often Redis restarted
    torn       \* the jobs whose POST was between its two writes at a restart

redisVars == <<vars, saved, kept, restarts, torn>>

Stored == [record |-> record, queue |-> queue]

RedisTypeOK ==
    /\ TypeOK
    /\ saved \in [record : [Jobs -> JobEntity], queue : [Jobs -> Entry]]
    /\ kept \in SUBSET Slots
    /\ restarts \in 0..MaxRestarts
    /\ torn \in SUBSET Jobs

RedisInit ==
    /\ Init
    /\ saved = Stored
    /\ kept = {}
    /\ restarts = 0
    /\ torn = {}

\* Within a minute of a change Redis saves everything at once.
Save ==
    /\ saved # Stored
    /\ saved' = Stored
    /\ kept' = {s \in Slots : exec[s].pc # "idle"}
    /\ UNCHANGED <<vars, restarts, torn>>

\* Locks are keys with a TTL, set for one execution: one that is over will not
\* renew its lock, and one that still runs may be too late to.
LockSurvives(j) ==
    LET s == saved.queue[j].lock IN s \in kept /\ exec[s].job = j

\* Bug: Redis comes back without the queue.
Restored_Flushed(j) == {Absent}

Restored(j) ==
    IF saved.queue[j].lock = NoSlot THEN {saved.queue[j]}
    ELSE {Unlocked(saved.queue[j])} \cup
         (IF LockSurvives(j) THEN {saved.queue[j]} ELSE {})

RedisRestart ==
    /\ restarts < MaxRestarts
    /\ restarts' = restarts + 1
    /\ record' = saved.record
    /\ queue' \in {q \in [Jobs -> UNION {Restored(j) : j \in Jobs}] :
                     \A j \in Jobs : q[j] \in Restored(j)}
    /\ torn' = torn \cup {j \in Jobs : request[j].pc = "adding"}
    /\ UNCHANGED <<request, exec, late, up, faults, saved, kept>>

\* A step of the job system.
Work ==
    /\ Next
    /\ kept' = {s \in kept : exec'[s].pc # "idle"}
    /\ UNCHANGED <<saved, restarts, torn>>

RedisNext == Save \/ RedisRestart \/ Work

RedisSpec == RedisInit /\ [][RedisNext]_redisVars

RedisFairSpec ==
    /\ RedisSpec
    /\ Fairness /\ WF_redisVars(Save)

-----------------------------------------------------------------------------

\* README.md: "jobs are not lost".  A job that a save has seen is completed or
\* given up, however far the restarts put it back and although the executions
\* of before a restart go on.
SavedJobSettles ==
    \A j \in Jobs : saved.queue[j].state # "absent" ~> queue[j].state \in Finished

\* createJob stores the record before it adds the job, and a save takes both: only
\* a job whose POST was between the two writes when Redis died can be in the
\* queue without ever getting a record.
OnlyTornJobsLackRecord ==
    \A j \in Jobs :
        queue[j].state # "absent" /\ record[j].status = "none" => j \in torn

\* Between restarts the queue still decides a job once, unless an operator
\* retries it: an execution of before a restart, whose job may be waiting or
\* running again, has lost its say.
DecidedOnceBetweenRestarts ==
    [][restarts' = restarts /\ faults'.boardRetry = 0 =>
         \A j \in Jobs :
             queue[j].state \in Gone => queue'[j] \in {queue[j], Removed}]_redisVars
=============================================================================
