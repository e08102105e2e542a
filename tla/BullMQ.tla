------------------------------- MODULE BullMQ -------------------------------
(***************************************************************************)
(* The part of BullMQ (version 5.79.1 in package-lock.json) that the       *)
(* service relies on, seen one job at a time.  BullMQ runs each of these   *)
(* transitions as one Lua script in Redis, so each is one indivisible      *)
(* change of the job's entry; who may run it and when is said by the       *)
(* modules that use the entries.                                           *)
(*                                                                         *)
(* The library is not part of the repository: it is modelled from how      *)
(* queue.factory.ts, job.service.ts and job.processor.ts use it.  The      *)
(* order of the wait list and the age of finished jobs are left out.       *)
(***************************************************************************)
EXTENDS Naturals, FiniteSets

CONSTANTS
    Slots,           \* the concurrent processors of all workers
    NoSlot,          \* "no lock"
    MaxStalledCount, \* stalls a job survives (the library's default is 1)
    MaxAttempts,     \* the "attempts" option of every job
    KeepCompleted,   \* removeOnComplete.count
    KeepFailed       \* removeOnFail.count

ASSUME NoSlotAssumption == NoSlot \notin Slots
ASSUME StallAssumption == MaxStalledCount \in Nat
ASSUME AttemptsAssumption == MaxAttempts \in Nat \ {0}
ASSUME KeepAssumption == KeepCompleted \in Nat \ {0} /\ KeepFailed \in Nat \ {0}

\* There is no hash of a job in "absent" and "removed"; they are told apart to
\* state properties.
EntryStates ==
    {"absent", "wait", "active", "delayed", "completed", "failed", "removed"}

\* state: the list or set the job is in; made: attemptsMade ("atm"); stalls:
\* how often it was taken from a silent worker ("stc"); doomed: it must be
\* failed when next claimed ("defa"); lock: the slot that holds its lock.
Entry == [state : EntryStates, made : Nat, stalls : Nat, doomed : BOOLEAN,
          lock : Slots \cup {NoSlot}]

Absent == [state |-> "absent", made |-> 0, stalls |-> 0, doomed |-> FALSE,
           lock |-> NoSlot]
Removed == [Absent EXCEPT !.state = "removed"]

\* queue.add
Added == [Absent EXCEPT !.state = "wait"]

\* A slot takes the job from the wait list and locks it.
Claimed(e, s) == [e EXCEPT !.state = "active", !.lock = s]

\* The processor returned: counts as an attempt made.
Completed(e) ==
    [e EXCEPT !.state = "completed", !.made = @ + 1, !.lock = NoSlot]

\* Bug: one attempt too many.
Retries_OffByOne(made) == made + 1 <= MaxAttempts

\* The processor threw: back off while attempts remain, else fail for good.
Retries(made) == made + 1 < MaxAttempts
BackedOff(e) ==
    [e EXCEPT !.state = "delayed", !.made = @ + 1, !.lock = NoSlot]
GivenUp(e) ==
    [e EXCEPT !.state = "failed", !.made = @ + 1, !.doomed = FALSE,
              !.lock = NoSlot]

\* The backoff delay has passed.
Promoted(e) == [e EXCEPT !.state = "wait"]

\* The lock was not renewed in time.
Unlocked(e) == [e EXCEPT !.lock = NoSlot]

\* The stalled check finds an active job without a lock and puts it back; past
\* the limit it only goes back to be failed by whoever claims it.
Stalled(e) ==
    [e EXCEPT !.state = "wait", !.stalls = @ + 1,
              !.doomed = e.stalls + 1 > MaxStalledCount]

\* An operator retries a finished job from the Bull Board.
Requeued(e) == [e EXCEPT !.state = "wait"]

Finished == {"completed", "failed"}

Keep == [completed |-> KeepCompleted, failed |-> KeepFailed]

\* The jobs that may be removed when job j is left with an entry e.  Only when it
\* finishes, of those that ended the same way and are still kept: the oldest
\* beyond the count, and any beyond the age, so any of them may be among those.
Outdated(queue, j, e) ==
    LET older == {k \in DOMAIN queue \ {j} : queue[k].state = e.state}
    IN  {old \in SUBSET older :
           IF e.state \in Finished THEN Cardinality(older \ old) < Keep[e.state]
                                   ELSE old = {}}

Trimmed(queue, old) == [k \in DOMAIN queue |-> IF k \in old THEN Removed ELSE queue[k]]
=============================================================================
