------------------------------ MODULE JobStats ------------------------------
(***************************************************************************)
(* GET /stats (stats.service.ts) while jobs are created and processed: the *)
(* five counts are five commands, sent together but executed one by one,   *)
(* and the queue moves in between.  One request for statistics is          *)
(* followed.                                                               *)
(***************************************************************************)
EXTENDS JobProcessing, Sequences

\* A behaviour sees finitely many POST /jobs.
ASSUME JobsAssumption == IsFiniteSet(Jobs)

VARIABLES
    counts,  \* the replies so far, in the order of getQueueStats
    moves    \* how often a job changed its state since the first reply

statsVars == <<vars, counts, moves>>

States == <<"wait", "active", "completed", "failed", "delayed">>

In(state) == Cardinality({j \in Jobs : queue[j].state = state})

StatsInit == Init /\ counts = <<>> /\ moves = 0

\* Bug: delayed jobs are left out.
Count_NoDelayed ==
    /\ Len(counts) < Len(States)
    /\ counts' = Append(counts, IF Len(counts) = 4 THEN 0 ELSE In(States[Len(counts) + 1]))
    /\ UNCHANGED <<vars, moves>>

\* The next of getWaitingCount, getActiveCount, getCompletedCount,
\* getFailedCount and getDelayedCount.
Count ==
    /\ Len(counts) < Len(States)
    /\ counts' = Append(counts, In(States[Len(counts) + 1]))
    /\ UNCHANGED <<vars, moves>>

Moved == Cardinality({j \in Jobs : queue'[j].state # queue[j].state})

\* A step of the system.
Work ==
    /\ Next
    /\ moves' = IF Len(counts) \in 1..4 THEN moves + Moved ELSE moves
    /\ UNCHANGED counts

StatsNext == Count \/ Work

StatsSpec == StatsInit /\ [][StatsNext]_statsVars

\* Requests for statistics may come or not; the jobs go on.
StatsFairSpec == StatsSpec /\ Fairness

-----------------------------------------------------------------------------

Answered == Len(counts) = Len(States)
Total == counts[1] + counts[2] + counts[3] + counts[4] + counts[5]
Queued == Cardinality({j \in Jobs : queue[j].state \notin {"absent", "removed"}})

\* GET /stats never miscounts by more than the number of moves there were while
\* it counted: a job is counted twice, or not at all, only if it moved then.
OffByMovesAtMost ==
    [][Answered' /\ ~Answered =>
          Total' <= Queued + moves /\ Queued <= Total' + moves]_statsVars
=============================================================================
