--------------------------- MODULE JobStatsProofs ---------------------------
(***************************************************************************)
(* Proof that the statistics are off by no more than the moves of jobs     *)
(* while they are counted, for any number of jobs, slots, instances and    *)
(* faults.                                                                 *)
(***************************************************************************)
EXTENDS JobStats, JobProcessingProofs, FiniteSetTheorems

-----------------------------------------------------------------------------
(* Sets of jobs and their sizes.                                           *)

\* The jobs whose state is in S.
JobsIn(S) == {j \in Jobs : queue[j].state \in S}

MovedJobs == {j \in Jobs : queue'[j].state # queue[j].state}

LEMMA FiniteJobs ==
    ASSUME NEW T \in SUBSET Jobs
    PROVE  IsFiniteSet(T) /\ Cardinality(T) \in Nat
  BY JobsAssumption, FS_Subset, FS_CardinalityType

LEMMA SizeOfSubset ==
    ASSUME NEW T \in SUBSET Jobs, NEW S \in SUBSET T
    PROVE  Cardinality(S) <= Cardinality(T)
  BY FiniteJobs, FS_Subset

LEMMA SizeOfUnion ==
    ASSUME NEW S \in SUBSET Jobs, NEW T \in SUBSET Jobs
    PROVE  /\ Cardinality(S \cup T) <= Cardinality(S) + Cardinality(T)
           /\ S \cap T = {} => Cardinality(S \cup T) = Cardinality(S) + Cardinality(T)
<1>1. IsFiniteSet(S) /\ IsFiniteSet(T)
  BY FiniteJobs
<1>2. Cardinality(S \cup T) = Cardinality(S) + Cardinality(T) - Cardinality(S \cap T)
  BY <1>1, FS_Union
<1>3. S \cap T \in SUBSET Jobs
  OBVIOUS
<1>4. /\ Cardinality(S) \in Nat /\ Cardinality(T) \in Nat
      /\ Cardinality(S \cap T) \in Nat
  BY <1>3, FiniteJobs
<1>5. Cardinality({}) = 0
  BY FS_EmptySet
<1> QED
  BY <1>2, <1>4, <1>5

\* Whatever set of states is counted, its jobs change by no more than those that move.
LEMMA MovesBound ==
    ASSUME NEW S
    PROVE  /\ Cardinality(JobsIn(S)') <= Cardinality(JobsIn(S)) + Moved
           /\ Cardinality(JobsIn(S)) <= Cardinality(JobsIn(S)') + Moved
<1> DEFINE Before == JobsIn(S)
           Later == {j \in Jobs : queue'[j].state \in S}
<1>1. /\ Before \in SUBSET Jobs /\ Later \in SUBSET Jobs /\ MovedJobs \in SUBSET Jobs
      /\ Before \subseteq Later \cup MovedJobs /\ Later \subseteq Before \cup MovedJobs
  BY DEF JobsIn, MovedJobs
<1>2. /\ JobsIn(S)' = Later /\ JobsIn(S) = Before /\ Moved = Cardinality(MovedJobs)
  BY DEF JobsIn, Moved, MovedJobs
<1> HIDE DEF Before, Later
<1>3. /\ Cardinality(Before) <= Cardinality(Later \cup MovedJobs)
      /\ Cardinality(Later) <= Cardinality(Before \cup MovedJobs)
  BY <1>1, SizeOfSubset
<1>4. /\ Cardinality(Later \cup MovedJobs) <= Cardinality(Later) + Cardinality(MovedJobs)
      /\ Cardinality(Before \cup MovedJobs) <= Cardinality(Before) + Cardinality(MovedJobs)
  BY <1>1, SizeOfUnion
<1>5. /\ Cardinality(Before) \in Nat /\ Cardinality(Later) \in Nat
      /\ Cardinality(MovedJobs) \in Nat
      /\ Cardinality(Later \cup MovedJobs) \in Nat
      /\ Cardinality(Before \cup MovedJobs) \in Nat
  <2>1. Later \cup MovedJobs \in SUBSET Jobs /\ Before \cup MovedJobs \in SUBSET Jobs
    BY <1>1
  <2> QED
    BY <1>1, <2>1, FiniteJobs
<1> QED
  BY <1>2, <1>3, <1>4, <1>5

-----------------------------------------------------------------------------
(* The replies so far.  OffByMovesAtMost speaks of the last reply; what is *)
(* inductive speaks of every prefix: the sum of the replies is off from    *)
(* the number of jobs that are in the states counted so far.               *)

Reply(i) == IF i <= Len(counts) THEN counts[i] ELSE 0

Counted == Reply(1) + Reply(2) + Reply(3) + Reply(4) + Reply(5)

\* The states counted so far.
Seen == {States[i] : i \in 1 .. Len(counts)}

StatsTypeInv ==
    /\ counts \in Seq(Nat) /\ Len(counts) \in 0 .. 5
    /\ moves \in Nat

CountedInv ==
    Len(counts) < 5 =>
        /\ Counted <= Cardinality(JobsIn(Seen)) + moves
        /\ Cardinality(JobsIn(Seen)) <= Counted + moves

StatsInv == TypeInv /\ StatsTypeInv /\ CountedInv

\* The sizes that are compared are numbers.
LEMMA SizesAreNumbers ==
    /\ \A S : Cardinality(JobsIn(S)) \in Nat /\ Cardinality(JobsIn(S)') \in Nat
    /\ \A state : In(state) \in Nat
    /\ Moved \in Nat
<1>1. \A S : JobsIn(S) \in SUBSET Jobs /\ JobsIn(S)' \in SUBSET Jobs
  BY DEF JobsIn
<1>2. \A state : {j \in Jobs : queue[j].state = state} \in SUBSET Jobs
  OBVIOUS
<1>3. {j \in Jobs : queue'[j].state # queue[j].state} \in SUBSET Jobs
  OBVIOUS
<1> QED
  BY <1>1, <1>2, <1>3, FiniteJobs DEF In, Moved

LEMMA CountedType == ASSUME StatsTypeInv PROVE Counted \in Nat
<1>1. \A i \in 1 .. 5 : Reply(i) \in Nat
  BY DEF StatsTypeInv, Reply
<1> QED
  BY <1>1 DEF Counted

\* The five states are different.
LEMMA FiveStates ==
    /\ Len(States) = 5
    /\ \A i, k \in 1 .. 5 : States[i] = States[k] => i = k
<1>1. 1 .. 5 = {1, 2, 3, 4, 5}
  OBVIOUS
<1>2. Len(States) = 5
  BY DEF States
<1>3. /\ States[1] = "wait" /\ States[2] = "active" /\ States[3] = "completed"
      /\ States[4] = "failed" /\ States[5] = "delayed"
  BY DEF States
<1> QED
  BY <1>1, <1>2, <1>3

\* One more state is counted.
LEMMA OneMore ==
    ASSUME NEW S, NEW state, state \notin S
    PROVE  Cardinality(JobsIn(S \cup {state})) = Cardinality(JobsIn(S)) + In(state)
<1> DEFINE More == {j \in Jobs : queue[j].state = state}
<1>1. /\ JobsIn(S) \in SUBSET Jobs /\ More \in SUBSET Jobs /\ JobsIn(S) \cap More = {}
      /\ JobsIn(S \cup {state}) = JobsIn(S) \cup More
  BY DEF JobsIn
<1>2. In(state) = Cardinality(More)
  BY DEF In
<1> HIDE DEF More
<1> QED
  BY <1>1, <1>2, SizeOfUnion

\* A reply adds the jobs in the next state to the sum.
LEMMA CountStep ==
    ASSUME StatsTypeInv, Count
    PROVE  /\ StatsTypeInv' /\ Len(counts') = Len(counts) + 1
           /\ Counted' = Counted + In(States[Len(counts) + 1])
           /\ Seen' = Seen \cup {States[Len(counts) + 1]}
           /\ States[Len(counts) + 1] \notin Seen
<1> DEFINE n == Len(counts)
           c == In(States[n + 1])
<1>1. n \in 0 .. 4
  BY FiveStates DEF Count, StatsTypeInv
<1>2. c \in Nat
  BY SizesAreNumbers
<1>3. counts' = Append(counts, c) /\ moves' = moves
  BY DEF Count
<1>4. Len(counts) = n
  OBVIOUS
<1> HIDE DEF c
<1>5. /\ counts' \in Seq(Nat) /\ Len(counts') = n + 1 /\ counts'[n + 1] = c
      /\ \A i \in 1 .. n : counts'[i] = counts[i]
  BY <1>2, <1>3 DEF StatsTypeInv
<1>6. Counted' = Counted + c
  <2>1. \A i \in 1 .. 5 : Reply(i) \in Nat
    BY DEF StatsTypeInv, Reply
  <2>2. \A i \in 1 .. 5 : Reply(i)' = IF i = n + 1 THEN c ELSE Reply(i)
    BY <1>1, <1>5 DEF Reply
  <2>3. \A i \in 1 .. 5 : i = n + 1 => Reply(i) = 0
    BY <1>1 DEF Reply
  <2> HIDE DEF n
  <2>4. n + 1 \in 1 .. 5
    BY <1>1
  <2> QED
    BY <1>2, <2>1, <2>2, <2>3, <2>4 DEF Counted
<1>7. Seen' = Seen \cup {States[n + 1]}
  <2> HIDE DEF n
  <2>1. 1 .. (n + 1) = (1 .. n) \cup {n + 1}
    BY <1>1
  <2>2. Seen' = {States[i] : i \in 1 .. (n + 1)}
    BY <1>5 DEF Seen, States
  <2> QED
    BY <1>4, <2>1, <2>2 DEF Seen
<1>8. States[n + 1] \notin Seen
  <2> HIDE DEF n
  <2>1. n + 1 \in 1 .. 5 /\ \A i \in 1 .. n : i \in 1 .. 5 /\ i # n + 1
    BY <1>1
  <2> QED
    BY <1>4, <2>1, FiveStates DEF Seen
<1>9. StatsTypeInv'
  <2>1. Len(counts') \in 0 .. 5
    <3> HIDE DEF n
    <3> QED
      BY <1>1, <1>5
  <2> QED
    BY <1>3, <1>5, <2>1 DEF StatsTypeInv
<1> QED
  BY <1>5, <1>6, <1>7, <1>8, <1>9 DEF c

LEMMA InitStats == StatsInit => StatsInv
<1> SUFFICES ASSUME StatsInit PROVE StatsInv
  OBVIOUS
<1>1. TypeInv /\ counts = <<>> /\ moves = 0
  BY InitType DEF StatsInit
<1>2. Len(counts) = 0 /\ StatsTypeInv
  BY <1>1 DEF StatsTypeInv
<1>3. Seen = {} /\ Counted = 0
  BY <1>2 DEF Seen, Counted, Reply
<1>4. Cardinality(JobsIn(Seen)) = 0
  BY <1>3, FS_EmptySet DEF JobsIn
<1>5. CountedInv
  BY <1>1, <1>3, <1>4 DEF CountedInv
<1> QED
  BY <1>1, <1>2, <1>5 DEF StatsInv

LEMMA StatsStep == StatsInv /\ [StatsNext]_statsVars => StatsInv'
<1> SUFFICES ASSUME StatsInv, [StatsNext]_statsVars PROVE StatsInv'
  OBVIOUS
<1> USE DEF StatsInv
<1>1. CASE Count
  <2>1. TypeInv'
    BY <1>1, TypeStep DEF Count, vars
  <2>2. /\ StatsTypeInv' /\ Len(counts') = Len(counts) + 1 /\ Len(counts) \in 0 .. 4
        /\ Counted' = Counted + In(States[Len(counts) + 1])
        /\ Seen' = Seen \cup {States[Len(counts) + 1]}
        /\ States[Len(counts) + 1] \notin Seen
    BY <1>1, CountStep, FiveStates DEF Count, StatsTypeInv
  <2>3. queue' = queue /\ moves' = moves
    BY <1>1 DEF Count, vars
  <2>4. Cardinality(JobsIn(Seen)') =
          Cardinality(JobsIn(Seen)) + In(States[Len(counts) + 1])
    BY <2>2, <2>3, OneMore DEF JobsIn
  <2>5. CountedInv'
    BY <2>2, <2>3, <2>4, CountedType, SizesAreNumbers DEF CountedInv, StatsTypeInv
  <2> QED
    BY <2>1, <2>2, <2>5
<1>2. CASE Work
  <2>1. TypeInv' /\ counts' = counts /\ Moved \in Nat
    BY <1>2, TypeStep, SizesAreNumbers DEF Work
  <2>2. moves' = IF Len(counts) \in 1 .. 4 THEN moves + Moved ELSE moves
    BY <1>2 DEF Work
  <2>3. StatsTypeInv'
    BY <2>1, <2>2 DEF StatsTypeInv
  <2>4. Seen' = Seen /\ Counted' = Counted
    BY <2>1 DEF Seen, Counted, Reply
  <2>5. CASE Len(counts) \in 1 .. 4
    <3>1. /\ Cardinality(JobsIn(Seen)') <= Cardinality(JobsIn(Seen)) + Moved
          /\ Cardinality(JobsIn(Seen)) <= Cardinality(JobsIn(Seen)') + Moved
      BY <2>4, MovesBound DEF JobsIn
    <3> QED
      BY <2>1, <2>2, <2>3, <2>4, <2>5, <3>1, CountedType, SizesAreNumbers
      DEF CountedInv, StatsTypeInv
  <2>6. CASE Len(counts) = 0
    <3>1. Seen = {}
      BY <2>6 DEF Seen
    <3>2. JobsIn(Seen) = {} /\ JobsIn(Seen)' = {}
      BY <2>4, <3>1 DEF JobsIn
    <3> QED
      BY <2>1, <2>2, <2>3, <2>4, <2>6, <3>2 DEF CountedInv
  <2>7. CASE Len(counts) = 5
    BY <2>1, <2>3, <2>7 DEF CountedInv
  <2>8. Len(counts) \in 0 .. 5
    BY DEF StatsTypeInv
  <2> QED
    BY <2>5, <2>6, <2>7, <2>8
<1>3. CASE UNCHANGED statsVars
  <2>1. TypeInv' /\ UNCHANGED <<queue, counts, moves>>
    BY <1>3, TypeStep DEF statsVars, vars
  <2> QED
    BY <2>1 DEF StatsTypeInv, CountedInv, Counted, Reply, Seen, JobsIn
<1> QED
  BY <1>1, <1>2, <1>3 DEF StatsNext

LEMMA StatsInvariant == StatsSpec => []StatsInv
  BY InitStats, StatsStep, PTL DEF StatsSpec

\* GET /stats counts a job twice, or not at all, only if it moved while the five
\* counts were taken.
THEOREM OffByMoves == StatsSpec => OffByMovesAtMost
<1>1. StatsInv /\ [StatsNext]_statsVars =>
        [Answered' /\ ~Answered =>
           Total' <= Queued + moves /\ Queued <= Total' + moves]_statsVars
  <2> SUFFICES ASSUME StatsInv, StatsNext, Answered', ~Answered
               PROVE  Total' <= Queued + moves /\ Queued <= Total' + moves
    BY DEF statsVars, Answered
  <2> USE DEF StatsInv
  <2>1. Len(States) = 5
    BY FiveStates
  <2>2. Count
    BY DEF StatsNext, Work, Answered
  <2>3. /\ StatsTypeInv' /\ Len(counts') = Len(counts) + 1
        /\ Counted' = Counted + In(States[Len(counts) + 1])
        /\ Seen' = Seen \cup {States[Len(counts) + 1]}
        /\ States[Len(counts) + 1] \notin Seen
    BY <2>2, CountStep
  <2>4. Len(counts') = 5 /\ Len(counts) = 4
    <3> DEFINE n == Len(counts)
               m == Len(counts')
    <3>1. n \in 0 .. 5 /\ m = 5 /\ m = n + 1
      BY <2>1, <2>3 DEF Answered, StatsTypeInv, States
    <3> HIDE DEF n, m
    <3>2. n = 4 /\ m = 5
      BY <3>1
    <3> QED
      BY <3>2 DEF n, m
  <2>5. Total' = Counted'
    BY <2>4 DEF Total, Counted, Reply
  <2>6. Seen' = {"wait", "active", "completed", "failed", "delayed"}
    <3>1. 1 .. 5 = {1, 2, 3, 4, 5}
      OBVIOUS
    <3> QED
      BY <2>4, <3>1 DEF Seen, States
  <2>7. Queued = Cardinality(JobsIn(Seen'))
    <3>1. \A j \in Jobs : queue[j].state \in EntryStates
      BY DEF TypeInv, TypeOK, Entry
    <3>2. {j \in Jobs : queue[j].state \notin {"absent", "removed"}} = JobsIn(Seen')
      BY <2>6, <3>1 DEF JobsIn, EntryStates
    <3> QED
      BY <3>2 DEF Queued
  <2>8. Queued = Cardinality(JobsIn(Seen)) + In(States[Len(counts) + 1])
    BY <2>3, <2>7, OneMore
  <2>9. /\ Counted <= Cardinality(JobsIn(Seen)) + moves
        /\ Cardinality(JobsIn(Seen)) <= Counted + moves
    BY <2>4 DEF CountedInv
  <2> DEFINE before == Cardinality(JobsIn(Seen))
             more == In(States[Len(counts) + 1])
  <2>10. /\ Counted \in Nat /\ moves \in Nat
         /\ before \in Nat /\ more \in Nat
    BY CountedType, SizesAreNumbers DEF StatsTypeInv
  <2>11. /\ Total' = Counted + more /\ Queued = before + more
         /\ Counted <= before + moves /\ before <= Counted + moves
    BY <2>3, <2>5, <2>8, <2>9
  <2> HIDE DEF before, more
  <2> QED
    BY <2>10, <2>11
<1> QED
  BY <1>1, StatsInvariant, PTL DEF StatsSpec, OffByMovesAtMost
=============================================================================
