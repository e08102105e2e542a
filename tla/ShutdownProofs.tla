--------------------------- MODULE ShutdownProofs ---------------------------
(***************************************************************************)
(* Proofs about Shutdown, for any number of requests, slots and signals    *)
(* and any times: its types, and that it closes things in order.           *)
(***************************************************************************)
EXTENDS Shutdown, TLAPS

USE DEF Stages

-----------------------------------------------------------------------------
(* Type correctness.                                                       *)

Request == [state : {"unsent", "open", "done"}, age : Age]
Slot == [busy : BOOLEAN, left : 0..JobTicks]

\* Fields of a request and of a slot keep their types.
LEMMA FieldTypes ==
    /\ \A x \in Request, st \in {"open", "done"} : [x EXCEPT !.state = st] \in Request
    /\ \A x \in Request :
         x.age < RequestTicks => [x EXCEPT !.age = @ + 1] \in Request
    /\ \A x \in Slot : [x EXCEPT !.busy = FALSE] \in Slot
    /\ \A x \in Slot : x.left # 0 => [x EXCEPT !.left = @ - 1] \in Slot
    /\ \A n \in 1..JobTicks : [busy |-> TRUE, left |-> n] \in Slot
<1>1. \A x \in Request, st \in {"open", "done"} : [x EXCEPT !.state = st] \in Request
  BY DEF Request
<1>2. \A x \in Request :
        x.age < RequestTicks => [x EXCEPT !.age = @ + 1] \in Request
  BY RequestsAssumption DEF Request, Age
<1>3. \A x \in Slot : [x EXCEPT !.busy = FALSE] \in Slot
  BY DEF Slot
<1>4. \A x \in Slot : x.left # 0 => [x EXCEPT !.left = @ - 1] \in Slot
  BY TicksAssumption DEF Slot
<1>5. \A n \in 1..JobTicks : [busy |-> TRUE, left |-> n] \in Slot
  BY TicksAssumption DEF Slot
<1> QED
  BY <1>1, <1>2, <1>3, <1>4, <1>5

LEMMA InitType == Init => TypeOK
<1> SUFFICES ASSUME Init PROVE TypeOK
  OBVIOUS
<1>1. requests \in [Requests -> Request]
  BY RequestsAssumption DEF Init, Request, Age
<1>2. slots \in [Slots -> Slot]
  BY TicksAssumption DEF Init, Slot
<1> QED
  BY <1>1, <1>2, TicksAssumption DEF Init, TypeOK, Request, Slot

LEMMA TypeStep == TypeOK /\ [Next]_vars => TypeOK'
<1> SUFFICES ASSUME TypeOK, [Next]_vars PROVE TypeOK'
  OBVIOUS
<1>0. requests \in [Requests -> Request] /\ slots \in [Slots -> Slot]
  BY DEF TypeOK, Request, Slot
<1>1. ASSUME NEW r \in Requests, Arrive(r) \/ Answer(r) PROVE TypeOK'
  <2>1. PICK st \in {"open", "done"} : requests' = [requests EXCEPT ![r].state = st]
    BY <1>1 DEF Arrive, Answer
  <2> DEFINE x == [requests[r] EXCEPT !.state = st]
  <2>2. requests' \in [Requests -> Request]
    <3>1. x \in Request
      BY <1>0, FieldTypes
    <3>2. requests' = [requests EXCEPT ![r] = x]
      BY <2>1
    <3> HIDE DEF x
    <3> QED
      BY <1>0, <3>1, <3>2
  <2> QED
    BY <1>1, <2>2 DEF Arrive, Answer, TypeOK, Request
<1>2. ASSUME NEW s \in Slots, Take(s) PROVE TypeOK'
  <2>1. slots' \in [Slots -> Slot]
    BY <1>0, <1>2, FieldTypes DEF Take
  <2> QED
    BY <1>2, <2>1 DEF Take, TypeOK, Slot
<1>3. ASSUME NEW s \in Slots, Finish(s) PROVE TypeOK'
  <2>1. slots' \in [Slots -> Slot]
    BY <1>0, <1>3, FieldTypes DEF Finish
  <2> QED
    BY <1>3, <2>1 DEF Finish, TypeOK, Slot
<1>4. ASSUME NEW s \in Slots, Record(s) PROVE TypeOK'
  BY <1>4 DEF Record, TypeOK
<1>5. ASSUME NEW g \in Signals, Signal(g) PROVE TypeOK'
  BY <1>5 DEF Signal, Goto, TypeOK
<1>6. ASSUME NEW g \in Signals, CloseStep(g) PROVE TypeOK'
  <2>1. CASE ServerClosed(g)
    BY <2>1 DEF ServerClosed, Goto, TypeOK
  <2>2. CASE WorkerClosed(g)
    BY <2>2 DEF WorkerClosed, Goto, TypeOK
  <2>3. CASE QueueClosed(g)
    BY <2>3 DEF QueueClosed, Goto, TypeOK
  <2>4. CASE RedisClosed(g)
    BY <2>4 DEF RedisClosed, Goto, TypeOK
  <2> QED
    BY <1>6, <2>1, <2>2, <2>3, <2>4 DEF CloseStep
<1>7. ASSUME NEW g \in Signals, CloseFails(g) PROVE TypeOK'
  BY <1>7 DEF CloseFails, Goto, TypeOK
<1>8. CASE ForceExit \/ Panic
  BY <1>8 DEF ForceExit, Panic, TypeOK
<1>9. CASE Tick
  <2>1. requests' \in [Requests -> Request]
    BY <1>0, <1>9, FieldTypes DEF Tick
  <2>2. slots' \in [Slots -> Slot]
    BY <1>0, <1>9, FieldTypes DEF Tick, Awake, Busy
  <2>3. timer' \in 0..TimeoutTicks
    BY <1>9, TicksAssumption DEF Tick, TypeOK
  <2> QED
    BY <1>9, <2>1, <2>2, <2>3 DEF Tick, TypeOK, Request, Slot
<1>10. CASE UNCHANGED vars
  BY <1>10 DEF vars, TypeOK, Age
<1> QED
  BY <1>1, <1>2, <1>3, <1>4, <1>5, <1>6, <1>7, <1>8, <1>9, <1>10 DEF Next

\* Every variable of Shutdown keeps its type.
THEOREM TypeCorrect == Spec => []TypeOK
  BY InitType, TypeStep, PTL DEF Spec

-----------------------------------------------------------------------------
(* The order of closing.  ClosedInOrder is not inductive: it says neither  *)
(* that what is closed stays unused, nor how far the things are closed     *)
(* that the chain of each signal is about to go past.                      *)

\* Each part is unused when closed, and closes after the one that uses it.
ClosedUnused ==
    /\ http = "closed" => \A r \in Requests : ~Open(r)
    /\ worker # "open" => http = "closed"
    /\ worker = "closed" => \A s \in Slots : ~Busy(s)
    /\ queue = "closed" => worker = "closed"
    /\ redis = "quit" => queue = "closed"

\* A chain has closed what comes before its stage, be it a second one.
ChainsFollow ==
    \A g \in Signals :
        /\ shutdown[g] = "worker" => worker # "open"
        /\ shutdown[g] = "queue" => worker = "closed"
        /\ shutdown[g] = "redis" => queue = "closed"

OrderInv == ClosedUnused /\ ChainsFollow

LEMMA InitOrder == Init => OrderInv
  BY DEF Init, OrderInv, ClosedUnused, ChainsFollow

\* What a step of a chain does to the stages: it moves its own.
LEMMA GotoStages ==
    ASSUME TypeOK, NEW g \in Signals, NEW stage, Goto(g, stage)
    PROVE  shutdown'[g] = stage /\ \A h \in Signals \ {g} : shutdown'[h] = shutdown[h]
  BY DEF TypeOK, Goto

LEMMA OrderStep == TypeOK /\ OrderInv /\ [Next]_vars => OrderInv'
<1> SUFFICES ASSUME TypeOK, OrderInv, [Next]_vars PROVE OrderInv'
  OBVIOUS
<1> USE DEF OrderInv
<1>1. ASSUME NEW r \in Requests, Arrive(r) PROVE OrderInv'
  <2>1. http # "closed" /\ worker = "open"
    BY <1>1 DEF Arrive, ClosedUnused
  <2> QED
    BY <1>1, <2>1 DEF Arrive, ClosedUnused, ChainsFollow
<1>2. ASSUME NEW r \in Requests, Answer(r) PROVE OrderInv'
  <2>1. \A q \in Requests : Open(q)' => Open(q)
    BY <1>2 DEF Answer, Open, TypeOK
  <2> QED
    BY <1>2, <2>1 DEF Answer, ClosedUnused, ChainsFollow, Busy
<1>3. ASSUME NEW s \in Slots, Take(s) PROVE OrderInv'
  BY <1>3 DEF Take, ClosedUnused, ChainsFollow, Open
<1>4. ASSUME NEW s \in Slots, Finish(s) PROVE OrderInv'
  <2>1. \A x \in Slots : Busy(x)' => Busy(x)
    BY <1>4 DEF Finish, Busy, TypeOK
  <2> QED
    BY <1>4, <2>1 DEF Finish, ClosedUnused, ChainsFollow, Open
<1>5. ASSUME NEW s \in Slots, Record(s) PROVE OrderInv'
  BY <1>5 DEF Record, ClosedUnused, ChainsFollow, Open, Busy
<1>6. ASSUME NEW g \in Signals, Signal(g) PROVE OrderInv'
  <2>1. http' = "closed" <=> http = "closed"
    BY <1>6 DEF Signal
  <2> QED
    BY <1>6, <2>1, GotoStages DEF Signal, ClosedUnused, ChainsFollow, Open, Busy
<1>7. ASSUME NEW g \in Signals, ServerClosed(g) PROVE OrderInv'
  <2>1. worker' # "open" /\ (worker' = "closed" <=> worker = "closed")
    BY <1>7 DEF ServerClosed
  <2> QED
    BY <1>7, <2>1, GotoStages DEF ServerClosed, ClosedUnused, ChainsFollow, Open, Busy
<1>8. ASSUME NEW g \in Signals, WorkerClosed(g) PROVE OrderInv'
  BY <1>8, GotoStages DEF WorkerClosed, ClosedUnused, ChainsFollow, Open, Busy
<1>9. ASSUME NEW g \in Signals, QueueClosed(g) PROVE OrderInv'
  BY <1>9, GotoStages DEF QueueClosed, ClosedUnused, ChainsFollow, Open, Busy
<1>10. ASSUME NEW g \in Signals, RedisClosed(g) PROVE OrderInv'
  BY <1>10, GotoStages DEF RedisClosed, ClosedUnused, ChainsFollow, Open, Busy
<1>11. ASSUME NEW g \in Signals, CloseFails(g) PROVE OrderInv'
  BY <1>11, GotoStages DEF CloseFails, ClosedUnused, ChainsFollow, Open, Busy
<1>12. CASE ForceExit \/ Panic
  BY <1>12 DEF ForceExit, Panic, ClosedUnused, ChainsFollow, Open, Busy
<1>13. CASE Tick
  <2>1. \A r \in Requests : requests'[r].state = requests[r].state
    BY <1>13 DEF Tick, TypeOK
  <2>2. \A s \in Slots : slots'[s].busy = slots[s].busy
    BY <1>13 DEF Tick, TypeOK
  <2> QED
    BY <1>13, <2>1, <2>2 DEF Tick, ClosedUnused, ChainsFollow, Open, Busy
<1>14. CASE UNCHANGED vars
  BY <1>14 DEF vars, ClosedUnused, ChainsFollow, Open, Busy
<1> QED
  BY <1>1, <1>2, <1>3, <1>4, <1>5, <1>6, <1>7, <1>8, <1>9, <1>10, <1>11, <1>12,
     <1>13, <1>14
  DEF Next, CloseStep

\* However many signals arrive, and whichever close fails, nothing is closed
\* while a request or a job still needs it.
THEOREM ClosesInOrder == Spec => []ClosedInOrder
<1>1. OrderInv => ClosedInOrder
  BY DEF OrderInv, ClosedUnused, ClosedInOrder
<1> QED
  BY <1>1, InitType, TypeStep, InitOrder, OrderStep, PTL DEF Spec

-----------------------------------------------------------------------------
(* The timer.  A request that is open while the server closes is at least  *)
(* as old as the first signal, and prompt clients let none get older than  *)
(* RequestTicks; from then on the worker takes no job, and the jobs it has *)
(* sleep for at most JobTicks more.                                        *)

Deadline == RequestTicks + JobTicks

\* The first signal closes the server and starts the time; a chain that ends
\* ends the process.
SignalsClose ==
    /\ http = "open" <=> ~Signalled
    /\ http = "open" => timer = 0
    /\ http = "closed" => worker # "open"
    /\ Running => \A g \in Signals : shutdown[g] # "end"

\* How much time the open requests, and then the jobs, can still take.
InTime ==
    /\ http = "closing" => timer <= RequestTicks
    /\ http = "closing" => \A r \in Requests : Open(r) => timer <= requests[r].age
    /\ timer <= Deadline
    /\ http = "closed" => \A s \in Slots : Busy(s) => timer + slots[s].left <= Deadline

TimeInv == SignalsClose /\ (prompt => InTime /\ exit # "forced")

\* What TypeOK says of the numbers.
LEMMA Numbers ==
    ASSUME TypeOK
    PROVE  /\ timer \in Nat /\ Deadline \in Nat /\ RequestTicks <= Deadline
           /\ \A r \in Requests : requests[r].age \in Nat
           /\ \A s \in Slots : /\ slots[s].left \in Nat
                              /\ slots[s].left <= JobTicks
  BY TicksAssumption, RequestsAssumption DEF TypeOK, Age, Deadline

LEMMA InitTime == Init => TimeInv
  BY TicksAssumption, RequestsAssumption
  DEF Init, TimeInv, SignalsClose, InTime, Signalled, Deadline

\* A step that leaves the server and the time alone, opens no request and
\* makes no slot busy.
LEMMA TimeUntouched ==
    ASSUME TimeInv, UNCHANGED <<http, timer, prompt>>,
           exit' = exit \/ exit' \in {"clean", "panic"},
           worker' = worker \/ worker' # "open", Signalled' = Signalled,
           \A g \in Signals : shutdown'[g] = "end" =>
               (shutdown[g] = "end" /\ exit' = exit) \/ exit' # "none",
           \A r \in Requests :
               Open(r)' => Open(r) /\ requests'[r].age = requests[r].age,
           \A s \in Slots :
               Busy(s)' =>
                   (Busy(s) /\ slots'[s].left = slots[s].left) \/ http # "closed"
    PROVE  TimeInv'
  BY DEF TimeInv, SignalsClose, InTime, Running

\* A tick of a prompt process that has been told to stop: it is waiting for a
\* request while the server closes, and for a job when that is done.
LEMMA TickWaits ==
    ASSUME TypeOK, OrderInv, TimeInv, Tick, prompt, Signalled
    PROVE  /\ http = "closing" => \E r \in Requests : Open(r)
           /\ http = "closed" => \E s \in Slots : Busy(s)
           /\ \A r \in Requests : Open(r) => requests[r].age < RequestTicks
           /\ \A s \in Slots : Busy(s) => slots[s].left # 0
<1>1. ~Due /\ \A r \in Requests : Open(r) => requests[r].age < RequestTicks
  BY DEF Tick
<1>2. PICK g \in Signals : shutdown[g] \in {"server", "worker", "queue", "redis"}
  BY DEF Tick, Signalled, TimeInv, SignalsClose, TypeOK
<1>3. shutdown[g] \in {"server", "worker"}
  BY <1>1, <1>2 DEF Due
<1>4. shutdown[g] = "server" => \E r \in Requests : Open(r)
  BY <1>1 DEF Due
<1>5. shutdown[g] = "worker" => http = "closed" /\ \E s \in Slots : Busy(s)
  BY <1>1 DEF Due, OrderInv, ClosedUnused, ChainsFollow
<1>6. http = "closed" => \A r \in Requests : ~Open(r)
  BY DEF OrderInv, ClosedUnused
<1>7. \A s \in Slots : Busy(s) => slots[s].left # 0
  BY <1>1 DEF Due, Awake
<1> QED
  BY <1>1, <1>3, <1>4, <1>5, <1>6, <1>7

LEMMA TickTime == TypeOK /\ OrderInv /\ TimeInv /\ Tick => TimeInv'
<1> SUFFICES ASSUME TypeOK, OrderInv, TimeInv, Tick PROVE TimeInv'
  OBVIOUS
<1>1. UNCHANGED <<http, worker, shutdown, exit, prompt>>
  BY DEF Tick
<1>2. Signalled' = Signalled
  BY <1>1 DEF Signalled
<1>3. SignalsClose'
  BY <1>1, <1>2 DEF TimeInv, SignalsClose, Running, Tick
<1>4. ASSUME prompt PROVE InTime'
  <2>1. CASE http = "open"
    <3>1. timer' = 0 /\ http' = "open"
      BY <1>1, <2>1 DEF Tick, TimeInv, SignalsClose
    <3> QED
      BY <3>1, Numbers DEF InTime, Deadline
  <2>2. CASE http # "open"
    <3>1. Signalled /\ timer' = timer + 1
      BY <2>2 DEF TimeInv, SignalsClose, Tick
    <3>2. \A r \in Requests :
            Open(r) => Open(r)' /\ requests'[r].age = requests[r].age + 1
      BY <1>4, <3>1, TickWaits DEF Tick, Open, TypeOK
    <3>3. \A r \in Requests : Open(r)' => Open(r)
      BY DEF Tick, Open, TypeOK
    <3>4. \A s \in Slots :
            Busy(s)' => Busy(s) /\ slots'[s].left = slots[s].left - 1
      BY <1>4, <3>1, TickWaits DEF Tick, Busy, Awake, TypeOK
    <3>5. CASE http = "closing"
      <4>1. PICK r \in Requests : Open(r)
        BY <1>4, <3>1, <3>5, TickWaits
      <4>2. timer <= requests[r].age /\ requests[r].age < RequestTicks
        BY <1>4, <3>1, <3>5, <4>1, TickWaits DEF TimeInv, InTime
      <4>3. timer' <= RequestTicks
        BY <3>1, <4>2, Numbers, RequestsAssumption
      <4>4. \A q \in Requests : Open(q)' => timer' <= requests'[q].age
        BY <1>4, <3>1, <3>2, <3>3, <3>5, Numbers DEF TimeInv, InTime
      <4>5. Deadline' = Deadline /\ timer' <= Deadline
        BY <3>1, <4>3, Numbers, RequestsAssumption DEF Deadline
      <4> QED
        BY <1>1, <3>5, <4>3, <4>4, <4>5 DEF InTime
    <3>6. CASE http = "closed"
      <4>1. PICK s \in Slots : Busy(s) /\ slots[s].left # 0
        BY <1>4, <3>1, <3>6, TickWaits
      <4>2. timer' <= Deadline
        BY <1>4, <3>1, <3>6, <4>1, Numbers DEF TimeInv, InTime
      <4>3. \A x \in Slots : Busy(x)' => timer' + slots'[x].left <= Deadline
        BY <1>4, <3>1, <3>4, <3>6, Numbers DEF TimeInv, InTime
      <4> QED
        BY <1>1, <3>6, <4>2, <4>3 DEF InTime, Deadline
    <3> QED
      BY <2>2, <3>5, <3>6 DEF TypeOK
  <2> QED
    BY <2>1, <2>2
<1> QED
  BY <1>1, <1>3, <1>4 DEF TimeInv

LEMMA TimeStep ==
    ASSUME RequestTicks + JobTicks < TimeoutTicks
    PROVE  TypeOK /\ OrderInv /\ TimeInv /\ [Next]_vars => TimeInv'
<1> SUFFICES ASSUME TypeOK, OrderInv, TimeInv, [Next]_vars PROVE TimeInv'
  OBVIOUS
<1>1. ASSUME NEW r \in Requests, Arrive(r) PROVE TimeInv'
  BY <1>1 DEF Arrive, TimeInv, SignalsClose, InTime, Signalled, Running, Busy, Deadline
<1>2. ASSUME NEW r \in Requests, Answer(r) PROVE TimeInv'
  <2>1. \A q \in Requests : Open(q)' => Open(q) /\ requests'[q].age = requests[q].age
    BY <1>2 DEF Answer, Open, TypeOK
  <2> QED
    BY <1>2, <2>1, TimeUntouched
    DEF Answer, TimeInv, SignalsClose, Signalled, Running, Busy
<1>3. ASSUME NEW s \in Slots, Take(s) PROVE TimeInv'
  <2>1. http # "closed"
    BY <1>3 DEF Take, TimeInv, SignalsClose
  <2> QED
    BY <1>3, <2>1, TimeUntouched
    DEF Take, TimeInv, SignalsClose, Signalled, Running, Open
<1>4. ASSUME NEW s \in Slots, Finish(s) PROVE TimeInv'
  <2>1. \A x \in Slots : Busy(x)' => Busy(x) /\ slots'[x].left = slots[x].left
    BY <1>4 DEF Finish, Busy, TypeOK
  <2> QED
    BY <1>4, <2>1, TimeUntouched
    DEF Finish, TimeInv, SignalsClose, Signalled, Running, Open
<1>5. ASSUME NEW s \in Slots, Record(s) PROVE TimeInv'
  BY <1>5, TimeUntouched
  DEF Record, TimeInv, SignalsClose, Signalled, Running, Open, Busy
<1>6. ASSUME NEW g \in Signals, Signal(g) PROVE TimeInv'
  <2>1. shutdown'[g] = "server" /\ \A h \in Signals \ {g} : shutdown'[h] = shutdown[h]
    BY <1>6, GotoStages DEF Signal
  <2>2. SignalsClose'
    BY <1>6, <2>1 DEF Signal, TimeInv, SignalsClose, Signalled, Running, TypeOK
  <2>3. ASSUME prompt PROVE InTime'
    <3>1. CASE http = "open"
      BY <1>6, <2>3, <3>1, Numbers, RequestsAssumption
      DEF Signal, TimeInv, SignalsClose, InTime, Deadline
    <3>2. CASE http # "open"
      BY <1>6, <2>3, <3>2 DEF Signal, TimeInv, InTime, Open, Busy, Deadline
    <3> QED
      BY <3>1, <3>2
  <2> QED
    BY <1>6, <2>2, <2>3 DEF Signal, TimeInv
<1>7. ASSUME NEW g \in Signals, ServerClosed(g) PROVE TimeInv'
  <2>1. shutdown'[g] = "worker" /\ \A h \in Signals \ {g} : shutdown'[h] = shutdown[h]
    BY <1>7, GotoStages DEF ServerClosed
  <2>2. SignalsClose'
    BY <1>7, <2>1 DEF ServerClosed, TimeInv, SignalsClose, Signalled, Running
  <2>3. ASSUME prompt PROVE InTime'
    <3>1. Signalled /\ http # "open"
      BY <1>7 DEF ServerClosed, Signalled, TimeInv, SignalsClose
    <3>2. CASE http = "closing"
      <4>1. timer <= RequestTicks /\ timer <= Deadline
        BY <2>3, <3>2 DEF TimeInv, InTime
      <4>2. \A s \in Slots : timer + slots[s].left <= Deadline
        BY <4>1, Numbers, TicksAssumption, RequestsAssumption DEF Deadline
      <4> QED
        BY <1>7, <4>1, <4>2 DEF ServerClosed, InTime, Deadline
    <3>3. CASE http = "closed"
      BY <1>7, <2>3, <3>3 DEF ServerClosed, TimeInv, InTime, Busy, Deadline
    <3> QED
      BY <3>1, <3>2, <3>3 DEF TypeOK
  <2> QED
    BY <1>7, <2>2, <2>3 DEF ServerClosed, TimeInv
<1>8. ASSUME NEW g \in Signals,
             WorkerClosed(g) \/ QueueClosed(g) \/ RedisClosed(g) \/ CloseFails(g)
      PROVE  TimeInv'
  <2>1. PICK stage \in {"queue", "redis", "end"} :
          Goto(g, stage) /\ (stage = "end" => exit' \in {"clean", "panic"})
    BY <1>8 DEF WorkerClosed, QueueClosed, RedisClosed, CloseFails
  <2>2. shutdown[g] # "none"
    BY <1>8 DEF WorkerClosed, QueueClosed, RedisClosed, CloseFails
  <2>3. shutdown'[g] = stage /\ \A h \in Signals \ {g} : shutdown'[h] = shutdown[h]
    BY <2>1, GotoStages
  <2>4. Signalled' = Signalled
    BY <2>2, <2>3 DEF Signalled
  <2>5. \A h \in Signals : shutdown'[h] = "end" =>
          (shutdown[h] = "end" /\ exit' = exit) \/ exit' # "none"
    BY <1>8, <2>1, <2>3
    DEF WorkerClosed, QueueClosed, RedisClosed, CloseFails, TimeInv, SignalsClose,
        Running
  <2> QED
    BY <1>8, <2>4, <2>5, TimeUntouched
    DEF WorkerClosed, QueueClosed, RedisClosed, CloseFails, Open, Busy
<1>9. CASE ForceExit
  <2>1. ~prompt
    BY <1>9, Numbers, TicksAssumption, RequestsAssumption
    DEF ForceExit, TimeInv, InTime, Deadline
  <2> QED
    BY <1>9, <2>1 DEF ForceExit, TimeInv, SignalsClose, Signalled, Running
<1>10. CASE Panic
  BY <1>10, TimeUntouched DEF Panic, Signalled, Open, Busy
<1>11. CASE Tick
  BY <1>11, TickTime
<1>12. CASE UNCHANGED vars
  BY <1>12, TimeUntouched DEF vars, Signalled, Open, Busy
<1> QED
  BY <1>1, <1>2, <1>3, <1>4, <1>5, <1>6, <1>7, <1>8, <1>9, <1>10, <1>11, <1>12
  DEF Next, CloseStep

\* When the longest request and the longest job together take less than the
\* timer of gracefulShutdown, and Redis answers, the timer never cuts anything
\* short, however many requests, slots and signals there are.
THEOREM ThirtySecondsSuffice ==
    ASSUME RequestTicks + JobTicks < TimeoutTicks
    PROVE  Spec => []NeverForced
<1>1. TimeInv => NeverForced
  BY DEF TimeInv, NeverForced
<1> QED
  BY <1>1, InitType, TypeStep, InitOrder, OrderStep, InitTime, TimeStep, PTL DEF Spec
=============================================================================
