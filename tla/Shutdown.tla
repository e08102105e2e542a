------------------------------ MODULE Shutdown ------------------------------
(***************************************************************************)
(* One process running main.ts, from listening to its exit: what it closes *)
(* on SIGTERM and SIGINT, in which order, against requests that are still  *)
(* open, jobs that are still processed, and the timer that forces an exit. *)
(*                                                                         *)
(* Time passes in ticks of 5 s: a job sleeps 5 to 10 s (job.processor.ts), *)
(* one or two ticks, and the timer is six.                                 *)
(***************************************************************************)
EXTENDS Naturals, FiniteSets

CONSTANTS
    Requests,     \* requests to this process
    Slots,        \* QUEUE_CONCURRENCY of them
    Signals,      \* signals it receives
    JobTicks,     \* the longest sleep of a job
    TimeoutTicks, \* the timer of gracefulShutdown
    RequestTicks, \* the longest request of prompt clients
    MaxPanics     \* unhandled rejections, uncaught exceptions, failed closes

ASSUME TicksAssumption == JobTicks \in Nat \ {0} /\ TimeoutTicks \in Nat \ {0}
ASSUME RequestsAssumption == RequestTicks \in Nat
ASSUME PanicsAssumption == MaxPanics \in Nat

VARIABLES
    http,    \* the HTTP server: open, closing, closed
    requests,\* each request, and for how many ticks it has been open
    worker,  \* the worker: open, closing, closed
    slots,   \* each slot, and how many ticks of sleep its job has left
    late,    \* slots whose job failed for good and is not recorded yet
    queue,   \* the queue connection: open, closed
    redis,   \* the shared Redis client: open, quit
    shutdown,\* where the chain of promises of each signal stands
    timer,   \* ticks since the first signal
    exit,    \* none, clean (0), forced (1) or panic (1)
    prompt   \* whether Redis answers within the tick, and no request is open
             \* for more than RequestTicks; it never changes

vars == <<http, requests, worker, slots, late, queue, redis, shutdown, timer, exit,
          prompt>>

Age == 0..RequestTicks
Stages == {"none", "server", "worker", "queue", "redis", "end"}

TypeOK ==
    /\ http \in {"open", "closing", "closed"}
    /\ requests \in [Requests -> [state : {"unsent", "open", "done"}, age : Age]]
    /\ worker \in {"open", "closing", "closed"}
    /\ slots \in [Slots -> [busy : BOOLEAN, left : 0..JobTicks]]
    /\ late \subseteq Slots
    /\ queue \in {"open", "closed"} /\ redis \in {"open", "quit"}
    /\ shutdown \in [Signals -> Stages]
    /\ timer \in 0..TimeoutTicks
    /\ exit \in {"none", "clean", "forced", "panic"}
    /\ prompt \in BOOLEAN

Init ==
    /\ http = "open" /\ worker = "open" /\ queue = "open" /\ redis = "open"
    /\ requests = [r \in Requests |-> [state |-> "unsent", age |-> 0]]
    /\ slots = [s \in Slots |-> [busy |-> FALSE, left |-> 0]]
    /\ late = {}
    /\ shutdown = [g \in Signals |-> "none"]
    /\ timer = 0
    /\ exit = "none"
    /\ prompt \in BOOLEAN

Open(r) == requests[r].state = "open"
Busy(s) == slots[s].busy
Awake(s) == Busy(s) /\ slots[s].left = 0
Running == exit = "none"
Signalled == \E g \in Signals : shutdown[g] # "none"

-----------------------------------------------------------------------------
(* What the process does anyway.                                           *)

\* A request arrives; a server that is closing accepts no connection.
Arrive(r) ==
    /\ Running
    /\ http = "open" /\ requests[r].state = "unsent"
    /\ requests' = [requests EXCEPT ![r].state = "open"]
    /\ UNCHANGED <<http, worker, slots, late, queue, redis, shutdown, timer, exit, prompt>>

\* Its handler ends; it needs the queue and Redis for that.
Answer(r) ==
    /\ Running
    /\ Open(r) /\ queue = "open" /\ redis = "open"
    /\ requests' = [requests EXCEPT ![r].state = "done"]
    /\ UNCHANGED <<http, worker, slots, late, queue, redis, shutdown, timer, exit, prompt>>

\* Bugs: a worker that goes on taking jobs while it closes, and a sleep whose
\* upper bound is taken for exclusive.
Take_WhileClosing(s) ==
    /\ Running
    /\ worker # "closed" /\ ~Busy(s)
    /\ \E n \in 1..JobTicks : slots' = [slots EXCEPT ![s] = [busy |-> TRUE, left |-> n]]
    /\ UNCHANGED <<http, requests, worker, late, queue, redis, shutdown, timer, exit, prompt>>
Take_LongSleep(s) ==
    /\ Running
    /\ worker = "open" /\ ~Busy(s)
    /\ \E n \in 1..JobTicks + 1 :
         slots' = [slots EXCEPT ![s] = [busy |-> TRUE, left |-> n]]
    /\ UNCHANGED <<http, requests, worker, late, queue, redis, shutdown, timer, exit, prompt>>

\* The worker takes a job; it does so until it is told to close, which is only
\* after the HTTP server has closed.
Take(s) ==
    /\ Running
    /\ worker = "open" /\ ~Busy(s)
    /\ \E n \in 1..JobTicks : slots' = [slots EXCEPT ![s] = [busy |-> TRUE, left |-> n]]
    /\ UNCHANGED <<http, requests, worker, late, queue, redis, shutdown, timer, exit, prompt>>

\* The job completes or fails; after the last attempt the listener starts an
\* update that nobody waits for.
Finish(s) ==
    /\ Running
    /\ Awake(s) /\ redis = "open"
    /\ slots' = [slots EXCEPT ![s].busy = FALSE]
    /\ late' \in {late, late \cup {s}}
    /\ UNCHANGED <<http, requests, worker, queue, redis, shutdown, timer, exit, prompt>>

Record(s) ==
    /\ Running
    /\ s \in late /\ redis = "open"
    /\ late' = late \ {s}
    /\ UNCHANGED <<http, requests, worker, slots, queue, redis, shutdown, timer, exit, prompt>>

-----------------------------------------------------------------------------
(* gracefulShutdown.                                                       *)

Goto(g, stage) == shutdown' = [shutdown EXCEPT ![g] = stage]

\* A signal: server.close and a timer.  A second signal starts a second chain.
Signal(g) ==
    /\ Running
    /\ shutdown[g] = "none"
    /\ http' = IF http = "open" THEN "closing" ELSE http
    /\ Goto(g, "server")
    /\ UNCHANGED <<requests, worker, slots, late, queue, redis, timer, exit, prompt>>

\* server.close calls back once no request is open: worker.close.
ServerClosed(g) ==
    /\ Running
    /\ shutdown[g] = "server" /\ \A r \in Requests : ~Open(r)
    /\ http' = "closed"
    /\ worker' = IF worker = "open" THEN "closing" ELSE worker
    /\ Goto(g, "worker")
    /\ UNCHANGED <<requests, slots, late, queue, redis, timer, exit, prompt>>

\* Bug: worker.close is not awaited.
WorkerClosed_NotAwaited(g) ==
    /\ Running
    /\ shutdown[g] = "worker"
    /\ worker' = "closed"
    /\ Goto(g, "queue")
    /\ UNCHANGED <<http, requests, slots, late, queue, redis, timer, exit, prompt>>

\* worker.close resolves once no slot is busy: closeQueue.
WorkerClosed(g) ==
    /\ Running
    /\ shutdown[g] = "worker" /\ \A s \in Slots : ~Busy(s)
    /\ worker' = "closed"
    /\ Goto(g, "queue")
    /\ UNCHANGED <<http, requests, slots, late, queue, redis, timer, exit, prompt>>

\* closeQueue resolves: closeRedisClient.
QueueClosed(g) ==
    /\ Running
    /\ shutdown[g] = "queue"
    /\ queue' = "closed"
    /\ Goto(g, "redis")
    /\ UNCHANGED <<http, requests, worker, slots, late, redis, timer, exit, prompt>>

\* redis.quit resolves: exit(0).
RedisClosed(g) ==
    /\ Running
    /\ shutdown[g] = "redis"
    /\ redis' = "quit"
    /\ exit' = "clean"
    /\ Goto(g, "end")
    /\ UNCHANGED <<http, requests, worker, slots, late, queue, timer, prompt>>

\* Bug: the timer is started in the callback of server.close.
ForceExit_InCallback ==
    /\ Running
    /\ timer = TimeoutTicks /\ http = "closed"
    /\ exit' = "forced"
    /\ UNCHANGED <<http, requests, worker, slots, late, queue, redis, shutdown, timer,
                   prompt>>

\* The timer of the first signal.
ForceExit ==
    /\ Running
    /\ timer = TimeoutTicks
    /\ exit' = "forced"
    /\ UNCHANGED <<http, requests, worker, slots, late, queue, redis, shutdown, timer, prompt>>

\* unhandledRejection, uncaughtException
Panic ==
    /\ Running
    /\ MaxPanics > 0
    /\ exit' = "panic"
    /\ UNCHANGED <<http, requests, worker, slots, late, queue, redis, shutdown, timer, prompt>>

\* worker.close, closeQueue or redis.quit rejects: the catch of the chain.
CloseFails(g) ==
    /\ Running
    /\ MaxPanics > 0
    /\ shutdown[g] \in {"worker", "queue", "redis"}
    /\ exit' = "panic"
    /\ Goto(g, "end")
    /\ UNCHANGED <<http, requests, worker, slots, late, queue, redis, timer, prompt>>

CloseStep(g) ==
    ServerClosed(g) \/ WorkerClosed(g) \/ QueueClosed(g) \/ RedisClosed(g)

\* Something the process or Redis would do at once is still to be done.
Due ==
    \/ \E s \in Slots : Awake(s) \/ s \in late
    \/ \E g \in Signals :
         \/ shutdown[g] = "server" /\ \A r \in Requests : ~Open(r)
         \/ shutdown[g] = "worker" /\ \A s \in Slots : ~Busy(s)
         \/ shutdown[g] \in {"queue", "redis"}

\* Five seconds.  The timer fires when it is due.
Tick ==
    /\ Running /\ timer < TimeoutTicks
    /\ prompt => ~Due /\ \A r \in Requests : Open(r) => requests[r].age < RequestTicks
    /\ timer' = IF Signalled THEN timer + 1 ELSE timer
    /\ requests' = [r \in Requests |->
                      IF Open(r) /\ requests[r].age < RequestTicks
                      THEN [requests[r] EXCEPT !.age = @ + 1] ELSE requests[r]]
    /\ slots' = [s \in Slots |->
                   IF Busy(s) /\ ~Awake(s)
                   THEN [slots[s] EXCEPT !.left = @ - 1] ELSE slots[s]]
    /\ UNCHANGED <<http, worker, late, queue, redis, shutdown, exit, prompt>>

Next ==
    \/ \E r \in Requests : Arrive(r) \/ Answer(r)
    \/ \E s \in Slots : Take(s) \/ Finish(s) \/ Record(s)
    \/ \E g \in Signals : Signal(g) \/ CloseStep(g) \/ CloseFails(g)
    \/ ForceExit \/ Panic \/ Tick

Spec == Init /\ [][Next]_vars

\* What a prompt Redis and prompt clients bring about within the tick.
PromptStep ==
    /\ prompt
    /\ \/ \E r \in Requests : Answer(r)
       \/ \E s \in Slots : Finish(s) \/ Record(s)
       \/ \E g \in Signals : CloseStep(g)

\* Time goes on and the timer fires; nothing else is assumed unless clients and
\* Redis are prompt.
Fairness == WF_vars(Tick) /\ WF_vars(ForceExit) /\ WF_vars(PromptStep)

FairSpec == Spec /\ Fairness

-----------------------------------------------------------------------------
(* Properties.                                                             *)

\* main.ts: "closes the HTTP server, worker, queue, and Redis connections in
\* order": nothing is taken away from a request or a job that still needs it,
\* however many signals arrive.
ClosedInOrder ==
    /\ worker # "open" => http = "closed" /\ \A r \in Requests : ~Open(r)
    /\ queue = "closed" => worker = "closed" /\ \A s \in Slots : ~Busy(s)
    /\ redis = "quit" => queue = "closed"

\* main.ts: "forces exit if shutdown takes longer than 30 seconds".  A process
\* that was told to stop stops, whatever its clients and Redis do.
Stops == Signalled ~> exit # "none"

\* The 30 s suffice: when Redis is up and no request takes longer than
\* RequestTicks, the timer never cuts a job or a request short.
NeverForced == prompt => exit # "forced"

\* README.md: "Worker finishes in-progress jobs before exiting".
JobsFinished == exit \in {"clean", "forced"} => \A s \in Slots : ~Busy(s)
=============================================================================
