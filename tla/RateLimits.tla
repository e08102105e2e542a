----------------------------- MODULE RateLimits -----------------------------
(***************************************************************************)
(* The rate limiters of rate-limit.middleware.ts in front of the routes of *)
(* the auth, jobs, stats and upload routers, for any number of instances   *)
(* that share the counters in Redis.                                       *)
(*                                                                         *)
(* Time passes in ticks; a window is so many ticks, and requests of one    *)
(* tick are simultaneous.  rate-limit-redis counts with one Lua script, so *)
(* a request is counted in one indivisible step; nothing the other         *)
(* middlewares do depends on the counters.                                 *)
(***************************************************************************)
EXTENDS Naturals, FiniteSets, TLC

CONSTANTS
    Clients,    \* IP addresses
    Routes,     \* the routes clients use, of those in DOMAIN Table
    Window,     \* ticks per window of each limiter
    Limit,      \* requests per window of each limiter
    MaxBurst,   \* requests a client sends to a limiter in one tick
    MaxResends  \* commands ioredis sends again after a reconnect

\* What stands in front of the handlers, router by router: the limiter, and
\* whether the access token is verified first.
AuthRoutes == [register |-> [limiter |-> "auth", protected |-> FALSE],
               login |-> [limiter |-> "auth", protected |-> FALSE]]
JobRoutes == [jobs |-> [limiter |-> "api", protected |-> TRUE]]
StatsRoutes == [stats |-> [limiter |-> "api", protected |-> TRUE]]
UploadRoutes == [upload |-> [limiter |-> "upload", protected |-> TRUE]]

Table == AuthRoutes @@ JobRoutes @@ StatsRoutes @@ UploadRoutes

Limiters == {Table[r].limiter : r \in Routes}

ASSUME RoutesAssumption == Routes \subseteq DOMAIN Table
ASSUME LimitsAssumption ==
    \A l \in Limiters : Window[l] \in Nat \ {0} /\ Limit[l] \in Nat \ {0}
ASSUME BoundsAssumption == MaxBurst \in Nat /\ MaxResends \in Nat

VARIABLES
    counter,  \* the hits of a client in the current window, and its TTL
    sent,     \* history: the requests of the last window, each with its age and
              \* its number among the requests of that tick ...
    passed,   \* ... and those of them the limiter let through
    answer,   \* what the last request was answered
    resends

vars == <<counter, sent, passed, answer, resends>>

Keys == Limiters \X Clients
Key(r, c) == <<Table[r].limiter, c>>

WindowOf(k) == Window[k[1]]
LimitOf(k) == Limit[k[1]]
Ages(k) == 0..WindowOf(k) - 1

NoHits == [hits |-> 0, ttl |-> 0]
NothingYet == [k \in Keys |-> {}]

Answers == {"none", "unauthorized", "tooMany", "error", "next"}

TypeOK ==
    /\ counter \in [Keys -> [hits : Nat, ttl : Nat]]
    /\ {sent, passed} \subseteq [Keys -> SUBSET (Nat \X (1..MaxBurst))]
    /\ \A k \in Keys : /\ counter[k].ttl <= WindowOf(k)
                       /\ counter[k].ttl = 0 <=> counter[k].hits = 0
                       /\ \A e \in sent[k] : e[1] \in Ages(k)
                       /\ passed[k] \subseteq sent[k]
    /\ answer \in [route : Routes, client : Clients, status : Answers]
    /\ resends \in 0..MaxResends

Init ==
    /\ counter = [k \in Keys |-> NoHits]
    /\ sent = NothingYet
    /\ passed = NothingYet
    /\ answer \in [route : Routes, client : Clients, status : {"none"}]
    /\ resends = 0

-----------------------------------------------------------------------------

Answer(r, c, status) == answer' = [route |-> r, client |-> c, status |-> status]

Note(past, k, nr) == [past EXCEPT ![k] = @ \cup {<<0, nr>>}]

\* The next request of this tick, at most MaxBurst in all.
IsNext(nr, k) ==
    <<0, nr>> \notin sent[k] /\ \A i \in 1..nr - 1 : <<0, i>> \in sent[k]

\* The script: the first request opens a window of fixed length.
Hit(k, n) ==
    IF n.ttl = 0 THEN [hits |-> 1, ttl |-> WindowOf(k)] ELSE [n EXCEPT !.hits = @ + 1]

\* Bugs: a status of its own, and a route that counts before it verifies the
\* token.
Unauthorized_Forbidden(r, c) ==
    /\ Table[r].protected
    /\ Answer(r, c, "forbidden")
    /\ UNCHANGED <<counter, sent, passed, resends>>
Unauthorized_Counted(r, c) ==
    LET k == Key(r, c) IN
    /\ Table[r].protected
    /\ counter[k].hits < MaxBurst
    /\ counter' = [counter EXCEPT ![k] = Hit(k, @)]
    /\ Answer(r, c, "unauthorized")
    /\ UNCHANGED <<sent, passed, resends>>

\* A request without a valid access token.
Unauthorized(r, c) ==
    /\ Table[r].protected
    /\ Answer(r, c, "unauthorized")
    /\ UNCHANGED <<counter, sent, passed, resends>>

Exceeds(k, hits) == hits > LimitOf(k)

\* A request is counted, and refused or handed to validation and the handler.
\* When the connection broke before the reply, the script runs twice.
Request(r, c) ==
    LET k == Key(r, c)
        once == Hit(k, counter[k])
    IN
    \E nr \in 1..MaxBurst, n \in {once, Hit(k, once)} :
        /\ IsNext(nr, k)
        /\ sent' = Note(sent, k, nr)
        /\ n # once => resends < MaxResends
        /\ resends' = IF n = once THEN resends ELSE resends + 1
        /\ counter' = [counter EXCEPT ![k] = n]
        /\ IF Exceeds(k, n.hits)
           THEN Answer(r, c, "tooMany") /\ UNCHANGED passed
           ELSE Answer(r, c, "next") /\ passed' = Note(passed, k, nr)

\* Bug: passOnStoreError.
StoreError_FailsOpen(r, c) ==
    LET k == Key(r, c) IN
    \E nr \in 1..MaxBurst :
        /\ IsNext(nr, k)
        /\ sent' = Note(sent, k, nr)
        /\ passed' = Note(passed, k, nr)
        /\ Answer(r, c, "next")
        /\ UNCHANGED <<counter, resends>>

\* The store rejects: the limiter fails closed, with a 500.
StoreError(r, c) ==
    /\ Answer(r, c, "error")
    /\ UNCHANGED <<counter, sent, passed, resends>>

Aged(e) == <<e[1] + 1, e[2]>>

Older(past) ==
    [k \in Keys |-> {Aged(e) : e \in {d \in past[k] : d[1] + 1 \in Ages(k)}}]

Tick ==
    /\ counter' = [k \in Keys |-> IF counter[k].ttl <= 1 THEN NoHits
                                  ELSE [counter[k] EXCEPT !.ttl = @ - 1]]
    /\ sent' = Older(sent)
    /\ passed' = Older(passed)
    /\ UNCHANGED <<answer, resends>>

Next ==
    \/ \E r \in Routes, c \in Clients :
         Unauthorized(r, c) \/ Request(r, c) \/ StoreError(r, c)
    \/ Tick

Spec == Init /\ [][Next]_vars

-----------------------------------------------------------------------------
(* Properties.                                                             *)

Lately(past, k) == Cardinality(past[k])

\* "10 requests per 15 minutes" (rate-limit.middleware.ts) counts windows that
\* start with a request, not the last 15 minutes: in any stretch as long as a
\* window, the limiter lets through less than twice the limit, and no more.
BurstBounded == \A k \in Keys : Lately(passed, k) < 2 * LimitOf(k)

\* A client that has not sent more than the limit in the last window, counting
\* only requests with a valid token where the route asks for one, is not
\* refused, whatever it sent before and however often it was refused: "please
\* try again in 15 minutes" is true.
PoliteNeverRefused ==
    [][\A k \in Keys :
          /\ \E nr \in 1..MaxBurst : <<0, nr>> \in sent'[k] \ sent[k]
          /\ passed'[k] = passed[k] /\ resends' = 0
          => Lately(sent', k) > LimitOf(k)]_vars
=============================================================================
