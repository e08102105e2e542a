-------------------------- MODULE RateLimitsProofs --------------------------
(***************************************************************************)
(* Proofs about RateLimits, for any clients, windows and limits: in any    *)
(* stretch as long as a window less than twice the limit gets through, and *)
(* a client that kept to the limit is not refused.                         *)
(***************************************************************************)
EXTENDS RateLimits, FiniteSetTheorems, TLAPS

USE DEF Keys, WindowOf, LimitOf, Ages

-----------------------------------------------------------------------------
(* The numbers and sets of the model.                                      *)

\* Windows and limits are positive.
LEMMA Limits ==
    ASSUME NEW k \in Keys
    PROVE  WindowOf(k) \in Nat \ {0} /\ LimitOf(k) \in Nat \ {0}
  BY LimitsAssumption

\* A request is counted under a key.
LEMMA KeyIsKey == \A r \in Routes, c \in Clients : Key(r, c) \in Keys
  BY DEF Key, Limiters

\* The requests of a window are finitely many.
LEMMA FinitePast ==
    ASSUME TypeOK, NEW k \in Keys
    PROVE  /\ IsFiniteSet(sent[k]) /\ IsFiniteSet(passed[k])
           /\ passed[k] \subseteq sent[k]
           /\ \A e \in sent[k] : e[1] \in Nat /\ e[2] \in Nat /\ e = <<e[1], e[2]>>
<1>1. WindowOf(k) \in Nat
  BY Limits
<1>2. IsFiniteSet(Ages(k)) /\ IsFiniteSet(1..MaxBurst)
  BY <1>1, FS_Interval, BoundsAssumption
<1>3. IsFiniteSet(Ages(k) \X (1..MaxBurst))
  BY <1>2, FS_Product
<1>4. sent[k] \subseteq Ages(k) \X (1..MaxBurst) /\ passed[k] \subseteq sent[k]
  BY DEF TypeOK
<1>5. \A e \in Ages(k) \X (1..MaxBurst) : e[1] \in Nat /\ e[2] \in Nat /\ e = <<e[1], e[2]>>
  BY <1>1, BoundsAssumption
<1> QED
  BY <1>3, <1>4, <1>5, FS_Subset

\* Ageing requests loses none of them.
LEMMA AgedCount ==
    ASSUME NEW S, IsFiniteSet(S),
           \A e \in S : e[1] \in Nat /\ e[2] \in Nat /\ e = <<e[1], e[2]>>
    PROVE  LET T == {Aged(e) : e \in S} IN
           IsFiniteSet(T) /\ Cardinality(T) = Cardinality(S)
<1> DEFINE T == {Aged(e) : e \in S}
           f == [e \in S |-> Aged(e)]
<1>1. f \in Surjection(S, T)
  BY DEF Surjection
<1>2. \A d, e \in S : Aged(d) = Aged(e) => d = e
  BY DEF Aged
<1>3. f \in Injection(S, T)
  BY <1>2 DEF Injection, IsInjective
<1> QED
  BY <1>1, <1>3, FS_Surjection

LEMMA InitType == ASSUME Init PROVE TypeOK
<1>1. counter \in [Keys -> [hits : Nat, ttl : Nat]]
  BY DEF Init, NoHits
<1>2. {sent, passed} \subseteq [Keys -> SUBSET (Nat \X (1..MaxBurst))]
  BY DEF Init, NothingYet
<1>3. ASSUME NEW k \in Keys
      PROVE  /\ counter[k].ttl <= WindowOf(k)
             /\ counter[k].ttl = 0 <=> counter[k].hits = 0
             /\ \A e \in sent[k] : e[1] \in Ages(k)
             /\ passed[k] \subseteq sent[k]
  <2>1. counter[k] = NoHits /\ sent[k] = {} /\ passed[k] = {} /\ WindowOf(k) \in Nat
    BY Limits DEF Init, NothingYet
  <2> QED
    BY <2>1 DEF NoHits
<1>4. answer \in [route : Routes, client : Clients, status : Answers]
  BY DEF Init, Answers
<1>5. resends \in 0..MaxResends
  BY BoundsAssumption DEF Init
<1> QED
  BY <1>1, <1>2, <1>3, <1>4, <1>5 DEF TypeOK

\* What Request does to its key.
LEMMA RequestEffect ==
    ASSUME TypeOK, NEW r \in Routes, NEW c \in Clients, NEW k, k = Key(r, c), Request(r, c)
    PROVE  /\ counter' = [counter EXCEPT ![k] = counter'[k]]
           /\ counter'[k] \in [hits : Nat, ttl : Nat]
           /\ counter'[k].ttl = IF counter[k].ttl = 0 THEN WindowOf(k) ELSE counter[k].ttl
           /\ counter'[k].hits \in {counter[k].hits + 1, counter[k].hits + 2}
           /\ resends' \in 0..MaxResends
           /\ resends' = 0 => resends = 0 /\ counter'[k].hits = counter[k].hits + 1
           /\ \E nr \in 1..MaxBurst :
                /\ <<0, nr>> \notin sent[k]
                /\ sent' = [sent EXCEPT ![k] = @ \cup {<<0, nr>>}]
                /\ \/ counter'[k].hits > LimitOf(k) /\ passed' = passed
                   \/ counter'[k].hits <= LimitOf(k)
                      /\ passed' = [passed EXCEPT ![k] = @ \cup {<<0, nr>>}]
           /\ answer' \in [route : Routes, client : Clients, status : Answers]
<1> DEFINE once == Hit(k, counter[k])
<1>1. k \in Keys /\ WindowOf(k) \in Nat \ {0} /\ LimitOf(k) \in Nat \ {0}
  BY KeyIsKey, Limits
<1>2. counter[k] \in [hits : Nat, ttl : Nat] /\ (counter[k].ttl = 0 => counter[k].hits = 0)
  BY <1>1 DEF TypeOK
<1>3. /\ once \in [hits : Nat, ttl : Nat] /\ once.hits = counter[k].hits + 1
      /\ once.ttl = IF counter[k].ttl = 0 THEN WindowOf(k) ELSE counter[k].ttl
  BY <1>1, <1>2 DEF Hit
<1>4. /\ Hit(k, once) \in [hits : Nat, ttl : Nat] /\ Hit(k, once).hits = counter[k].hits + 2
      /\ Hit(k, once).ttl = once.ttl
  BY <1>1, <1>2, <1>3 DEF Hit
<1> HIDE DEF once
<1>5. PICK nr \in 1..MaxBurst, n \in {once, Hit(k, once)} :
        /\ <<0, nr>> \notin sent[k]
        /\ sent' = [sent EXCEPT ![k] = @ \cup {<<0, nr>>}]
        /\ n # once => resends < MaxResends
        /\ resends' = IF n = once THEN resends ELSE resends + 1
        /\ counter' = [counter EXCEPT ![k] = n]
        /\ \/ n.hits > LimitOf(k) /\ passed' = passed /\ Answer(r, c, "tooMany")
           \/ ~(n.hits > LimitOf(k)) /\ Answer(r, c, "next")
              /\ passed' = [passed EXCEPT ![k] = @ \cup {<<0, nr>>}]
  BY DEF Request, IsNext, Note, Exceeds, once
<1>6. counter'[k] = n /\ resends \in 0..MaxResends
  BY <1>1, <1>5 DEF TypeOK
<1>7. counter'[k] \in [hits : Nat, ttl : Nat]
      /\ counter'[k].hits \in {counter[k].hits + 1, counter[k].hits + 2}
      /\ counter'[k].ttl = once.ttl
  BY <1>3, <1>4, <1>5, <1>6
<1>8. resends' \in 0..MaxResends
      /\ (resends' = 0 => resends = 0 /\ counter'[k].hits = counter[k].hits + 1)
  BY <1>3, <1>5, <1>6, BoundsAssumption
<1>9. answer' \in [route : Routes, client : Clients, status : Answers]
  BY <1>5 DEF Answer, Answers
<1>10. \/ counter'[k].hits > LimitOf(k) /\ passed' = passed
       \/ counter'[k].hits <= LimitOf(k)
          /\ passed' = [passed EXCEPT ![k] = @ \cup {<<0, nr>>}]
  BY <1>1, <1>5, <1>6, <1>7
<1> QED
  BY <1>3, <1>5, <1>6, <1>7, <1>8, <1>9, <1>10

\* What a tick does to a key.
LEMMA TickEffect ==
    ASSUME TypeOK, Tick, NEW k \in Keys
    PROVE  /\ counter'[k] \in [hits : Nat, ttl : Nat]
           /\ counter[k].ttl <= 1 => counter'[k].hits = 0 /\ counter'[k].ttl = 0
           /\ counter[k].ttl > 1 => /\ counter'[k].hits = counter[k].hits
                                    /\ counter'[k].ttl = counter[k].ttl - 1
           /\ sent'[k] = {Aged(e) : e \in {d \in sent[k] : d[1] + 1 \in Ages(k)}}
           /\ passed'[k] = {Aged(e) : e \in {d \in passed[k] : d[1] + 1 \in Ages(k)}}
           /\ resends' = resends
<1>1. counter[k] \in [hits : Nat, ttl : Nat]
  BY DEF TypeOK
<1>2. counter'[k] = IF counter[k].ttl <= 1 THEN NoHits
                    ELSE [counter[k] EXCEPT !.ttl = @ - 1]
  BY DEF Tick
<1>3. /\ sent'[k] = {Aged(e) : e \in {d \in sent[k] : d[1] + 1 \in Ages(k)}}
      /\ passed'[k] = {Aged(e) : e \in {d \in passed[k] : d[1] + 1 \in Ages(k)}}
      /\ resends' = resends
  BY DEF Tick, Older
<1> QED
  BY <1>1, <1>2, <1>3 DEF NoHits

\* Unauthorized requests and store errors are answered, and leave no trace.
LEMMA OnlyAnswered ==
    ASSUME NEW r \in Routes, NEW c \in Clients, Unauthorized(r, c) \/ StoreError(r, c)
    PROVE  /\ answer' \in [route : Routes, client : Clients, status : Answers]
           /\ UNCHANGED <<counter, sent, passed, resends>>
  BY DEF Unauthorized, StoreError, Answer, Answers

LEMMA TypeStep == ASSUME TypeOK, [Next]_vars PROVE TypeOK'
<1>1. ASSUME NEW r \in Routes, NEW c \in Clients, Request(r, c) PROVE TypeOK'
  <2>1. PICK k \in Keys : k = Key(r, c)
    BY KeyIsKey
  <2>2. PICK nr \in 1..MaxBurst :
          /\ <<0, nr>> \notin sent[k]
          /\ sent' = [sent EXCEPT ![k] = @ \cup {<<0, nr>>}]
          /\ \/ counter'[k].hits > LimitOf(k) /\ passed' = passed
             \/ counter'[k].hits <= LimitOf(k)
                /\ passed' = [passed EXCEPT ![k] = @ \cup {<<0, nr>>}]
    <3> HIDE DEF LimitOf
    <3> QED
      BY <1>1, <2>1, RequestEffect
  <2>3. /\ counter' = [counter EXCEPT ![k] = counter'[k]]
        /\ counter'[k] \in [hits : Nat, ttl : Nat]
        /\ counter'[k].ttl = IF counter[k].ttl = 0 THEN WindowOf(k) ELSE counter[k].ttl
        /\ counter'[k].hits \in {counter[k].hits + 1, counter[k].hits + 2}
        /\ resends' \in 0..MaxResends
        /\ answer' \in [route : Routes, client : Clients, status : Answers]
    BY <1>1, <2>1, RequestEffect
  <2>4. counter' \in [Keys -> [hits : Nat, ttl : Nat]]
    BY <2>3 DEF TypeOK
  <2>5. <<0, nr>> \in Nat \X (1..MaxBurst)
    BY <2>2
  <2>6. {sent', passed'} \subseteq [Keys -> SUBSET (Nat \X (1..MaxBurst))]
    <3>1. sent[k] \cup {<<0, nr>>} \in SUBSET (Nat \X (1..MaxBurst))
          /\ passed[k] \cup {<<0, nr>>} \in SUBSET (Nat \X (1..MaxBurst))
      BY <2>5 DEF TypeOK
    <3> QED
      BY <2>2, <3>1 DEF TypeOK
  <2>7. ASSUME NEW j \in Keys
        PROVE  /\ counter'[j].ttl <= WindowOf(j)
               /\ counter'[j].ttl = 0 <=> counter'[j].hits = 0
               /\ \A e \in sent'[j] : e[1] \in Ages(j)
               /\ passed'[j] \subseteq sent'[j]
    <3>1. CASE j = k
      <4>1. counter[k] \in [hits : Nat, ttl : Nat] /\ counter[k].ttl <= WindowOf(k)
            /\ WindowOf(k) \in Nat \ {0}
        BY Limits DEF TypeOK
      <4>2. sent'[k] = sent[k] \cup {<<0, nr>>} /\ passed'[k] \subseteq sent'[k]
        BY <2>2 DEF TypeOK
      <4>3. \A e \in sent'[k] : e[1] \in Ages(k)
        BY <4>1, <4>2 DEF TypeOK
      <4>4. counter'[k].ttl <= WindowOf(k) /\ counter'[k].ttl # 0 /\ counter'[k].hits # 0
        BY <2>3, <4>1
      <4> QED
        BY <3>1, <4>2, <4>3, <4>4
    <3>2. CASE j # k
      <4>1. counter'[j] = counter[j] /\ sent'[j] = sent[j] /\ passed'[j] = passed[j]
        BY <2>2, <2>3, <3>2 DEF TypeOK
      <4> QED
        BY <4>1 DEF TypeOK
    <3> QED
      BY <3>1, <3>2
  <2> QED
    BY <2>3, <2>4, <2>6, <2>7 DEF TypeOK
<1>2. ASSUME Tick PROVE TypeOK'
  <2>1. counter' \in [Keys -> [hits : Nat, ttl : Nat]]
    <3>1. \A k \in Keys : counter'[k] \in [hits : Nat, ttl : Nat]
      BY <1>2, TickEffect
    <3> QED
      BY <1>2, <3>1 DEF Tick
  <2>2. ASSUME NEW k \in Keys
        PROVE  /\ sent'[k] \subseteq Nat \X (1..MaxBurst)
               /\ \A e \in sent'[k] : e[1] \in Ages(k)
               /\ passed'[k] \subseteq sent'[k]
    <3>1. \A e \in sent[k] : Aged(e)[1] = e[1] + 1 /\ Aged(e) \in Nat \X (1..MaxBurst)
      BY FinitePast DEF Aged, TypeOK
    <3>2. /\ sent'[k] = {Aged(e) : e \in {d \in sent[k] : d[1] + 1 \in Ages(k)}}
          /\ passed'[k] = {Aged(e) : e \in {d \in passed[k] : d[1] + 1 \in Ages(k)}}
          /\ passed[k] \subseteq sent[k]
      BY <1>2, TickEffect DEF TypeOK
    <3> QED
      BY <3>1, <3>2
  <2>3. {sent', passed'} \subseteq [Keys -> SUBSET (Nat \X (1..MaxBurst))]
    <3>1. sent' = [k \in Keys |-> sent'[k]] /\ passed' = [k \in Keys |-> passed'[k]]
      BY <1>2 DEF Tick, Older
    <3>2. \A k \in Keys : sent'[k] \in SUBSET (Nat \X (1..MaxBurst))
                          /\ passed'[k] \in SUBSET (Nat \X (1..MaxBurst))
      BY <2>2
    <3> QED
      BY <3>1, <3>2
  <2>4. ASSUME NEW k \in Keys
        PROVE  counter'[k].ttl <= WindowOf(k) /\ (counter'[k].ttl = 0 <=> counter'[k].hits = 0)
    <3>1. counter[k] \in [hits : Nat, ttl : Nat] /\ counter[k].ttl <= WindowOf(k)
          /\ (counter[k].ttl = 0 <=> counter[k].hits = 0) /\ WindowOf(k) \in Nat
      BY Limits DEF TypeOK
    <3>2. /\ counter[k].ttl <= 1 => counter'[k].hits = 0 /\ counter'[k].ttl = 0
          /\ counter[k].ttl > 1 => /\ counter'[k].hits = counter[k].hits
                                   /\ counter'[k].ttl = counter[k].ttl - 1
      BY <1>2, TickEffect
    <3> QED
      BY <3>1, <3>2
  <2> QED
    BY <1>2, <2>1, <2>2, <2>3, <2>4 DEF Tick, TypeOK
<1>3. ASSUME NEW r \in Routes, NEW c \in Clients, Unauthorized(r, c) \/ StoreError(r, c)
      PROVE  TypeOK'
  BY <1>3, OnlyAnswered DEF TypeOK
<1>4. CASE UNCHANGED vars
  BY <1>4 DEF vars, TypeOK
<1> QED
  BY <1>1, <1>2, <1>3, <1>4 DEF Next

\* Counters, histories and answers keep their types; a counter has hits while
\* its window runs, and only then.
THEOREM TypeCorrect == Spec => []TypeOK
  BY InitType, TypeStep, PTL DEF Spec

-----------------------------------------------------------------------------
(* The window of the counter starts with a request, the stretch of the     *)
(* property ends now: they overlap in part.  So the invariant splits what  *)
(* was let through at the request that opened the counter's window: what   *)
(* came with it or later is covered by the hits, what came before is what  *)
(* the end of the previous window left of less than a limit.  A request of *)
(* the opening tick may belong to either side; the strict bound on the     *)
(* younger ones is what the next window inherits.                          *)

\* How long ago the counter's window was opened.
Opened(k) == WindowOf(k) - counter[k].ttl

Before(k) == {e \in passed[k] : e[1] > Opened(k)}
Within(k) == {e \in passed[k] : e[1] <= Opened(k)}
Since(k) == {e \in passed[k] : e[1] < Opened(k)}
SentWithin(k) == {e \in sent[k] : e[1] <= Opened(k)}

\* No window: the last one left less than a limit, and nothing of this tick.
Closed(k) ==
    counter[k].ttl = 0 =>
        Cardinality(passed[k]) < LimitOf(k) /\ \A e \in passed[k] : e[1] # 0

Open(k) ==
    counter[k].ttl # 0 =>
        /\ Cardinality(Since(k)) < counter[k].hits /\ Cardinality(Since(k)) < LimitOf(k)
        /\ Cardinality(Within(k)) <= counter[k].hits
        /\ Cardinality(Within(k)) <= LimitOf(k)
        /\ Cardinality(Before(k)) < LimitOf(k)
        /\ resends = 0 => counter[k].hits <= Cardinality(SentWithin(k))

WindowInv == \A k \in Keys : Closed(k) /\ Open(k)

\* The parts are finite.
LEMMA FiniteParts ==
    ASSUME TypeOK, NEW k \in Keys
    PROVE  /\ IsFiniteSet(Before(k)) /\ IsFiniteSet(Within(k))
           /\ IsFiniteSet(Since(k)) /\ IsFiniteSet(SentWithin(k))
           /\ Cardinality(Before(k)) \in Nat /\ Cardinality(Within(k)) \in Nat
           /\ Cardinality(Since(k)) \in Nat /\ Cardinality(SentWithin(k)) \in Nat
           /\ Cardinality(passed[k]) \in Nat /\ Cardinality(sent[k]) \in Nat
<1>1. IsFiniteSet(sent[k]) /\ IsFiniteSet(passed[k])
  BY FinitePast
<1>2. /\ Before(k) \in SUBSET passed[k] /\ Within(k) \in SUBSET passed[k]
      /\ Since(k) \in SUBSET passed[k] /\ SentWithin(k) \in SUBSET sent[k]
  BY DEF Before, Within, Since, SentWithin
<1>3. /\ IsFiniteSet(Before(k)) /\ IsFiniteSet(Within(k))
      /\ IsFiniteSet(Since(k)) /\ IsFiniteSet(SentWithin(k))
  BY <1>1, <1>2, FS_Subset
<1> QED
  BY <1>1, <1>3, FS_CardinalityType

\* A set with at most one element more.
LEMMA OneMore ==
    ASSUME NEW S, IsFiniteSet(S), NEW x, NEW T, T \subseteq S \cup {x}
    PROVE  IsFiniteSet(T) /\ Cardinality(T) \in Nat /\ Cardinality(T) <= Cardinality(S) + 1
<1>1. IsFiniteSet(S \cup {x}) /\ Cardinality(S) \in Nat /\ Cardinality(S \cup {x}) \in Nat
      /\ Cardinality(S \cup {x}) <= Cardinality(S) + 1
  BY FS_AddElement, FS_CardinalityType
<1>2. IsFiniteSet(T) /\ Cardinality(T) <= Cardinality(S \cup {x})
  BY <1>1, FS_Subset
<1>3. Cardinality(T) \in Nat
  BY <1>2, FS_CardinalityType
<1> QED
  BY <1>1, <1>2, <1>3

\* Requests that age, all or some of them.
LEMMA AgedSubset ==
    ASSUME NEW S, IsFiniteSet(S),
           \A e \in S : e[1] \in Nat /\ e[2] \in Nat /\ e = <<e[1], e[2]>>,
           NEW T, T \subseteq {Aged(e) : e \in S}
    PROVE  IsFiniteSet(T) /\ Cardinality(T) \in Nat /\ Cardinality(T) <= Cardinality(S)
<1> DEFINE A == {Aged(e) : e \in S}
<1>1. IsFiniteSet(A) /\ Cardinality(A) = Cardinality(S)
  BY AgedCount
<1>2. T \in SUBSET A
  OBVIOUS
<1> HIDE DEF A
<1> QED
  BY <1>1, <1>2, FS_Subset, FS_CardinalityType

\* A request keeps the bounds of its key.
LEMMA RequestStep ==
    ASSUME TypeOK, TypeOK', NEW r \in Routes, NEW c \in Clients, Request(r, c),
           NEW k \in Keys, k = Key(r, c), Closed(k), Open(k)
    PROVE  Closed(k)' /\ Open(k)'
<1> HIDE DEF LimitOf, WindowOf, Keys
<1>1. /\ counter[k] \in [hits : Nat, ttl : Nat] /\ counter[k].ttl <= WindowOf(k)
      /\ (counter[k].ttl = 0 <=> counter[k].hits = 0)
      /\ WindowOf(k) \in Nat \ {0} /\ LimitOf(k) \in Nat \ {0}
  BY Limits DEF TypeOK
<1>2. /\ counter'[k] \in [hits : Nat, ttl : Nat]
      /\ counter'[k].ttl = IF counter[k].ttl = 0 THEN WindowOf(k) ELSE counter[k].ttl
      /\ counter'[k].hits \in {counter[k].hits + 1, counter[k].hits + 2}
      /\ resends' = 0 => resends = 0 /\ counter'[k].hits = counter[k].hits + 1
  BY RequestEffect
<1>3. PICK new \in Nat \X Nat :
        /\ new[1] = 0 /\ new \notin sent[k] /\ sent'[k] = sent[k] \cup {new}
        /\ \/ counter'[k].hits > LimitOf(k) /\ passed'[k] = passed[k]
           \/ counter'[k].hits <= LimitOf(k) /\ passed'[k] = passed[k] \cup {new}
  <2>1. PICK nr \in 1..MaxBurst :
          /\ <<0, nr>> \notin sent[k]
          /\ sent' = [sent EXCEPT ![k] = @ \cup {<<0, nr>>}]
          /\ \/ counter'[k].hits > LimitOf(k) /\ passed' = passed
             \/ counter'[k].hits <= LimitOf(k)
                /\ passed' = [passed EXCEPT ![k] = @ \cup {<<0, nr>>}]
    BY RequestEffect
  <2>2. <<0, nr>> \in Nat \X Nat /\ <<0, nr>>[1] = 0 /\ sent'[k] = sent[k] \cup {<<0, nr>>}
    BY <2>1, BoundsAssumption DEF TypeOK
  <2>3. \/ counter'[k].hits > LimitOf(k) /\ passed'[k] = passed[k]
        \/ counter'[k].hits <= LimitOf(k) /\ passed'[k] = passed[k] \cup {<<0, nr>>}
    BY <2>1 DEF TypeOK
  <2> QED
    BY <2>1, <2>2, <2>3
<1>4. counter'[k].ttl # 0
  BY <1>1, <1>2
<1>5. /\ IsFiniteSet(passed[k]) /\ IsFiniteSet(sent[k])
      /\ \A e \in sent[k] : e[1] \in Nat
      /\ passed[k] \subseteq sent[k]
  BY FinitePast
<1>6. CASE counter[k].ttl = 0
  <2>1. Opened(k)' = 0
    BY <1>1, <1>2, <1>6 DEF Opened, WindowOf
  <2>2. Since(k)' = {}
    BY <1>3, <1>5, <2>1 DEF Since
  <2>3. Within(k)' \subseteq {new} /\ (passed'[k] = passed[k] => Within(k)' = {})
    BY <1>3, <1>5, <1>6, <2>1 DEF Within, Closed
  <2>4. Before(k)' \subseteq passed[k]
    BY <1>3, <2>1 DEF Before
  <2>5. new \in SentWithin(k)'
    BY <1>3, <2>1 DEF SentWithin
  <2>6. Cardinality(Since(k)') = 0
    BY <2>2, FS_EmptySet
  <2>7. Cardinality(Within(k)') \in Nat /\ Cardinality(Within(k)') <= 1
    <3>1. Within(k)' \subseteq {} \cup {new}
      BY <2>3
    <3> QED
      BY <3>1, OneMore, FS_EmptySet
  <2>8. Cardinality(Before(k)') \in Nat /\ Cardinality(Before(k)') < LimitOf(k)
    <3>1. IsFiniteSet(Before(k)') /\ Cardinality(Before(k)') <= Cardinality(passed[k])
      BY <1>5, <2>4, FS_Subset
    <3>2. Cardinality(Before(k)') \in Nat /\ Cardinality(passed[k]) \in Nat
      BY <1>5, <3>1, FS_CardinalityType
    <3> QED
      BY <1>1, <1>6, <3>1, <3>2 DEF Closed
  <2>9. Cardinality(SentWithin(k)') \in Nat /\ 1 <= Cardinality(SentWithin(k)')
    <3>1. IsFiniteSet(SentWithin(k)') /\ Cardinality(SentWithin(k)') \in Nat
      BY <1>3, <1>5, OneMore DEF SentWithin
    <3>2. Cardinality(SentWithin(k)') # 0
      BY <2>5, <3>1, FS_EmptySet
    <3> QED
      BY <3>1, <3>2
  <2>10. counter'[k].hits \in {1, 2} /\ (resends' = 0 => counter'[k].hits = 1)
    BY <1>1, <1>2, <1>6
  <2> QED
    BY <1>1, <1>4, <2>6, <2>7, <2>8, <2>9, <2>10 DEF Closed, Open
<1>7. CASE counter[k].ttl # 0
  <2>1. Opened(k)' = Opened(k) /\ Opened(k) \in Nat
    BY <1>1, <1>2, <1>7 DEF Opened, WindowOf
  <2>2. counter'[k].hits >= counter[k].hits + 1
    BY <1>1, <1>2
  <2>3. IsFiniteSet(Since(k)) /\ IsFiniteSet(Within(k)) /\ IsFiniteSet(SentWithin(k))
        /\ Cardinality(Since(k)) \in Nat /\ Cardinality(Within(k)) \in Nat
        /\ Cardinality(SentWithin(k)) \in Nat
    BY FiniteParts
  <2>4. Since(k)' \subseteq Since(k) \cup {new} /\ Within(k)' \subseteq Within(k) \cup {new}
        /\ Before(k)' = Before(k) /\ SentWithin(k)' = SentWithin(k) \cup {new}
        /\ new \notin SentWithin(k)
    BY <1>3, <2>1 DEF Since, Within, Before, SentWithin
  <2>5. passed'[k] = passed[k] => Since(k)' = Since(k) /\ Within(k)' = Within(k)
    BY <2>1 DEF Since, Within
  <2>6. /\ Cardinality(Since(k)') \in Nat /\ Cardinality(Within(k)') \in Nat
        /\ Cardinality(Since(k)') <= Cardinality(Since(k)) + 1
        /\ Cardinality(Within(k)') <= Cardinality(Within(k)) + 1
    BY <2>3, <2>4, OneMore
  <2>7. Cardinality(SentWithin(k)') = Cardinality(SentWithin(k)) + 1
    BY <2>3, <2>4, FS_AddElement
  <2>8. CASE counter'[k].hits > LimitOf(k) /\ passed'[k] = passed[k]
    BY <1>1, <1>2, <1>4, <1>7, <2>2, <2>3, <2>4, <2>5, <2>7, <2>8 DEF Closed, Open
  <2>9. CASE counter'[k].hits <= LimitOf(k)
    BY <1>1, <1>2, <1>4, <1>7, <2>2, <2>3, <2>4, <2>6, <2>7, <2>9 DEF Closed, Open
  <2> QED
    BY <1>3, <2>8, <2>9
<1> QED
  BY <1>6, <1>7

\* A tick keeps the bounds of every key: the window closes with what was let
\* through after the tick that opened it.
LEMMA TickStep ==
    ASSUME TypeOK, TypeOK', Tick, NEW k \in Keys, Closed(k), Open(k)
    PROVE  Closed(k)' /\ Open(k)'
<1> HIDE DEF LimitOf, WindowOf, Keys
<1>1. /\ counter[k] \in [hits : Nat, ttl : Nat] /\ counter[k].ttl <= WindowOf(k)
      /\ WindowOf(k) \in Nat \ {0} /\ LimitOf(k) \in Nat \ {0}
  BY Limits DEF TypeOK
<1>2. /\ counter[k].ttl <= 1 => counter'[k].hits = 0 /\ counter'[k].ttl = 0
      /\ counter[k].ttl > 1 => /\ counter'[k].hits = counter[k].hits
                               /\ counter'[k].ttl = counter[k].ttl - 1
      /\ resends' = resends
  BY TickEffect
<1>3. /\ sent'[k] = {Aged(e) : e \in {d \in sent[k] : d[1] + 1 \in Ages(k)}}
      /\ passed'[k] = {Aged(e) : e \in {d \in passed[k] : d[1] + 1 \in Ages(k)}}
  BY TickEffect
<1>4. /\ \A e \in sent[k] : e[1] \in Nat /\ e[2] \in Nat /\ e = <<e[1], e[2]>>
      /\ passed[k] \subseteq sent[k] /\ IsFiniteSet(passed[k])
  BY FinitePast
<1>5. \A e \in sent[k] : Aged(e)[1] = e[1] + 1
  BY DEF Aged
<1>6. CASE counter[k].ttl = 0
  <2>1. passed'[k] \subseteq {Aged(e) : e \in passed[k]}
    BY <1>3
  <2>2. Cardinality(passed'[k]) \in Nat /\ Cardinality(passed'[k]) <= Cardinality(passed[k])
    BY <1>4, <2>1, AgedSubset
  <2>3. Cardinality(passed[k]) \in Nat
    BY FiniteParts
  <2>4. \A e \in passed'[k] : e[1] # 0
    BY <1>3, <1>4, <1>5
  <2> QED
    BY <1>1, <1>2, <1>6, <2>2, <2>3, <2>4 DEF Closed, Open
<1>7. CASE counter[k].ttl = 1
  <2>1. Opened(k) = WindowOf(k) - 1
    BY <1>7 DEF Opened
  <2>2. passed'[k] \subseteq {Aged(e) : e \in Since(k)}
    BY <1>1, <1>3, <1>4, <2>1 DEF Since, Ages
  <2>3. IsFiniteSet(Since(k)) /\ Cardinality(Since(k)) \in Nat
        /\ \A e \in Since(k) : e[1] \in Nat /\ e[2] \in Nat /\ e = <<e[1], e[2]>>
    BY <1>4, FiniteParts DEF Since
  <2>4. Cardinality(passed'[k]) \in Nat /\ Cardinality(passed'[k]) <= Cardinality(Since(k))
    BY <2>2, <2>3, AgedSubset
  <2>5. \A e \in passed'[k] : e[1] # 0
    BY <1>3, <1>4, <1>5
  <2> QED
    BY <1>1, <1>2, <1>7, <2>3, <2>4, <2>5 DEF Closed, Open
<1>8. CASE counter[k].ttl > 1
  <2>1. Opened(k)' = Opened(k) + 1 /\ Opened(k) \in Nat /\ Opened(k) + 1 \in Ages(k)
    BY <1>1, <1>2, <1>8 DEF Opened, WindowOf, Ages
  <2>2. /\ Since(k)' \subseteq {Aged(e) : e \in Since(k)}
        /\ Within(k)' \subseteq {Aged(e) : e \in Within(k)}
        /\ Before(k)' \subseteq {Aged(e) : e \in Before(k)}
    BY <1>3, <1>4, <1>5, <2>1 DEF Since, Within, Before
  <2>3. {Aged(e) : e \in SentWithin(k)} \subseteq SentWithin(k)'
    BY <1>1, <1>3, <1>4, <1>5, <2>1 DEF SentWithin, Ages
  <2>4. /\ Since(k) \subseteq sent[k] /\ Within(k) \subseteq sent[k]
        /\ Before(k) \subseteq sent[k] /\ SentWithin(k) \subseteq sent[k]
    BY <1>4 DEF Since, Within, Before, SentWithin
  <2>5. /\ IsFiniteSet(Before(k)) /\ IsFiniteSet(Within(k))
        /\ IsFiniteSet(Since(k)) /\ IsFiniteSet(SentWithin(k))
        /\ Cardinality(Before(k)) \in Nat /\ Cardinality(Within(k)) \in Nat
        /\ Cardinality(Since(k)) \in Nat /\ Cardinality(SentWithin(k)) \in Nat
    BY FiniteParts
  <2>6. /\ Cardinality(Since(k)') \in Nat
        /\ Cardinality(Since(k)') <= Cardinality(Since(k))
    BY <1>4, <2>2, <2>4, <2>5, AgedSubset
  <2>7. /\ Cardinality(Within(k)') \in Nat
        /\ Cardinality(Within(k)') <= Cardinality(Within(k))
    BY <1>4, <2>2, <2>4, <2>5, AgedSubset
  <2>8. /\ Cardinality(Before(k)') \in Nat
        /\ Cardinality(Before(k)') <= Cardinality(Before(k))
    BY <1>4, <2>2, <2>4, <2>5, AgedSubset
  <2>9. Cardinality(SentWithin(k)') \in Nat
        /\ Cardinality(SentWithin(k)) <= Cardinality(SentWithin(k)')
    <3>1. Cardinality({Aged(e) : e \in SentWithin(k)}) = Cardinality(SentWithin(k))
      BY <1>4, <2>4, <2>5, AgedCount
    <3>2. IsFiniteSet(sent[k]) /\ sent'[k] \subseteq {Aged(e) : e \in sent[k]}
      BY <1>3, FinitePast
    <3>3. SentWithin(k)' \subseteq {Aged(e) : e \in sent[k]}
      BY <3>2 DEF SentWithin
    <3>4. IsFiniteSet(SentWithin(k)') /\ Cardinality(SentWithin(k)') \in Nat
      BY <1>4, <3>2, <3>3, AgedSubset
    <3> QED
      BY <2>3, <3>1, <3>4, FS_Subset
  <2> QED
    BY <1>1, <1>2, <1>8, <2>5, <2>6, <2>7, <2>8, <2>9 DEF Closed, Open
<1> QED
  BY <1>1, <1>6, <1>7, <1>8

\* What leaves a key alone keeps its bounds; resends are only ever counted up.
LEMMA OtherKeys ==
    ASSUME NEW k \in Keys, counter'[k] = counter[k], sent'[k] = sent[k],
           passed'[k] = passed[k], resends' = 0 => resends = 0, Closed(k), Open(k)
    PROVE  Closed(k)' /\ Open(k)'
<1>1. /\ Since(k)' = Since(k) /\ Within(k)' = Within(k) /\ Before(k)' = Before(k)
      /\ SentWithin(k)' = SentWithin(k)
  BY DEF Since, Within, Before, SentWithin, Opened
<1> QED
  BY <1>1 DEF Closed, Open

LEMMA WindowStep == ASSUME TypeOK, TypeOK', WindowInv, [Next]_vars PROVE WindowInv'
<1> SUFFICES ASSUME NEW k \in Keys PROVE Closed(k)' /\ Open(k)'
  BY DEF WindowInv
<1>1. Closed(k) /\ Open(k)
  BY DEF WindowInv
<1>2. ASSUME NEW r \in Routes, NEW c \in Clients, Request(r, c) PROVE Closed(k)' /\ Open(k)'
  <2>1. CASE k = Key(r, c)
    BY <1>1, <1>2, <2>1, RequestStep
  <2>2. CASE k # Key(r, c)
    <3>1. PICK j \in Keys : j = Key(r, c)
      BY KeyIsKey
    <3>2. /\ counter' = [counter EXCEPT ![j] = counter'[j]]
          /\ resends' = 0 => resends = 0
      BY <1>2, <3>1, RequestEffect
    <3>3. PICK nr \in 1..MaxBurst :
            /\ <<0, nr>> \notin sent[j]
            /\ sent' = [sent EXCEPT ![j] = @ \cup {<<0, nr>>}]
            /\ \/ counter'[j].hits > LimitOf(j) /\ passed' = passed
               \/ counter'[j].hits <= LimitOf(j)
                  /\ passed' = [passed EXCEPT ![j] = @ \cup {<<0, nr>>}]
      <4> HIDE DEF LimitOf
      <4> QED
        BY <1>2, <3>1, RequestEffect
    <3>4. counter'[k] = counter[k] /\ sent'[k] = sent[k] /\ passed'[k] = passed[k]
      BY <2>2, <3>1, <3>2, <3>3 DEF TypeOK
    <3> QED
      BY <1>1, <3>2, <3>4, OtherKeys
  <2> QED
    BY <2>1, <2>2
<1>3. ASSUME Tick PROVE Closed(k)' /\ Open(k)'
  BY <1>1, <1>3, TickStep
<1>4. ASSUME NEW r \in Routes, NEW c \in Clients, Unauthorized(r, c) \/ StoreError(r, c)
      PROVE  Closed(k)' /\ Open(k)'
  BY <1>1, <1>4, OnlyAnswered, OtherKeys
<1>5. CASE UNCHANGED vars
  BY <1>1, <1>5, OtherKeys DEF vars
<1> QED
  BY <1>2, <1>3, <1>4, <1>5 DEF Next

LEMMA InitWindow == ASSUME Init PROVE WindowInv
<1> SUFFICES ASSUME NEW k \in Keys PROVE Closed(k) /\ Open(k)
  BY DEF WindowInv
<1>1. counter[k].ttl = 0 /\ passed[k] = {} /\ LimitOf(k) \in Nat \ {0}
  BY Limits DEF Init, NoHits, NothingYet
<1> QED
  BY <1>1, FS_EmptySet DEF Closed, Open

LEMMA WindowInvariant == Spec => [](TypeOK /\ WindowInv)
  BY InitType, InitWindow, TypeStep, WindowStep, PTL DEF Spec

\* In any stretch as long as a window, a limiter lets less than twice its limit
\* of a client's requests through.
THEOREM LessThanTwice == Spec => []BurstBounded
<1>1. ASSUME TypeOK, WindowInv PROVE BurstBounded
  <2> SUFFICES ASSUME NEW k \in Keys PROVE Cardinality(passed[k]) < 2 * LimitOf(k)
    BY <1>1 DEF BurstBounded, Lately
  <2> HIDE DEF LimitOf, WindowOf, Keys
  <2>1. Closed(k) /\ Open(k)
    BY <1>1 DEF WindowInv
  <2>2. LimitOf(k) \in Nat \ {0} /\ WindowOf(k) \in Nat \ {0} /\ counter[k].ttl \in Nat
    BY <1>1, Limits DEF TypeOK
  <2>3. /\ IsFiniteSet(Before(k)) /\ IsFiniteSet(Within(k))
        /\ Cardinality(Before(k)) \in Nat /\ Cardinality(Within(k)) \in Nat
        /\ Cardinality(passed[k]) \in Nat
    BY <1>1, FiniteParts
  <2>4. \A e \in passed[k] : e[1] \in Nat
    BY <1>1, FinitePast
  <2>5. passed[k] = Before(k) \cup Within(k) /\ Before(k) \cap Within(k) = {}
    BY <2>2, <2>4 DEF Before, Within, Opened
  <2>6. Cardinality(passed[k]) = Cardinality(Before(k)) + Cardinality(Within(k))
    <3>1. Cardinality(Before(k) \cup Within(k)) =
            Cardinality(Before(k)) + Cardinality(Within(k))
              - Cardinality(Before(k) \cap Within(k))
      BY <2>3, FS_Union
    <3>2. Cardinality(Before(k) \cap Within(k)) = 0
      BY <2>5, FS_EmptySet
    <3> QED
      BY <2>3, <2>5, <3>1, <3>2
  <2> QED
    BY <2>1, <2>2, <2>3, <2>6 DEF Closed, Open
<1> QED
  BY <1>1, WindowInvariant, PTL

\* A request is refused only to a client that sent more than the limit in the
\* last window, unless Redis was sent a command twice.
THEOREM PoliteClientsPass == Spec => PoliteNeverRefused
<1>1. ASSUME TypeOK, TypeOK', WindowInv, WindowInv', [Next]_vars,
             NEW k \in Keys, NEW i \in 1..MaxBurst, <<0, i>> \in sent'[k] \ sent[k],
             passed'[k] = passed[k], resends' = 0
      PROVE  Cardinality(sent'[k]) > LimitOf(k)
  <2> HIDE DEF LimitOf, WindowOf, Keys
  <2>1. LimitOf(k) \in Nat \ {0} /\ WindowOf(k) \in Nat \ {0}
        /\ counter'[k] \in [hits : Nat, ttl : Nat]
    BY <1>1, Limits DEF TypeOK
  <2>2. PICK r \in Routes, c \in Clients : Request(r, c) /\ k = Key(r, c)
    <3>1. ASSUME Tick PROVE FALSE
      <4>1. sent'[k] = {Aged(e) : e \in {d \in sent[k] : d[1] + 1 \in Ages(k)}}
        BY <1>1, <3>1, TickEffect
      <4>2. PICK e \in sent[k] : <<0, i>> = Aged(e)
        BY <1>1, <4>1
      <4>3. e[1] \in Nat
        BY <1>1, FinitePast
      <4> QED
        BY <4>2, <4>3 DEF Aged
    <3>2. ASSUME NEW r \in Routes, NEW c \in Clients, Request(r, c), k # Key(r, c)
          PROVE  FALSE
      <4>1. PICK j \in Keys : j = Key(r, c)
        BY KeyIsKey
      <4>2. PICK nr \in 1..MaxBurst :
              /\ <<0, nr>> \notin sent[j]
              /\ sent' = [sent EXCEPT ![j] = @ \cup {<<0, nr>>}]
              /\ \/ counter'[j].hits > LimitOf(j) /\ passed' = passed
                 \/ counter'[j].hits <= LimitOf(j)
                    /\ passed' = [passed EXCEPT ![j] = @ \cup {<<0, nr>>}]
        BY <1>1, <3>2, <4>1, RequestEffect
      <4>3. sent'[k] = sent[k]
        BY <1>1, <3>2, <4>1, <4>2 DEF TypeOK
      <4> QED
        BY <1>1, <4>3
    <3>3. ASSUME NEW r \in Routes, NEW c \in Clients, Unauthorized(r, c) \/ StoreError(r, c)
          PROVE  sent' = sent
      BY <3>3, OnlyAnswered
    <3>4. UNCHANGED vars => sent' = sent
      BY DEF vars
    <3> QED
      BY <1>1, <3>1, <3>2, <3>3, <3>4 DEF Next
  <2>3. PICK nr \in 1..MaxBurst :
          /\ <<0, nr>> \notin sent[k]
          /\ sent' = [sent EXCEPT ![k] = @ \cup {<<0, nr>>}]
          /\ \/ counter'[k].hits > LimitOf(k) /\ passed' = passed
             \/ counter'[k].hits <= LimitOf(k)
                /\ passed' = [passed EXCEPT ![k] = @ \cup {<<0, nr>>}]
    BY <1>1, <2>2, RequestEffect
  <2>4. counter'[k].hits > LimitOf(k)
    BY <1>1, <2>3 DEF TypeOK
  <2>5. counter'[k].ttl # 0
    BY <1>1, <2>1, <2>4 DEF TypeOK
  <2>6. counter'[k].hits <= Cardinality(SentWithin(k)')
    BY <1>1, <2>5 DEF WindowInv, Open
  <2>7. IsFiniteSet(sent'[k])
    BY <1>1, <2>3, FinitePast, FS_AddElement DEF TypeOK
  <2>8. IsFiniteSet(SentWithin(k)') /\ Cardinality(SentWithin(k)') <= Cardinality(sent'[k])
    <3>1. SentWithin(k)' \in SUBSET sent'[k]
      BY DEF SentWithin
    <3> QED
      BY <2>7, <3>1, FS_Subset
  <2>9. Cardinality(SentWithin(k)') \in Nat /\ Cardinality(sent'[k]) \in Nat
    BY <2>7, <2>8, FS_CardinalityType
  <2> QED
    BY <2>1, <2>4, <2>6, <2>8, <2>9
<1>2. TypeOK /\ TypeOK' /\ WindowInv /\ WindowInv' /\ [Next]_vars =>
        [\A k \in Keys :
          /\ \E nr \in 1..MaxBurst : <<0, nr>> \in sent'[k] \ sent[k]
          /\ passed'[k] = passed[k] /\ resends' = 0
          => Lately(sent', k) > LimitOf(k)]_vars
  BY <1>1 DEF Lately
<1> QED
  BY <1>2, WindowInvariant, PTL DEF Spec, PoliteNeverRefused
=============================================================================
