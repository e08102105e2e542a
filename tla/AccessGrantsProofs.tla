------------------------- MODULE AccessGrantsProofs -------------------------
(***************************************************************************)
(* Proofs about AccessGrants, for any sessions, filenames, lifetimes and   *)
(* waits, and any number of restarts of Redis: what a session was granted  *)
(* runs out once it is over, a session that is over stays over, and files  *)
(* of different names never share an object, whatever the names are.       *)
(***************************************************************************)
EXTENDS AccessGrants, WellFoundedInduction, SequenceTheorems, TLAPS

USE TtlAssumption, BoundsAssumption

-----------------------------------------------------------------------------
(* Type correctness.                                                       *)

LEMMA LongestNat == Longest \in Nat /\ Longest >= AccessTtl
  BY DEF Longest

LEMMA AgedType ==
    ASSUME NEW n \in Nat, NEW lefts \in SUBSET (1..n)
    PROVE  Aged(lefts) \in SUBSET (1..n)
  BY DEF Aged

LEMMA IssueType ==
    ASSUME TypeOK, NEW s \in Sessions, NEW stay \in SUBSET (1..RefreshTtl),
           Issue(s, stay)
    PROVE  /\ refresh' \in [Sessions -> SUBSET (1..RefreshTtl)]
           /\ access' \in [Sessions -> SUBSET (1..AccessTtl)]
  BY DEF Issue, TypeOK

LEMMA InitType == Init => TypeOK
  BY LongestNat DEF Init, TypeOK

LEMMA AgeType ==
    ASSUME TypeOK, Age
    PROVE  /\ refresh' \in [Sessions -> SUBSET (1..RefreshTtl)]
           /\ access' \in [Sessions -> SUBSET (1..AccessTtl)]
           /\ waiting' \in SUBSET [by : Sessions, file : Files, waited : 0..MaxWait]
           /\ urls' \in SUBSET [by : Sessions, file : Files, left : 1..UrlTtl]
           /\ life' \in [Sessions -> {"new", "live", "over"}]
           /\ since' \in [Sessions -> 0..Longest]
           /\ UNCHANGED <<objects, restarts>>
<1>1. refresh' \in [Sessions -> SUBSET (1..RefreshTtl)]
  BY AgedType DEF Age, TypeOK
<1>2. access' \in [Sessions -> SUBSET (1..AccessTtl)]
  BY AgedType DEF Age, TypeOK
<1>3. waiting' \in SUBSET [by : Sessions, file : Files, waited : 0..MaxWait]
  <2>1. \A w \in waiting : w.waited + 1 \in 0..MaxWait
    BY DEF Age, TypeOK
  <2>2. \A w \in waiting : [w EXCEPT !.waited = @ + 1]
                             \in [by : Sessions, file : Files, waited : 0..MaxWait]
    BY <2>1 DEF TypeOK
  <2> QED
    BY <2>2 DEF Age
<1>4. urls' \in SUBSET [by : Sessions, file : Files, left : 1..UrlTtl]
  <2>1. \A u \in urls : u.left > 1 => u.left - 1 \in 1..UrlTtl
    BY DEF TypeOK
  <2>2. \A u \in urls : u.left > 1 =>
          [u EXCEPT !.left = @ - 1] \in [by : Sessions, file : Files, left : 1..UrlTtl]
    BY <2>1 DEF TypeOK
  <2> QED
    BY <2>2 DEF Age
<1>5. life' \in [Sessions -> {"new", "live", "over"}]
  BY DEF Age, TypeOK
<1>6. since' \in [Sessions -> 0..Longest]
  <2>1. \A s \in Sessions : Older(s) \in 0..Longest
    BY LongestNat DEF Older, TypeOK
  <2> QED
    BY <2>1, LongestNat DEF Age
<1> QED
  BY <1>1, <1>2, <1>3, <1>4, <1>5, <1>6 DEF Age

LEMMA TypeStep == TypeOK /\ [Next]_vars => TypeOK'
<1> SUFFICES ASSUME TypeOK, [Next]_vars PROVE TypeOK'
  OBVIOUS
<1>1. ASSUME NEW s \in Sessions, Login(s) PROVE TypeOK'
  BY <1>1, IssueType DEF Login, TypeOK
<1>2. ASSUME NEW s \in Sessions, Refresh(s) PROVE TypeOK'
  <2>1. PICK t \in refresh[s] : Issue(s, refresh[s] \ {t})
    BY <1>2 DEF Refresh
  <2>2. refresh[s] \ {t} \in SUBSET (1..RefreshTtl)
    BY DEF TypeOK
  <2> QED
    BY <1>2, <2>1, <2>2, IssueType DEF Refresh, TypeOK
<1>3. ASSUME NEW s \in Sessions, Logout(s) PROVE TypeOK'
  BY <1>3, LongestNat DEF Logout, TypeOK
<1>4. ASSUME NEW s \in Sessions, NEW f \in Files, Ask(s, f) PROVE TypeOK'
  BY <1>4 DEF Ask, TypeOK
<1>5. ASSUME NEW w \in waiting, Sign(w) PROVE TypeOK'
  BY <1>5 DEF Sign, TypeOK
<1>6. ASSUME NEW w \in waiting, Refuse(w) PROVE TypeOK'
  BY <1>6 DEF Refuse, TypeOK
<1>7. ASSUME NEW u \in urls, Put(u) PROVE TypeOK'
  <2>1. [by |-> u.by, file |-> u.file] \in Grant
    BY DEF TypeOK, Grant
  <2>2. objects' \in [Keys -> Grant \cup {Nothing}]
    BY <1>7, <2>1 DEF Put, TypeOK
  <2> QED
    BY <1>7, <2>2 DEF Put, TypeOK
<1>8. ASSUME Tick PROVE TypeOK'
  BY <1>8, AgeType DEF Tick, TypeOK
<1>9. ASSUME RedisRestart PROVE TypeOK'
  <2>1. /\ life' \in [Sessions -> {"new", "live", "over"}]
        /\ since' \in [Sessions -> 0..Longest]
    BY <1>9, LongestNat DEF RedisRestart, TypeOK
  <2>2. restarts' \in 0..MaxRestarts
    BY <1>9 DEF RedisRestart, TypeOK
  <2> QED
    BY <1>9, <2>1, <2>2 DEF RedisRestart, TypeOK
<1>10. CASE UNCHANGED vars
  BY <1>10 DEF vars, TypeOK
<1> QED
  BY <1>1, <1>2, <1>3, <1>4, <1>5, <1>6, <1>7, <1>8, <1>9, <1>10 DEF Next

\* Every variable keeps its type: no token, request or URL exceeds its lifetime.
THEOREM TypeCorrect == Spec => []TypeOK
  BY InitType, TypeStep, PTL DEF Spec

-----------------------------------------------------------------------------
(* What is left of a session.  AccessEnds says when everything is gone but *)
(* not how far it has come before; Remains counts what is left against the *)
(* time since the end.  EndStored and OneToken are what makes the end      *)
(* final: a logout deletes the one refresh token there is, and Redis has   *)
(* saved that by the next tick.                                            *)

OneToken ==
    \A s \in Sessions :
        /\ \A t1, t2 \in refresh[s] : t1 = t2
        /\ \A t1, t2 \in saved[s] : t1 = t2

EndStored ==
    \A s \in Sessions :
        life[s] = "over" => refresh[s] = {} /\ (since[s] > 0 => saved[s] = {})

Remains ==
    \A s \in Sessions :
        life[s] = "over" =>
            /\ \A t \in access[s] : t + since[s] <= AccessTtl
            /\ \A w \in waiting : w.by = s => since[s] < AccessTtl + w.waited
            /\ \A u \in urls : u.by = s => since[s] + u.left < Longest

EndInv == OneToken /\ EndStored /\ Remains

\* A session that is over from now on has granted nothing that lasts too long.
LEMMA Fresh ==
    ASSUME TypeOK
    PROVE  /\ \A s \in Sessions : \A t \in access[s] : t + 0 <= AccessTtl
           /\ \A w \in waiting : 0 < AccessTtl + w.waited
           /\ \A u \in urls : 0 + u.left < Longest
  BY DEF TypeOK, Longest

\* A step that touches no session's tokens or times keeps what is stored.
LEMMA TokensKept ==
    ASSUME EndInv, UNCHANGED <<refresh, saved, life, since>>
    PROVE  OneToken' /\ EndStored'
  BY DEF EndInv, OneToken, EndStored

\* A new pair for a session that is not over.
LEMMA IssueEnd ==
    ASSUME TypeOK, EndInv, NEW s \in Sessions, life[s] # "over", NEW stay,
           \A t \in stay : FALSE,
           Issue(s, stay), life'[s] = "live",
           \A x \in Sessions \ {s} : life'[x] = life[x],
           UNCHANGED <<saved, waiting, urls, since>>
    PROVE  EndInv'
<1>1. /\ refresh'[s] = {RefreshTtl}
      /\ \A x \in Sessions \ {s} : refresh'[x] = refresh[x] /\ access'[x] = access[x]
  BY DEF Issue, TypeOK
<1>2. OneToken'
  BY <1>1 DEF EndInv, OneToken
<1>3. EndStored'
  BY <1>1 DEF EndInv, EndStored
<1>4. Remains'
  BY <1>1 DEF EndInv, Remains
<1> QED
  BY <1>2, <1>3, <1>4 DEF EndInv

\* A tick takes as much from what is left as it adds to the time since the end.
LEMMA AgeRemains == ASSUME TypeOK, EndInv, Age PROVE Remains'
<1> SUFFICES ASSUME NEW s \in Sessions, life'[s] = "over"
             PROVE  /\ \A t \in access'[s] : t + since'[s] <= AccessTtl
                    /\ \A w \in waiting' : w.by = s => since'[s] < AccessTtl + w.waited
                    /\ \A u \in urls' : u.by = s => since'[s] + u.left < Longest
  BY DEF Remains
<1>1. \A t \in access'[s] : t + 1 \in access[s] /\ t \in Nat
  BY DEF Age, Aged, TypeOK
<1>2. \A w \in waiting' : \E v \in waiting :
        v.by = w.by /\ w.waited = v.waited + 1 /\ v.waited \in Nat
  BY DEF Age, TypeOK
<1>3. \A u \in urls' : \E v \in urls :
        v.by = u.by /\ v.left = u.left + 1 /\ u.left \in Nat
  BY DEF Age, TypeOK
<1>4. CASE life[s] = "over"
  <2>1. since[s] \in Nat /\ since'[s] \in Nat /\ since'[s] <= since[s] + 1
    BY <1>4, LongestNat DEF Age, Older, TypeOK
  <2>2. \A t \in access'[s] : t + since'[s] <= AccessTtl
    BY <1>1, <1>4, <2>1 DEF EndInv, Remains
  <2>3. \A w \in waiting' : w.by = s => since'[s] < AccessTtl + w.waited
    BY <1>2, <1>4, <2>1 DEF EndInv, Remains
  <2>4. \A u \in urls' : u.by = s => since'[s] + u.left < Longest
    BY <1>3, <1>4, <2>1, LongestNat DEF EndInv, Remains
  <2> QED
    BY <2>2, <2>3, <2>4
<1>5. CASE life[s] # "over"
  <2>1. since'[s] = 0
    BY <1>5 DEF Age
  <2>2. \A t \in access'[s] : t + since'[s] <= AccessTtl
    BY <1>1, <2>1, Fresh
  <2>3. \A w \in waiting' : w.by = s => since'[s] < AccessTtl + w.waited
    BY <1>2, <2>1
  <2>4. \A u \in urls' : u.by = s => since'[s] + u.left < Longest
    BY <1>3, <2>1, Fresh, LongestNat
  <2> QED
    BY <2>2, <2>3, <2>4
<1> QED
  BY <1>4, <1>5

LEMMA EndStep == TypeOK /\ EndInv /\ [Next]_vars => EndInv'
<1> SUFFICES ASSUME TypeOK, EndInv, [Next]_vars PROVE EndInv'
  OBVIOUS
<1>1. ASSUME NEW s \in Sessions, Login(s) PROVE EndInv'
  <2>1. /\ life[s] # "over" /\ life'[s] = "live"
        /\ \A x \in Sessions \ {s} : life'[x] = life[x]
    BY <1>1 DEF Login, TypeOK
  <2> QED
    BY <1>1, <2>1, IssueEnd DEF Login
<1>2. ASSUME NEW s \in Sessions, Refresh(s) PROVE EndInv'
  <2>1. PICK t \in refresh[s] : Issue(s, refresh[s] \ {t})
    BY <1>2 DEF Refresh
  <2>2. life[s] # "over" /\ \A x \in refresh[s] \ {t} : FALSE
    BY <2>1 DEF EndInv, EndStored, OneToken
  <2>3. /\ refresh'[s] = {RefreshTtl}
        /\ \A x \in Sessions \ {s} : refresh'[x] = refresh[x] /\ access'[x] = access[x]
    BY <2>1, <2>2 DEF Issue, TypeOK
  <2>4. OneToken' /\ EndStored' /\ Remains'
    BY <1>2, <2>2, <2>3 DEF Refresh, EndInv, OneToken, EndStored, Remains
  <2> QED
    BY <2>4 DEF EndInv
<1>3. ASSUME NEW s \in Sessions, Logout(s) PROVE EndInv'
  <2>1. /\ refresh'[s] = {} /\ life'[s] = "over" /\ since'[s] = 0
        /\ \A x \in Sessions \ {s} : /\ refresh'[x] = refresh[x]
                                     /\ life'[x] = life[x] /\ since'[x] = since[x]
    BY <1>3 DEF Logout, TypeOK, EndInv, OneToken
  <2>2. OneToken' /\ EndStored'
    BY <1>3, <2>1 DEF Logout, EndInv, OneToken, EndStored
  <2>3. Remains'
    BY <1>3, <2>1, Fresh DEF Logout, EndInv, Remains
  <2> QED
    BY <2>2, <2>3 DEF EndInv
<1>4. ASSUME NEW s \in Sessions, NEW f \in Files, Ask(s, f) PROVE EndInv'
  <2>1. life[s] = "over" => since[s] < AccessTtl + 0
    <3>1. PICK t \in access[s] : t \in Nat \ {0}
      BY <1>4 DEF Ask, Verified, TypeOK
    <3> QED
      BY <3>1 DEF EndInv, Remains, TypeOK
  <2>2. Remains'
    BY <1>4, <2>1 DEF Ask, EndInv, Remains
  <2> QED
    BY <1>4, <2>2, TokensKept DEF Ask, EndInv
<1>5. ASSUME NEW w \in waiting, Sign(w) PROVE EndInv'
  <2>1. life[w.by] = "over" => since[w.by] + UrlTtl < Longest
    BY DEF EndInv, Remains, TypeOK, Longest
  <2>2. Remains'
    BY <1>5, <2>1 DEF Sign, EndInv, Remains
  <2> QED
    BY <1>5, <2>2, TokensKept DEF Sign, EndInv
<1>6. ASSUME NEW w \in waiting, Refuse(w) PROVE EndInv'
  BY <1>6, TokensKept DEF Refuse, EndInv, Remains
<1>7. ASSUME NEW u \in urls, Put(u) PROVE EndInv'
  BY <1>7, TokensKept DEF Put, EndInv, Remains
<1>8. ASSUME Tick PROVE EndInv'
  <2>1. /\ Age /\ saved' = refresh'
        /\ \A s \in Sessions : refresh'[s] = Aged(refresh[s])
    BY <1>8 DEF Tick, Age
  <2>2. OneToken'
    BY <2>1 DEF EndInv, OneToken, Aged
  <2>3. EndStored'
    BY <2>1 DEF Age, Ends, EndInv, EndStored, Aged
  <2> QED
    BY <2>1, <2>2, <2>3, AgeRemains DEF EndInv
<1>9. ASSUME RedisRestart PROVE EndInv'
  <2>1. OneToken'
    BY <1>9 DEF RedisRestart, EndInv, OneToken
  <2>2. ASSUME NEW s \in Sessions, life'[s] = "over"
        PROVE  /\ saved[s] = {}
               /\ life[s] # "over" => since'[s] = 0
               /\ life[s] = "over" => since'[s] = since[s]
    BY <1>9, <2>2 DEF RedisRestart
  <2>3. EndStored'
    BY <1>9, <2>2 DEF RedisRestart, EndStored
  <2>4. Remains'
    <3> SUFFICES ASSUME NEW s \in Sessions, life'[s] = "over"
                 PROVE  /\ \A t \in access[s] : t + since'[s] <= AccessTtl
                        /\ \A w \in waiting : w.by = s => since'[s] < AccessTtl + w.waited
                        /\ \A u \in urls : u.by = s => since'[s] + u.left < Longest
      BY <1>9 DEF RedisRestart, Remains
    <3>1. CASE life[s] = "over"
      BY <2>2, <3>1 DEF EndInv, Remains
    <3>2. CASE life[s] # "over"
      BY <2>2, <3>2, Fresh
    <3> QED
      BY <3>1, <3>2
  <2> QED
    BY <2>1, <2>3, <2>4 DEF EndInv
<1>10. CASE UNCHANGED vars
  BY <1>10, TokensKept DEF vars, EndInv, Remains
<1> QED
  BY <1>1, <1>2, <1>3, <1>4, <1>5, <1>6, <1>7, <1>8, <1>9, <1>10 DEF Next

LEMMA InitEnd == Init => EndInv
  BY DEF Init, EndInv, OneToken, EndStored, Remains

LEMMA EndInvariant == Spec => [](TypeOK /\ EndInv)
  BY InitType, TypeStep, InitEnd, EndStep, PTL DEF Spec

\* For any lifetimes and waits: the access tokens of a session that is over end
\* with their lifetime, its URLs with the longest wait and theirs on top.
THEOREM AccessRunsOut == Spec => []AccessEnds
<1>1. TypeOK /\ EndInv => AccessEnds
  <2> SUFFICES ASSUME TypeOK, Remains, NEW s \in Sessions, life[s] = "over"
               PROVE  /\ since[s] >= AccessTtl => access[s] = {}
                      /\ since[s] >= Longest => \A g \in waiting \cup urls : g.by # s
    BY DEF EndInv, AccessEnds
  <2>1. since[s] \in Nat
    BY LongestNat DEF TypeOK
  <2>2. since[s] >= AccessTtl => access[s] = {}
    BY <2>1 DEF TypeOK, Remains
  <2>3. since[s] >= Longest => \A w \in waiting : w.by # s
    BY <2>1 DEF TypeOK, Remains, Longest
  <2>4. since[s] >= Longest => \A u \in urls : u.by # s
    BY <2>1, LongestNat DEF TypeOK, Remains
  <2> QED
    BY <2>2, <2>3, <2>4
<1> QED
  BY <1>1, EndInvariant, PTL

\* However often Redis restarts, a session that was over for a tick gets neither a
\* refresh token nor a new access token.
THEOREM EndsForGood == Spec => EndIsFinal
<1> DEFINE Final == \A s \in Sessions :
                      life[s] = "over" /\ since[s] > 0 =>
                          refresh'[s] = {} /\ AccessTtl \notin access'[s]
<1>1. TypeOK /\ EndInv /\ [Next]_vars => Final
  <2> SUFFICES ASSUME TypeOK, EndInv, [Next]_vars, NEW s \in Sessions,
                      life[s] = "over", since[s] > 0
               PROVE  refresh'[s] = {} /\ AccessTtl \notin access'[s]
    OBVIOUS
  <2>1. refresh[s] = {} /\ saved[s] = {} /\ Aged(refresh[s]) = {}
    BY DEF EndInv, EndStored, Aged
  <2>2. AccessTtl \notin access[s] /\ AccessTtl \notin Aged(access[s])
    <3>1. \A t \in access[s] : t \in Nat /\ t < AccessTtl
      BY DEF EndInv, Remains, TypeOK
    <3> QED
      BY <3>1 DEF Aged
  <2>3. ASSUME NEW x \in Sessions, Login(x) \/ Refresh(x)
        PROVE  refresh'[s] = refresh[s] /\ access'[s] = access[s]
    <3>1. x # s
      BY <2>1, <2>3 DEF Login, Refresh
    <3>2. \E stay : Issue(x, stay)
      BY <2>3 DEF Login, Refresh
    <3> QED
      BY <3>1, <3>2 DEF Issue, TypeOK
  <2>4. ASSUME NEW x \in Sessions, Logout(x)
        PROVE  refresh'[s] = {} /\ access'[s] = access[s]
    BY <2>1, <2>4 DEF Logout, TypeOK
  <2>5. ASSUME NEW x \in Sessions, NEW f \in Files, Ask(x, f)
        PROVE  refresh'[s] = refresh[s] /\ access'[s] = access[s]
    BY <2>5 DEF Ask
  <2>6. ASSUME NEW w \in waiting, Sign(w) \/ Refuse(w)
        PROVE  refresh'[s] = refresh[s] /\ access'[s] = access[s]
    BY <2>6 DEF Sign, Refuse
  <2>7. ASSUME NEW u \in urls, Put(u)
        PROVE  refresh'[s] = refresh[s] /\ access'[s] = access[s]
    BY <2>7 DEF Put
  <2>8. ASSUME Tick
        PROVE  refresh'[s] = Aged(refresh[s]) /\ access'[s] = Aged(access[s])
    BY <2>8 DEF Tick, Age
  <2>9. ASSUME RedisRestart
        PROVE  refresh'[s] = saved[s] /\ access'[s] = access[s]
    BY <2>9 DEF RedisRestart
  <2>10. CASE UNCHANGED vars
    BY <2>1, <2>2, <2>10 DEF vars
  <2> QED
    BY <2>1, <2>2, <2>3, <2>4, <2>5, <2>6, <2>7, <2>8, <2>9, <2>10 DEF Next
<1>2. TypeOK /\ EndInv /\ [Next]_vars => [Final]_vars
  BY <1>1
<1> QED
  BY <1>2, EndInvariant, PTL DEF Spec, EndIsFinal

-----------------------------------------------------------------------------
(* The key tells the name: a name with an extension is followed by a dot   *)
(* and no other, and a name without one has no dot or ends in it.          *)

\* What names are made of.
Char == STRING \cup {"."}

\* There is a last dot: < on the distances from the end is well-founded.
LEMMA LastDot ==
    ASSUME NEW name \in Seq(Char), Dots(name) # {}
    PROVE  /\ Max(Dots(name)) \in Dots(name)
           /\ \A i \in Dots(name) : i <= Max(Dots(name))
<1> DEFINE back == {Len(name) - i : i \in Dots(name)}
<1>1. \A i \in Dots(name) : i \in 1..Len(name) /\ Len(name) - i \in Nat
  BY DEF Dots
<1>2. back \in SUBSET Nat /\ back # {}
  BY <1>1
<1> HIDE DEF back
<1> DEFINE less == OpToRel(<, Nat)
<1>3. IsWellFoundedOn(less, Nat)
  BY NatLessThanWellFounded
<1>4. \A a, b \in Nat : a < b => <<a, b>> \in less
  BY DEF OpToRel
<1> HIDE DEF less
<1>5. PICK n \in back : \A m \in back : <<m, n>> \notin less
  BY <1>2, <1>3, WFMin
<1>6. \A m \in back : n <= m
  <2> SUFFICES ASSUME NEW m \in back PROVE n <= m
    OBVIOUS
  <2>1. m \in Nat /\ n \in Nat
    BY <1>2
  <2>2. ~(m < n)
    BY <1>4, <1>5, <2>1
  <2> QED
    BY <2>1, <2>2
<1>7. PICK d \in Dots(name) : n = Len(name) - d
  BY <1>6 DEF back
<1>8. \A i \in Dots(name) : d >= i
  <2> SUFFICES ASSUME NEW i \in Dots(name) PROVE d >= i
    OBVIOUS
  <2>1. n <= Len(name) - i
    BY <1>6 DEF back
  <2> QED
    BY <1>1, <1>7, <2>1
<1>9. \A y \in Dots(name) : Max(Dots(name)) >= y
  BY <1>8 DEF Max
<1>10. Max(Dots(name)) \in Dots(name)
  BY <1>8 DEF Max
<1> QED
  BY <1>1, <1>9, <1>10

\* An extension is what follows the last dot, so there is no dot in it.
LEMMA ExtOf ==
    ASSUME NEW name \in Seq(Char), Ext(name) # <<>>
    PROVE  \E d \in 1..Len(name) :
             /\ name[d] = "."
             /\ \A i \in (d + 1)..Len(name) : name[i] # "."
             /\ d < Len(name)
             /\ Ext(name) \in Seq(Char)
             /\ Len(Ext(name)) = Len(name) - d
             /\ \A i \in 1..Len(Ext(name)) : Ext(name)[i] # "."
<1> DEFINE d == Max(Dots(name))
<1>1. Dots(name) # {} /\ Ext(name) = SubSeq(name, d + 1, Len(name))
  BY DEF Ext
<1>2. d \in 1..Len(name) /\ name[d] = "." /\ \A i \in (d + 1)..Len(name) : name[i] # "."
  <2>1. d \in Dots(name) /\ \A i \in Dots(name) : i <= d
    BY <1>1, LastDot
  <2> HIDE DEF d
  <2>2. d \in 1..Len(name) /\ name[d] = "."
    BY <2>1 DEF Dots
  <2>3. ASSUME NEW i \in (d + 1)..Len(name) PROVE name[i] # "."
    BY <2>1, <2>2 DEF Dots
  <2> QED
    BY <2>2, <2>3
<1> HIDE DEF d
<1>3. d < Len(name)
  BY <1>1, <1>2
<1>4. /\ Ext(name) \in Seq(Char)
      /\ Len(Ext(name)) = Len(name) - d
      /\ \A i \in 1..Len(Ext(name)) : Ext(name)[i] = name[d + i]
  <2>1. \A i \in (d + 1)..Len(name) : name[i] \in Char
    BY <1>2, ElementOfSeq
  <2>2. /\ SubSeq(name, d + 1, Len(name)) \in Seq(Char)
        /\ Len(SubSeq(name, d + 1, Len(name))) = Len(name) - d
        /\ \A i \in 1..(Len(name) - d) :
             SubSeq(name, d + 1, Len(name))[i] = name[d + i]
    BY <1>2, <1>3, <2>1, SubSeqProperties
  <2> QED
    BY <1>1, <2>2
<1>5. \A i \in 1..Len(Ext(name)) : Ext(name)[i] # "."
  BY <1>2, <1>3, <1>4
<1> QED
  BY <1>2, <1>3, <1>4, <1>5

\* The key of a name with an extension: the name, a dot, and no dot after it.
LEMMA KeyOf ==
    ASSUME NEW name \in Seq(Char), Ext(name) # <<>>
    PROVE  /\ Key(name) \in Seq(Char)
           /\ Len(Key(name)) > Len(name) + 1
           /\ \A i \in 1..Len(name) : Key(name)[i] = name[i]
           /\ Key(name)[Len(name) + 1] = "."
           /\ \A i \in (Len(name) + 2)..Len(Key(name)) : Key(name)[i] # "."
<1> DEFINE e == Ext(name)
<1>1. e \in Seq(Char) /\ Len(e) > 0 /\ \A i \in 1..Len(e) : e[i] # "."
  BY ExtOf
<1>2. Key(name) = (name \o <<".">>) \o e
  BY DEF Key
<1> HIDE DEF e
<1> DEFINE n == name \o <<".">>
<1>3. /\ n \in Seq(Char) /\ Len(n) = Len(name) + 1
      /\ n[Len(name) + 1] = "." /\ \A i \in 1..Len(name) : n[i] = name[i]
  <2>1. "." \in Char
    BY DEF Char
  <2>2. Len(<<".">>) = 1 /\ <<".">>[1] = "."
    OBVIOUS
  <2>3. <<".">> \in Seq(Char)
    BY <2>1
  <2> QED
    BY <2>2, <2>3, ConcatProperties
<1> HIDE DEF n
<1>4. /\ n \o e \in Seq(Char) /\ Len(n \o e) = Len(n) + Len(e)
      /\ \A i \in 1..Len(n) : (n \o e)[i] = n[i]
      /\ \A i \in 1..Len(e) : (n \o e)[Len(n) + i] = e[i]
  <2>1. /\ n \o e \in Seq(Char) /\ Len(n \o e) = Len(n) + Len(e)
        /\ \A i \in 1..(Len(n) + Len(e)) :
             (n \o e)[i] = IF i <= Len(n) THEN n[i] ELSE e[i - Len(n)]
    BY <1>1, <1>3, ConcatProperties
  <2>2. Len(n) \in Nat /\ Len(e) \in Nat
    BY <1>1, <1>3, LenProperties
  <2> QED
    BY <2>1, <2>2
<1>5. Key(name) = n \o e
  BY <1>2 DEF n
<1>6. \A i \in (Len(name) + 2)..Len(Key(name)) : Key(name)[i] # "."
  <2> SUFFICES ASSUME NEW i \in (Len(name) + 2)..Len(Key(name)) PROVE Key(name)[i] # "."
    OBVIOUS
  <2>1. i - Len(n) \in 1..Len(e) /\ i = Len(n) + (i - Len(n))
    BY <1>1, <1>3, <1>4, <1>5
  <2> QED
    BY <1>1, <1>4, <1>5, <2>1
<1> QED
  BY <1>1, <1>3, <1>4, <1>5, <1>6

\* A name without an extension has no dot, or ends in one.
LEMMA NoExt ==
    ASSUME NEW name \in Seq(Char), Ext(name) = <<>>, NEW i \in 1..Len(name),
           name[i] = "."
    PROVE  name[Len(name)] = "."
<1> DEFINE d == Max(Dots(name))
<1>1. d \in 1..Len(name) /\ name[d] = "."
  BY LastDot DEF Dots
<1>2. Ext(name) = SubSeq(name, d + 1, Len(name))
  BY DEF Ext, Dots
<1> HIDE DEF d
<1>3. d = Len(name)
  BY <1>1, <1>2
<1> QED
  BY <1>1, <1>3

\* Two filenames never share a key, whatever dots they contain.
THEOREM KeyInjective ==
    \A f, g \in Seq(Char) : Key(f) = Key(g) => f = g
<1>1. ASSUME NEW f \in Seq(Char), NEW g \in Seq(Char), Key(f) = Key(g),
             Ext(f) = <<>>, Ext(g) # <<>>
      PROVE  FALSE
  <2>1. f = Key(g)
    BY <1>1 DEF Key
  <2>2. f[Len(g) + 1] = "." /\ Len(g) + 1 \in 1..Len(f)
    BY <1>1, <2>1, KeyOf
  <2>3. f[Len(f)] = "."
    BY <1>1, <2>2, NoExt
  <2>4. f[Len(f)] # "." 
    BY <1>1, <2>1, KeyOf
  <2> QED
    BY <2>3, <2>4
<1>2. ASSUME NEW f \in Seq(Char), NEW g \in Seq(Char), Key(f) = Key(g),
             Ext(f) # <<>>, Ext(g) # <<>>
      PROVE  f = g
  <2>1. Len(f) = Len(g)
    BY <1>2, KeyOf
  <2>2. \A i \in 1..Len(f) : f[i] = g[i]
    BY <1>2, <2>1, KeyOf
  <2> QED
    BY <2>1, <2>2
<1>3. ASSUME NEW f \in Seq(Char), NEW g \in Seq(Char), Key(f) = Key(g)
      PROVE  f = g
  <2>1. CASE Ext(f) = <<>> /\ Ext(g) = <<>>
    BY <1>3, <2>1 DEF Key
  <2>2. CASE Ext(f) # <<>> /\ Ext(g) # <<>>
    BY <1>2, <1>3, <2>2
  <2> QED
    BY <1>1, <1>3, <2>1, <2>2
<1> QED
  BY <1>3

-----------------------------------------------------------------------------

\* What an object was last written with belongs to its key.
Filed == \A k \in Keys : objects[k] # Nothing => objects[k].file \in Files
                                               /\ Key(objects[k].file) = k

LEMMA FilesAreNames == Files \subseteq Seq(Char)
  BY FilesAssumption, SeqMonotonic DEF Char

LEMMA FiledStep == TypeOK /\ Filed /\ [Next]_vars => Filed'
<1> SUFFICES ASSUME TypeOK, Filed, [Next]_vars PROVE Filed'
  OBVIOUS
<1>1. CASE UNCHANGED objects
  BY <1>1 DEF Filed
<1>2. ASSUME NEW u \in urls, Put(u) PROVE Filed'
  <2>1. u.by \in Sessions /\ u.file \in Files
    BY DEF TypeOK
  <2>2. \A k \in Keys : objects'[k] =
          IF k = Key(u.file) THEN [by |-> u.by, file |-> u.file] ELSE objects[k]
    BY <1>2 DEF Put, TypeOK
  <2> QED
    BY <2>1, <2>2 DEF Filed
<1>3. UNCHANGED objects \/ \E u \in urls : Put(u)
  BY DEF Next, Login, Refresh, Logout, Ask, Sign, Refuse, Tick, Age, RedisRestart, vars
<1> QED
  BY <1>1, <1>2, <1>3

LEMMA Apart ==
    ASSUME TypeOK, Filed, Filed', [Next]_vars
    PROVE  \A k \in Keys : objects[k] # Nothing => objects'[k].file = objects[k].file
<1> SUFFICES ASSUME NEW k \in Keys, objects[k] # Nothing
             PROVE  objects'[k].file = objects[k].file
  OBVIOUS
<1>1. CASE UNCHANGED objects
  BY <1>1
<1>2. ASSUME NEW u \in urls, Put(u) PROVE objects'[k].file = objects[k].file
  <2>1. u.file \in Files
    BY DEF TypeOK
  <2>2. objects'[k] =
          IF k = Key(u.file) THEN [by |-> u.by, file |-> u.file] ELSE objects[k]
    BY <1>2 DEF Put, TypeOK
  <2>3. CASE k = Key(u.file)
    <3>1. objects[k].file \in Files /\ Key(objects[k].file) = Key(u.file)
      BY <2>3 DEF Filed
    <3>2. objects[k].file = u.file
      BY <2>1, <3>1, FilesAreNames, KeyInjective
    <3> QED
      BY <2>2, <2>3, <3>2
  <2> QED
    BY <2>2, <2>3
<1>3. UNCHANGED objects \/ \E v \in urls : Put(v)
  BY DEF Next, Login, Refresh, Logout, Ask, Sign, Refuse, Tick, Age, RedisRestart, vars
<1> QED
  BY <1>1, <1>2, <1>3

\* Uploads of different names never share an object, for any set of filenames.
THEOREM KeptApart == Spec => NamesKeepApart
<1>1. Init => Filed
  BY DEF Init, Filed
<1>2. TypeOK /\ Filed /\ Filed' /\ [Next]_vars =>
        \A k \in Keys : objects[k] # Nothing => objects'[k].file = objects[k].file
  BY Apart
<1>3. TypeOK /\ Filed /\ Filed' /\ [Next]_vars =>
        [\A k \in Keys : objects[k] # Nothing => objects'[k].file = objects[k].file]_vars
  BY <1>2
<1> QED
  BY <1>1, <1>3, FiledStep, InitType, TypeStep, PTL DEF Spec, NamesKeepApart
=============================================================================
