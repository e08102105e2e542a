---------------------------- MODULE AccessGrants ----------------------------
(***************************************************************************)
(* What a login grants and for how long: a refresh token in Redis, access  *)
(* tokens that nobody can take back (auth.service.ts, auth.middleware.ts), *)
(* and presigned URLs to write objects of the bucket (upload.service.ts).  *)
(*                                                                         *)
(* Time passes in ticks of some minutes.  The calls on tokens are short    *)
(* and one step each; their races are the subject of AuthSessions.  A      *)
(* request for a URL is two: between the check of the token and the        *)
(* signature it waits for the limiter's Redis command, which ioredis       *)
(* repeats until Redis answers.  Redis saves more often than once a tick,  *)
(* and when it dies it comes back with the last save.                      *)
(***************************************************************************)
EXTENDS Naturals, FiniteSets, Sequences, FiniteSetsExt

CONSTANTS
    Sessions,       \* the logins (and registrations) of one behaviour
    Files,          \* filenames, as sequences of characters
    Nothing,        \* the object does not exist
    AccessTtl,      \* JWT_EXPIRES_IN, in ticks
    UrlTtl,         \* PRESIGNED_URL_EXPIRES_IN
    RefreshTtl,     \* REFRESH_TOKEN_TTL_SECONDS
    MaxWait,        \* bound on the ticks a request waits for Redis
    MaxRequests,    \* bound on the requests and URLs there are at once
    MaxRestarts     \* bound on the restarts of Redis

ASSUME TtlAssumption ==
    /\ AccessTtl \in Nat \ {0} /\ UrlTtl \in Nat \ {0} /\ RefreshTtl \in Nat \ {0}
    /\ AccessTtl <= RefreshTtl
ASSUME FilesAssumption == Files \subseteq Seq(STRING)
ASSUME BoundsAssumption == MaxWait \in Nat /\ MaxRequests \in Nat /\ MaxRestarts \in Nat

VARIABLES
    refresh,   \* per session, the ticks its refresh tokens have left in Redis
    saved,     \* the same, in the last save of Redis
    access,    \* per session, the ticks its access tokens have left
    waiting,   \* requests for a URL whose token was found valid
    urls,      \* the presigned URLs that have not expired
    objects,   \* the bucket: the URL each object was last written with
    life,      \* where each session stands
    since,     \* the ticks since it is over
    restarts   \* how often Redis restarted

vars == <<refresh, saved, access, waiting, urls, objects, life, since, restarts>>

-----------------------------------------------------------------------------
(* The key of an object.  The prefix "uploads/" is left out.               *)

Dots(name) == {i \in 1..Len(name) : name[i] = "."}

\* What follows the last dot.
Ext(name) ==
    IF Dots(name) = {} THEN <<>> ELSE SubSeq(name, Max(Dots(name)) + 1, Len(name))

\* Bug: the extension replaces everything from the first dot on.
Key_Stripped(name) ==
    IF Ext(name) = <<>> THEN name
                        ELSE SubSeq(name, 1, Min(Dots(name))) \o Ext(name)

\* The extension is appended to a name that has it already.
Key(name) == IF Ext(name) = <<>> THEN name ELSE name \o <<".">> \o Ext(name)

Keys == {Key(f) : f \in Files}

-----------------------------------------------------------------------------

Grant == [by : Sessions, file : Files]

\* The longest that anything a session was granted can outlive it.
Longest == AccessTtl + MaxWait + UrlTtl

TypeOK ==
    /\ refresh \in [Sessions -> SUBSET (1..RefreshTtl)]
    /\ saved \in [Sessions -> SUBSET (1..RefreshTtl)]
    /\ access \in [Sessions -> SUBSET (1..AccessTtl)]
    /\ waiting \in SUBSET [by : Sessions, file : Files, waited : 0..MaxWait]
    /\ urls \in SUBSET [by : Sessions, file : Files, left : 1..UrlTtl]
    /\ objects \in [Keys -> Grant \cup {Nothing}]
    /\ life \in [Sessions -> {"new", "live", "over"}]
    /\ since \in [Sessions -> 0..Longest]
    /\ restarts \in 0..MaxRestarts

Init ==
    /\ refresh = [s \in Sessions |-> {}]
    /\ saved = refresh
    /\ access = refresh
    /\ waiting = {} /\ urls = {}
    /\ objects = [k \in Keys |-> Nothing]
    /\ life = [s \in Sessions |-> "new"]
    /\ since = [s \in Sessions |-> 0]
    /\ restarts = 0

-----------------------------------------------------------------------------
(* Tokens.                                                                 *)

\* generateTokens: a new pair, besides the refresh tokens that stay.
Issue(s, stay) ==
    /\ refresh' = [refresh EXCEPT ![s] = stay \cup {RefreshTtl}]
    /\ access' = [access EXCEPT ![s] = @ \cup {AccessTtl}]

Login(s) ==
    /\ life[s] = "new"
    /\ life' = [life EXCEPT ![s] = "live"]
    /\ Issue(s, {})
    /\ UNCHANGED <<saved, waiting, urls, objects, since, restarts>>

\* Bug: the used token is not deleted.
Refresh_KeepsToken(s) ==
    /\ refresh[s] # {}
    /\ Issue(s, refresh[s])
    /\ UNCHANGED <<saved, waiting, urls, objects, life, since, restarts>>

\* The used token is deleted; access tokens issued before stay valid.
Refresh(s) ==
    /\ \E t \in refresh[s] : Issue(s, refresh[s] \ {t})
    /\ UNCHANGED <<saved, waiting, urls, objects, life, since, restarts>>

\* verifyAccessToken looks at the signature and the expiry alone.
Verified(s) == access[s] # {}

\* The refresh token is deleted and nothing else; the access token that the
\* route asks for need not be of the same session.
Logout(s) ==
    /\ \E x \in Sessions : Verified(x)
    /\ \E t \in refresh[s] : refresh' = [refresh EXCEPT ![s] = @ \ {t}]
    /\ life' = [life EXCEPT ![s] = "over"]
    /\ since' = [since EXCEPT ![s] = 0]
    /\ UNCHANGED <<saved, access, waiting, urls, objects, restarts>>

-----------------------------------------------------------------------------
(* POST /upload-url, and the PUT to the bucket.                            *)

\* The token is verified, and the request waits for the limiter.
Ask(s, f) ==
    /\ Verified(s)
    /\ Cardinality(waiting) + Cardinality(urls) < MaxRequests
    /\ waiting' = waiting \cup {[by |-> s, file |-> f, waited |-> 0]}
    /\ UNCHANGED <<refresh, saved, access, urls, objects, life, since, restarts>>

\* Bug: seconds and milliseconds mixed up, for one.
Sign_TooLong(w) ==
    /\ waiting' = waiting \ {w}
    /\ urls' = urls \cup {[by |-> w.by, file |-> w.file, left |-> UrlTtl + 1]}
    /\ UNCHANGED <<refresh, saved, access, objects, life, since, restarts>>

\* The URL's time starts now, whatever became of the token.
Sign(w) ==
    /\ waiting' = waiting \ {w}
    /\ urls' = urls \cup {[by |-> w.by, file |-> w.file, left |-> UrlTtl]}
    /\ UNCHANGED <<refresh, saved, access, objects, life, since, restarts>>

\* The limiter, the schema or a missing bucket refuses the request.
Refuse(w) ==
    /\ waiting' = waiting \ {w}
    /\ UNCHANGED <<refresh, saved, access, urls, objects, life, since, restarts>>

Put(u) ==
    /\ objects' = [objects EXCEPT ![Key(u.file)] = [by |-> u.by, file |-> u.file]]
    /\ UNCHANGED <<refresh, saved, access, waiting, urls, life, since, restarts>>

-----------------------------------------------------------------------------
(* Time, and Redis.                                                        *)

Aged(lefts) == {t - 1 : t \in lefts \ {1}}

\* The sessions without a refresh token that had one are over.
Ends(s) == life[s] = "live" /\ refresh'[s] = {}

Older(s) == IF since[s] < Longest THEN since[s] + 1 ELSE since[s]

\* What time does to tokens, requests, URLs and sessions.
Age ==
    /\ \A w \in waiting : w.waited < MaxWait
    /\ refresh' = [s \in Sessions |-> Aged(refresh[s])]
    /\ access' = [s \in Sessions |-> Aged(access[s])]
    /\ waiting' = {[w EXCEPT !.waited = @ + 1] : w \in waiting}
    /\ urls' = {[u EXCEPT !.left = @ - 1] : u \in {v \in urls : v.left > 1}}
    /\ since' = [s \in Sessions |-> IF life[s] = "over" THEN Older(s) ELSE 0]
    /\ life' = [s \in Sessions |-> IF Ends(s) THEN "over" ELSE life[s]]
    /\ UNCHANGED <<objects, restarts>>

\* Bug: Redis is told to save less often.
Tick_RarelySaved ==
    /\ Age
    /\ saved' \in {refresh', [s \in Sessions |-> Aged(saved[s])]}

\* A tick is longer than the 60 s after which a change is saved.
Tick == Age /\ saved' = refresh'

\* Redis dies and comes back with the last save: logins and logouts of this
\* tick are forgotten.
RedisRestart ==
    /\ restarts < MaxRestarts
    /\ restarts' = restarts + 1
    /\ refresh' = saved
    /\ life' = [s \in Sessions |->
                  IF saved[s] # {} THEN "live" ELSE IF Ends(s) THEN "over" ELSE life[s]]
    /\ since' = [s \in Sessions |-> IF life'[s] = life[s] THEN since[s] ELSE 0]
    /\ UNCHANGED <<saved, access, waiting, urls, objects>>

Next ==
    \/ \E s \in Sessions : Login(s) \/ Refresh(s) \/ Logout(s)
    \/ \E s \in Sessions, f \in Files : Ask(s, f)
    \/ \E w \in waiting : Sign(w) \/ Refuse(w)
    \/ \E u \in urls : Put(u)
    \/ Tick \/ RedisRestart

Spec == Init /\ [][Next]_vars

-----------------------------------------------------------------------------
(* Properties.                                                             *)

\* Nothing revokes an access token or a presigned URL, but they run out: of a
\* session that is over, the access tokens after their lifetime, and whatever
\* they were used to ask for after the longest wait and the lifetime of a URL.
AccessEnds ==
    \A s \in Sessions :
        life[s] = "over" =>
            /\ since[s] >= AccessTtl => access[s] = {}
            /\ since[s] >= Longest => \A g \in waiting \cup urls : g.by # s

\* A session that is over for a tick never comes back, even when Redis forgets
\* its last writes: no refresh token, no new access token.
EndIsFinal ==
    [][\A s \in Sessions :
          life[s] = "over" /\ since[s] > 0 =>
              refresh'[s] = {} /\ AccessTtl \notin access'[s]]_vars

\* upload.service.ts makes the key of the filename alone.  Two uploads of one
\* name share an object, the later one wins; but uploads of different names never
\* do, although the key is not the name.
NamesKeepApart ==
    [][\A k \in Keys :
          objects[k] # Nothing => objects'[k].file = objects[k].file]_vars
=============================================================================
