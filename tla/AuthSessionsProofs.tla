------------------------- MODULE AuthSessionsProofs -------------------------
(***************************************************************************)
(* Proofs about AuthSessions, for any calls, emails and passwords and any  *)
(* number of crashes and errors: an account stays with whom it was given   *)
(* to, a token leads to its user, a login has one live token, and a logout *)
(* is final.                                                               *)
(***************************************************************************)
EXTENDS AuthSessions, TLAPS

USE DEF Ops, Pending, Ended

-----------------------------------------------------------------------------
(* Type correctness.  What a handler is about to look up must be there:    *)
(* an email while it works on an account, a user while it makes tokens, a  *)
(* token that an earlier call was answered with.                           *)

Entering == {"register", "login"}
Returning == {"refresh", "logout"}

Places == [register |-> {"findEmail", "putUser", "putIndex", "save"},
           login |-> {"findEmail", "save"},
           refresh |-> {"findToken", "findId", "findUser", "delete", "save"},
           logout |-> {"delete"}]

\* A refresh that has found its token and not deleted it yet.
Rotating(c) == calls[c].op = "refresh" /\ calls[c].pc \in {"findId", "findUser", "delete"}

WellFormed(c) ==
    LET k == calls[c] IN
    k.pc # "new" =>
        /\ k.op \in Ops
        /\ k.pc \in Places[k.op] \cup Ended
        /\ k.login \in Calls /\ calls[k.login].pc # "new"
        /\ k.op \in Entering =>
             /\ k.login = c
             /\ k.email \in Emails /\ k.password \in Passwords
        /\ k.op \in Returning =>
             /\ k.token \in Calls /\ Issued(k.token)
             /\ k.login = calls[k.token].login
        /\ k.pc = "findUser" => k.email \in Emails
        /\ k.pc = "save" \/ Rotating(c) => k.user \in Calls
        /\ k.op = "register" /\ k.pc \in {"putUser", "putIndex", "save"} => k.user = c

\* A stored token is in the hands of a client.
StoredAreIssued == \A t \in Calls : tokens[t] # Nothing => Issued(t)

TypeInv == TypeOK /\ StoredAreIssued /\ \A c \in Calls : WellFormed(c)

\* The fields of a call are those of its type.
LEMMA CallFields ==
    ASSUME NEW k \in Call
    PROVE  /\ \A pc \in {"new"} \cup Pending \cup Ended : [k EXCEPT !.pc = pc] \in Call
           /\ \A u \in Calls : [k EXCEPT !.user = u] \in Call
           /\ \A e \in Emails : [k EXCEPT !.email = e] \in Call
  BY DEF Call

\* A call that is not over takes a step and is well formed afterwards.
LEMMA OneCall ==
    ASSUME TypeInv, NEW c \in Calls, calls[c].pc \notin Ended, NEW k \in Call,
           k.pc # "new", calls' = [calls EXCEPT ![c] = k], WellFormed(c)'
    PROVE  /\ calls' \in [Calls -> Call]
           /\ calls'[c] = k /\ \A d \in Calls \ {c} : calls'[d] = calls[d]
           /\ \A t \in Calls : Issued(t) => Issued(t)'
           /\ \A d \in Calls : WellFormed(d)'
<1>1. /\ calls' \in [Calls -> Call]
      /\ calls'[c] = k /\ \A d \in Calls \ {c} : calls'[d] = calls[d]
  BY DEF TypeInv, TypeOK
<1>2. \A t \in Calls : Issued(t) => t # c /\ Issued(t)'
  BY <1>1 DEF Issued
<1>3. ASSUME NEW d \in Calls \ {c} PROVE WellFormed(d)'
  <2>1. WellFormed(d) /\ calls'[d] = calls[d]
    BY <1>1 DEF TypeInv
  <2>2. \A x \in Calls : calls[x].pc # "new" => calls'[x].pc # "new"
    BY <1>1
  <2> QED
    BY <1>1, <1>2, <2>1, <2>2 DEF WellFormed, Rotating, Entering, Returning
<1> QED
  BY <1>1, <1>2, <1>3

LEMMA InitType == Init => TypeInv
  BY BoundsAssumption DEF Init, TypeInv, TypeOK, StoredAreIssued, WellFormed, Call

\* Every step keeps the types and what the handlers rely on.
LEMMA TypeStep == ASSUME TypeInv, [Next]_vars PROVE TypeInv'
<1> USE DEF TypeInv
<1>1. ASSUME NEW c \in Calls, NEW e \in Emails, NEW pwd \in Passwords,
             NEW op \in {"register", "login"}, Present(c, op, e, pwd)
      PROVE TypeInv'
  <2> DEFINE k == [calls[c] EXCEPT !.op = op, !.pc = "findEmail", !.email = e,
                                   !.password = pwd, !.login = c]
  <2>1. k \in Call /\ calls' = [calls EXCEPT ![c] = k] /\ calls[c].pc = "new"
    BY <1>1 DEF Present, At, TypeOK, Call
  <2>2. WellFormed(c)'
    BY <2>1 DEF WellFormed, Places, Entering, Returning, Rotating, TypeOK
  <2> HIDE DEF k
  <2>3. k.pc # "new"
    BY <2>1 DEF k, Call, TypeOK
  <2> QED
    BY <1>1, <2>1, <2>2, <2>3, OneCall DEF Present, TypeOK, StoredAreIssued
<1>2. ASSUME NEW c \in Calls, NEW t \in Calls, NEW op \in {"refresh", "logout"},
             Use(c, op, t)
      PROVE TypeInv'
  <2> DEFINE k == [calls[c] EXCEPT !.op = op, !.token = t, !.login = calls[t].login,
                     !.pc = IF op = "refresh" THEN "findToken" ELSE "delete"]
  <2>1. k \in Call /\ calls' = [calls EXCEPT ![c] = k] /\ calls[c].pc = "new" /\ t # c
    BY <1>2 DEF Use, At, TypeOK, Call, Issued
  <2>2. WellFormed(t) /\ Issued(t)
    BY <1>2 DEF Use
  <2>3. WellFormed(c)'
    BY <2>1, <2>2 DEF WellFormed, Places, Entering, Returning, Rotating, TypeOK, Issued
  <2> HIDE DEF k
  <2>4. k.pc # "new"
    BY <2>1 DEF k, Call, TypeOK
  <2> QED
    BY <1>2, <2>1, <2>3, <2>4, OneCall DEF Use, TypeOK, StoredAreIssued
<1>3. ASSUME NEW c \in Calls, FindEmail(c) PROVE TypeInv'
  <2> DEFINE admitted == IF calls[c].op = "register"
                         THEN [calls[c] EXCEPT !.pc = "putUser", !.user = c]
                         ELSE [calls[c] EXCEPT !.pc = "save",
                                               !.user = users[calls[c].email].id]
             refused == [calls[c] EXCEPT !.pc = "refused"]
  <2>1. WellFormed(c) /\ calls[c].pc = "findEmail" /\ calls[c] \in Call
        /\ calls[c].op \in Entering /\ calls[c].email \in Emails
    BY <1>3 DEF FindEmail, At, TypeOK, WellFormed, Places, Entering, Returning
  <2>2. CASE calls' = [calls EXCEPT ![c] = admitted]
             /\ (calls[c].op = "login" => users[calls[c].email] # Nothing)
    <3>1. admitted \in Call /\ admitted.pc # "new"
      BY <2>1, <2>2 DEF TypeOK, User, Call, Entering
    <3>2. /\ calls'[c] = admitted /\ calls'[calls[c].login].pc # "new"
          /\ admitted.op = calls[c].op /\ admitted.login = calls[c].login
          /\ admitted.email = calls[c].email /\ admitted.password = calls[c].password
          /\ admitted.user \in Calls
          /\ \/ calls[c].op = "register" /\ admitted.pc = "putUser" /\ admitted.user = c
             \/ calls[c].op = "login" /\ admitted.pc = "save"
      BY <2>1, <2>2, <3>1 DEF WellFormed, Places, Entering, TypeOK, User
    <3> HIDE DEF admitted
    <3>3. WellFormed(c)'
      BY <2>1, <3>2 DEF WellFormed, Places, Entering, Returning, Rotating
    <3> QED
      BY <1>3, <2>1, <2>2, <3>1, <3>3, OneCall DEF FindEmail, TypeOK, StoredAreIssued
  <2>3. CASE calls' = [calls EXCEPT ![c] = refused]
    <3>1. refused \in Call /\ refused.pc # "new"
      BY <2>1 DEF Call
    <3>2. WellFormed(c)'
      BY <2>1, <2>3, <3>1 DEF WellFormed, Places, Entering, Returning, Rotating, TypeOK
    <3> HIDE DEF refused
    <3> QED
      BY <1>3, <2>1, <2>3, <3>1, <3>2, OneCall DEF FindEmail, TypeOK, StoredAreIssued
  <2> HIDE DEF TypeInv
  <2>4. calls' = Admit(c) => calls' = [calls EXCEPT ![c] = admitted]
    BY DEF Admit
  <2> QED
    BY <1>3, <2>2, <2>3, <2>4 DEF FindEmail, PasswordMatches
<1>4. ASSUME NEW c \in Calls, PutUser(c) PROVE TypeInv'
  <2> DEFINE k == [calls[c] EXCEPT !.pc = "putIndex"]
  <2>1. WellFormed(c) /\ calls[c].pc = "putUser" /\ calls[c] \in Call /\ k \in Call
        /\ calls[c].op = "register" /\ calls' = [calls EXCEPT ![c] = k]
    BY <1>4 DEF PutUser, Goto, At, TypeOK, Call, WellFormed, Places
  <2>2. WellFormed(c)'
    BY <2>1 DEF WellFormed, Places, Entering, Returning, Rotating, TypeOK
  <2>3. [id |-> c, password |-> calls[c].password] \in User
    BY <2>1 DEF WellFormed, Entering, User
  <2>4. k.pc # "new"
    BY <2>1 DEF Call
  <2> HIDE DEF k
  <2> QED
    BY <1>4, <2>1, <2>2, <2>3, <2>4, OneCall DEF PutUser, TypeOK, StoredAreIssued
<1>5. ASSUME NEW c \in Calls, PutIndex(c) PROVE TypeInv'
  <2> DEFINE k == [calls[c] EXCEPT !.pc = "save"]
  <2>1. WellFormed(c) /\ calls[c].pc = "putIndex" /\ calls[c] \in Call /\ k \in Call
        /\ calls[c].op = "register" /\ calls' = [calls EXCEPT ![c] = k]
    BY <1>5 DEF PutIndex, Goto, At, TypeOK, Call, WellFormed, Places
  <2>2. WellFormed(c)' /\ calls[c].email \in Emails
    BY <2>1 DEF WellFormed, Places, Entering, Returning, Rotating, TypeOK
  <2>3. k.pc # "new"
    BY <2>1 DEF Call
  <2> HIDE DEF k
  <2> QED
    BY <1>5, <2>1, <2>2, <2>3, OneCall DEF PutIndex, TypeOK, StoredAreIssued
<1>6. ASSUME NEW c \in Calls, NEW k \in Call, calls' = [calls EXCEPT ![c] = k],
             calls[c].pc \in {"findToken", "findId", "findUser"}, k.op = calls[c].op,
             k.token = calls[c].token, k.login = calls[c].login,
             UNCHANGED <<users, index, tokens, crashes, errors, serial>>,
             \/ k.pc = "refused"
             \/ k.pc = "findId" /\ k.user \in Calls
             \/ k.pc = "findUser" /\ k.email \in Emails /\ k.user \in Calls
             \/ k.pc = "delete" /\ k.user \in Calls
      PROVE TypeInv'
  <2>1. WellFormed(c) /\ calls[c].op = "refresh"
    BY <1>6 DEF TypeOK, Call, WellFormed, Places
  <2>2. WellFormed(c)'
    BY <1>6, <2>1 DEF WellFormed, Places, Entering, Returning, Rotating, TypeOK, Issued
  <2> QED
    BY <1>6, <2>1, <2>2, OneCall DEF TypeOK, StoredAreIssued
<1>7. ASSUME NEW c \in Calls, FindToken(c) PROVE TypeInv'
  <2>1. WellFormed(c) /\ calls[c] \in Call /\ tokens[calls[c].token] \in Calls \cup {Nothing}
    BY <1>7 DEF FindToken, At, TypeOK, Call, WellFormed, Places, Returning
  <2> DEFINE no == [calls[c] EXCEPT !.pc = "refused"]
             yes == [calls[c] EXCEPT !.pc = "findId", !.user = tokens[calls[c].token]]
  <2>2. CASE calls' = [calls EXCEPT ![c] = no]
    <3>1. /\ no \in Call /\ no.op = calls[c].op /\ no.token = calls[c].token
          /\ no.login = calls[c].login /\ no.pc = "refused"
      BY <2>1 DEF Call
    <3> HIDE DEF no
    <3> QED
      BY <1>6, <1>7, <2>2, <3>1 DEF FindToken, At
  <2>3. CASE calls' = [calls EXCEPT ![c] = yes] /\ tokens[calls[c].token] # Nothing
    <3>1. /\ yes \in Call /\ yes.op = calls[c].op /\ yes.token = calls[c].token
          /\ yes.login = calls[c].login /\ yes.pc = "findId"
          /\ yes.user \in Calls /\ (yes.pc = "findUser" => yes.email \in Emails)
      BY <2>1, <2>3 DEF Call
    <3> HIDE DEF yes
    <3> QED
      BY <1>6, <1>7, <2>3, <3>1 DEF FindToken, At
  <2> QED
    BY <1>7, <2>2, <2>3 DEF FindToken
<1>8. ASSUME NEW c \in Calls, FindId(c) PROVE TypeInv'
  <2>1. WellFormed(c) /\ calls[c] \in Call /\ calls[c].user \in Calls
        /\ index[calls[c].user] \in Emails \cup {Nothing}
    BY <1>8 DEF FindId, At, TypeOK, Call, WellFormed, Places, Rotating
  <2> DEFINE no == [calls[c] EXCEPT !.pc = "refused"]
             yes == [calls[c] EXCEPT !.pc = "findUser", !.email = index[calls[c].user]]
  <2>2. CASE calls' = [calls EXCEPT ![c] = no]
    <3>1. /\ no \in Call /\ no.op = calls[c].op /\ no.token = calls[c].token
          /\ no.login = calls[c].login /\ no.pc = "refused"
      BY <2>1 DEF Call
    <3> HIDE DEF no
    <3> QED
      BY <1>6, <1>8, <2>2, <3>1 DEF FindId, At
  <2>3. CASE calls' = [calls EXCEPT ![c] = yes] /\ index[calls[c].user] # Nothing
    <3>1. /\ yes \in Call /\ yes.op = calls[c].op /\ yes.token = calls[c].token
          /\ yes.login = calls[c].login /\ yes.pc = "findUser"
          /\ yes.user \in Calls /\ (yes.pc = "findUser" => yes.email \in Emails)
      BY <2>1, <2>3 DEF Call
    <3> HIDE DEF yes
    <3> QED
      BY <1>6, <1>8, <2>3, <3>1 DEF FindId, At
  <2> QED
    BY <1>8, <2>2, <2>3 DEF FindId
<1>9. ASSUME NEW c \in Calls, FindUser(c) PROVE TypeInv'
  <2>1. WellFormed(c) /\ calls[c] \in Call /\ users[calls[c].email] \in User \cup {Nothing}
    BY <1>9 DEF FindUser, At, TypeOK, Call, WellFormed
  <2> DEFINE no == [calls[c] EXCEPT !.pc = "refused"]
             yes == [calls[c] EXCEPT !.pc = "delete", !.user = users[calls[c].email].id]
  <2>2. CASE calls' = [calls EXCEPT ![c] = no]
    <3>1. /\ no \in Call /\ no.op = calls[c].op /\ no.token = calls[c].token
          /\ no.login = calls[c].login /\ no.pc = "refused"
      BY <2>1 DEF Call
    <3> HIDE DEF no
    <3> QED
      BY <1>6, <1>9, <2>2, <3>1 DEF FindUser, At
  <2>3. CASE calls' = [calls EXCEPT ![c] = yes] /\ users[calls[c].email] # Nothing
    <3>1. /\ yes \in Call /\ yes.op = calls[c].op /\ yes.token = calls[c].token
          /\ yes.login = calls[c].login /\ yes.pc = "delete"
          /\ yes.user \in Calls /\ (yes.pc = "findUser" => yes.email \in Emails)
      BY <2>1, <2>3 DEF Call, User
    <3> HIDE DEF yes
    <3> QED
      BY <1>6, <1>9, <2>3, <3>1 DEF FindUser, At
  <2> QED
    BY <1>9, <2>2, <2>3 DEF FindUser
<1>10. ASSUME NEW c \in Calls, Delete(c) PROVE TypeInv'
  <2> DEFINE k == [calls[c] EXCEPT !.pc = IF calls[c].op = "refresh" THEN "save" ELSE "ok"]
  <2>1. WellFormed(c) /\ calls[c].pc = "delete" /\ calls[c] \in Call /\ k \in Call
        /\ calls[c].op \in {"refresh", "logout"} /\ calls' = [calls EXCEPT ![c] = k]
    BY <1>10 DEF Delete, Goto, At, TypeOK, Call, WellFormed, Places
  <2>2. WellFormed(c)' /\ k.pc # "new"
    BY <2>1 DEF WellFormed, Places, Entering, Returning, Rotating, TypeOK, Issued
  <2> HIDE DEF k
  <2> QED
    BY <1>10, <2>1, <2>2, OneCall DEF Delete, TypeOK, StoredAreIssued
<1>11. ASSUME NEW c \in Calls, Save(c) PROVE TypeInv'
  <2> DEFINE k == [calls[c] EXCEPT !.pc = "ok"]
  <2>1. WellFormed(c) /\ calls[c].pc = "save" /\ calls[c] \in Call /\ k \in Call
        /\ calls[c].op # "logout" /\ calls[c].user \in Calls
        /\ calls' = [calls EXCEPT ![c] = k]
    BY <1>11 DEF Save, Goto, At, TypeOK, Call, WellFormed, Places
  <2>2. WellFormed(c)' /\ k.pc = "ok" /\ k.op # "logout"
    BY <2>1 DEF WellFormed, Places, Entering, Returning, Rotating, TypeOK, Issued
  <2> HIDE DEF k
  <2>3. \A t \in Calls : Issued(t) => Issued(t)'
    BY <2>1, <2>2, OneCall
  <2>4. Issued(c)'
    BY <2>1, <2>2 DEF Issued, TypeOK
  <2> QED
    BY <1>11, <2>1, <2>2, <2>3, <2>4, OneCall DEF Save, TypeOK, StoredAreIssued
<1>12. ASSUME NEW t \in Calls, ExpireToken(t) PROVE TypeInv'
  <2>1. \A c \in Calls : WellFormed(c)'
    BY <1>12 DEF ExpireToken, WellFormed, Rotating, Issued
  <2> QED
    BY <1>12, <2>1 DEF ExpireToken, TypeOK, StoredAreIssued, Issued
<1>13. ASSUME NEW c \in Calls, NEW pc \in {"putIndex", "save", "error", "lost"},
              InFlight(c), Goto(c, pc), At(c, "putUser") \/ pc # "putIndex",
              At(c, "putIndex") \/ pc # "save", crashes' \in 0..MaxCrashes,
              errors' \in 0..MaxErrors, UNCHANGED <<users, index, tokens, serial>>
       PROVE TypeInv'
  <2> DEFINE k == [calls[c] EXCEPT !.pc = pc]
  <2>1. WellFormed(c) /\ calls[c] \in Call /\ k \in Call /\ calls[c].pc \in Pending
        /\ calls' = [calls EXCEPT ![c] = k] /\ k.pc = pc
    BY <1>13 DEF Goto, InFlight, At, TypeOK, Call
  <2>2. WellFormed(c)'
    BY <1>13, <2>1 DEF WellFormed, Places, Entering, Returning, Rotating, TypeOK, Issued, At
  <2> HIDE DEF k
  <2> QED
    BY <1>13, <2>1, <2>2, OneCall DEF TypeOK, StoredAreIssued
<1>14. ASSUME NEW c \in Calls, Lose(c) PROVE TypeInv'
  BY <1>13, <1>14, BoundsAssumption DEF Lose, TypeOK
<1>15. ASSUME NEW c \in Calls, Error(c) PROVE TypeInv'
  <2>1. errors' \in 0..MaxErrors
    BY <1>15, BoundsAssumption DEF Error, TypeOK
  <2> QED
    BY <1>13, <1>15, <2>1 DEF Error, At, TypeOK
<1>16. CASE UNCHANGED vars
  <2>1. \A c \in Calls : WellFormed(c)'
    BY <1>16 DEF vars, WellFormed, Rotating, Issued
  <2> QED
    BY <1>16, <2>1 DEF vars, TypeOK, StoredAreIssued, Issued
<1> HIDE DEF TypeInv
<1> QED
  BY <1>1, <1>2, <1>3, <1>4, <1>5, <1>7, <1>8, <1>9, <1>10, <1>11, <1>12, <1>14, <1>15,
     <1>16 DEF Next, Step

\* Every answer and every key has the shape the services give it.
THEOREM TypeCorrect == Spec => []TypeOK
<1>1. Init => TypeInv
  BY InitType
<1>2. TypeInv /\ [Next]_vars => TypeInv'
  BY TypeStep
<1>3. TypeInv => TypeOK
  BY DEF TypeInv
<1> QED
  BY <1>1, <1>2, <1>3, PTL DEF Spec

LEMMA TypeInvariant == Spec => []TypeInv
  BY InitType, TypeStep, PTL DEF Spec

-----------------------------------------------------------------------------
(* Calls that have begun keep what they were asked, whichever command they *)
(* wait for: what the other steps do is of no interest to the clients.     *)

Continues(c) ==
    /\ InFlight(c) /\ calls'[c].pc # "new"
    /\ \A d \in Calls \ {c} : calls'[d] = calls[d]
    /\ calls'[c].op = calls[c].op /\ calls'[c].token = calls[c].token
    /\ calls'[c].login = calls[c].login /\ calls'[c].password = calls[c].password
    /\ calls[c].op \in Entering => calls'[c].email = calls[c].email

\* Every step begins a call, continues one or touches none.
LEMMA OneCallMoves ==
    ASSUME TypeInv, [Next]_vars
    PROVE  \/ \E c \in Calls, e \in Emails, pwd \in Passwords, op \in Entering :
                Present(c, op, e, pwd)
           \/ \E c \in Calls, t \in Calls, op \in Returning : Use(c, op, t)
           \/ \E c \in Calls : Continues(c) /\ (Step(c) \/ Lose(c) \/ Error(c))
           \/ \E t \in Calls : ExpireToken(t)
           \/ UNCHANGED vars
<1>1. ASSUME NEW c \in Calls, Step(c) \/ Lose(c) \/ Error(c) PROVE Continues(c)
  <2>1. calls \in [Calls -> Call] /\ calls[c] \in Call /\ WellFormed(c)
    BY DEF TypeInv, TypeOK
  <2>2. CASE FindEmail(c)
    BY <2>1, <2>2 DEF FindEmail, Admit, Continues, InFlight, At, Call
  <2>3. CASE PutUser(c)
    BY <2>1, <2>3 DEF PutUser, Goto, Continues, InFlight, At, Call
  <2>4. CASE PutIndex(c)
    BY <2>1, <2>4 DEF PutIndex, Goto, Continues, InFlight, At, Call
  <2>5. CASE FindToken(c)
    BY <2>1, <2>5 DEF FindToken, Continues, InFlight, At, Call
  <2>6. CASE FindId(c)
    BY <2>1, <2>6 DEF FindId, Continues, InFlight, At, Call, WellFormed, Places, Entering
  <2>7. CASE FindUser(c)
    BY <2>1, <2>7 DEF FindUser, Continues, InFlight, At, Call
  <2>8. CASE Delete(c)
    BY <2>1, <2>8 DEF Delete, Goto, Continues, InFlight, At, Call
  <2>9. CASE Save(c)
    BY <2>1, <2>9 DEF Save, Goto, Continues, InFlight, At, Call
  <2>10. CASE Lose(c)
    BY <2>1, <2>10 DEF Lose, Goto, Continues, InFlight, At, Call
  <2>11. CASE Error(c)
    BY <2>1, <2>11 DEF Error, Goto, Continues, InFlight, At, Call
  <2> QED
    BY <1>1, <2>2, <2>3, <2>4, <2>5, <2>6, <2>7, <2>8, <2>9, <2>10, <2>11 DEF Step
<1> QED
  BY <1>1 DEF Next, Entering, Returning

-----------------------------------------------------------------------------
(* A logout is final: a token is stored only by the call that makes it,    *)
(* before it is answered, and only answered tokens are logged out.         *)

\* tokens[t] is only ever set before the answer that carries t.
LEMMA TokensOnlyGo ==
    ASSUME TypeInv, [Next]_vars, NEW t \in Calls, Issued(t), tokens[t] = Nothing
    PROVE  tokens'[t] = Nothing
<1>1. ASSUME NEW c \in Calls, Step(c) PROVE tokens'[t] = Nothing
  BY <1>1 DEF Step, FindEmail, PutUser, PutIndex, FindToken, FindId, FindUser, Delete, Save,
              TypeInv, TypeOK, At, Issued
<1>2. ASSUME NEW c \in Calls, ExpireToken(c) PROVE tokens'[t] = Nothing
  BY <1>2 DEF ExpireToken, TypeInv, TypeOK
<1>3. \A c \in Calls : Lose(c) \/ Error(c) => UNCHANGED tokens
  BY DEF Lose, Error
<1>4. ASSUME NEW c \in Calls, NEW op \in Entering, NEW e \in Emails, NEW pwd \in Passwords,
             Present(c, op, e, pwd)
      PROVE  UNCHANGED tokens
  BY <1>4 DEF Present
<1>5. ASSUME NEW c \in Calls, NEW u \in Calls, NEW op \in Returning, Use(c, op, u)
      PROVE  UNCHANGED tokens
  BY <1>5 DEF Use
<1>6. UNCHANGED vars => UNCHANGED tokens
  BY DEF vars
<1> QED
  BY <1>1, <1>2, <1>3, <1>4, <1>5, <1>6, OneCallMoves

\* Once a logout was answered, the token it named is gone for good, whatever
\* refresh was in flight with it.
THEOREM LogoutIsFinal == Spec => []RevokedForGood
<1>1. Init => RevokedForGood
  BY DEF Init, RevokedForGood
<1>2. ASSUME TypeInv, RevokedForGood, [Next]_vars PROVE RevokedForGood'
  <2> SUFFICES ASSUME NEW c \in Calls, calls'[c].op = "logout", calls'[c].pc = "ok"
               PROVE  tokens'[calls'[c].token] = Nothing
    BY DEF RevokedForGood
  <2>1. CASE calls'[c] = calls[c]
    <3>1. calls[c].token \in Calls /\ Issued(calls[c].token)
          /\ tokens[calls[c].token] = Nothing
      BY <1>2, <2>1 DEF TypeInv, WellFormed, RevokedForGood, Returning
    <3> QED
      BY <1>2, <2>1, <3>1, TokensOnlyGo
  <2>2. CASE Delete(c)
    <3>1. calls[c].op = "logout" /\ calls[c].token \in Calls
          /\ calls'[c].token = calls[c].token
      BY <1>2, <2>2 DEF Delete, Goto, At, TypeInv, TypeOK, Call, WellFormed, Returning
    <3> QED
      BY <1>2, <2>2, <3>1 DEF Delete, TypeInv, TypeOK
  <2>3. ASSUME NEW d \in Calls, Continues(d), Step(d) \/ Lose(d) \/ Error(d)
        PROVE  calls'[c] = calls[c] \/ Delete(c)
    <3>1. CASE d = c
      <4>1. calls[c].op = "logout" /\ calls[c].pc = "delete"
        BY <1>2, <2>3, <3>1 DEF Continues, InFlight, TypeInv, WellFormed, Places
      <4> QED
        BY <1>2, <2>3, <3>1, <4>1 DEF Step, FindEmail, PutUser, PutIndex, FindToken, FindId,
             FindUser, Save, Lose, Error, Goto, At, TypeInv, TypeOK, Call
    <3> QED
      BY <2>3, <3>1 DEF Continues
  <2>4. ASSUME NEW d \in Calls, NEW e \in Emails, NEW pwd \in Passwords,
               NEW op \in Entering, Present(d, op, e, pwd)
        PROVE  calls'[c] = calls[c]
    BY <1>2, <2>4 DEF Present, TypeInv, TypeOK, Call
  <2>5. ASSUME NEW d \in Calls, NEW t \in Calls, NEW op \in Returning, Use(d, op, t)
        PROVE  calls'[c] = calls[c]
    BY <1>2, <2>5 DEF Use, TypeInv, TypeOK, Call
  <2> QED
    BY <1>2, <2>1, <2>2, <2>3, <2>4, <2>5, OneCallMoves DEF ExpireToken, vars
<1> QED
  BY <1>1, <1>2, TypeInvariant, PTL DEF Spec

-----------------------------------------------------------------------------
(* A login has one live token at a time, when clients do not overlap       *)
(* calls.  Rotation is not atomic: between deleting the old token and      *)
(* saving the new one a login has none, and the call in between is what    *)
(* carries it on.  So the invariant counts bearers, stored tokens and the  *)
(* calls about to store one.                                               *)

\* Without overlaps, at most one call registers an email or works with a token.
Apart ==
    serial =>
        \A c, d \in Calls :
            InFlight(c) /\ InFlight(d) =>
                /\ /\ calls[c].op = "register" /\ calls[d].op = "register"
                   /\ calls[c].email = calls[d].email
                   => c = d
                /\ /\ calls[c].op \in Returning /\ calls[d].op \in Returning
                   /\ calls[c].token = calls[d].token
                   => c = d

\* A token that is stored, or a call that will store one.
Bearer(c) ==
    \/ tokens[c] # Nothing
    \/ calls[c].pc = "save"
    \/ calls[c].op \in Entering /\ InFlight(c)

OneBearer(c, d) ==
    calls[c].login = calls[d].login =>
        /\ Bearer(c) /\ Bearer(d) => c = d
        /\ Rotating(c) /\ Bearer(d) => d = calls[c].token
        /\ Rotating(c) /\ Rotating(d) => c = d

SessionInv == serial => \A c, d \in Calls : OneBearer(c, d)

LEMMA SerialStays == ASSUME TypeInv, [Next]_vars PROVE serial' = serial
<1>1. \A c \in Calls : Step(c) \/ Lose(c) \/ Error(c) => serial' = serial
  BY DEF Step, FindEmail, PutUser, PutIndex, FindToken, FindId, FindUser, Delete, Save,
         Lose, Error
<1>2. ASSUME NEW c \in Calls, NEW op \in Entering, NEW e \in Emails,
             NEW pwd \in Passwords, Present(c, op, e, pwd)
      PROVE  serial' = serial
  BY <1>2 DEF Present
<1>3. ASSUME NEW c \in Calls, NEW u \in Calls, NEW op \in Returning, Use(c, op, u)
      PROVE  serial' = serial
  BY <1>3 DEF Use
<1>4. (\A t \in Calls : ExpireToken(t) => serial' = serial)
      /\ (UNCHANGED vars => serial' = serial)
  BY DEF ExpireToken, vars
<1> QED
  BY <1>1, <1>2, <1>3, <1>4, OneCallMoves

\* Calls are kept apart when they begin, and keep their email and token.
LEMMA ApartStep == ASSUME TypeInv, Apart, [Next]_vars PROVE Apart'
<1>1. serial' = serial
  BY SerialStays
<1>2. ASSUME NEW x \in Calls, Continues(x) PROVE Apart'
  BY <1>1, <1>2 DEF Apart, Continues, InFlight, Entering, TypeInv, WellFormed
<1>3. ASSUME NEW x \in Calls, NEW op \in Entering, NEW e \in Emails, NEW pwd \in Passwords,
             Present(x, op, e, pwd)
      PROVE  Apart'
  <2>1. /\ calls'[x].op = op /\ calls'[x].email = e
        /\ \A y \in Calls \ {x} : calls'[y] = calls[y]
        /\ serial /\ op = "register" => \A y \in Calls :
             ~(InFlight(y) /\ calls[y].op = "register" /\ calls[y].email = e)
    BY <1>3 DEF Present, TypeInv, TypeOK, Call
  <2> QED
    BY <1>1, <2>1 DEF Apart, InFlight, Entering, Returning
<1>4. ASSUME NEW x \in Calls, NEW t \in Calls, NEW op \in Returning, Use(x, op, t)
      PROVE  Apart'
  <2>1. /\ calls'[x].op = op /\ calls'[x].token = t
        /\ \A y \in Calls \ {x} : calls'[y] = calls[y]
        /\ serial => \A y \in Calls : InFlight(y) => calls[y].token # t
    BY <1>4 DEF Use, TypeInv, TypeOK, Call
  <2> QED
    BY <1>1, <2>1 DEF Apart, InFlight, Returning
<1>5. ASSUME calls' = calls PROVE Apart'
  BY <1>1, <1>5 DEF Apart, InFlight
<1> QED
  BY <1>2, <1>3, <1>4, <1>5, OneCallMoves DEF ExpireToken, vars

\* Whatever takes no token and carries on no login.
LEMMA FewerBearers ==
    ASSUME SessionInv, serial' = serial,
           \A c \in Calls : Bearer(c)' => Bearer(c) /\ calls'[c].login = calls[c].login,
           \A c \in Calls : Rotating(c)' =>
               Rotating(c) /\ calls'[c].login = calls[c].login
               /\ calls'[c].token = calls[c].token
    PROVE  SessionInv'
  BY DEF SessionInv, OneBearer

\* In flight, a call has no token of its own yet.
LEMMA NoTokenYet ==
    ASSUME TypeInv, NEW c \in Calls, calls[c].pc # "ok"
    PROVE  tokens[c] = Nothing
  BY DEF TypeInv, StoredAreIssued, Issued

LEMMA SessionStep == ASSUME TypeInv, Apart, SessionInv, [Next]_vars PROVE SessionInv'
<1>1. serial' = serial
  BY SerialStays
<1>2. ASSUME NEW c \in Calls, NEW op \in Entering, NEW e \in Emails, NEW pwd \in Passwords,
             Present(c, op, e, pwd)
      PROVE  SessionInv'
  <2>1. /\ calls[c].pc = "new" /\ tokens' = tokens /\ calls'[c].login = c
        /\ calls'[c].op = op /\ calls'[c].pc = "findEmail"
        /\ \A d \in Calls \ {c} : calls'[d] = calls[d]
    BY <1>2 DEF Present, At, TypeInv, TypeOK, Call
  <2>2. \A d \in Calls \ {c} : (Bearer(d)' => Bearer(d)) /\ (Rotating(d)' => Rotating(d))
    BY <2>1 DEF Bearer, Rotating, InFlight
  <2>3. \A d \in Calls \ {c} : Bearer(d) \/ Rotating(d) => calls[d].login # c
    <3> SUFFICES ASSUME NEW d \in Calls \ {c}, calls[d].login = c
                 PROVE  calls[d].pc = "new" /\ tokens[d] = Nothing
      BY DEF Bearer, Rotating, InFlight
    <3>1. WellFormed(d)
      BY DEF TypeInv
    <3> QED
      BY <2>1, <3>1, NoTokenYet DEF WellFormed
  <2>4. ~Rotating(c)'
    BY <2>1 DEF Rotating
  <2> QED
    BY <1>1, <2>1, <2>2, <2>3, <2>4 DEF SessionInv, OneBearer
<1>3. ASSUME NEW c \in Calls, NEW t \in Calls, NEW op \in Returning, Use(c, op, t)
      PROVE  SessionInv'
  <2>1. /\ calls[c].pc = "new" /\ tokens' = tokens
        /\ calls'[c].op = op /\ calls'[c].pc \in {"findToken", "delete"}
        /\ (calls'[c].pc = "delete" => op # "refresh")
        /\ \A d \in Calls \ {c} : calls'[d] = calls[d]
    BY <1>3 DEF Use, At, TypeInv, TypeOK, Call
  <2>2. ~Bearer(c)' /\ ~Rotating(c)'
    BY <2>1, NoTokenYet DEF Bearer, Rotating, Entering, Returning
  <2>3. \A d \in Calls \ {c} : (Bearer(d)' => Bearer(d)) /\ (Rotating(d)' => Rotating(d))
    BY <2>1 DEF Bearer, Rotating, InFlight
  <2> QED
    BY <1>1, <2>1, <2>2, <2>3, FewerBearers
<1>4. ASSUME NEW c \in Calls, Continues(c), tokens' = tokens, Bearer(c)' => Bearer(c),
             Rotating(c)' => Rotating(c)
      PROVE  SessionInv'
  <2>1. \A d \in Calls : (Bearer(d)' => Bearer(d)) /\ (Rotating(d)' => Rotating(d))
    BY <1>4 DEF Continues, Bearer, Rotating, InFlight
  <2> QED
    BY <1>1, <1>4, <2>1, FewerBearers DEF Continues
<1>5. ASSUME NEW c \in Calls, Continues(c), FindToken(c) PROVE SessionInv'
  <2> DEFINE t == calls[c].token
  <2>1. /\ calls[c].op = "refresh" /\ t \in Calls /\ Issued(t) /\ calls[c].login = calls[t].login
        /\ tokens' = tokens /\ t # c /\ calls'[c].op = "refresh" /\ calls[c].pc = "findToken"
    BY <1>5 DEF FindToken, At, Issued, TypeInv, TypeOK, Call, WellFormed, Places, Returning
  <2>2. CASE tokens[t] = Nothing
    <3>1. calls'[c].pc = "refused"
      BY <1>5, <2>2 DEF FindToken, TypeInv, TypeOK, Call
    <3>2. ~Bearer(c)' /\ ~Rotating(c)'
      BY <2>1, <3>1, NoTokenYet DEF Bearer, Rotating, InFlight
    <3> QED
      BY <1>4, <1>5, <2>1, <3>2
  <2>3. CASE tokens[t] # Nothing
    <3>1. calls'[c].pc = "findId"
      BY <1>5, <2>3 DEF FindToken, TypeInv, TypeOK, Call
    <3>2. ~Bearer(c)' /\ calls'[c].login = calls[c].login /\ calls'[c].token = t
      BY <1>5, <2>1, <3>1, NoTokenYet DEF Bearer, Entering, Continues
    <3>3. ASSUME NEW d \in Calls \ {c}
          PROVE  /\ Bearer(d)' => Bearer(d)
                 /\ Rotating(d)' => Rotating(d)
                 /\ calls'[d].login = calls[d].login /\ calls'[d].token = calls[d].token
      BY <1>5, <2>1 DEF Continues, Bearer, Rotating, InFlight
    <3>4. ASSUME serial, NEW d \in Calls \ {c}, calls[d].login = calls[c].login
          PROVE  (Bearer(d) => d = t) /\ ~Rotating(d)
      <4>1. Bearer(t) /\ OneBearer(t, d) /\ OneBearer(d, t)
        BY <2>1, <2>3, <3>4 DEF Bearer, SessionInv
      <4>2. Bearer(d) => d = t
        BY <2>1, <3>4, <4>1 DEF OneBearer
      <4>3. Rotating(d) => calls[d].token = t
        BY <2>1, <3>4, <4>1 DEF OneBearer
      <4> QED
        BY <1>5, <2>1, <3>4, <4>2, <4>3 DEF Apart, Rotating, InFlight, Returning
    <3> HIDE DEF t
    <3>5. ASSUME serial, NEW d \in Calls, NEW e \in Calls PROVE OneBearer(d, e)'
      <4>1. OneBearer(d, e)
        BY <3>5 DEF SessionInv
      <4> QED
        BY <2>1, <3>2, <3>3, <3>4, <3>5, <4>1 DEF OneBearer
    <3> QED
      BY <1>1, <3>5 DEF SessionInv
  <2> QED
    BY <2>2, <2>3
<1>6. ASSUME NEW c \in Calls, Continues(c), Delete(c) PROVE SessionInv'
  <2>0. PICK t \in Calls : t = calls[c].token
    BY <1>6 DEF Delete, At, TypeInv, TypeOK, Call, WellFormed, Places, Returning
  <2>1. /\ t = calls[c].token /\ calls[c].op \in {"refresh", "logout"} /\ Issued(t)
        /\ calls[c].login = calls[t].login /\ calls'[c].op = calls[c].op
        /\ tokens' = [tokens EXCEPT ![t] = Nothing] /\ t # c /\ calls[c].pc = "delete"
        /\ calls'[c].pc = IF calls[c].op = "refresh" THEN "save" ELSE "ok"
    BY <1>6, <2>0 DEF Delete, Goto, At, Issued, TypeInv, TypeOK, Call, WellFormed, Places,
                      Returning
  <2>2. \A d \in Calls : tokens'[d] # Nothing => tokens[d] # Nothing
    BY <2>1 DEF TypeInv, TypeOK
  <2>3. ASSUME NEW d \in Calls \ {c}
        PROVE  /\ Bearer(d)' => Bearer(d) /\ d # t
               /\ Rotating(d)' => Rotating(d)
               /\ calls'[d].login = calls[d].login /\ calls'[d].token = calls[d].token
    <3>1. calls'[d] = calls[d] /\ (tokens'[d] # Nothing => tokens[d] # Nothing)
      BY <1>6, <2>2 DEF Continues
    <3>2. tokens'[t] = Nothing /\ calls'[t].pc = "ok"
      BY <1>6, <2>1 DEF Continues, Issued, TypeInv, TypeOK
    <3>3. ~Bearer(t)'
      BY <3>2 DEF Bearer, InFlight
    <3> QED
      BY <3>1, <3>3 DEF Bearer, Rotating, InFlight
  <2>4. ~Rotating(c)' /\ calls'[c].login = calls[c].login
    BY <1>6, <2>1 DEF Rotating, Continues
  <2>5. CASE calls[c].op = "logout"
    <3>1. ~Bearer(c)'
      BY <2>1, <2>2, <2>5, NoTokenYet DEF Bearer, Entering
    <3> QED
      BY <1>1, <2>3, <2>4, <3>1, FewerBearers
  <2>6. CASE calls[c].op = "refresh"
    <3>1. Rotating(c)
      BY <2>1, <2>6 DEF Rotating
    <3>2. ASSUME serial, NEW d \in Calls, NEW e \in Calls PROVE OneBearer(d, e)'
      <4>1. OneBearer(d, e) /\ OneBearer(c, d) /\ OneBearer(c, e)
        BY <3>2 DEF SessionInv
      <4> QED
        BY <2>3, <2>4, <2>1, <3>1, <4>1 DEF OneBearer
    <3> QED
      BY <1>1, <3>2 DEF SessionInv
  <2> QED
    BY <2>1, <2>5, <2>6
<1>7. ASSUME NEW c \in Calls, Continues(c), Save(c) PROVE SessionInv'
  <2>1. /\ calls[c].pc = "save" /\ calls'[c].pc = "ok"
        /\ \A d \in Calls \ {c} : tokens'[d] = tokens[d]
    BY <1>7 DEF Save, Goto, At, TypeInv, TypeOK, Call
  <2>2. ASSUME NEW d \in Calls
        PROVE  (Bearer(d)' => Bearer(d)) /\ (Rotating(d)' => Rotating(d))
    BY <1>7, <2>1 DEF Continues, Bearer, Rotating, InFlight
  <2> QED
    BY <1>1, <1>7, <2>2, FewerBearers DEF Continues
<1>8. ASSUME NEW c \in Calls, Continues(c), Step(c) \/ Lose(c) \/ Error(c) PROVE SessionInv'
  <2>1. WellFormed(c) /\ calls[c] \in Call /\ tokens[c] \in Calls \cup {Nothing}
    BY DEF TypeInv, TypeOK
  <2>2. CASE FindEmail(c)
    BY <1>4, <1>8, <2>1, <2>2 DEF FindEmail, Continues, At, InFlight, Bearer, Rotating,
       WellFormed, Places, Entering
  <2>3. CASE PutUser(c)
    BY <1>4, <1>8, <2>1, <2>3 DEF PutUser, Continues, At, InFlight, Bearer, Rotating,
       WellFormed, Places, Entering
  <2>4. CASE PutIndex(c)
    BY <1>4, <1>8, <2>1, <2>4 DEF PutIndex, Continues, At, InFlight, Bearer, Rotating,
       WellFormed, Places, Entering
  <2>5. CASE FindId(c) \/ FindUser(c)
    BY <1>4, <1>8, <2>1, <2>5 DEF FindId, FindUser, Continues, At, InFlight, Bearer, Rotating,
       WellFormed, Places, TypeInv, TypeOK, Call
  <2>6. CASE Lose(c)
    BY <1>4, <1>8, <2>1, <2>6 DEF Lose, Goto, Continues, InFlight, Bearer, Rotating,
       TypeInv, TypeOK, Call
  <2>7. CASE Error(c)
    BY <1>4, <1>8, <2>1, <2>7 DEF Error, Goto, At, Continues, InFlight, Bearer, Rotating,
       WellFormed, Places, Entering, TypeInv, TypeOK, Call
  <2> QED
    BY <1>5, <1>6, <1>7, <1>8, <2>2, <2>3, <2>4, <2>5, <2>6, <2>7 DEF Step
<1>9. ASSUME NEW t \in Calls, ExpireToken(t) PROVE SessionInv'
  <2>1. ASSUME NEW d \in Calls
        PROVE  (Bearer(d)' => Bearer(d)) /\ (Rotating(d)' => Rotating(d)) /\ calls' = calls
    BY <1>9 DEF ExpireToken, Bearer, Rotating, InFlight, TypeInv, TypeOK
  <2> QED
    BY <1>1, <2>1, FewerBearers
<1>10. CASE UNCHANGED vars
  BY <1>10 DEF vars, SessionInv, OneBearer, Bearer, Rotating, InFlight
<1> QED
  BY <1>2, <1>3, <1>8, <1>9, <1>10, OneCallMoves

\* Without overlapping calls on a token, a login has at most one live refresh
\* token, however often it was refreshed and whichever of those calls were lost.
THEOREM RotationKeepsOneToken == Spec => []OneTokenPerSession
<1>1. Init => Apart /\ SessionInv
  BY DEF Init, Apart, SessionInv, OneBearer, Bearer, Rotating, InFlight
<1>2. TypeInv /\ Apart /\ SessionInv /\ [Next]_vars => Apart' /\ SessionInv'
  BY ApartStep, SessionStep
<1>3. SessionInv => OneTokenPerSession
  BY DEF SessionInv, OneBearer, Bearer, OneTokenPerSession
<1> QED
  BY <1>1, <1>2, <1>3, TypeInvariant, PTL DEF Spec

-----------------------------------------------------------------------------
(* Tokens lead to users.  Redis rejects no command in these behaviours:    *)
(* an id in users, in tokens or in the hands of a handler was given to a   *)
(* user whose record is stored, and whose index entry follows.             *)

\* The user that register call u created can be found by its email, and by its
\* id once the second command of its pipeline was executed.
Known(u) ==
    /\ u \in Calls /\ calls[u].op = "register"
    /\ calls[u].pc \in {"putIndex", "save"} \cup Ended
    /\ users[calls[u].email] # Nothing
    /\ calls[u].pc = "putIndex" \/ index[u] = calls[u].email
    /\ serial => users[calls[u].email].id = u

\* The handlers that hold the id of a user.
Works(c) ==
    \/ calls[c].op \in {"login", "refresh"} /\ (calls[c].pc = "save" \/ Rotating(c))
    \/ calls[c].op = "register" /\ calls[c].pc \in {"putIndex", "save"}

AccountInv ==
    errors = 0 =>
        /\ \A e \in Emails : users[e] # Nothing => Known(users[e].id)
        /\ \A t \in Calls : tokens[t] # Nothing => Known(tokens[t])
        /\ \A c \in Calls : Works(c) => Known(calls[c].user)

\* Between the conflict check and the write, nobody else takes the email; nor
\* does anyone later.
KeptInv ==
    serial /\ errors = 0 =>
        \A c \in Calls :
            calls[c].op = "register" =>
                /\ calls[c].pc = "putUser" => users[calls[c].email] = Nothing
                /\ calls[c].pc \in {"putIndex", "save", "ok"} =>
                     users[calls[c].email] = [id |-> c, password |-> calls[c].password]

\* Only an error reply is counted as one.
LEMMA ErrorsCount ==
    ASSUME TypeInv, [Next]_vars, errors' = 0
    PROVE  errors = 0 /\ \A c \in Calls : ~Error(c)
<1>1. errors \in Nat
  BY BoundsAssumption DEF TypeInv, TypeOK
<1>2. \A c \in Calls : ~Error(c)
  BY <1>1 DEF Error
<1>3. \A c \in Calls : Step(c) \/ Lose(c) => errors' = errors
  BY DEF Step, FindEmail, PutUser, PutIndex, FindToken, FindId, FindUser, Delete, Save, Lose
<1>4. ASSUME NEW c \in Calls, NEW op \in Entering, NEW e \in Emails,
             NEW pwd \in Passwords, Present(c, op, e, pwd)
      PROVE  errors' = errors
  BY <1>4 DEF Present
<1>5. ASSUME NEW c \in Calls, NEW u \in Calls, NEW op \in Returning, Use(c, op, u)
      PROVE  errors' = errors
  BY <1>5 DEF Use
<1>6. (\A t \in Calls : ExpireToken(t) => errors' = errors)
      /\ (UNCHANGED vars => errors' = errors)
  BY DEF ExpireToken, vars
<1> QED
  BY <1>2, <1>3, <1>4, <1>5, <1>6, OneCallMoves

\* Steps that store no account leave the accounts as they are.
LEMMA OnlyPutUserWrites ==
    ASSUME TypeInv, [Next]_vars, \A c \in Calls : ~PutUser(c)
    PROVE  users' = users
<1>1. \A c \in Calls : Step(c) \/ Lose(c) \/ Error(c) => users' = users
  BY DEF Step, FindEmail, PutIndex, FindToken, FindId, FindUser, Delete, Save, Lose, Error
<1>2. ASSUME NEW c \in Calls, NEW op \in Entering, NEW e \in Emails,
             NEW pwd \in Passwords, Present(c, op, e, pwd)
      PROVE  users' = users
  BY <1>2 DEF Present
<1>3. ASSUME NEW c \in Calls, NEW u \in Calls, NEW op \in Returning, Use(c, op, u)
      PROVE  users' = users
  BY <1>3 DEF Use
<1>4. (\A t \in Calls : ExpireToken(t) => users' = users)
      /\ (UNCHANGED vars => users' = users)
  BY DEF ExpireToken, vars
<1> QED
  BY <1>1, <1>2, <1>3, <1>4, OneCallMoves

\* What PutUser does to the records.
LEMMA PutUserEffect ==
    ASSUME TypeInv, NEW c \in Calls, PutUser(c)
    PROVE  /\ calls[c].op = "register" /\ calls[c].pc = "putUser" /\ calls[c].email \in Emails
           /\ calls[c].user = c /\ InFlight(c)
           /\ users'[calls[c].email] = [id |-> c, password |-> calls[c].password]
           /\ users'[calls[c].email] # Nothing /\ users'[calls[c].email].id = c
           /\ \A e \in Emails \ {calls[c].email} : users'[e] = users[e]
           /\ calls'[c].pc = "putIndex" /\ calls'[c].op = "register"
           /\ calls'[c].email = calls[c].email /\ calls'[c].user = c
           /\ calls'[c].password = calls[c].password
           /\ \A d \in Calls \ {c} : calls'[d] = calls[d]
           /\ index' = index /\ tokens' = tokens
<1>1. WellFormed(c) /\ calls[c].pc = "putUser" /\ calls[c] \in Call
  BY DEF PutUser, At, TypeInv, TypeOK
<1>2. calls[c].op = "register" /\ calls[c].email \in Emails /\ calls[c].password \in Passwords
      /\ calls[c].user = c
  BY <1>1 DEF WellFormed, Places, Entering
<1>3. [id |-> c, password |-> calls[c].password] \in User
  BY <1>2 DEF User
<1>4. [id |-> c, password |-> calls[c].password] # Nothing
  BY <1>3, NothingAssumption
<1> QED
  BY <1>1, <1>2, <1>4 DEF PutUser, Goto, InFlight, TypeInv, TypeOK, Call

\* A register call that passed the check of its email keeps it to itself.
LEMMA KeptStep ==
    ASSUME TypeInv, TypeInv', Apart, KeptInv, [Next]_vars
    PROVE  KeptInv'
<1> SUFFICES ASSUME serial', errors' = 0, NEW c \in Calls, calls'[c].op = "register"
             PROVE  /\ calls'[c].pc = "putUser" => users'[calls'[c].email] = Nothing
                    /\ calls'[c].pc \in {"putIndex", "save", "ok"} =>
                         users'[calls'[c].email] =
                             [id |-> c, password |-> calls'[c].password]
  BY DEF KeptInv
<1>1. serial /\ errors = 0 /\ \A d \in Calls : ~Error(d)
  BY SerialStays, ErrorsCount
<1>2. CASE \E d \in Calls : PutUser(d)
  <2>1. PICK d \in Calls : PutUser(d)
    BY <1>2
  <2>2. /\ calls[d].op = "register" /\ calls[d].pc = "putUser" /\ InFlight(d)
        /\ calls[d].email \in Emails
        /\ \A e \in Emails \ {calls[d].email} : users'[e] = users[e]
        /\ \A x \in Calls \ {d} : calls'[x] = calls[x]
    BY <2>1, PutUserEffect
  <2>3. CASE d = c
    <3>1. /\ users'[calls[c].email] = [id |-> c, password |-> calls[c].password]
          /\ calls'[c].pc = "putIndex" /\ calls'[c].email = calls[c].email
          /\ calls'[c].password = calls[c].password
      BY <2>1, <2>3, PutUserEffect
    <3> QED
      BY <3>1
  <2>4. CASE d # c
    <3>1. calls'[c] = calls[c] /\ calls[c].op = "register"
      BY <2>2, <2>4
    <3>2. users[calls[d].email] = Nothing
      BY <1>1, <2>2 DEF KeptInv
    <3>3. calls[c].pc \in {"putUser", "putIndex", "save"} => calls[c].email # calls[d].email
      BY <1>1, <2>2, <2>4, <3>1 DEF Apart, InFlight
    <3>4. calls[c].pc = "ok" => calls[c].email # calls[d].email
      <4> SUFFICES ASSUME calls[c].pc = "ok" PROVE users[calls[c].email] # Nothing
        BY <3>2
      <4>1. WellFormed(c) /\ calls[c].password \in Passwords
        BY <3>1 DEF TypeInv, WellFormed, Entering
      <4>2. [id |-> c, password |-> calls[c].password] \in User
        BY <4>1 DEF User
      <4>3. users[calls[c].email] = [id |-> c, password |-> calls[c].password]
        BY <1>1, <3>1 DEF KeptInv
      <4> QED
        BY <4>2, <4>3, NothingAssumption
    <3>5. calls[c].pc # "new" => calls[c].email \in Emails
      BY <3>1 DEF TypeInv, WellFormed, Entering
    <3>6. calls[c].pc \in {"putUser", "putIndex", "save", "ok"} =>
              users'[calls[c].email] = users[calls[c].email]
      BY <2>2, <3>3, <3>4, <3>5
    <3> QED
      BY <1>1, <3>1, <3>6 DEF KeptInv
  <2> QED
    BY <2>3, <2>4
<1>3. CASE \A d \in Calls : ~PutUser(d)
  <2>1. users' = users
    BY <1>3, OnlyPutUserWrites
  <2>2. CASE calls'[c] = calls[c]
    BY <1>1, <2>1, <2>2 DEF KeptInv
  <2>3. CASE Continues(c) /\ (Step(c) \/ Lose(c))
    <3>1. calls[c].op = "register" /\ calls'[c].email = calls[c].email
          /\ calls'[c].password = calls[c].password /\ WellFormed(c)
      BY <2>3 DEF Continues, Entering, TypeInv
    <3>2. calls[c].pc \in {"findEmail", "putUser", "putIndex", "save"}
      BY <2>3, <3>1 DEF Continues, InFlight, WellFormed, Places
    <3>3. \/ calls[c].pc = "findEmail" /\ calls'[c].pc = "refused"
          \/ calls[c].pc = "findEmail" /\ calls'[c].pc = "putUser"
             /\ users[calls[c].email] = Nothing
          \/ calls[c].pc = "putIndex" /\ calls'[c].pc = "save"
          \/ calls[c].pc = "save" /\ calls'[c].pc = "ok"
          \/ calls'[c].pc = "lost"
      <4>1. calls[c] \in Call /\ calls \in [Calls -> Call]
        BY DEF TypeInv, TypeOK
      <4>2. CASE FindEmail(c)
        BY <3>1, <4>1, <4>2 DEF FindEmail, Admit, At, Call
      <4>3. CASE PutIndex(c) \/ Save(c) \/ Lose(c)
        BY <3>1, <4>1, <4>3 DEF PutIndex, Save, Lose, Goto, At, Call
      <4> QED
        BY <1>3, <2>3, <3>2, <4>2, <4>3 DEF Step, FindToken, FindId, FindUser, Delete, At
    <3> QED
      BY <1>1, <2>1, <3>1, <3>3 DEF KeptInv
  <2>4. ASSUME NEW op \in Entering, NEW e \in Emails, NEW pwd \in Passwords,
               Present(c, op, e, pwd)
        PROVE  calls'[c].pc = "findEmail"
    BY <2>4 DEF Present, TypeInv, TypeOK, Call
  <2>5. ASSUME NEW d \in Calls, NEW op \in Entering, NEW e \in Emails,
               NEW pwd \in Passwords, Present(d, op, e, pwd), d # c
        PROVE  calls'[c] = calls[c]
    BY <2>5 DEF Present, TypeInv, TypeOK
  <2>6. ASSUME NEW t \in Calls, NEW op \in Returning, Use(c, op, t)
        PROVE  calls'[c].op # "register"
    BY <2>6 DEF Use, TypeInv, TypeOK, Call, Returning
  <2>7. ASSUME NEW d \in Calls, NEW t \in Calls, NEW op \in Returning, Use(d, op, t), d # c
        PROVE  calls'[c] = calls[c]
    BY <2>7 DEF Use, TypeInv, TypeOK
  <2>8. \A d \in Calls : Continues(d) /\ d # c => calls'[c] = calls[c]
    BY DEF Continues
  <2>9. (\A t \in Calls : ExpireToken(t) => calls'[c] = calls[c])
        /\ (UNCHANGED vars => calls'[c] = calls[c])
    BY DEF ExpireToken, vars
  <2> QED
    BY <1>1, <2>2, <2>3, <2>4, <2>5, <2>6, <2>7, <2>8, <2>9, OneCallMoves
<1> QED
  BY <1>2, <1>3

\* Without overlapping registers and without Redis errors, whoever was told
\* that an account was created keeps it.
THEOREM AccountStays == Spec => []AccountIsKept
<1>1. Init => Apart /\ KeptInv
  BY DEF Init, Apart, KeptInv, InFlight
<1>2. TypeInv /\ TypeInv' /\ Apart /\ KeptInv /\ [Next]_vars => Apart' /\ KeptInv'
  BY ApartStep, KeptStep
<1>3. KeptInv => AccountIsKept
  BY DEF KeptInv, AccountIsKept, Issued
<1> QED
  BY <1>1, <1>2, <1>3, TypeInvariant, PTL DEF Spec

\* A user that can be found stays so.
LEMMA KnownStays ==
    ASSUME TypeInv, KeptInv, [Next]_vars, errors' = 0, NEW u, Known(u)
    PROVE  Known(u)'
<1>1. serial' = serial /\ errors = 0 /\ \A d \in Calls : ~Error(d)
  BY SerialStays, ErrorsCount
<1>2. u \in Calls /\ WellFormed(u) /\ calls[u].email \in Emails /\ calls[u] \in Call
      /\ calls[u].pc # "new" /\ calls \in [Calls -> Call]
  BY DEF Known, TypeInv, TypeOK, WellFormed, Entering
<1>3. calls'[u].op = "register" /\ calls'[u].email = calls[u].email
      /\ calls'[u].pc \in {"putIndex", "save"} \cup Ended
      /\ (calls'[u].pc = "putIndex" \/ index'[u] = calls'[u].email)
  <2>1. CASE calls'[u] = calls[u] /\ index'[u] = index[u]
    BY <2>1 DEF Known
  <2>2. ASSUME NEW c \in Calls \ {u}, Continues(c), Step(c) \/ Lose(c)
        PROVE  calls'[u] = calls[u] /\ index'[u] = index[u]
    <3>1. calls'[u] = calls[u]
      BY <1>2, <2>2 DEF Continues
    <3>2. CASE PutIndex(c)
      BY <1>2, <3>1, <3>2 DEF PutIndex, TypeInv, TypeOK
    <3>3. CASE ~PutIndex(c)
      BY <2>2, <3>1, <3>3 DEF Step, FindEmail, PutUser, FindToken, FindId, FindUser, Delete,
         Save, Lose
    <3> QED
      BY <3>2, <3>3
  <2>3. ASSUME Continues(u), Step(u) \/ Lose(u)
        PROVE  \/ calls[u].pc = "putIndex" /\ calls'[u].pc = "save"
                  /\ index'[u] = calls[u].email
               \/ calls[u].pc = "save" /\ calls'[u].pc \in {"ok", "lost"}
                  /\ index'[u] = index[u]
    <3>1. calls[u].pc \in {"putIndex", "save"}
      BY <2>3 DEF Known, Continues, InFlight
    <3> QED
      BY <1>2, <2>3, <3>1 DEF Step, FindEmail, PutUser, PutIndex, FindToken, FindId,
         FindUser, Delete, Save, Lose, Goto, At, Call, TypeInv, TypeOK
  <2>4. ASSUME NEW d \in Calls, NEW op \in Entering, NEW e \in Emails,
               NEW pwd \in Passwords, Present(d, op, e, pwd)
        PROVE  calls'[u] = calls[u] /\ index'[u] = index[u]
    BY <1>2, <2>4 DEF Present, At
  <2>5. ASSUME NEW d \in Calls, NEW t \in Calls, NEW op \in Returning, Use(d, op, t)
        PROVE  calls'[u] = calls[u] /\ index'[u] = index[u]
    BY <1>2, <2>5 DEF Use, At
  <2>6. (\A t \in Calls : ExpireToken(t) => calls' = calls /\ index' = index)
        /\ (UNCHANGED vars => calls' = calls /\ index' = index)
    BY DEF ExpireToken, vars
  <2>7. CASE Continues(u) /\ (Step(u) \/ Lose(u))
    BY <2>3, <2>7 DEF Continues, Known, Entering
  <2> QED
    BY <1>1, <2>1, <2>2, <2>4, <2>5, <2>6, <2>7, OneCallMoves
<1>4. users'[calls[u].email] # Nothing /\ (serial => users'[calls[u].email].id = u)
  <2>1. CASE \E d \in Calls : PutUser(d)
    <3>1. PICK d \in Calls : PutUser(d)
      BY <2>1
    <3>2. /\ users'[calls[d].email] # Nothing /\ calls[d].op = "register"
          /\ calls[d].pc = "putUser"
          /\ \A e \in Emails \ {calls[d].email} : users'[e] = users[e]
      BY <3>1, PutUserEffect
    <3>3. serial => calls[d].email # calls[u].email
      BY <1>1, <3>2 DEF KeptInv, Known
    <3> QED
      BY <1>2, <3>2, <3>3 DEF Known
  <2>2. CASE \A d \in Calls : ~PutUser(d)
    BY <2>2, OnlyPutUserWrites DEF Known
  <2> QED
    BY <2>1, <2>2
<1> QED
  BY <1>1, <1>2, <1>3, <1>4 DEF Known

\* Every id that is stored or held was given to a user who can be found.
LEMMA AccountStep ==
    ASSUME TypeInv, TypeInv', KeptInv, AccountInv, [Next]_vars
    PROVE  AccountInv'
<1> SUFFICES ASSUME errors' = 0
             PROVE  /\ \A e \in Emails : users'[e] # Nothing => Known(users[e].id)'
                    /\ \A t \in Calls : tokens'[t] # Nothing => Known(tokens[t])'
                    /\ \A c \in Calls : Works(c)' => Known(calls[c].user)'
  BY DEF AccountInv
<1>1. errors = 0 /\ \A d \in Calls : ~Error(d)
  BY ErrorsCount
<1>2. /\ \A e \in Emails : users[e] # Nothing => Known(users[e].id)
      /\ \A t \in Calls : tokens[t] # Nothing => Known(tokens[t])
      /\ \A c \in Calls : Works(c) => Known(calls[c].user)
  BY <1>1 DEF AccountInv
<1>3. \A u : Known(u) => Known(u)'
  BY KnownStays
<1>4. ASSUME NEW d \in Calls, PutUser(d)
      PROVE  /\ Known(d)' /\ users'[calls[d].email].id = d
             /\ \A e \in Emails \ {calls[d].email} : users'[e] = users[e]
  <2>1. /\ calls'[d].op = "register" /\ calls'[d].pc = "putIndex"
        /\ calls'[d].email = calls[d].email /\ users'[calls[d].email] # Nothing
        /\ users'[calls[d].email].id = d
    BY <1>4, PutUserEffect
  <2>2. \A e \in Emails \ {calls[d].email} : users'[e] = users[e]
    BY <1>4, PutUserEffect
  <2> QED
    BY <2>1, <2>2 DEF Known
<1>5. ASSUME NEW e \in Emails, users'[e] # Nothing PROVE Known(users[e].id)'
  <2>1. PICK u : u = users'[e].id
    OBVIOUS
  <2>2. CASE users'[e] = users[e]
    BY <1>2, <1>3, <1>5, <2>1, <2>2 DEF Known
  <2>3. CASE users'[e] # users[e]
    <3>1. PICK d \in Calls : PutUser(d)
      BY <2>3, OnlyPutUserWrites
    <3>2. e = calls[d].email
      BY <1>4, <2>3, <3>1
    <3> QED
      BY <1>4, <3>1, <3>2 DEF Known
  <2> QED
    BY <2>2, <2>3
<1>6. ASSUME NEW t \in Calls, tokens'[t] # Nothing PROVE Known(tokens[t])'
  <2>1. CASE tokens'[t] = tokens[t]
    BY <1>2, <1>3, <1>6, <2>1 DEF Known
  <2>2. ASSUME Continues(t), Save(t) PROVE Known(tokens[t])'
    <3>1. tokens'[t] = calls[t].user /\ calls[t].pc = "save" /\ WellFormed(t)
      BY <2>2 DEF Save, At, TypeInv, TypeOK
    <3>2. Works(t)
      BY <3>1 DEF Works, WellFormed, Places
    <3> QED
      BY <1>2, <1>3, <3>1, <3>2 DEF Known
  <2>3. ASSUME NEW c \in Calls, Step(c) \/ Lose(c), ~Save(c) \/ c # t
        PROVE  tokens'[t] = tokens[t]
    BY <1>6, <2>3 DEF Step, FindEmail, PutUser, PutIndex, FindToken, FindId, FindUser, Delete,
       Save, Lose, TypeInv, TypeOK
  <2>4. ASSUME NEW d \in Calls, NEW op \in Entering, NEW e \in Emails,
               NEW pwd \in Passwords, Present(d, op, e, pwd)
        PROVE  tokens' = tokens
    BY <2>4 DEF Present
  <2>5. ASSUME NEW d \in Calls, NEW u \in Calls, NEW op \in Returning, Use(d, op, u)
        PROVE  tokens' = tokens
    BY <2>5 DEF Use
  <2>6. ASSUME NEW u \in Calls, ExpireToken(u) PROVE tokens'[t] = tokens[t]
    BY <1>6, <2>6 DEF ExpireToken, TypeInv, TypeOK
  <2>7. UNCHANGED vars => tokens' = tokens
    BY DEF vars
  <2> QED
    BY <1>1, <2>1, <2>2, <2>3, <2>4, <2>5, <2>6, <2>7, OneCallMoves
<1>7. ASSUME NEW c \in Calls, Works(c)' PROVE Known(calls[c].user)'
  <2>1. CASE calls'[c] = calls[c]
    BY <1>2, <1>3, <2>1, <1>7 DEF Known, Works, Rotating
  <2>2. ASSUME Continues(c), Step(c) \/ Lose(c) PROVE Known(calls[c].user)'
    <3>1. WellFormed(c) /\ calls[c] \in Call /\ calls \in [Calls -> Call]
      BY DEF TypeInv, TypeOK
    <3>2. CASE PutUser(c)
      <4>1. calls'[c].user = c
        BY <3>2, PutUserEffect
      <4> QED
        BY <1>4, <3>2, <4>1 DEF Known
    <3>3. CASE FindEmail(c)
      <4>1. calls[c].op \in Entering /\ calls[c].email \in Emails /\ calls'[c].op = calls[c].op
            /\ calls[c].pc = "findEmail"
        BY <2>2, <3>1, <3>3 DEF FindEmail, At, Continues, WellFormed, Places, Entering,
                                Returning
      <4>2. calls'[c].pc = "save" /\ calls[c].op = "login"
            /\ calls'[c].user = users[calls[c].email].id /\ users[calls[c].email] # Nothing
        BY <1>7, <3>1, <3>3, <4>1 DEF FindEmail, Admit, PasswordMatches, Works, Rotating,
                                      Entering, Call
      <4> QED
        BY <1>2, <1>3, <4>1, <4>2 DEF Known
    <3>4. CASE FindToken(c)
      <4>1. calls[c].token \in Calls /\ calls[c].op = "refresh" /\ calls'[c].op = "refresh"
            /\ calls[c].pc = "findToken"
        BY <2>2, <3>1, <3>4 DEF FindToken, At, Continues, WellFormed, Places, Returning
      <4>2. calls'[c].user = tokens[calls[c].token] /\ tokens[calls[c].token] # Nothing
        BY <1>7, <3>1, <3>4, <4>1 DEF FindToken, Works, Rotating, Call
      <4> QED
        BY <1>2, <1>3, <4>1, <4>2 DEF Known
    <3>5. CASE FindUser(c)
      <4>1. calls[c].email \in Emails /\ calls[c].op = "refresh" /\ calls'[c].op = "refresh"
            /\ calls[c].pc = "findUser"
        BY <2>2, <3>1, <3>5 DEF FindUser, At, Continues, WellFormed, Places, Returning
      <4>2. calls'[c].user = users[calls[c].email].id /\ users[calls[c].email] # Nothing
        BY <1>7, <3>1, <3>5, <4>1 DEF FindUser, Works, Rotating, Call
      <4> QED
        BY <1>2, <1>3, <4>1, <4>2 DEF Known
    <3>6. CASE PutIndex(c) \/ FindId(c) \/ Delete(c) \/ Save(c) \/ Lose(c)
      <4>1. calls'[c].user = calls[c].user /\ calls'[c].op = calls[c].op
        BY <3>1, <3>6 DEF PutIndex, FindId, Delete, Save, Lose, Goto, Call
      <4>2. calls[c].op \in {"login", "refresh"} =>
              calls[c].pc \in {"findId", "findUser", "delete", "save"} \/ Lose(c)
        BY <3>1, <3>6 DEF PutIndex, FindId, Delete, Save, At, WellFormed, Places
      <4>3. ~Lose(c) /\ ~Save(c)
        BY <1>7, <3>1 DEF Lose, Save, Goto, Works, Rotating, Call
      <4>4. Works(c)
        BY <1>7, <3>1, <3>6, <4>1, <4>2, <4>3 DEF Works, Rotating, PutIndex, FindId, Delete,
           At, WellFormed, Places
      <4> QED
        BY <1>2, <1>3, <4>1, <4>4 DEF Known
    <3> QED
      BY <2>2, <3>2, <3>3, <3>4, <3>5, <3>6 DEF Step
  <2>3. \A d \in Calls : Continues(d) /\ d # c => calls'[c] = calls[c]
    BY DEF Continues
  <2>4. ASSUME NEW d \in Calls, NEW op \in Entering, NEW e \in Emails,
               NEW pwd \in Passwords, Present(d, op, e, pwd)
        PROVE  calls'[c] = calls[c]
    BY <1>7, <2>4 DEF Present, Works, Rotating, TypeInv, TypeOK, Call, Entering
  <2>5. ASSUME NEW d \in Calls, NEW u \in Calls, NEW op \in Returning, Use(d, op, u)
        PROVE  calls'[c] = calls[c]
    BY <1>7, <2>5 DEF Use, Works, Rotating, TypeInv, TypeOK, Call, Returning
  <2>6. (\A u \in Calls : ExpireToken(u) => calls' = calls)
        /\ (UNCHANGED vars => calls' = calls)
    BY DEF ExpireToken, vars
  <2> QED
    BY <1>1, <2>1, <2>2, <2>3, <2>4, <2>5, <2>6, OneCallMoves
<1> QED
  BY <1>5, <1>6, <1>7

\* A stored refresh token leads to a user, its own one without overlapping
\* registers, as long as Redis rejects no command.
THEOREM TokensLeadToUsers == Spec => []TokenHasUser
<1>1. Init => Apart /\ KeptInv /\ AccountInv
  BY DEF Init, Apart, KeptInv, AccountInv, InFlight, Works, Rotating
<1>2. TypeInv /\ TypeInv' /\ Apart /\ KeptInv /\ AccountInv /\ [Next]_vars =>
        Apart' /\ KeptInv' /\ AccountInv'
  BY ApartStep, KeptStep, AccountStep
<1>3. TypeInv /\ AccountInv => TokenHasUser
  <2> SUFFICES ASSUME TypeInv, AccountInv, errors = 0, NEW t \in Calls, tokens[t] # Nothing,
                      ~At(tokens[t], "putIndex")
               PROVE  /\ index[tokens[t]] # Nothing /\ users[index[tokens[t]]] # Nothing
                      /\ serial => users[index[tokens[t]]].id = tokens[t]
    BY DEF TokenHasUser
  <2>1. Known(tokens[t])
    BY DEF AccountInv
  <2>2. calls[tokens[t]].email \in Emails
    BY <2>1 DEF Known, TypeInv, WellFormed, Entering
  <2> QED
    BY <2>1, <2>2, NothingAssumption DEF Known, At
<1> QED
  BY <1>1, <1>2, <1>3, TypeInvariant, PTL DEF Spec
=============================================================================
