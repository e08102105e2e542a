---------------------------- MODULE AuthSessions ----------------------------
(***************************************************************************)
(* Accounts and refresh tokens: AuthService (auth.service.ts) over the     *)
(* Redis keys of UserRepository (user.repository.ts), with any number of   *)
(* calls in flight on any number of instances.                             *)
(*                                                                         *)
(* A call is cut at its awaits: each action is one Redis command and what  *)
(* the handler does between its reply and the next command.  A call        *)
(* creates at most one user and one refresh token, so its own name serves  *)
(* as both generated ids.  Access tokens are not stored and are left out.  *)
(* A password stands for itself and for its hash: bcrypt.compare accepts   *)
(* exactly the password that was hashed.                                   *)
(***************************************************************************)
EXTENDS Naturals, FiniteSets

CONSTANTS
    Calls,      \* requests to /auth; also user ids and refresh tokens
    Nothing,    \* the null reply of GET
    Emails,
    Passwords,
    MaxCrashes, \* calls lost with their instance
    MaxErrors   \* commands answered with an error

User == [id : Calls, password : Passwords]

ASSUME NothingAssumption == Nothing \notin Calls \cup Emails \cup Passwords \cup User
ASSUME BoundsAssumption == MaxCrashes \in Nat /\ MaxErrors \in Nat

VARIABLES
    users,   \* user:<email>    -> the user's id and password
    index,   \* user:id:<id>    -> email
    tokens,  \* refresh:<token> -> user id
    calls,   \* what each call was asked and where it stands
    crashes, errors,
    serial   \* whether the clients of this behaviour never overlap two registers
             \* of one email, nor two calls on one token; it never changes

vars == <<users, index, tokens, calls, crashes, errors, serial>>

Ops == {"register", "login", "refresh", "logout"}
Pending == {"findEmail", "putUser", "putIndex", "findToken", "findId", "findUser",
            "delete", "save"}
Ended == {"ok", "refused", "error", "lost"}

\* refused: ConflictError or UnauthorizedError; error: 500; lost: no answer.
\* user is the id the handler works with, email its account.  login is history:
\* the register or login that the token of the call descends from.
Call == [op : Ops \cup {Nothing}, pc : {"new"} \cup Pending \cup Ended,
         email : Emails \cup {Nothing}, password : Passwords \cup {Nothing},
         token : Calls \cup {Nothing}, user : Calls \cup {Nothing},
         login : Calls \cup {Nothing}]

TypeOK ==
    /\ users \in [Emails -> User \cup {Nothing}]
    /\ index \in [Calls -> Emails \cup {Nothing}]
    /\ tokens \in [Calls -> Calls \cup {Nothing}]
    /\ calls \in [Calls -> Call]
    /\ crashes \in 0..MaxCrashes /\ errors \in 0..MaxErrors
    /\ serial \in BOOLEAN

Init ==
    /\ users = [e \in Emails |-> Nothing]
    /\ index = [c \in Calls |-> Nothing]
    /\ tokens = [c \in Calls |-> Nothing]
    /\ calls = [c \in Calls |-> [op |-> Nothing, pc |-> "new", email |-> Nothing,
                                 password |-> Nothing, token |-> Nothing,
                                 user |-> Nothing, login |-> Nothing]]
    /\ crashes = 0 /\ errors = 0
    /\ serial \in BOOLEAN

-----------------------------------------------------------------------------

InFlight(c) == calls[c].pc \in Pending

\* The refresh token in the answer to c is in the hands of the client.
Issued(c) == calls[c].pc = "ok" /\ calls[c].op # "logout"

Goto(c, pc) == calls' = [calls EXCEPT ![c].pc = pc]

At(c, pc) == calls[c].pc = pc

\* POST /register or /login
Present(c, op, e, pwd) ==
    /\ At(c, "new")
    /\ serial /\ op = "register" =>
         \A d \in Calls : ~(InFlight(d) /\ calls[d].op = op /\ calls[d].email = e)
    /\ calls' = [calls EXCEPT ![c].op = op, ![c].pc = "findEmail",
                              ![c].email = e, ![c].password = pwd, ![c].login = c]
    /\ UNCHANGED <<users, index, tokens, crashes, errors, serial>>

\* POST /refresh or /logout with a refresh token of an earlier answer.
Use(c, op, t) ==
    /\ At(c, "new")
    /\ Issued(t)
    /\ serial => \A d \in Calls : InFlight(d) => calls[d].token # t
    /\ calls' = [calls EXCEPT ![c].op = op, ![c].token = t, ![c].login = calls[t].login,
                   ![c].pc = IF op = "refresh" THEN "findToken" ELSE "delete"]
    /\ UNCHANGED <<users, index, tokens, crashes, errors, serial>>

\* register goes on with a new user, login with the user it found.
Admit(c) ==
    IF calls[c].op = "register"
    THEN [calls EXCEPT ![c].pc = "putUser", ![c].user = c]
    ELSE [calls EXCEPT ![c].pc = "save", ![c].user = users[calls[c].email].id]

PasswordMatches(c) ==
    /\ users[calls[c].email] # Nothing
    /\ users[calls[c].email].password = calls[c].password

\* Bug: register does not look at the reply.
FindEmail_NoConflict(c) ==
    /\ At(c, "findEmail")
    /\ calls' = IF calls[c].op = "register" \/ PasswordMatches(c)
                THEN Admit(c) ELSE [calls EXCEPT ![c].pc = "refused"]
    /\ UNCHANGED <<users, index, tokens, crashes, errors, serial>>

\* findByEmail, then the conflict check and the hash of register, or the
\* password check of login.
FindEmail(c) ==
    /\ At(c, "findEmail")
    /\ calls' = IF \/ calls[c].op = "register" /\ users[calls[c].email] = Nothing
                   \/ calls[c].op = "login" /\ PasswordMatches(c)
                THEN Admit(c) ELSE [calls EXCEPT ![c].pc = "refused"]
    /\ UNCHANGED <<users, index, tokens, crashes, errors, serial>>

\* Bug: the index is not maintained.
PutUser_NoIndex(c) ==
    /\ At(c, "putUser")
    /\ users' = [users EXCEPT ![calls[c].email] =
                   [id |-> c, password |-> calls[c].password]]
    /\ Goto(c, "save")
    /\ UNCHANGED <<index, tokens, crashes, errors, serial>>

\* create: a pipeline of two SETs, which Redis executes one by one.
PutUser(c) ==
    /\ At(c, "putUser")
    /\ users' = [users EXCEPT ![calls[c].email] =
                   [id |-> c, password |-> calls[c].password]]
    /\ Goto(c, "putIndex")
    /\ UNCHANGED <<index, tokens, crashes, errors, serial>>

\* Bug: the id under the id.
PutIndex_SelfIndex(c) ==
    /\ At(c, "putIndex")
    /\ index' = [index EXCEPT ![c] = c]
    /\ Goto(c, "save")
    /\ UNCHANGED <<users, tokens, crashes, errors, serial>>

PutIndex(c) ==
    /\ At(c, "putIndex")
    /\ index' = [index EXCEPT ![c] = calls[c].email]
    /\ Goto(c, "save")
    /\ UNCHANGED <<users, tokens, crashes, errors, serial>>

\* findRefreshToken
FindToken(c) ==
    LET owner == tokens[calls[c].token] IN
    /\ At(c, "findToken")
    /\ calls' = IF owner = Nothing THEN [calls EXCEPT ![c].pc = "refused"]
                ELSE [calls EXCEPT ![c].pc = "findId", ![c].user = owner]
    /\ UNCHANGED <<users, index, tokens, crashes, errors, serial>>

\* findById: the email of the id, then the user of the email.
FindId(c) ==
    LET email == index[calls[c].user] IN
    /\ At(c, "findId")
    /\ calls' = IF email = Nothing THEN [calls EXCEPT ![c].pc = "refused"]
                ELSE [calls EXCEPT ![c].pc = "findUser", ![c].email = email]
    /\ UNCHANGED <<users, index, tokens, crashes, errors, serial>>

\* Bug: the old token is not deleted.
FindUser_KeepsToken(c) ==
    LET user == users[calls[c].email] IN
    /\ At(c, "findUser")
    /\ calls' = IF user = Nothing THEN [calls EXCEPT ![c].pc = "refused"]
                ELSE [calls EXCEPT ![c].pc = "save", ![c].user = user.id]
    /\ UNCHANGED <<users, index, tokens, crashes, errors, serial>>

FindUser(c) ==
    LET user == users[calls[c].email] IN
    /\ At(c, "findUser")
    /\ calls' = IF user = Nothing THEN [calls EXCEPT ![c].pc = "refused"]
                ELSE [calls EXCEPT ![c].pc = "delete", ![c].user = user.id]
    /\ UNCHANGED <<users, index, tokens, crashes, errors, serial>>

\* deleteRefreshToken, in refresh and in logout; the count it replies with is
\* not looked at.
Delete(c) ==
    /\ At(c, "delete")
    /\ tokens' = [tokens EXCEPT ![calls[c].token] = Nothing]
    /\ Goto(c, IF calls[c].op = "refresh" THEN "save" ELSE "ok")
    /\ UNCHANGED <<users, index, crashes, errors, serial>>

\* Bug: refresh renews the token it was given.
Save_SameToken(c) ==
    /\ At(c, "save")
    /\ tokens' = [tokens EXCEPT ![IF calls[c].op = "refresh" THEN calls[c].token
                                  ELSE c] = calls[c].user]
    /\ Goto(c, "ok")
    /\ UNCHANGED <<users, index, crashes, errors, serial>>

\* generateTokens: saveRefreshToken, and the answer.
Save(c) ==
    /\ At(c, "save")
    /\ tokens' = [tokens EXCEPT ![c] = calls[c].user]
    /\ Goto(c, "ok")
    /\ UNCHANGED <<users, index, crashes, errors, serial>>

\* The TTL of a refresh token runs out.
ExpireToken(t) ==
    /\ tokens[t] # Nothing
    /\ tokens' = [tokens EXCEPT ![t] = Nothing]
    /\ UNCHANGED <<users, index, calls, crashes, errors, serial>>

\* The instance that handles c dies.  A pipeline is sent as a whole: its second
\* command is not lost.
Lose(c) ==
    /\ crashes < MaxCrashes /\ crashes' = crashes + 1
    /\ InFlight(c) /\ ~At(c, "putIndex")
    /\ Goto(c, "lost")
    /\ UNCHANGED <<users, index, tokens, errors, serial>>

\* Redis answers a command of c with an error: it rejects and the client gets
\* a 500, except that exec() of a pipeline resolves all the same.
Error(c) ==
    /\ errors < MaxErrors /\ errors' = errors + 1
    /\ InFlight(c)
    /\ Goto(c, IF At(c, "putUser") THEN "putIndex"
               ELSE IF At(c, "putIndex") THEN "save" ELSE "error")
    /\ UNCHANGED <<users, index, tokens, crashes, serial>>

Step(c) ==
    \/ FindEmail(c) \/ PutUser(c) \/ PutIndex(c)
    \/ FindToken(c) \/ FindId(c) \/ FindUser(c)
    \/ Delete(c) \/ Save(c)

Next ==
    \E c \in Calls :
        \/ \E e \in Emails, pwd \in Passwords, op \in {"register", "login"} :
             Present(c, op, e, pwd)
        \/ \E t \in Calls, op \in {"refresh", "logout"} : Use(c, op, t)
        \/ Step(c)
        \/ ExpireToken(c)
        \/ Lose(c)
        \/ Error(c)

Spec == Init /\ [][Next]_vars

-----------------------------------------------------------------------------
(* Properties.                                                             *)

\* auth.service.ts: ConflictError "when the email is already registered".  When
\* clients do not overlap calls, whoever was told that an account was created
\* keeps it: its password is the one that logs in.
AccountIsKept ==
    serial /\ errors = 0 =>
        \A c \in Calls :
            Issued(c) /\ calls[c].op = "register" =>
                users[calls[c].email] = [id |-> c, password |-> calls[c].password]

\* A stored refresh token leads to a user once that user's create is done, so
\* that refresh never fails with "User not found"; without overlapping
\* registers it leads to its own user.
TokenHasUser ==
    errors = 0 =>
        \A t \in Calls :
            tokens[t] # Nothing /\ ~At(tokens[t], "putIndex") =>
                LET email == index[tokens[t]] IN
                /\ email # Nothing /\ users[email] # Nothing
                /\ serial => users[email].id = tokens[t]

\* Rotation: without overlapping calls on a token, a login has at most one
\* live refresh token however often it was refreshed and whichever of those
\* calls were lost half-way.
OneTokenPerSession ==
    serial =>
        \A t1, t2 \in Calls :
            /\ tokens[t1] # Nothing /\ tokens[t2] # Nothing
            /\ calls[t1].login = calls[t2].login
            => t1 = t2

\* Logout: once it was answered, the token it named is gone for good, even if
\* a refresh with that token was in flight.
RevokedForGood ==
    \A c \in Calls :
        calls[c].op = "logout" /\ calls[c].pc = "ok" => tokens[calls[c].token] = Nothing

\* auth.service.ts: ConflictError "when the email is already registered".
OneAccountPerEmail ==
    \A c, d \in Calls :
        /\ Issued(c) /\ Issued(d)
        /\ calls[c].op = "register" /\ calls[d].op = "register"
        /\ calls[c].email = calls[d].email
        => c = d
=============================================================================
