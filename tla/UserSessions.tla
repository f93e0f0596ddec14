---------------------------- MODULE UserSessions ----------------------------
(***************************************************************************)
(* Users, their sessions and the dependencies that guard every route       *)
(* (backend/domains/users).  A request is a thread with a database session *)
(* of its own.  Each SELECT and each commit is a step, because passwords   *)
(* are verified and handlers run in between and no row is locked.  The     *)
(* guards are open to everybody while the users table is empty.            *)
(* failed_login_count, last_login_at and last_seen_at are written and      *)
(* shown but decide nothing, and are left out.                             *)
(***************************************************************************)
EXTENDS Naturals, FiniteSets

CONSTANTS
    UserNames,     \* normalised user names
    Passwords,     \* passwords; a hash stands for the password it was made of
    UserTokens,    \* session tokens; bounds the sessions ever created
    UserThreads,   \* request threads
    GuardRoles,    \* roles a guarded route may ask for
    AddedRoles,    \* roles of the users an administrator inserts
    NoUser, NoToken, NoPassword

RoleRank == [viewer |-> 10, user |-> 20, admin |-> 30, owner |-> 40]

Roles == DOMAIN RoleRank

ASSUME UserAssumption ==
    /\ NoUser \notin UserNames
    /\ NoToken \notin UserTokens
    /\ NoPassword \notin Passwords
    /\ GuardRoles \subseteq Roles
    /\ AddedRoles \subseteq Roles

VARIABLES
    accounts,      \* accounts[n]: the row of user n, or NoAccount
    sessions,      \* sessions[k]: user of the row of token k, or NoUser
    revoked,       \* tokens a logout has removed (history)
    thread         \* thread[t]: the request of thread t

usersVars == <<accounts, sessions, revoked, thread>>

NoAccount == [role |-> "none"]

\* usable: is_active and not disabled_at.
Account ==
    [role : Roles, password : Passwords, usable : BOOLEAN]

Operations == {"bootstrap", "login", "me", "guard", "change"}

\* hash is the password_hash the request has loaded; early: there was no user
\* when the request came in (history).
Thread ==
    [op : Operations, phase : {"start", "insert", "session", "touch", "verify", "write", "handler"},
     name : UserNames \cup {NoUser}, token : UserTokens \cup {NoToken}, role : Roles,
     password : Passwords \cup {NoPassword}, next : Passwords \cup {NoPassword},
     hash : Passwords \cup {NoPassword}, early : BOOLEAN]

Free == [op |-> "idle"]

UsersTypeOK ==
    /\ accounts \in [UserNames -> Account \cup {NoAccount}]
    /\ sessions \in [UserTokens -> UserNames \cup {NoUser}]
    /\ revoked \subseteq UserTokens
    /\ thread \in [UserThreads -> Thread \cup {Free}]

InitUsers ==
    /\ accounts = [n \in UserNames |-> NoAccount]
    /\ sessions = [k \in UserTokens |-> NoUser]
    /\ revoked = {}
    /\ thread = [t \in UserThreads |-> Free]

-----------------------------------------------------------------------------

HasUsers == \E n \in UserNames : accounts[n] # NoAccount

RoleAllows(role, needed) == RoleRank[role] >= RoleRank[needed]

\* A new token: secrets.token_urlsafe never returns one twice.
FreshTokens == {k \in UserTokens : sessions[k] = NoUser} \ revoked

\* _create_session_for_user, up to its commit.
OpenSession(name) ==
    \E k \in FreshTokens : sessions' = [sessions EXCEPT ![k] = name]

At(t, op, phase) == thread[t] # Free /\ thread[t].op = op /\ thread[t].phase = phase

Continue(t, phase) == thread' = [thread EXCEPT ![t].phase = phase]

\* The answer is sent, whatever its status code.
Answer(t) == thread' = [thread EXCEPT ![t] = Free]

\* A request nobody has looked at yet.
Blank(op, phase) ==
    [op |-> op, phase |-> phase, name |-> NoUser, token |-> NoToken, role |-> "viewer",
     password |-> NoPassword, next |-> NoPassword, hash |-> NoPassword, early |-> ~ HasUsers]

Receive(t, request) ==
    /\ thread[t] = Free
    /\ thread' = [thread EXCEPT ![t] = request]
    /\ UNCHANGED <<accounts, sessions, revoked>>

BeginBootstrap(t) ==
    \E n \in UserNames, p \in Passwords :
        Receive(t, [Blank("bootstrap", "start") EXCEPT !.name = n, !.password = p])

BeginGuarded(t) ==
    \E op \in {"me", "guard"}, k \in UserTokens \cup {NoToken}, role \in GuardRoles :
        Receive(t, [Blank(op, "start") EXCEPT !.token = k, !.role = role])

\* get_current_user does not count users.
BeginChangePassword(t) ==
    \E k \in UserTokens, p, next \in Passwords :
        Receive(t, [Blank("change", "session") EXCEPT
                        !.token = k, !.password = p, !.next = next])

-----------------------------------------------------------------------------
(* Bootstrap, login, logout                                                *)

\* bootstrap_owner without has_users (a mutant).
CountForBootstrapBlind(t) ==
    /\ At(t, "bootstrap", "start")
    /\ Continue(t, "insert")
    /\ UNCHANGED <<accounts, sessions, revoked>>

CountForBootstrap(t) ==
    /\ At(t, "bootstrap", "start")
    /\ IF HasUsers THEN Answer(t) ELSE Continue(t, "insert")
    /\ UNCHANGED <<accounts, sessions, revoked>>

\* The owner and the first session are committed together.  A name that has
\* been taken meanwhile breaks the unique index, and both are rolled back.
InsertOwner(t) ==
    /\ At(t, "bootstrap", "insert")
    /\ LET n == thread[t].name IN
        \/ /\ accounts[n] # NoAccount
           /\ UNCHANGED <<accounts, sessions>>
        \/ /\ accounts[n] = NoAccount
           /\ accounts' = [accounts EXCEPT ![n] =
                [role |-> "owner", password |-> thread[t].password, usable |-> TRUE]]
           /\ OpenSession(n)
    /\ Answer(t)
    /\ UNCHANGED revoked

\* authenticate: the row is loaded before the password is verified; a name
\* without a usable row is refused at once, and nothing happens.
BeginLogin(t) ==
    \E n \in UserNames, p \in Passwords :
        /\ accounts[n] # NoAccount
        /\ accounts[n].usable
        /\ Receive(t, [Blank("login", "verify") EXCEPT
                        !.name = n, !.password = p, !.hash = accounts[n].password])

RejectLogin(t) ==
    /\ At(t, "login", "verify")
    /\ thread[t].hash # thread[t].password
    /\ Answer(t)
    /\ UNCHANGED <<accounts, sessions, revoked>>

AcceptLogin(t) ==
    /\ At(t, "login", "verify")
    /\ thread[t].hash = thread[t].password
    /\ OpenSession(thread[t].name)
    /\ Answer(t)
    /\ UNCHANGED <<accounts, revoked>>

\* One DELETE; a token without a row is no error.
Logout(k) ==
    /\ sessions[k] # NoUser
    /\ sessions' = [sessions EXCEPT ![k] = NoUser]
    /\ revoked' = revoked \cup {k}
    /\ UNCHANGED <<accounts, thread>>

-----------------------------------------------------------------------------
(* Guarded requests                                                        *)

\* require_roles lets the handler run without a user while there is none;
\* auth_status only notes the count.
CountUsers(t) ==
    /\ \/ At(t, "guard", "start") /\ ~ HasUsers /\ Continue(t, "handler")
       \/ At(t, "guard", "start") /\ HasUsers /\ thread[t].token = NoToken /\ Answer(t)
       \/ At(t, "guard", "start") /\ HasUsers /\ thread[t].token # NoToken /\ Continue(t, "session")
       \/ At(t, "me", "start") /\ thread[t].token = NoToken /\ Answer(t)
       \/ At(t, "me", "start") /\ thread[t].token # NoToken /\ Continue(t, "session")
    /\ UNCHANGED <<accounts, sessions, revoked>>

\* get_user_for_token: the row of the token, and its user.  Whether a row
\* that is there has expired by now is left to the clock.
SelectSession(t) ==
    /\ \E op \in Operations : At(t, op, "session")
    /\ LET n == sessions[thread[t].token] IN
        \/ /\ n # NoUser
           /\ accounts[n].usable
           /\ thread' = [thread EXCEPT ![t].phase = "touch", ![t].name = n]
        \/ Answer(t)
    /\ UNCHANGED <<accounts, sessions, revoked>>

Proceed(t) ==
    CASE thread[t].op = "change" -> Continue(t, "verify")
      [] thread[t].op = "me" -> Continue(t, "handler")
      [] OTHER -> IF RoleAllows(accounts[thread[t].name].role, thread[t].role)
                    THEN Continue(t, "handler") ELSE Answer(t)

\* last_seen_at written whether or not the row is still there (a mutant).
TouchSessionBlind(t) ==
    /\ \E op \in Operations : At(t, op, "touch")
    /\ Proceed(t)
    /\ UNCHANGED <<accounts, sessions, revoked>>

\* ... the UPDATE of last_seen_at: when the row is gone the flush raises, and
\* the request fails.
TouchSession(t) ==
    /\ \E op \in Operations : At(t, op, "touch")
    /\ IF sessions[thread[t].token] # NoUser THEN Proceed(t) ELSE Answer(t)
    /\ UNCHANGED <<accounts, sessions, revoked>>

\* change_password: the commit has expired the user, whose row is loaded anew.
VerifyCurrent(t) ==
    /\ At(t, "change", "verify")
    /\ IF accounts[thread[t].name].password = thread[t].password
         THEN Continue(t, "write") ELSE Answer(t)
    /\ UNCHANGED <<accounts, sessions, revoked>>

WritePassword(t) ==
    /\ At(t, "change", "write")
    /\ accounts' = [accounts EXCEPT ![thread[t].name].password = thread[t].next]
    /\ Answer(t)
    /\ UNCHANGED <<sessions, revoked>>

EndHandler(t) ==
    /\ \E op \in {"me", "guard"} : At(t, op, "handler")
    /\ Answer(t)
    /\ UNCHANGED <<accounts, sessions, revoked>>

-----------------------------------------------------------------------------
(* Rows written from outside the application                               *)

\* No route adds users: an administrator does it in the database.
InsertAccount(n) ==
    /\ accounts[n] = NoAccount
    /\ \E role \in AddedRoles, p \in Passwords, usable \in BOOLEAN :
        accounts' = [accounts EXCEPT ![n] = [role |-> role, password |-> p, usable |-> usable]]
    /\ UNCHANGED <<sessions, revoked, thread>>

NextUsers ==
    \/ \E t \in UserThreads :
        \/ BeginBootstrap(t) \/ CountForBootstrap(t) \/ InsertOwner(t)
        \/ BeginLogin(t) \/ RejectLogin(t) \/ AcceptLogin(t)
        \/ BeginGuarded(t) \/ CountUsers(t) \/ SelectSession(t) \/ TouchSession(t) \/ EndHandler(t)
        \/ BeginChangePassword(t) \/ VerifyCurrent(t) \/ WritePassword(t)
    \/ \E k \in UserTokens : Logout(k)
    \/ \E n \in UserNames : InsertAccount(n)

UsersSpec == InitUsers /\ [][NextUsers]_usersVars

-----------------------------------------------------------------------------

\* The guards open for good only to those who came first: a handler that runs
\* without a user, and a request about to insert an owner, came in before the
\* first user was committed.
OpenWindowCloses ==
    \A t \in UserThreads :
        \/ At(t, "guard", "handler") /\ thread[t].name = NoUser
        \/ At(t, "bootstrap", "insert")
        => thread[t].early

\* A token that has been logged out lets no request pass the guard any more,
\* not even one that had already found its session.
LoggedOutStaysOut ==
    [][\A t \in UserThreads :
        /\ \E op \in Operations : At(t, op, "touch")
        /\ thread'[t] \notin {Free, thread[t]}
        => thread[t].token \notin revoked]_usersVars
=============================================================================
