------------------------------- MODULE Accounts -------------------------------
(***************************************************************************)
(* auth/auth_routes.py: accounts, their sessions, login by way of an       *)
(* external provider, and the administration of accounts.                  *)
(*                                                                         *)
(* A request that reads its body gives up the event loop between the check *)
(* of who sends it and what it does; a login by a provider gives it up     *)
(* while the provider is asked.  Everything else is one step.  What is     *)
(* saved is written after every change, and a write may fail or stop short.*)
(***************************************************************************)
EXTENDS Integers, FiniteSets

CONSTANTS Emails, SuperEmail, Passwords,
          LoginStates,   \* the one-time values of _oauth_states
          Callbacks,     \* callbacks of the provider under way at once
          Requests,      \* administration requests under way at once
          MaxUsers, MaxBoots, MaxFailedSaves   \* bounds

ASSUME AccountsAssumption == SuperEmail \in Emails /\ MaxUsers \in Nat

VARIABLES up,
          users,       \* _users: [1..MaxUsers -> User or NoUser]
          byEmail,     \* _users_by_email: [Emails -> id or 0]
          usersFile,   \* .agent_users.json: as users, or Torn
          superFile,   \* whether .agent_super_admin.json is there
          sessions,    \* _sessions: the accounts that have any; a session names no context
          pending,     \* _oauth_states: [LoginStates -> Pending, Unissued or Spent]
          exchanging,  \* [Callbacks -> the login whose code is exchanged, or NoLogin]
          asked,       \* [Requests -> who asked, or NoRequest]
          userCount, boots, failedSaves,   \* ids used, and bounds
          doubled,     \* history: whether this start found two accounts of SuperEmail, or made a second
          logins       \* history: [LoginStates -> sessions it led to]

accountVars == <<up, users, byEmail, usersFile, superFile, sessions, pending, exchanging, asked,
                 userCount, boots, failedSaves, doubled, logins>>
savedVars == <<usersFile, failedSaves>>
registry == <<users, byEmail, userCount>>
loginVars == <<pending, exchanging, logins>>
steady == <<up, superFile, boots, doubled>>   \* what only a start changes

UserIds == 1..MaxUsers
Bearer == 0                       \* who sends the API token: "__bearer_admin__"
NoRequest == -1
Contexts == {"admin", "workspace"}
NoPassword == "none"
User == [email : Emails, admin : BOOLEAN, active : BOOLEAN, password : Passwords \cup {NoPassword}]
NoUser == [email |-> "nobody"]
NoUsers == [u \in UserIds |-> NoUser]
Torn == [u \in UserIds |-> [email |-> "torn"]]
Login == [state : LoginStates, context : Contexts]
NoLogin == [state |-> "none"]

Registered(us) == {u \in UserIds : us[u] # NoUser}
ActiveAdmins(us) == {u \in Registered(us) : us[u].admin /\ us[u].active}
Holders(us, e) == {u \in Registered(us) : us[u].email = e}
\* Of two accounts with one address the one made last is found.
IndexOf(us) == [e \in Emails |-> IF Holders(us, e) = {} THEN 0
                                 ELSE CHOOSE u \in Holders(us, e) : \A v \in Holders(us, e) : u >= v]

AccountInit ==
  /\ up = FALSE /\ users = NoUsers /\ byEmail = [e \in Emails |-> 0]
  /\ usersFile = NoUsers /\ superFile = FALSE
  /\ sessions = {}
  /\ pending = [s \in LoginStates |-> "unissued"] /\ logins = [s \in LoginStates |-> 0]
  /\ exchanging = [c \in Callbacks |-> NoLogin] /\ asked = [r \in Requests |-> NoRequest]
  /\ userCount = 0 /\ boots = 0 /\ failedSaves = 0 /\ doubled = FALSE

\* _save_users: a failure is logged and forgotten, and may have emptied the file.
SaveUsers(us) == \/ usersFile' = us /\ UNCHANGED failedSaves
                 \/ /\ failedSaves < MaxFailedSaves /\ failedSaves' = failedSaves + 1
                    /\ usersFile' \in {usersFile, Torn}

\* The body of every route that creates an account, with the next id, among
\* the accounts us0 with the index by0.
AddUser(us0, by0, user) ==
  /\ userCount < MaxUsers /\ userCount' = userCount + 1
  /\ LET us == [us0 EXCEPT ![userCount + 1] = user]
     IN users' = us /\ SaveUsers(us)
  /\ byEmail' = [by0 EXCEPT ![user.email] = userCount + 1]

\* _load_users
Loaded == IF usersFile = Torn THEN NoUsers ELSE usersFile

\* A (re)start: everything in memory is gone, the accounts are read back, and
\* _ensure_super_admin makes one when no account is an administrator's,
\* unless the address it once made one for is taken.
Boot ==
  /\ boots < MaxBoots /\ boots' = boots + 1 /\ up' = TRUE
  /\ sessions' = {}
  /\ pending' = [s \in LoginStates |-> IF pending[s] = "unissued" THEN "unissued" ELSE "spent"]
  /\ exchanging' = [c \in Callbacks |-> NoLogin] /\ asked' = [r \in Requests |-> NoRequest]
  /\ IF \/ \E u \in Registered(Loaded) : Loaded[u].admin
        \/ superFile /\ IndexOf(Loaded)[SuperEmail] # 0
     THEN /\ users' = Loaded /\ byEmail' = IndexOf(Loaded)
          /\ UNCHANGED <<usersFile, superFile, userCount, failedSaves>>
     ELSE \E p \in Passwords :
            /\ AddUser(Loaded, IndexOf(Loaded), [email |-> SuperEmail, admin |-> TRUE, active |-> TRUE, password |-> p])
            /\ superFile' \in {superFile, TRUE}
  /\ doubled' = \E u, v \in Holders(users', SuperEmail) : u # v
  /\ UNCHANGED logins

\* _create_session
CreateSession(u) == sessions' = sessions \cup {u}

Register(e, p) ==
  /\ up /\ byEmail[e] = 0
  /\ AddUser(users, byEmail, [email |-> e, admin |-> FALSE, active |-> TRUE, password |-> p])
  /\ CreateSession(userCount + 1)
  /\ UNCHANGED <<steady, asked, loginVars>>

LogIn(e, p, c) ==
  /\ up /\ byEmail[e] # 0 /\ users[byEmail[e]] # NoUser
  /\ LET user == users[byEmail[e]]
     IN user.active /\ user.password = p /\ (c = "admin" => user.admin)
  /\ CreateSession(byEmail[e])
  /\ UNCHANGED <<steady, asked, loginVars, registry, savedVars>>

\* logout, or _validate_session of a session whose time is over: the last one of an account
EndSession(u) == /\ u \in sessions /\ sessions' = sessions \ {u}
                 /\ UNCHANGED <<steady, asked, loginVars, registry, savedVars>>

\* oauth_login
OAuthLogin(s, c) ==
  /\ up /\ pending[s] = "unissued" /\ pending' = [pending EXCEPT ![s] = c]
  /\ UNCHANGED <<steady, asked, exchanging, logins, registry, savedVars, sessions>>

\* Mutant of OAuthCallback: the value is taken when the login ends, after the await.
OAuthCallback_Late(k, s) ==
  /\ up /\ pending[s] \in Contexts /\ exchanging[k] = NoLogin /\ logins[s] = 0
  /\ exchanging' = [exchanging EXCEPT ![k] = [state |-> s, context |-> pending[s]]]
  /\ UNCHANGED <<steady, asked, pending, logins, registry, savedVars, sessions>>
\* oauth_callback up to its first await, _oauth_states.pop with it; a login
\* older than ten minutes, or one whose provider was removed since, ends here.
OAuthCallback(k, s) ==
  /\ up /\ pending[s] \in Contexts /\ exchanging[k] = NoLogin
  /\ pending' = [pending EXCEPT ![s] = "spent"]
  /\ exchanging' \in {exchanging, [exchanging EXCEPT ![k] = [state |-> s, context |-> pending[s]]]}
  /\ UNCHANGED <<steady, asked, logins, registry, savedVars, sessions>>

\* ... and from the answers of the provider on; it may answer with an error.
OAuthAnswer(k, e) ==
  LET l == exchanging[k] IN
  /\ l # NoLogin /\ exchanging' = [exchanging EXCEPT ![k] = NoLogin]
  /\ IF byEmail[e] # 0
     THEN SaveUsers(users) /\ UNCHANGED registry
     ELSE AddUser(users, byEmail, [email |-> e, admin |-> FALSE, active |-> TRUE, password |-> NoPassword])
  /\ IF l.context = "admin" /\ ~users'[byEmail'[e]].admin
     THEN UNCHANGED <<sessions, logins>>
     ELSE CreateSession(byEmail'[e]) /\ logins' = [logins EXCEPT ![l.state] = @ + 1]
  /\ UNCHANGED <<steady, asked, pending>>

OAuthError(k) == /\ exchanging[k] # NoLogin /\ exchanging' = [exchanging EXCEPT ![k] = NoLogin]
                 /\ UNCHANGED <<steady, asked, pending, logins, registry, savedVars, sessions>>

\* _require_admin: an administrator with a session, which may have been begun
\* in the workspace, or the API token
MayAdminister(by) == by = Bearer \/ (by \in sessions /\ users[by] # NoUser /\ users[by].admin)

\* The routes with a body, up to `await request.json()'.
LetIn(r, by) == /\ up /\ MayAdminister(by) /\ asked[r] = NoRequest /\ asked' = [asked EXCEPT ![r] = by]
              /\ UNCHANGED <<steady, loginVars, registry, savedVars, sessions>>

Answered(r) == /\ asked[r] # NoRequest /\ asked' = [asked EXCEPT ![r] = NoRequest]
               /\ UNCHANGED <<steady, loginVars>>

Change(u, user) == LET us == [users EXCEPT ![u] = user]
                   IN users' = us /\ SaveUsers(us) /\ UNCHANGED <<byEmail, userCount, sessions>>

CreateUser(r, e, p, a) ==
  /\ Answered(r) /\ byEmail[e] = 0 /\ UNCHANGED sessions
  /\ AddUser(users, byEmail, [email |-> e, admin |-> a, active |-> TRUE, password |-> p])

\* Mutant of MayDemote: the last administrator is counted with the disabled ones.
MayDemote_All(by, u, a) == u = by /\ ~a => Cardinality({v \in Registered(users) : users[v].admin}) > 1
\* admin_set_user_role: nobody removes himself as the last one
MayDemote(by, u, a) == u = by /\ ~a => Cardinality(ActiveAdmins(users)) > 1

SetRole(r, u, a) == /\ u \in Registered(users) /\ MayDemote(asked[r], u, a) /\ Answered(r)
                    /\ Change(u, [users[u] EXCEPT !.admin = a])

SetActive(r, u, a) ==
  /\ u \in Registered(users) /\ (~a /\ users[u].admin => Cardinality(ActiveAdmins(users)) > 1)
  /\ Answered(r) /\ Change(u, [users[u] EXCEPT !.active = a])

ResetPassword(r, u, p) == /\ u \in Registered(users) /\ users[u].password # NoPassword
                          /\ Answered(r) /\ Change(u, [users[u] EXCEPT !.password = p])

\* Any of them, when it is refused.
Refuse(r) == Answered(r) /\ UNCHANGED <<registry, savedVars, sessions>>

\* Mutant of KeptSessions: a deleted account stays logged in.
KeptSessions_All(u) == sessions
\* The sessions admin_delete_user leaves
KeptSessions(u) == sessions \ {u}

Unlisted(e) == [byEmail EXCEPT ![e] = 0]

\* admin_delete_user, which has no body to wait for
DeleteUser(by, u) ==
  /\ up /\ MayAdminister(by) /\ u \in Registered(users) /\ u # by
  /\ users[u].admin => Cardinality(ActiveAdmins(users)) > 1
  /\ LET us == [users EXCEPT ![u] = NoUser] IN users' = us /\ SaveUsers(us)
  /\ byEmail' = Unlisted(users[u].email) /\ sessions' = KeptSessions(u)
  /\ UNCHANGED <<steady, asked, loginVars, userCount>>

AccountNext ==
  \/ Boot
  \/ \E e \in Emails, p \in Passwords : Register(e, p) \/ \E c \in Contexts : LogIn(e, p, c)
  \/ \E u \in sessions : EndSession(u)
  \/ \E s \in LoginStates : \/ \E c \in Contexts : OAuthLogin(s, c)
                            \/ \E k \in Callbacks : OAuthCallback(k, s)
  \/ \E k \in Callbacks : OAuthError(k) \/ \E e \in Emails : OAuthAnswer(k, e)
  \/ \E r \in Requests :
       \/ \E by \in UserIds \cup {Bearer} : LetIn(r, by)
       \/ \E e \in Emails, p \in Passwords, a \in BOOLEAN : CreateUser(r, e, p, a)
       \/ \E u \in UserIds, a \in BOOLEAN : SetRole(r, u, a) \/ SetActive(r, u, a)
       \/ \E u \in UserIds, p \in Passwords : ResetPassword(r, u, p)
       \/ Refuse(r)
  \/ \E by \in UserIds \cup {Bearer}, u \in UserIds : DeleteUser(by, u)

AccountSpec == AccountInit /\ [][AccountNext]_accountVars
-----------------------------------------------------------------------------
\* The accounts, the index by address and the sessions agree, through
\* registration, creation, deletion and login by a provider in any order, and
\* through restarts from files that are old or torn: the index names every
\* account there is and none that is not, no two accounts share an address,
\* and whoever is logged in has an account, even if it was deleted while a
\* login of it waited for its provider.  The one exception is the address of
\* the super-administrator in a process whose start found two accounts of it or
\* made the second: a start does when its credentials were never written and
\* it was demoted.
AccountsAgree ==
  /\ \A e \in Emails :
       \/ e = SuperEmail /\ doubled
       \/ /\ Holders(users, e) = {} <=> byEmail[e] = 0
          /\ byEmail[e] # 0 => Holders(users, e) = {byEmail[e]}
  /\ \A u \in sessions : users[u] # NoUser

\* A login that was begun once ends in one session at the most, however often
\* and at whatever time its callback arrives, also while an earlier one of it
\* waits for the provider.
StatesUsedOnce == \A s \in LoginStates : logins[s] <= 1

\* As long as the process runs, the last active administrator is lost only by
\* a change of role that somebody else asked for: deleting and disabling keep
\* one, and nobody gives up the last place himself, although the request was
\* let in before its body was read and others ran since.
LastAdminLeavesByOthers ==
  [][up /\ boots' = boots /\ ActiveAdmins(users) # {} /\ ActiveAdmins(users') = {}
     => \E r \in Requests, u \in ActiveAdmins(users) :
          /\ asked[r] # NoRequest /\ asked'[r] = NoRequest /\ asked[r] # u
          /\ users'[u] # NoUser /\ ~users'[u].admin]_accountVars
=============================================================================
