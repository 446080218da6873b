---------------------------- MODULE ServicesProofs ----------------------------
(***************************************************************************)
(* What the services beside the pipeline promise, for any values of their  *)
(* constants.  None of the properties is inductive by itself, and each     *)
(* section says what holds it up: the place of the caller of a command, the*)
(* place of the value of a login, the order of the file of the accounts and*)
(* of its index, what the file of the settings holds, and the order of the *)
(* log.                                                                    *)
(***************************************************************************)
EXTENDS Commands, SingleSignOn, Scim, Accounts, Settings, StoryApi, RateLimiter, FiniteSetTheorems,
        WellFoundedInduction, TLAPS

-----------------------------------------------------------------------------
(* Commands.  What the caller may conclude from an exit status that is not *)
(* there depends on how it stopped waiting.  Told keeps, for each place of *)
(* the caller, what must have become of the process, and EndNoted that an  *)
(* exit status is that of the process.                                     *)

CommandEnded == {"exited", "failed", "killed"}
CommandCodes == {Unreaped, 0, 1, Killed}

CommandTyped == /\ process \in {"none", "running", "doomed"} \cup CommandEnded
                /\ returncode \in CommandCodes /\ limited \in BOOLEAN
                /\ caller \in {"idle", "communicating", "reaping", "joining", "answered"}
                /\ watcher \in {"off", "polling", "done"}

\* The event loop notes the end of the process as it was.
EndNoted == returncode # Unreaped =>
           /\ process \in CommandEnded
           /\ returncode = 0 <=> process = "exited"
           /\ returncode = 1 <=> process = "failed"

\* There is a watcher only while a command with limits has no answer.
Watched == watcher # "off" => limited /\ caller \in {"communicating", "reaping", "joining"}

Told == /\ caller \in {"communicating", "reaping", "joining"} => process # "none"
        /\ caller \in {"reaping", "joining"} => process # "running"
        /\ caller = "joining" => limited /\ (returncode = Unreaped => process \in {"doomed", "killed"})
        /\ caller = "answered" =>
             /\ process # "running"
             /\ result = 0 => process = "exited" \/ (limited /\ process \in {"doomed", "killed"})
             /\ process = "failed" => result \in {1, 124}

CommandInv == CommandTyped /\ EndNoted /\ Watched /\ Told

LEMMA CommandStarts == CommandInit => CommandInv
BY DEF CommandInit, CommandInv, CommandTyped, EndNoted, Watched, Told, CommandCodes, CommandEnded, Unreaped

\* Every step keeps the invariant: first what the caller does, then what the
\* process and its watcher do meanwhile.
LEMMA CommandKeeps == CommandInv /\ [CommandNext]_commandVars => CommandInv'
<1> SUFFICES ASSUME CommandInv, [CommandNext]_commandVars PROVE CommandInv'
  OBVIOUS
<1> USE DEF CommandInv, CommandTyped, EndNoted, Watched, Told, CommandEnded, CommandCodes, Unreaped, Killed
<1>1. CASE TurnDown
  BY <1>1 DEF TurnDown, CountCommand
<1>2. ASSUME NEW lim \in BOOLEAN, NEW timeout \in BOOLEAN, Execute(lim, timeout) PROVE CommandInv'
  BY <1>2 DEF Execute, CountCommand
<1>3. CASE Communicated
  BY <1>3 DEF Communicated, Closed
<1>4. CASE TimeOut
  BY <1>4 DEF TimeOut, Kill
<1>5. CASE Reaped
  BY <1>5 DEF Reaped, Kill
<1>6. CASE Join
  BY <1>6 DEF Join
<1>7. ASSUME NEW code \in {0, 1}, Exit(code) PROVE CommandInv'
  BY <1>7 DEF Exit
<1>8. CASE Die
  BY <1>8 DEF Die
<1>9. CASE SetLimits
  BY <1>9 DEF SetLimits
<1>10. CASE ClosePipes
  BY <1>10 DEF ClosePipes
<1>11. CASE Reap
  BY <1>11 DEF Reap
<1>12. CASE Exceed
  BY <1>12 DEF Exceed, Kill
<1>13. CASE StopPolling
  BY <1>13 DEF StopPolling
<1>14. CASE UNCHANGED commandVars
  BY <1>14 DEF commandVars
<1>15. CASE KillRaises
  BY <1>15 DEF KillRaises, Closed
<1>16. QED
  BY <1>1, <1>2, <1>3, <1>4, <1>5, <1>6, <1>7, <1>8, <1>9, <1>10, <1>11, <1>12, <1>13, <1>14, <1>15
     DEF CommandNext

\* In any order of the end of the process, the watcher's and the operating
\* system's kill, the deadline and the waits after it, an answer leaves no
\* process running that was not told to end, is 0 only of success or of a
\* process with limits that was killed, and of a failure is 1 or 124.
THEOREM AnswersAreHonest == CommandSpec => []AnswerIsHonest
<1>1. CommandInv => AnswerIsHonest
  BY DEF CommandInv, Told, AnswerIsHonest
<1>2. QED
  BY <1>1, CommandStarts, CommandKeeps, PTL DEF CommandSpec

-----------------------------------------------------------------------------
(* Single sign-on.  That a login opens one session in all rests on its     *)
(* verifier being spent before the session opens, and staying so.          *)

SsoInv ==
  /\ verifiers \in [OidcStates -> {"unissued", "kept", "spent"}]
  /\ led \in [OidcStates -> Nat]
  /\ \A s \in OidcStates : led[s] # 0 => verifiers[s] = "spent"

LEMMA SsoStarts == SsoInit => SsoInv
BY DEF SsoInit, SsoInv

\* What does not touch a login that is spent, nor opens a session by way of it.
LEMMA LeavesLogins ==
  ASSUME SsoInv, UNCHANGED led, verifiers' \in [OidcStates -> {"unissued", "kept", "spent"}],
         \A s \in OidcStates : verifiers[s] = "spent" => verifiers'[s] = "spent"
  PROVE  SsoInv'
BY DEF SsoInv

LEMMA SsoKeeps == SsoInv /\ [SsoNext]_ssoVars => SsoInv'
<1> SUFFICES ASSUME SsoInv, [SsoNext]_ssoVars PROVE SsoInv'
  OBVIOUS
<1>1. ASSUME NEW s \in OidcStates, NEW u \in Subjects, OidcCallback(s, u) PROVE SsoInv'
  <2>1. /\ verifiers' \in [OidcStates -> {"unissued", "kept", "spent"}]
        /\ verifiers'[s] = "spent" /\ \A t \in OidcStates \ {s} : verifiers'[t] = verifiers[t]
    BY <1>1 DEF OidcCallback, Redeem, SsoInv
  <2>2. CASE UNCHANGED led
    BY <2>1, <2>2, LeavesLogins
  <2>3. CASE led' = [led EXCEPT ![s] = @ + 1]
    BY <2>1, <2>3 DEF SsoInv
  <2>4. QED
    BY <1>1, <2>2, <2>3 DEF OidcCallback
<1>2. ASSUME NEW s \in OidcStates, InitiateOidc(s) \/ TenMinutes(s) PROVE SsoInv'
  <2>1. /\ verifiers' \in [OidcStates -> {"unissued", "kept", "spent"}] /\ UNCHANGED led
        /\ \A t \in OidcStates : verifiers[t] = "spent" => verifiers'[t] = "spent"
    BY <1>2 DEF InitiateOidc, TenMinutes, SsoInv
  <2>2. QED
    BY <2>1, LeavesLogins
<1>3. CASE UNCHANGED oidcVars
  BY <1>3, LeavesLogins DEF oidcVars, SsoInv
<1>4. QED
  BY <1>1, <1>2, <1>3
     DEF SsoNext, ssoVars, oidcVars, SamlResponse, EightHours, RevokeSession, RegisterKey, RevokeKey, Provision,
         Authenticate

\* Whatever callbacks arrive, in whatever order and however often, a login
\* that was begun opens one session in all, and none after ten minutes.
THEOREM OneSessionPerLogin == SsoSpec => OneLoginOneSession
<1>1. ASSUME SsoInv, [SsoNext]_ssoVars, NEW s \in OidcStates, led'[s] # led[s]
      PROVE  led[s] = 0 /\ s \notin aged
  <2>1. PICK t \in OidcStates, u \in Subjects : OidcCallback(t, u)
    BY <1>1 DEF SsoNext, ssoVars, oidcVars, SamlResponse, InitiateOidc, TenMinutes, EightHours, RevokeSession,
                RegisterKey, RevokeKey, Provision, Authenticate
  <2>2. t \notin aged /\ led' = [led EXCEPT ![t] = @ + 1] /\ verifiers[t] = "kept"
    BY <1>1, <2>1 DEF OidcCallback
  <2>3. t = s
    BY <1>1, <2>2 DEF SsoInv
  <2>4. QED
    BY <1>1, <2>2, <2>3 DEF SsoInv
<1>2. SsoInv /\ [SsoNext]_ssoVars
        => [\A s \in OidcStates : led'[s] # led[s] => led[s] = 0 /\ s \notin aged]_ssoVars
  BY <1>1
<1>3. QED
  BY <1>2, SsoStarts, SsoKeeps, PTL DEF SsoSpec, OneLoginOneSession
-----------------------------------------------------------------------------
(* Provisioning.  That what is in memory keeps a promise is not inductive: *)
(* a restart takes what is in the file, so the file must keep it too,      *)
(* unless it was cut short, and what is promised must be what a start      *)
(* accepts.                                                                *)

ScimTyped ==
  /\ scimUsers = [u \in ScimIds |-> scimUsers[u]]
  /\ promised = [u \in ScimIds |-> promised[u]]
  /\ scimFile # CutShort => scimFile.users = [u \in ScimIds |-> scimFile.users[u]]

FileKeeps == scimFile # CutShort =>
               \A u \in ScimIds : promised[u] # Unclear => scimFile.users[u] = promised[u]
PromisesHold == \A u \in ScimIds : promised[u] \in {Unclear, NoScimUser} \/ Valid(promised[u])

ScimInv == ScimTyped /\ FileKeeps /\ PromisesHold /\ AnsweredSurvives

LEMMA ScimStarts == ScimInit => ScimInv
BY DEF ScimInit, ScimInv, ScimTyped, FileKeeps, PromisesHold, AnsweredSurvives, ScimContent

\* A request about one user, saved, failed to be saved, or stopped half way.
LEMMA AboutOneUser ==
  ASSUME ScimInv, answer # "down", NEW u \in ScimIds, NEW user,
         PutUser(u, user), UNCHANGED scimGroups, Promise(u),
         Save \/ (answer' \in {"404", "500"} /\ UNCHANGED scimFile)
  PROVE  ScimInv'
<1> USE DEF ScimInv, ScimTyped, FileKeeps, PromisesHold, AnsweredSurvives
<1>1. /\ scimUsers' = [v \in ScimIds |-> IF v = u THEN user ELSE scimUsers[v]]
      /\ \A v \in ScimIds : v # u => scimUsers'[v] = scimUsers[v]
  BY DEF PutUser
<1>2. /\ promised' = [v \in ScimIds |-> promised'[v]]
      /\ promised'[u] = IF answer' = "ok" /\ Valid(scimUsers'[u]) THEN scimUsers'[u] ELSE Unclear
      /\ \A v \in ScimIds : v # u => promised'[v] = promised[v]
  BY DEF Promise
<1>3. CASE answer' = "ok" /\ scimFile' = ScimContent(scimUsers', scimGroups')
  BY <1>1, <1>2, <1>3 DEF ScimContent
<1>4. CASE answer' # "ok" /\ scimFile' \in {scimFile, CutShort}
  BY <1>1, <1>2, <1>4
<1>5. QED
  BY <1>3, <1>4 DEF Save

\* A request about a group leaves the users as they are.
LEMMA AboutNoUser ==
  ASSUME ScimInv, answer # "down", UNCHANGED <<scimUsers, promised>>, Save \/ UNCHANGED scimFile
  PROVE  ScimInv'
<1> USE DEF ScimInv, ScimTyped, FileKeeps, PromisesHold, AnsweredSurvives
<1>1. CASE scimFile' = ScimContent(scimUsers', scimGroups')
  BY <1>1 DEF ScimContent
<1>2. CASE scimFile' \in {scimFile, CutShort}
  BY <1>2
<1>3. QED
  BY <1>1, <1>2 DEF Save

LEMMA ScimKeeps == ScimInv /\ [ScimNext]_scimVars => ScimInv'
<1> SUFFICES ASSUME ScimInv, [ScimNext]_scimVars PROVE ScimInv'
  OBVIOUS
<1>1. ASSUME NEW u \in ScimIds, NEW user, CreateScimUser(u, user) \/ UpdateScimUser(u, user)
      PROVE  ScimInv'
  <2> DEFINE half == [scimUsers[u] EXCEPT !.name = user.name, !.active = user.active]
  <2>1. answer # "down" /\ UNCHANGED scimGroups /\ Promise(u)
    BY <1>1 DEF CreateScimUser, UpdateScimUser, CountRequest
  <2>2. \/ PutUser(u, user) /\ Save
        \/ PutUser(u, half) /\ answer' = "500" /\ UNCHANGED scimFile
    BY <1>1 DEF CreateScimUser, UpdateScimUser
  <2> HIDE DEF half
  <2>3. CASE PutUser(u, user) /\ Save
    BY <2>1, <2>3, AboutOneUser
  <2>4. CASE PutUser(u, half) /\ answer' = "500" /\ UNCHANGED scimFile
    BY <2>1, <2>4, AboutOneUser
  <2>5. QED
    BY <2>2, <2>3, <2>4
<1>2. ASSUME NEW u \in ScimIds, NEW o1 \in Operations, NEW o2 \in Operations, PatchScimUser(u, o1, o2)
      PROVE  ScimInv'
  <2> DEFINE wrong == "other" \in {o1.path, o2.path}
             once == IF o1.path = "other" THEN scimUsers[u] ELSE Apply(scimUsers[u], o1)
             user == IF wrong THEN once ELSE Apply(once, o2)
  <2>1. answer # "down" /\ PutUser(u, user) /\ UNCHANGED scimGroups /\ Promise(u)
    BY <1>2 DEF PatchScimUser, CountRequest
  <2>2. Save \/ (answer' \in {"404", "500"} /\ UNCHANGED scimFile)
    BY <1>2 DEF PatchScimUser
  <2>3. QED
    BY <2>1, <2>2, AboutOneUser
<1>3. ASSUME NEW u \in ScimIds, DeleteScimUser(u) PROVE ScimInv'
  BY <1>3, AboutOneUser DEF DeleteScimUser, CountRequest
<1>4. ASSUME NEW g \in GroupIds, NEW ms, PutGroup(g, ms) PROVE ScimInv'
  BY <1>4, AboutNoUser DEF PutGroup, CountRequest
<1>5. ASSUME NEW g \in GroupIds, DeleteGroup(g) PROVE ScimInv'
  BY <1>5, AboutNoUser DEF DeleteGroup, CountRequest
<1>6. CASE RefuseScim
  BY <1>6, AboutNoUser DEF RefuseScim, CountRequest
<1>7. CASE RestartScim
  <2> USE DEF ScimInv, ScimTyped, FileKeeps, PromisesHold, AnsweredSurvives
  <2>1. CASE scimFile = CutShort
    BY <1>7, <2>1 DEF RestartScim
  <2>2. CASE scimFile # CutShort
    <3>1. /\ scimUsers' = Readable(scimFile.users) /\ scimFile' = scimFile /\ answer' # "down"
          /\ promised' = [u \in ScimIds |-> IF promised[u] = Unclear /\ scimUsers'[u] # NoScimUser
                                            THEN scimUsers'[u] ELSE promised[u]]
      BY <1>7, <2>2 DEF RestartScim
    <3>2. ASSUME NEW u \in ScimIds
          PROVE  /\ scimUsers'[u] = NoScimUser \/ (scimUsers'[u] = scimFile.users[u] /\ Valid(scimUsers'[u]))
                 /\ promised[u] # Unclear => scimUsers'[u] = promised[u]
      BY <2>2, <3>1 DEF Readable
    <3>3. \A u \in ScimIds : promised'[u] # Unclear =>
            promised'[u] = scimUsers'[u] /\ scimFile.users[u] = promised'[u]
      BY <2>2, <3>1, <3>2
    <3>4. QED
      BY <2>2, <3>1, <3>2, <3>3 DEF Readable
  <2>3. QED
    BY <2>1, <2>2
<1>8. CASE UNCHANGED scimVars
  BY <1>8 DEF scimVars, ScimInv, ScimTyped, FileKeeps, PromisesHold, AnsweredSurvives
<1>9. QED
  BY <1>1, <1>2, <1>3, <1>4, <1>5, <1>6, <1>7, <1>8 DEF ScimNext

\* What a request about a user was answered with success for holds of that
\* user until a later request about the same user fails or leaves it a value
\* that a start does not accept, however often the process starts again and
\* whatever saves fail, except for one that stops short, which ends it all.
THEOREM AnsweredIsKept == ScimSpec => []AnsweredSurvives
<1>1. ScimInv => AnsweredSurvives
  BY DEF ScimInv
<1>2. QED
  BY <1>1, ScimStarts, ScimKeeps, PTL DEF ScimSpec

-----------------------------------------------------------------------------
(* Accounts.  A login by a provider is in one place at a time: its value   *)
(* waits in _oauth_states, or one callback holds it, or it led to a        *)
(* session, which is why it leads to one at the most.                      *)

Holds(k, s) == exchanging[k] # NoLogin /\ exchanging[k].state = s
Led(s) == logins[s] # 0

LoginsTyped == /\ pending \in [LoginStates -> Contexts \cup {"unissued", "spent"}]
               /\ exchanging \in [Callbacks -> Login \cup {NoLogin}]
               /\ logins \in [LoginStates -> Nat]

InOnePlace(s) ==
  /\ logins[s] <= 1
  /\ Led(s) => pending[s] = "spent"
  /\ \A k \in Callbacks : Holds(k, s) => pending[s] = "spent" /\ ~Led(s)
  /\ \A k, m \in Callbacks : Holds(k, s) /\ Holds(m, s) => k = m

LoginInv == LoginsTyped /\ \A s \in LoginStates : InOnePlace(s)

LEMMA LoginsStart == AccountInit => LoginInv
BY DEF AccountInit, LoginInv, LoginsTyped, InOnePlace, Holds, Led

\* A step that at most ends exchanges, and that takes back no value.
LEMMA LoginsGoOn ==
  ASSUME LoginInv, LoginsTyped', UNCHANGED logins,
         \A k \in Callbacks : exchanging'[k] \in {exchanging[k], NoLogin},
         \A s \in LoginStates : pending[s] = "spent" => pending'[s] = "spent"
  PROVE  LoginInv'
BY DEF LoginInv, InOnePlace, Holds, Led

LEMMA LoginsKeep == LoginInv /\ [AccountNext]_accountVars => LoginInv'
<1> SUFFICES ASSUME LoginInv, [AccountNext]_accountVars PROVE LoginInv'
  OBVIOUS
<1>0. /\ LoginsTyped /\ Contexts = {"admin", "workspace"}
      /\ \A s \in LoginStates : InOnePlace(s)
  BY DEF LoginInv, Contexts
<1>1. CASE Boot
  <2>1. LoginsTyped' /\ \A s \in LoginStates : pending[s] = "spent" => pending'[s] = "spent"
    BY <1>0, <1>1 DEF Boot, LoginsTyped
  <2>2. \A k \in Callbacks : exchanging'[k] \in {exchanging[k], NoLogin}
    BY <1>1 DEF Boot
  <2>3. QED
    BY <1>1, <2>1, <2>2, LoginsGoOn DEF Boot
<1>2. ASSUME NEW s \in LoginStates, NEW c \in Contexts, OAuthLogin(s, c) PROVE LoginInv'
  <2>1. LoginsTyped' /\ \A t \in LoginStates : pending[t] = "spent" => pending'[t] = "spent"
    BY <1>0, <1>2 DEF OAuthLogin, LoginsTyped
  <2>2. \A k \in Callbacks : exchanging'[k] \in {exchanging[k], NoLogin}
    BY <1>2 DEF OAuthLogin
  <2>3. QED
    BY <1>2, <2>1, <2>2, LoginsGoOn DEF OAuthLogin
<1>3. ASSUME NEW k \in Callbacks, NEW s \in LoginStates, OAuthCallback(k, s) PROVE LoginInv'
  <2> DEFINE login == [state |-> s, context |-> pending[s]]
  <2>1. /\ pending[s] \in Contexts /\ pending[s] # "spent" /\ exchanging[k] = NoLogin
        /\ pending' = [pending EXCEPT ![s] = "spent"] /\ UNCHANGED logins
        /\ \/ exchanging' = exchanging
           \/ exchanging' = [exchanging EXCEPT ![k] = login]
    BY <1>0, <1>3 DEF OAuthCallback
  <2>2. login \in Login /\ login.state = s
    BY <2>1 DEF Login
  <2>3. LoginsTyped' /\ \A t \in LoginStates : pending[t] = "spent" => pending'[t] = "spent"
    BY <1>0, <2>1, <2>2 DEF LoginsTyped
  <2>4. CASE exchanging' = exchanging
    BY <2>1, <2>3, <2>4, LoginsGoOn
  <2>5. CASE exchanging' = [exchanging EXCEPT ![k] = login]
    <3>1. ~Led(s) /\ \A m \in Callbacks : ~Holds(m, s)
      BY <1>0, <2>1 DEF InOnePlace
    <3>2. \A t \in LoginStates, m \in Callbacks : Holds(m, t)' => Holds(m, t) \/ (m = k /\ t = s)
      BY <1>0, <2>2, <2>5 DEF Holds, LoginsTyped
    <3>3. pending'[s] = "spent" /\ \A t \in LoginStates : pending[t] = "spent" => pending'[t] = "spent"
      BY <1>0, <2>1 DEF LoginsTyped
    <3>4. ASSUME NEW t \in LoginStates PROVE InOnePlace(t)'
      <4>1. (Led(t)' <=> Led(t)) /\ logins'[t] = logins[t]
        BY <2>1 DEF Led
      <4>2. InOnePlace(t)
        BY <1>0
      <4>3. CASE t = s
        BY <3>1, <3>2, <3>3, <4>1, <4>2, <4>3 DEF InOnePlace
      <4>4. CASE t # s
        BY <3>2, <3>3, <4>1, <4>2, <4>4 DEF InOnePlace
      <4>5. QED
        BY <4>3, <4>4
    <3>5. QED
      BY <2>3, <3>4 DEF LoginInv
  <2>6. QED
    BY <2>1, <2>4, <2>5
<1>4. ASSUME NEW k \in Callbacks, OAuthError(k) PROVE LoginInv'
  <2>1. /\ LoginsTyped' /\ UNCHANGED <<pending, logins>>
        /\ \A m \in Callbacks : exchanging'[m] \in {exchanging[m], NoLogin}
    BY <1>0, <1>4 DEF OAuthError, LoginsTyped
  <2>2. QED
    BY <2>1, LoginsGoOn
<1>5. ASSUME NEW k \in Callbacks, NEW e \in Emails, OAuthAnswer(k, e) PROVE LoginInv'
  <2>1. /\ exchanging[k] # NoLogin /\ exchanging' = [exchanging EXCEPT ![k] = NoLogin]
        /\ UNCHANGED pending
        /\ logins' = logins \/ logins' = [logins EXCEPT ![exchanging[k].state] = @ + 1]
    BY <1>5 DEF OAuthAnswer
  <2>2. /\ exchanging' \in [Callbacks -> Login \cup {NoLogin}]
        /\ \A m \in Callbacks : exchanging'[m] \in {exchanging[m], NoLogin}
        /\ exchanging'[k] = NoLogin
    BY <1>0, <2>1 DEF LoginsTyped
  <2>3. CASE logins' = logins
    BY <1>0, <2>1, <2>2, <2>3, LoginsGoOn DEF LoginsTyped
  <2>4. CASE logins' = [logins EXCEPT ![exchanging[k].state] = @ + 1]
    <3> DEFINE s == exchanging[k].state
    <3>1. s \in LoginStates /\ Holds(k, s)
      BY <1>0, <2>1 DEF LoginsTyped, Login, Holds
    <3>2. pending[s] = "spent" /\ logins[s] = 0 /\ \A m \in Callbacks : Holds(m, s) => m = k
      BY <1>0, <3>1 DEF InOnePlace, Led
    <3>3. /\ logins' \in [LoginStates -> Nat] /\ logins'[s] = 1
          /\ \A t \in LoginStates \ {s} : logins'[t] = logins[t]
      BY <1>0, <2>4, <3>1, <3>2 DEF LoginsTyped
    <3>4. LoginsTyped'
      BY <1>0, <2>1, <2>2, <3>3 DEF LoginsTyped
    <3>5. \A t \in LoginStates, m \in Callbacks : Holds(m, t)' => Holds(m, t) /\ m # k
      BY <2>2 DEF Holds
    <3>6. ASSUME NEW t \in LoginStates PROVE InOnePlace(t)'
      <4>1. CASE t = s
        BY <2>1, <3>2, <3>3, <3>5, <4>1 DEF InOnePlace, Led
      <4>2. CASE t # s
        BY <1>0, <2>1, <3>3, <3>5, <4>2 DEF InOnePlace, Led
      <4>3. QED
        BY <4>1, <4>2
    <3>7. QED
      BY <3>4, <3>6 DEF LoginInv
  <2>5. QED
    BY <2>1, <2>3, <2>4
<1>6. CASE UNCHANGED loginVars
  BY <1>0, <1>6, LoginsGoOn DEF loginVars, LoginsTyped
<1>7. QED
  BY <1>1, <1>2, <1>3, <1>4, <1>5, <1>6
     DEF AccountNext, accountVars, loginVars, Register, LogIn, EndSession, LetIn, Answered, CreateUser, SetRole,
         SetActive, ResetPassword, Refuse, DeleteUser

\* However callbacks are repeated, and whatever else happens between a login
\* and its callback, a value of _oauth_states leads to one session at most.
THEOREM LoginsLeadToOneSession == AccountSpec => []StatesUsedOnce
<1>1. LoginInv => StatesUsedOnce
  BY DEF LoginInv, InOnePlace, StatesUsedOnce
<1>2. QED
  BY LoginsStart, LoginsKeep, <1>1, PTL DEF AccountSpec
-----------------------------------------------------------------------------
(* The registry.  AccountsAgree is not inductive: that a restart registers *)
(* what the file holds needs the file to be in order, ids to be used once  *)
(* needs them counted, and the index must be right about the address of    *)
(* the super-administrator too, as far as it names anybody.                *)

\* Accounts as a file holds them, or the process.
InOrder(us) ==
  /\ us \in [UserIds -> User \cup {NoUser}]
  /\ \A u \in Registered(us) : u <= userCount
  /\ \A u, v \in Registered(us) : us[u].email = us[v].email /\ us[u].email # SuperEmail => u = v

Indexed(us, index) ==
  /\ index \in [Emails -> 0..MaxUsers]
  /\ \A e \in Emails : index[e] # 0 => index[e] \in Registered(us) /\ us[index[e]].email = e
  /\ \A u \in Registered(us) : us[u].email # SuperEmail => index[us[u].email] = u

Counted == /\ userCount \in 0..MaxUsers /\ boots \in Nat
           /\ asked \in [Requests -> UserIds \cup {Bearer, NoRequest}]
FileInOrder == usersFile # Torn => InOrder(usersFile)
LoggedIn == sessions \subseteq Registered(users)

AccountInv == Counted /\ InOrder(users) /\ Indexed(users, byEmail) /\ FileInOrder /\ LoggedIn

LEMMA UserIsSomebody == \A x \in User : x # NoUser
BY DEF User, NoUser

\* A bounded set of ids that is not empty has a last one.
LEMMA LastIsThere ==
  ASSUME NEW S \in SUBSET UserIds, S # {}
  PROVE  \E u \in S : \A v \in S : u >= v
<1>1. \A u \in S : u \in Nat /\ MaxUsers - u \in Nat /\ MaxUsers - (MaxUsers - u) = u
  BY AccountsAssumption DEF UserIds
<1>2. PICK T : T = {n \in Nat : MaxUsers - n \in S}
  OBVIOUS
<1>3. T # {} /\ T \subseteq Nat
  BY <1>1, <1>2
<1>4. PICK n \in T : \A m \in T : ~ (<<m, n>> \in OpToRel(<, Nat))
  BY <1>3, WFMin, NatLessThanWellFounded, Zenon
<1>5. ASSUME NEW m \in T PROVE n <= m
  <2>1. m \in Nat /\ n \in Nat
    BY <1>3
  <2>2. ~ (<<m, n>> \in {ss \in Nat \X Nat : ss[1] < ss[2]})
    BY <1>4 DEF OpToRel
  <2>3. QED
    BY <2>1, <2>2
<1>6. ASSUME NEW v \in S PROVE MaxUsers - n >= v
  <2>1. MaxUsers - v \in T
    BY <1>1, <1>2
  <2>2. n <= MaxUsers - v /\ n \in Nat /\ v \in Nat
    BY <1>1, <1>3, <1>5, <2>1
  <2>3. QED
    BY <2>2, AccountsAssumption
<1>7. MaxUsers - n \in S
  BY <1>2
<1>8. QED
  BY <1>6, <1>7

\* The index that is built when the accounts are read back.
LEMMA IndexIsRight ==
  ASSUME NEW us, InOrder(us)
  PROVE  Indexed(us, IndexOf(us))
<1> DEFINE index == IndexOf(us)
<1>1. /\ us \in [UserIds -> User \cup {NoUser}] /\ UserIds \subseteq 1..MaxUsers
      /\ \A u \in Registered(us) : u \in UserIds /\ us[u] \in User /\ us[u].email \in Emails
  BY DEF InOrder, Registered, User, UserIds
<1>2. ASSUME NEW e \in Emails, Holders(us, e) # {}
      PROVE  index[e] \in Holders(us, e)
  <2>1. Holders(us, e) \in SUBSET UserIds
    BY <1>1 DEF Holders
  <2>2. \E u \in Holders(us, e) : \A v \in Holders(us, e) : u >= v
    BY <1>2, <2>1, LastIsThere
  <2>3. index[e] = CHOOSE u \in Holders(us, e) : \A v \in Holders(us, e) : u >= v
    BY <1>2 DEF IndexOf
  <2>4. QED
    BY <2>2, <2>3
<1>3. \A e \in Emails : Holders(us, e) = {} => index[e] = 0
  BY DEF IndexOf
<1>4. index = [e \in Emails |-> index[e]]
  BY DEF IndexOf
<1>5. ASSUME NEW e \in Emails PROVE index[e] \in 0..MaxUsers
  <2>1. Holders(us, e) # {} => index[e] \in UserIds
    BY <1>1, <1>2 DEF Holders
  <2>2. index[e] = 0 \/ index[e] \in UserIds
    BY <1>3, <2>1
  <2>3. QED
    BY <2>2, AccountsAssumption DEF UserIds
<1>6. \A e \in Emails : index[e] # 0 => index[e] \in Registered(us) /\ us[index[e]].email = e
  BY <1>2, <1>3 DEF Holders
<1>7. ASSUME NEW u \in Registered(us), us[u].email # SuperEmail
      PROVE  index[us[u].email] = u
  <2>1. u \in Holders(us, us[u].email) /\ us[u].email \in Emails
    BY <1>1 DEF Holders
  <2>2. index[us[u].email] \in Holders(us, us[u].email)
    BY <1>2, <2>1
  <2>3. QED
    BY <1>7, <2>1, <2>2 DEF Holders, InOrder
<1> HIDE DEF index
<1>8. QED
  BY <1>4, <1>5, <1>6, <1>7 DEF Indexed, index

\* A new account gets an id nobody has, and the index finds it.
LEMMA Adding ==
  ASSUME Counted, NEW us, NEW index, NEW user \in User, InOrder(us), Indexed(us, index), FileInOrder,
         user.email = SuperEmail \/ index[user.email] = 0, AddUser(us, index, user)
  PROVE  /\ InOrder(users)' /\ Indexed(users, byEmail)' /\ FileInOrder'
         /\ userCount' \in 0..MaxUsers /\ userCount + 1 \in UserIds
         /\ us[userCount + 1] = NoUser /\ users' = [us EXCEPT ![userCount + 1] = user]
         /\ byEmail'[user.email] = userCount + 1
<1> DEFINE n == userCount + 1
<1>1. /\ n \in UserIds /\ userCount' = n /\ n \in 0..MaxUsers
      /\ userCount \in Nat /\ n > userCount /\ n # 0
  BY AccountsAssumption DEF Counted, AddUser, UserIds
<1>2. /\ users' = [us EXCEPT ![n] = user] /\ byEmail' = [index EXCEPT ![user.email] = n]
      /\ usersFile' \in {users', usersFile, Torn}
  BY DEF AddUser, SaveUsers
<1>3. /\ us \in [UserIds -> User \cup {NoUser}] /\ user.email \in Emails /\ user # NoUser
      /\ Registered(us) \subseteq UserIds /\ UserIds \subseteq Int
      /\ index \in [Emails -> 0..MaxUsers]
      /\ \A u \in Registered(us) : u <= userCount /\ us[u] \in User /\ us[u].email \in Emails
  BY UserIsSomebody DEF InOrder, User, Registered, Indexed, UserIds
<1>4. n \notin Registered(us) /\ us[n] = NoUser
  BY <1>1, <1>3 DEF Registered
<1>5. users' \in [UserIds -> User \cup {NoUser}] /\ users'[n] = user
      /\ \A u \in UserIds \ {n} : users'[u] = us[u]
  BY <1>1, <1>2, <1>3
<1>6. Registered(users') = Registered(us) \cup {n}
  BY <1>1, <1>3, <1>5 DEF Registered
<1>7. byEmail' \in [Emails -> 0..MaxUsers] /\ byEmail'[user.email] = n
      /\ \A e \in Emails \ {user.email} : byEmail'[e] = index[e]
  BY <1>1, <1>2, <1>3
<1>8. \A u \in Registered(us) : us[u].email # SuperEmail => us[u].email # user.email
  BY <1>1, <1>3 DEF Indexed, UserIds
<1>9. Indexed(users', byEmail')
  <2>1. ASSUME NEW e \in Emails, byEmail'[e] # 0
        PROVE  byEmail'[e] \in Registered(users') /\ users'[byEmail'[e]].email = e
    <3>1. CASE e = user.email
      BY <1>5, <1>6, <1>7, <3>1
    <3>2. CASE e # user.email
      <4>1. byEmail'[e] = index[e] /\ index[e] \in Registered(us) /\ us[index[e]].email = e
        BY <1>7, <2>1, <3>2 DEF Indexed
      <4>2. QED
        BY <1>3, <1>4, <1>5, <1>6, <4>1
    <3>3. QED
      BY <3>1, <3>2
  <2>2. ASSUME NEW u \in Registered(users'), users'[u].email # SuperEmail
        PROVE  byEmail'[users'[u].email] = u
    <3>1. CASE u = n
      BY <1>5, <1>7, <3>1
    <3>2. CASE u # n
      <4>1. u \in Registered(us) /\ users'[u] = us[u] /\ us[u].email # user.email
        BY <1>3, <1>5, <1>6, <1>8, <2>2, <3>2
      <4>2. QED
        BY <1>3, <1>7, <2>2, <4>1 DEF Indexed
    <3>3. QED
      BY <3>1, <3>2
  <2>3. QED
    BY <1>7, <2>1, <2>2 DEF Indexed
<1>10. InOrder(users)'
  <2>1. ASSUME NEW u \in Registered(users') PROVE u <= userCount'
    <3>1. u \in Int /\ (u = n \/ u <= userCount)
      BY <1>1, <1>3, <1>6
    <3>2. QED
      BY <1>1, <3>1
  <2>2. \A u, v \in Registered(users') :
          users'[u].email = users'[v].email /\ users'[u].email # SuperEmail => u = v
    BY <1>9 DEF Indexed
  <2>3. QED
    BY <1>5, <2>1, <2>2 DEF InOrder
<1>11. FileInOrder'
  <2>1. ASSUME usersFile' = usersFile PROVE FileInOrder'
    BY <1>1, <2>1 DEF FileInOrder, InOrder, Registered, UserIds
  <2>2. QED
    BY <1>2, <1>10, <2>1 DEF FileInOrder
<1>12. QED
  BY <1>1, <1>2, <1>4, <1>7, <1>9, <1>10, <1>11

\* A step that changes accounts, but neither whose they are nor which there are.
LEMMA Changing ==
  ASSUME AccountInv, Counted', NEW u \in Registered(users), NEW user \in User,
         user.email = users[u].email, Change(u, user)
  PROVE  AccountInv'
<1>1. /\ users' = [users EXCEPT ![u] = user] /\ UNCHANGED <<byEmail, userCount, sessions>>
      /\ usersFile' \in {users', usersFile, Torn} /\ user # NoUser
  BY UserIsSomebody DEF Change, SaveUsers
<1>2. /\ users' \in [UserIds -> User \cup {NoUser}]
      /\ Registered(users') = Registered(users)
      /\ \A v \in Registered(users) : users'[v].email = users[v].email
  BY <1>1 DEF AccountInv, InOrder, Registered
<1>3. InOrder(users)'
  <2>1. InOrder(users) /\ userCount' = userCount
    BY <1>1 DEF AccountInv
  <2>2. \A v \in Registered(users') : v <= userCount'
    BY <1>2, <2>1 DEF InOrder
  <2>3. \A v, w \in Registered(users') :
          users'[v].email = users'[w].email /\ users'[v].email # SuperEmail => v = w
    BY <1>2, <2>1 DEF InOrder
  <2>4. QED
    BY <1>2, <2>2, <2>3 DEF InOrder
<1>4. Indexed(users', byEmail')
  BY <1>1, <1>2 DEF AccountInv, Indexed
<1>5. FileInOrder'
  BY <1>1, <1>3 DEF AccountInv, FileInOrder, InOrder
<1>6. LoggedIn'
  BY <1>1, <1>2 DEF AccountInv, LoggedIn
<1>7. QED
  BY <1>3, <1>4, <1>5, <1>6 DEF AccountInv

LEMMA AccountsStart == AccountInit => AccountInv
<1> SUFFICES ASSUME AccountInit PROVE AccountInv
  OBVIOUS
<1>1. /\ users = NoUsers /\ usersFile = NoUsers /\ sessions = {} /\ userCount = 0 /\ boots = 0
      /\ byEmail = [e \in Emails |-> 0] /\ asked = [r \in Requests |-> NoRequest]
  BY DEF AccountInit
<1>2. NoUsers \in [UserIds -> User \cup {NoUser}] /\ Registered(NoUsers) = {}
  BY DEF NoUsers, Registered
<1>3. Counted /\ LoggedIn
  BY <1>1, AccountsAssumption DEF Counted, LoggedIn
<1>4. InOrder(users) /\ FileInOrder
  BY <1>1, <1>2 DEF InOrder, FileInOrder
<1>5. Indexed(users, byEmail)
  BY <1>1, <1>2, AccountsAssumption DEF Indexed
<1>6. QED
  BY <1>3, <1>4, <1>5 DEF AccountInv

\* What is read back is in order, whatever became of the file.
LEMMA ReadBack == AccountInv => InOrder(Loaded)
BY DEF AccountInv, FileInOrder, Loaded, InOrder, NoUsers, Registered

\* A step that leaves the accounts as they are; a session may begin.
LEMMA Leaving ==
  ASSUME AccountInv, UNCHANGED registry, usersFile' \in {users, usersFile, Torn},
         boots' \in Nat, asked' \in [Requests -> UserIds \cup {Bearer, NoRequest}],
         sessions' \subseteq Registered(users)
  PROVE  AccountInv'
<1>1. Counted' /\ InOrder(users)' /\ Indexed(users', byEmail') /\ FileInOrder'
  BY DEF AccountInv, registry, Counted, InOrder, FileInOrder
<1>2. LoggedIn'
  BY DEF LoggedIn, registry
<1>3. QED
  BY <1>1, <1>2 DEF AccountInv

LEMMA AccountsKeep == AccountInv /\ LoginInv /\ [AccountNext]_accountVars => AccountInv'
<1> SUFFICES ASSUME AccountInv, LoginInv, [AccountNext]_accountVars PROVE AccountInv'
  OBVIOUS
<1>0. /\ Counted /\ InOrder(users) /\ Indexed(users, byEmail) /\ FileInOrder /\ LoggedIn
      /\ users \in [UserIds -> User \cup {NoUser}] /\ Registered(users) \subseteq UserIds
      /\ \A u \in Registered(users) : users[u] \in User
  BY DEF AccountInv, InOrder, Registered
<1>1. CASE Boot
  <2>1. /\ boots' = boots + 1 /\ sessions' = {} /\ asked' = [r \in Requests |-> NoRequest]
        /\ \/ users' = Loaded /\ byEmail' = IndexOf(Loaded) /\ UNCHANGED <<usersFile, userCount>>
           \/ \E p \in Passwords :
                AddUser(Loaded, IndexOf(Loaded), [email |-> SuperEmail, admin |-> TRUE, active |-> TRUE, password |-> p])
    BY <1>1 DEF Boot
  <2>2. InOrder(Loaded) /\ Indexed(Loaded, IndexOf(Loaded))
    BY ReadBack, IndexIsRight
  <2>3. LoggedIn' /\ boots' \in Nat /\ asked' \in [Requests -> UserIds \cup {Bearer, NoRequest}]
    BY <1>0, <2>1 DEF LoggedIn, Counted
  <2>4. CASE users' = Loaded /\ byEmail' = IndexOf(Loaded) /\ UNCHANGED <<usersFile, userCount>>
    <3>1. Counted' /\ FileInOrder' /\ InOrder(users)'
      BY <1>0, <2>2, <2>3, <2>4 DEF Counted, FileInOrder, InOrder
    <3>2. Indexed(users', byEmail')
      BY <2>2, <2>4
    <3>3. QED
      BY <2>3, <3>1, <3>2 DEF AccountInv
  <2>5. ASSUME NEW p \in Passwords,
               AddUser(Loaded, IndexOf(Loaded), [email |-> SuperEmail, admin |-> TRUE, active |-> TRUE, password |-> p])
        PROVE  AccountInv'
    <3> DEFINE root == [email |-> SuperEmail, admin |-> TRUE, active |-> TRUE, password |-> p]
    <3>1. root \in User /\ root.email = SuperEmail
      BY AccountsAssumption DEF User
    <3> HIDE DEF root
    <3>2. AddUser(Loaded, IndexOf(Loaded), root)
      BY <2>5 DEF root
    <3>3. /\ InOrder(users)' /\ Indexed(users, byEmail)' /\ FileInOrder' /\ userCount' \in 0..MaxUsers
      BY <1>0, <2>2, <3>1, <3>2, Adding
    <3>4. QED
      BY <2>3, <3>3 DEF AccountInv, Counted
  <2>6. QED
    BY <2>1, <2>4, <2>5
\* A new account, and the session it may begin with.
<1>2. ASSUME NEW user \in User, byEmail[user.email] = 0, AddUser(users, byEmail, user),
             boots' \in Nat, asked' \in [Requests -> UserIds \cup {Bearer, NoRequest}],
             UNCHANGED sessions \/ sessions' = sessions \cup {byEmail'[user.email]}
      PROVE  AccountInv'
  <2>1. /\ InOrder(users)' /\ Indexed(users, byEmail)' /\ FileInOrder'
        /\ userCount' \in 0..MaxUsers /\ userCount + 1 \in UserIds
        /\ users[userCount + 1] = NoUser /\ users' = [users EXCEPT ![userCount + 1] = user]
        /\ byEmail'[user.email] = userCount + 1
    BY <1>0, <1>2, Adding
  <2>2. Registered(users) \cup {userCount + 1} \subseteq Registered(users')
    BY <1>0, <2>1, UserIsSomebody DEF Registered
  <2>3. UNCHANGED sessions \/ sessions' = sessions \cup {userCount + 1}
    BY <1>2, <2>1
  <2>4. sessions' \subseteq Registered(users')
    BY <1>0, <2>2, <2>3 DEF LoggedIn
  <2>5. QED
    BY <1>2, <2>1, <2>4 DEF AccountInv, Counted, LoggedIn
<1>3. ASSUME NEW e \in Emails, NEW p \in Passwords, Register(e, p) PROVE AccountInv'
  <2> DEFINE user == [email |-> e, admin |-> FALSE, active |-> TRUE, password |-> p]
  <2>1. user \in User /\ user.email = e /\ byEmail[e] = 0
    BY <1>3 DEF User, Register
  <2>2. boots' \in Nat /\ asked' \in [Requests -> UserIds \cup {Bearer, NoRequest}]
    BY <1>0, <1>3 DEF Register, steady, Counted
  <2>3. AddUser(users, byEmail, user) /\ CreateSession(userCount + 1)
    BY <1>3 DEF Register
  <2> HIDE DEF user
  <2>4. byEmail'[user.email] = userCount + 1
    BY <1>0, <2>1, <2>3, Adding
  <2>5. sessions' = sessions \cup {byEmail'[user.email]}
    BY <2>3, <2>4 DEF CreateSession
  <2>6. QED
    BY <1>2, <2>1, <2>2, <2>3, <2>5
<1>4. ASSUME NEW r \in Requests, NEW e \in Emails, NEW p \in Passwords, NEW a \in BOOLEAN, CreateUser(r, e, p, a)
      PROVE  AccountInv'
  <2> DEFINE user == [email |-> e, admin |-> a, active |-> TRUE, password |-> p]
  <2>1. user \in User /\ user.email = e
    BY DEF User
  <2>2. boots' \in Nat /\ asked' \in [Requests -> UserIds \cup {Bearer, NoRequest}] /\ byEmail[e] = 0
    BY <1>0, <1>4 DEF CreateUser, Answered, steady, Counted
  <2>3. AddUser(users, byEmail, user) /\ UNCHANGED sessions
    BY <1>4 DEF CreateUser
  <2> HIDE DEF user
  <2>4. QED
    BY <1>2, <2>1, <2>2, <2>3
<1>5. ASSUME NEW k \in Callbacks, NEW e \in Emails, OAuthAnswer(k, e) PROVE AccountInv'
  <2> DEFINE user == [email |-> e, admin |-> FALSE, active |-> TRUE, password |-> NoPassword]
  <2>1. user \in User /\ user.email = e
    BY DEF User
  <2>2. boots' \in Nat /\ asked' \in [Requests -> UserIds \cup {Bearer, NoRequest}]
    BY <1>0, <1>5 DEF OAuthAnswer, steady, Counted
  <2>3. UNCHANGED sessions \/ sessions' = sessions \cup {byEmail'[e]}
    BY <1>5 DEF OAuthAnswer, CreateSession
  <2>4. \/ byEmail[e] # 0 /\ SaveUsers(users) /\ UNCHANGED registry
        \/ byEmail[e] = 0 /\ AddUser(users, byEmail, user)
    BY <1>5 DEF OAuthAnswer
  <2> HIDE DEF user
  <2>6. CASE byEmail[e] = 0 /\ AddUser(users, byEmail, user)
    BY <1>2, <2>1, <2>2, <2>3, <2>6
  <2>7. CASE byEmail[e] # 0 /\ SaveUsers(users) /\ UNCHANGED registry
    <3>1. byEmail'[e] \in Registered(users) /\ byEmail'[e] \in UserIds
      BY <1>0, <2>7 DEF Indexed, registry
    <3>2. sessions' \subseteq Registered(users)
      BY <1>0, <2>3, <3>1 DEF LoggedIn
    <3>3. QED
      BY <2>2, <2>7, <3>2, Leaving DEF SaveUsers
  <2>8. QED
    BY <2>4, <2>6, <2>7
<1>6. ASSUME NEW e \in Emails, NEW p \in Passwords, NEW c \in Contexts, LogIn(e, p, c) PROVE AccountInv'
  <2>1. /\ sessions' = sessions \cup {byEmail[e]}
        /\ byEmail[e] \in Registered(users) /\ UNCHANGED registry
        /\ boots' \in Nat /\ asked' \in [Requests -> UserIds \cup {Bearer, NoRequest}] /\ UNCHANGED usersFile
    BY <1>0, <1>6 DEF LogIn, CreateSession, Indexed, Counted, steady, savedVars
  <2>2. sessions' \subseteq Registered(users)
    BY <1>0, <2>1 DEF LoggedIn
  <2>3. QED
    BY <2>1, <2>2, Leaving
<1>7. ASSUME NEW r \in Requests, Answered(r) PROVE asked' \in [Requests -> UserIds \cup {Bearer, NoRequest}]
  BY <1>0, <1>7 DEF Answered, Counted
<1>8. ASSUME NEW r \in Requests, NEW u \in UserIds, NEW a \in BOOLEAN, SetRole(r, u, a) \/ SetActive(r, u, a)
      PROVE  AccountInv'
  <2>1. u \in Registered(users) /\ Answered(r) /\ users[u] \in User
    BY <1>0, <1>8 DEF SetRole, SetActive
  <2>2. PICK user \in User : user.email = users[u].email /\ Change(u, user)
    BY <1>8, <2>1 DEF SetRole, SetActive, User
  <2>3. Counted'
    BY <1>0, <1>7, <2>1, <2>2 DEF Counted, Change, Answered, steady
  <2>4. QED
    BY <2>1, <2>2, <2>3, Changing
<1>9. ASSUME NEW r \in Requests, NEW u \in UserIds, NEW p \in Passwords, ResetPassword(r, u, p)
      PROVE  AccountInv'
  <2>1. u \in Registered(users) /\ Answered(r) /\ users[u] \in User
    BY <1>0, <1>9 DEF ResetPassword
  <2>2. PICK user \in User : user.email = users[u].email /\ Change(u, user)
    BY <1>9, <2>1 DEF ResetPassword, User
  <2>3. Counted'
    BY <1>0, <1>7, <2>1, <2>2 DEF Counted, Change, Answered, steady
  <2>4. QED
    BY <2>1, <2>2, <2>3, Changing
<1>10. ASSUME NEW by \in UserIds \cup {Bearer}, NEW u \in UserIds, DeleteUser(by, u) PROVE AccountInv'
  <2>1. /\ u \in Registered(users) /\ users' = [users EXCEPT ![u] = NoUser]
        /\ usersFile' \in {users', usersFile, Torn}
        /\ byEmail' = [byEmail EXCEPT ![users[u].email] = 0]
        /\ sessions' = sessions \ {u}
        /\ UNCHANGED <<boots, asked, userCount>>
    BY <1>10 DEF DeleteUser, SaveUsers, Unlisted, KeptSessions, steady
  <2>2. /\ users' \in [UserIds -> User \cup {NoUser}] /\ users'[u] = NoUser
        /\ \A v \in UserIds \ {u} : users'[v] = users[v]
    BY <1>0, <2>1
  <2>3. Registered(users') = Registered(users) \ {u}
    BY <1>0, <2>2 DEF Registered
  <2>4. Counted'
    BY <1>0, <2>1 DEF Counted
  <2>5. InOrder(users)'
    <3>1. \A v \in Registered(users') : v <= userCount'
      BY <1>0, <2>1, <2>3 DEF InOrder
    <3>2. \A v, w \in Registered(users') :
            users'[v].email = users'[w].email /\ users'[v].email # SuperEmail => v = w
      BY <1>0, <2>2, <2>3 DEF InOrder
    <3>3. QED
      BY <2>2, <3>1, <3>2 DEF InOrder
  <2>6. Indexed(users', byEmail')
    <3>1. /\ byEmail' \in [Emails -> 0..MaxUsers]
          /\ \A e \in Emails : byEmail'[e] = IF e = users[u].email THEN 0 ELSE byEmail[e]
      <4>1. byEmail \in [Emails -> 0..MaxUsers] /\ 0 \in 0..MaxUsers
        BY <1>0, AccountsAssumption DEF Indexed
      <4>2. QED
        BY <2>1, <4>1
    <3>2. ASSUME NEW e \in Emails, byEmail'[e] # 0
          PROVE  byEmail'[e] \in Registered(users') /\ users'[byEmail'[e]].email = e
      <4>1. e # users[u].email /\ byEmail'[e] = byEmail[e]
        BY <3>1, <3>2
      <4>2. byEmail[e] \in Registered(users) /\ users[byEmail[e]].email = e
        BY <1>0, <3>2, <4>1 DEF Indexed
      <4>3. QED
        BY <1>0, <2>2, <2>3, <4>1, <4>2
    <3>3. ASSUME NEW v \in Registered(users'), users'[v].email # SuperEmail
          PROVE  byEmail'[users'[v].email] = v
      <4>1. v \in Registered(users) /\ v # u /\ users'[v] = users[v] /\ users[v].email \in Emails
        BY <1>0, <2>2, <2>3 DEF User
      <4>2. users[v].email # users[u].email
        BY <1>0, <2>1, <3>3, <4>1 DEF InOrder
      <4>3. QED
        BY <1>0, <3>1, <3>3, <4>1, <4>2 DEF Indexed
    <3>4. QED
      BY <3>1, <3>2, <3>3 DEF Indexed
  <2>7. FileInOrder'
    BY <1>0, <2>1, <2>5 DEF FileInOrder, InOrder
  <2>8. LoggedIn'
    BY <1>0, <2>1, <2>3 DEF LoggedIn
  <2>9. QED
    BY <2>4, <2>5, <2>6, <2>7, <2>8 DEF AccountInv
\* The rest: nothing is registered and no session begins.
<1>11. ASSUME UNCHANGED <<registry, usersFile, boots>>, sessions' \subseteq sessions,
              asked' \in [Requests -> UserIds \cup {Bearer, NoRequest}]
       PROVE  AccountInv'
  BY <1>0, <1>11, Leaving DEF LoggedIn, Counted
<1>12. ASSUME NEW u \in sessions, EndSession(u) PROVE AccountInv'
  BY <1>0, <1>11, <1>12 DEF EndSession, steady, savedVars, Counted
<1>13. ASSUME NEW s \in LoginStates, \/ \E c \in Contexts : OAuthLogin(s, c)
                                    \/ \E k \in Callbacks : OAuthCallback(k, s)
       PROVE  AccountInv'
  BY <1>0, <1>11, <1>13 DEF OAuthLogin, OAuthCallback, steady, savedVars, Counted
<1>14. ASSUME NEW k \in Callbacks, OAuthError(k) PROVE AccountInv'
  BY <1>0, <1>11, <1>14 DEF OAuthError, steady, savedVars, Counted
<1>15. ASSUME NEW r \in Requests, NEW by \in UserIds \cup {Bearer}, LetIn(r, by) PROVE AccountInv'
  BY <1>0, <1>11, <1>15 DEF LetIn, steady, savedVars, Counted
<1>16. ASSUME NEW r \in Requests, Refuse(r) PROVE AccountInv'
  BY <1>7, <1>11, <1>16 DEF Refuse, Answered, steady, savedVars
<1>17. CASE UNCHANGED accountVars
  BY <1>0, <1>11, <1>17 DEF accountVars, registry, Counted
<1>18. QED
  BY <1>1, <1>3, <1>4, <1>5, <1>6, <1>8, <1>9, <1>10, <1>12, <1>13, <1>14, <1>15, <1>16, <1>17 DEF AccountNext

\* While no start has doubled it, the index finds the super-administrator too.
RootFound == ~doubled =>
               \A u \in Registered(users) : users[u].email = SuperEmail => byEmail[SuperEmail] = u

\* Whoever holds an address that was read back, the index finds one of them.
LEMMA IndexFinds ==
  ASSUME NEW us, NEW e \in Emails, NEW u \in Holders(us, e)
  PROVE  IndexOf(us)[e] \in Holders(us, e)
<1>1. Holders(us, e) \in SUBSET UserIds /\ Holders(us, e) # {}
  BY DEF Holders, Registered
<1>2. \E v \in Holders(us, e) : \A w \in Holders(us, e) : v >= w
  BY <1>1, LastIsThere
<1>3. IndexOf(us)[e] = CHOOSE v \in Holders(us, e) : \A w \in Holders(us, e) : v >= w
  BY <1>1 DEF IndexOf
<1>4. QED
  BY <1>2, <1>3

LEMMA RootStays == AccountInv /\ RootFound /\ [AccountNext]_accountVars => RootFound'
<1> SUFFICES ASSUME AccountInv, RootFound, [AccountNext]_accountVars, ~doubled' PROVE RootFound'
  BY DEF RootFound
<1>0. /\ Counted /\ InOrder(users) /\ Indexed(users, byEmail) /\ FileInOrder
      /\ users \in [UserIds -> User \cup {NoUser}] /\ Registered(users) \subseteq UserIds
      /\ UserIds \subseteq 1..MaxUsers /\ byEmail \in [Emails -> 0..MaxUsers] /\ SuperEmail \in Emails
      /\ \A u \in Registered(users) : users[u] \in User /\ u # 0
  BY AccountsAssumption DEF AccountInv, InOrder, Indexed, Registered, UserIds
<1>1. CASE Boot
  <2>1. \A u, v \in Holders(users', SuperEmail) : u = v
    BY <1>1 DEF Boot
  <2>2. CASE users' = Loaded /\ byEmail' = IndexOf(Loaded)
    <3>1. \A u \in Holders(users', SuperEmail) : byEmail'[SuperEmail] \in Holders(users', SuperEmail)
      BY <1>0, <2>2, IndexFinds
    <3>2. QED
      BY <2>1, <3>1 DEF RootFound, Holders
  <2>3. ASSUME NEW p \in Passwords,
               AddUser(Loaded, IndexOf(Loaded), [email |-> SuperEmail, admin |-> TRUE, active |-> TRUE, password |-> p])
        PROVE  RootFound'
    <3> DEFINE root == [email |-> SuperEmail, admin |-> TRUE, active |-> TRUE, password |-> p]
    <3>1. root \in User /\ root.email = SuperEmail
      BY <1>0 DEF User
    <3> HIDE DEF root
    <3>2. AddUser(Loaded, IndexOf(Loaded), root) /\ InOrder(Loaded) /\ Indexed(Loaded, IndexOf(Loaded))
      BY <2>3, ReadBack, IndexIsRight DEF root
    <3>3. /\ byEmail'[SuperEmail] = userCount + 1 /\ userCount + 1 \in UserIds
          /\ users' = [Loaded EXCEPT ![userCount + 1] = root]
      BY <1>0, <3>1, <3>2, Adding
    <3>4. users'[userCount + 1] = root
      BY <3>2, <3>3 DEF InOrder
    <3>5. userCount + 1 \in Holders(users', SuperEmail)
      BY <3>1, <3>3, <3>4, UserIsSomebody DEF Holders, Registered
    <3>6. QED
      BY <2>1, <3>3, <3>5 DEF RootFound, Holders
  <2>4. QED
    BY <1>1, <2>2, <2>3 DEF Boot
\* Outside a start, whether the address is there twice does not change.
<1>2. ASSUME NEW user \in User, byEmail[user.email] = 0, AddUser(users, byEmail, user), doubled' = doubled
      PROVE  RootFound'
  <2>1. /\ userCount + 1 \in UserIds /\ users' = [users EXCEPT ![userCount + 1] = user]
        /\ byEmail' = [byEmail EXCEPT ![user.email] = userCount + 1] /\ user.email \in Emails
    BY <1>0, <1>2, Adding DEF AddUser, User
  <2>2. \A u \in Registered(users') : u = userCount + 1 \/ (u \in Registered(users) /\ users'[u] = users[u])
    BY <1>0, <2>1 DEF Registered
  <2>3. users'[userCount + 1] = user
    BY <1>0, <2>1
  <2>4. \A u \in Registered(users) : users[u].email = SuperEmail => byEmail[SuperEmail] = u
    BY <1>2 DEF RootFound
  <2>5. CASE user.email = SuperEmail
    BY <1>0, <1>2, <2>1, <2>2, <2>4, <2>5 DEF RootFound
  <2>6. CASE user.email # SuperEmail
    BY <1>0, <2>1, <2>2, <2>3, <2>4, <2>6 DEF RootFound
  <2>7. QED
    BY <2>5, <2>6
<1>3. ASSUME NEW u \in Registered(users), NEW user \in User, user.email = users[u].email, Change(u, user),
             doubled' = doubled
      PROVE  RootFound'
  <2>1. /\ users' = [users EXCEPT ![u] = user] /\ byEmail' = byEmail
    BY <1>3 DEF Change
  <2>2. \A v \in Registered(users') : v \in Registered(users) /\ users'[v].email = users[v].email
    BY <1>0, <1>3, <2>1 DEF Registered
  <2>3. QED
    BY <1>3, <2>1, <2>2 DEF RootFound
<1>4. CASE UNCHANGED <<users, byEmail, doubled>>
  BY <1>4 DEF RootFound, Registered
<1>5. ASSUME NEW e \in Emails, NEW p \in Passwords, Register(e, p) PROVE RootFound'
  <2> DEFINE user == [email |-> e, admin |-> FALSE, active |-> TRUE, password |-> p]
  <2>1. user \in User /\ byEmail[user.email] = 0 /\ AddUser(users, byEmail, user) /\ doubled' = doubled
    BY <1>5 DEF User, Register, steady
  <2> HIDE DEF user
  <2>2. QED
    BY <1>2, <2>1
<1>6. ASSUME NEW r \in Requests, NEW e \in Emails, NEW p \in Passwords, NEW a \in BOOLEAN, CreateUser(r, e, p, a)
      PROVE  RootFound'
  <2> DEFINE user == [email |-> e, admin |-> a, active |-> TRUE, password |-> p]
  <2>1. user \in User /\ byEmail[user.email] = 0 /\ AddUser(users, byEmail, user) /\ doubled' = doubled
    BY <1>6 DEF User, CreateUser, Answered, steady
  <2> HIDE DEF user
  <2>2. QED
    BY <1>2, <2>1
<1>7. ASSUME NEW k \in Callbacks, NEW e \in Emails, OAuthAnswer(k, e) PROVE RootFound'
  <2> DEFINE user == [email |-> e, admin |-> FALSE, active |-> TRUE, password |-> NoPassword]
  <2>1. /\ user \in User /\ doubled' = doubled
        /\ UNCHANGED registry \/ (byEmail[user.email] = 0 /\ AddUser(users, byEmail, user))
    BY <1>7 DEF User, OAuthAnswer, steady
  <2> HIDE DEF user
  <2>2. QED
    BY <1>2, <1>4, <2>1 DEF registry
<1>8. ASSUME NEW r \in Requests, NEW u \in UserIds, NEW a \in BOOLEAN, SetRole(r, u, a) \/ SetActive(r, u, a)
      PROVE  RootFound'
  <2>1. u \in Registered(users) /\ doubled' = doubled /\ users[u] \in User
    BY <1>0, <1>8 DEF SetRole, SetActive, Answered, steady
  <2>2. PICK user \in User : user.email = users[u].email /\ Change(u, user)
    BY <1>8, <2>1 DEF SetRole, SetActive, User
  <2>3. QED
    BY <1>3, <2>1, <2>2
<1>9. ASSUME NEW r \in Requests, NEW u \in UserIds, NEW p \in Passwords, ResetPassword(r, u, p) PROVE RootFound'
  <2>1. u \in Registered(users) /\ doubled' = doubled /\ users[u] \in User
    BY <1>0, <1>9 DEF ResetPassword, Answered, steady
  <2>2. PICK user \in User : user.email = users[u].email /\ Change(u, user)
    BY <1>9, <2>1 DEF ResetPassword, User
  <2>3. QED
    BY <1>3, <2>1, <2>2
<1>10. ASSUME NEW by \in UserIds \cup {Bearer}, NEW u \in UserIds, DeleteUser(by, u) PROVE RootFound'
  <2>1. /\ u \in Registered(users) /\ users' = [users EXCEPT ![u] = NoUser]
        /\ byEmail' = [byEmail EXCEPT ![users[u].email] = 0] /\ doubled' = doubled
    BY <1>10 DEF DeleteUser, Unlisted, steady
  <2>2. \A v \in Registered(users') : v \in Registered(users) /\ v # u /\ users'[v] = users[v]
    BY <1>0, <2>1 DEF Registered
  <2>3. \A v \in Registered(users) : users[v].email = SuperEmail => byEmail[SuperEmail] = v
    BY <2>1 DEF RootFound
  <2>4. QED
    BY <1>0, <2>1, <2>2, <2>3 DEF RootFound
<1>11. QED
  BY <1>1, <1>4, <1>5, <1>6, <1>7, <1>8, <1>9, <1>10
     DEF AccountNext, accountVars, registry, steady, LogIn, EndSession, OAuthLogin, OAuthCallback, OAuthError, LetIn,
         Refuse, Answered

\* Through registration, logins, deletion and restarts from files that are old
\* or torn, the index finds every account and no other, addresses are used once
\* and every session is one of an account; the address of the super-administrator
\* is excepted only in a process whose start found or made two accounts of it.
THEOREM RegistryAgrees == AccountSpec => []AccountsAgree
<1>1. AccountInv /\ RootFound => AccountsAgree
  <2> SUFFICES ASSUME AccountInv, RootFound PROVE AccountsAgree
    OBVIOUS
  <2>1. ASSUME NEW e \in Emails, e # SuperEmail \/ ~doubled
        PROVE  /\ Holders(users, e) = {} <=> byEmail[e] = 0
               /\ byEmail[e] # 0 => Holders(users, e) = {byEmail[e]}
    <3>1. \A u \in Holders(users, e) : u = byEmail[e] /\ u # 0
      BY <2>1 DEF AccountInv, RootFound, Indexed, Holders, Registered, UserIds
    <3>2. byEmail[e] # 0 => byEmail[e] \in Holders(users, e)
      BY DEF AccountInv, Indexed, Holders
    <3>3. QED
      BY <3>1, <3>2
  <2>2. \A u \in sessions : users[u] # NoUser
    BY DEF AccountInv, LoggedIn, Registered
  <2>3. QED
    BY <2>1, <2>2 DEF AccountsAgree
<1>2. AccountInit => RootFound
  BY DEF AccountInit, RootFound, NoUsers, Registered
<1>3. QED
  BY AccountsStart, AccountsKeep, LoginsStart, LoginsKeep, RootStays, <1>1, <1>2, PTL DEF AccountSpec
-----------------------------------------------------------------------------
(* The last administrator.                                                 *)

LEMMA NotTheOnlyOne ==
  ASSUME NEW S, Cardinality(S) > 1, NEW x
  PROVE  \E y \in S : y # x
<1> SUFFICES ASSUME \A y \in S : y = x PROVE FALSE
  OBVIOUS
<1>1. CASE S = {}
  <2>1. Cardinality(S) = 0
    BY <1>1, FS_EmptySet, Zenon
  <2>2. QED
    BY <2>1
<1>2. CASE S = {x}
  <2>1. Cardinality(S) = 1
    BY <1>2, FS_Singleton, Zenon
  <2>2. QED
    BY <2>1
<1>3. QED
  BY <1>1, <1>2

\* Who is an administrator after one account changed.
LEMMA AdminsLeft ==
  ASSUME AccountInv, NEW u \in UserIds, NEW user, users' = [users EXCEPT ![u] = user]
  PROVE  /\ users'[u] = user
         /\ ActiveAdmins(users) \ {u} \subseteq ActiveAdmins(users')
         /\ user # NoUser /\ user.admin /\ user.active => u \in ActiveAdmins(users')
BY DEF AccountInv, InOrder, ActiveAdmins, Registered

\* Nobody is an administrator less when an account is added.
LEMMA AdminsStay ==
  ASSUME AccountInv, NEW user \in User, byEmail[user.email] = 0, AddUser(users, byEmail, user)
  PROVE  ActiveAdmins(users) \subseteq ActiveAdmins(users')
<1>1. /\ userCount + 1 \in UserIds /\ users[userCount + 1] = NoUser
      /\ users' = [users EXCEPT ![userCount + 1] = user]
  BY Adding DEF AccountInv
<1>2. userCount + 1 \notin ActiveAdmins(users)
  BY <1>1 DEF ActiveAdmins, Registered
<1>3. QED
  BY <1>1, <1>2, AdminsLeft

ByAnother == \E r \in Requests, u \in ActiveAdmins(users) :
               /\ asked[r] # NoRequest /\ asked'[r] = NoRequest /\ asked[r] # u
               /\ users'[u] # NoUser /\ ~users'[u].admin
Lost == up /\ boots' = boots /\ ActiveAdmins(users) # {} /\ ActiveAdmins(users') = {}

LEMMA LastIsDemotedByAnother ==
  ASSUME AccountInv, AccountNext, Lost
  PROVE  ByAnother
<1>0. /\ Counted /\ boots \in Nat /\ asked \in [Requests -> UserIds \cup {Bearer, NoRequest}]
      /\ \E u \in ActiveAdmins(users) : TRUE
      /\ \A u \in Registered(users) : users[u] \in User
      /\ ActiveAdmins(users) \subseteq Registered(users) /\ Registered(users) \subseteq UserIds
      /\ ActiveAdmins(users') = {} /\ boots' = boots
  BY DEF AccountInv, InOrder, Counted, Registered, ActiveAdmins, Lost
<1>1. ~Boot
  <2>1. Boot => boots' = boots + 1
    BY DEF Boot
  <2>2. QED
    BY <1>0, <2>1
<1>2. users' # users
  BY <1>0
<1>3. ASSUME NEW user \in User, byEmail[user.email] = 0, AddUser(users, byEmail, user) PROVE FALSE
  BY <1>0, <1>3, AdminsStay
<1>4. ASSUME NEW e \in Emails, NEW p \in Passwords, Register(e, p) PROVE FALSE
  <2> DEFINE user == [email |-> e, admin |-> FALSE, active |-> TRUE, password |-> p]
  <2>1. user \in User /\ user.email = e /\ byEmail[e] = 0 /\ AddUser(users, byEmail, user)
    BY <1>4 DEF Register, User
  <2> HIDE DEF user
  <2>2. QED
    BY <1>3, <2>1
<1>5. ASSUME NEW r \in Requests, NEW e \in Emails, NEW p \in Passwords, NEW a \in BOOLEAN, CreateUser(r, e, p, a)
      PROVE  FALSE
  <2> DEFINE user == [email |-> e, admin |-> a, active |-> TRUE, password |-> p]
  <2>1. user \in User /\ user.email = e /\ byEmail[e] = 0 /\ AddUser(users, byEmail, user)
    BY <1>5 DEF CreateUser, User
  <2> HIDE DEF user
  <2>2. QED
    BY <1>3, <2>1
<1>6. ASSUME NEW k \in Callbacks, NEW e \in Emails, OAuthAnswer(k, e) PROVE FALSE
  <2> DEFINE user == [email |-> e, admin |-> FALSE, active |-> TRUE, password |-> NoPassword]
  <2>1. user \in User /\ user.email = e /\ byEmail[e] = 0 /\ AddUser(users, byEmail, user)
    BY <1>2, <1>6 DEF OAuthAnswer, User, registry
  <2> HIDE DEF user
  <2>2. QED
    BY <1>3, <2>1
<1>7. ASSUME NEW r \in Requests, NEW u \in UserIds, NEW a \in BOOLEAN, SetRole(r, u, a) PROVE ByAnother
  <2> DEFINE user == [users[u] EXCEPT !.admin = a]
  <2>1. /\ u \in Registered(users) /\ users' = [users EXCEPT ![u] = user]
        /\ asked[r] # NoRequest /\ asked' = [asked EXCEPT ![r] = NoRequest]
        /\ asked[r] = u /\ ~a => Cardinality(ActiveAdmins(users)) > 1
    BY <1>7 DEF SetRole, MayDemote, Answered, Change
  <2>2. user \in User /\ user # NoUser /\ user.admin = a /\ user.active = users[u].active
    BY <1>0, <2>1, UserIsSomebody DEF User
  <2> HIDE DEF user
  <2>3. /\ users'[u] = user
        /\ ActiveAdmins(users) \ {u} \subseteq ActiveAdmins(users')
        /\ user.admin /\ user.active => u \in ActiveAdmins(users')
    BY <2>1, <2>2, AdminsLeft
  <2>4. ActiveAdmins(users) = {u}
    BY <1>0, <2>3
  <2>5. ~a
    BY <1>0, <2>2, <2>3, <2>4 DEF ActiveAdmins
  <2>6. asked[r] # u
    BY <2>1, <2>4, <2>5, NotTheOnlyOne
  <2>7. asked'[r] = NoRequest
    BY <1>0, <2>1
  <2>8. QED
    BY <2>1, <2>2, <2>3, <2>4, <2>5, <2>6, <2>7 DEF ByAnother
<1>8. ASSUME NEW r \in Requests, NEW u \in UserIds, NEW a \in BOOLEAN, SetActive(r, u, a) PROVE FALSE
  <2> DEFINE user == [users[u] EXCEPT !.active = a]
  <2>1. /\ u \in Registered(users) /\ users' = [users EXCEPT ![u] = user]
        /\ ~a /\ users[u].admin => Cardinality(ActiveAdmins(users)) > 1
    BY <1>8 DEF SetActive, Change
  <2>2. user \in User /\ user # NoUser /\ user.active = a /\ user.admin = users[u].admin
    BY <1>0, <2>1, UserIsSomebody DEF User
  <2> HIDE DEF user
  <2>3. /\ users'[u] = user
        /\ ActiveAdmins(users) \ {u} \subseteq ActiveAdmins(users')
        /\ user.admin /\ user.active => u \in ActiveAdmins(users')
    BY <2>1, <2>2, AdminsLeft
  <2>4. ActiveAdmins(users) = {u}
    BY <1>0, <2>3
  <2>5. users[u].admin /\ ~a
    BY <1>0, <2>2, <2>3, <2>4 DEF ActiveAdmins
  <2>6. QED
    BY <2>1, <2>4, <2>5, NotTheOnlyOne
<1>9. ASSUME NEW r \in Requests, NEW u \in UserIds, NEW p \in Passwords, ResetPassword(r, u, p) PROVE FALSE
  <2> DEFINE user == [users[u] EXCEPT !.password = p]
  <2>1. u \in Registered(users) /\ users' = [users EXCEPT ![u] = user]
    BY <1>9 DEF ResetPassword, Change
  <2>2. user \in User /\ user # NoUser /\ user.active = users[u].active /\ user.admin = users[u].admin
    BY <1>0, <2>1, UserIsSomebody DEF User
  <2> HIDE DEF user
  <2>3. /\ ActiveAdmins(users) \ {u} \subseteq ActiveAdmins(users')
        /\ user.admin /\ user.active => u \in ActiveAdmins(users')
    BY <2>1, <2>2, AdminsLeft
  <2>4. QED
    BY <1>0, <2>2, <2>3 DEF ActiveAdmins
<1>10. ASSUME NEW by \in UserIds \cup {Bearer}, NEW u \in UserIds, DeleteUser(by, u) PROVE FALSE
  <2>1. /\ u \in Registered(users) /\ users' = [users EXCEPT ![u] = NoUser]
        /\ users[u].admin => Cardinality(ActiveAdmins(users)) > 1
    BY <1>10 DEF DeleteUser
  <2>2. ActiveAdmins(users) \ {u} \subseteq ActiveAdmins(users')
    BY <2>1, AdminsLeft
  <2>3. ActiveAdmins(users) = {u}
    BY <1>0, <2>2
  <2>4. users[u].admin
    BY <2>3 DEF ActiveAdmins
  <2>5. QED
    BY <2>1, <2>3, <2>4, NotTheOnlyOne
<1>11. QED
  BY <1>1, <1>2, <1>4, <1>5, <1>6, <1>7, <1>8, <1>9, <1>10
     DEF AccountNext, registry, LogIn, EndSession, OAuthLogin, OAuthCallback, OAuthError, LetIn, Refuse

\* As long as the process runs, the last active administrator is lost only
\* by a change of role that somebody else asked for.
THEOREM LastAdminIsDemoted == AccountSpec => LastAdminLeavesByOthers
<1>1. AccountInv /\ [AccountNext]_accountVars => [Lost => ByAnother]_accountVars
  BY LastIsDemotedByAnother
<1>2. AccountSpec => [][Lost => ByAnother]_accountVars
  BY AccountsStart, AccountsKeep, LoginsStart, LoginsKeep, <1>1, PTL DEF AccountSpec
<1>3. QED
  BY <1>2 DEF LastAdminLeavesByOthers, Lost, ByAnother

-----------------------------------------------------------------------------
(* Settings.                                                               *)

\* A vendor of the configuration, listed or not, whatever was assigned to it.
VendorState == Vendor \cup [enabled : BOOLEAN, keyed : BOOLEAN, models : BOOLEAN, listed : BOOLEAN]
Conf == [vendors : [Vendors -> VendorState], wrong : SUBSET Sections, place : Places,
         unread : {"default", "changed"}]
Wishes == {"-", "on", "off", "cleared"}

\* What was removed is not in the file either, from which it would come back.
LoginsOut == (loginProviders \cup loginFile) \cap withdrawnLogins = {}

SettingsTyped == conf \in Conf /\ configFile \in Conf /\ wish \in [Vendors -> Wishes]

\* A vendor that was cleared is off unless a key of it turned up.
Off(c, h) == \A v \in CloudVendors : h[v] = "cleared" /\ ~c.vendors[v].keyed => ~c.vendors[v].enabled

SettingsInv == SettingsTyped /\ LoginsOut /\ WithdrawnStaysOut

\* Assignments to the fields of a vendor, and to the parts of a configuration.
LEMMA Fields ==
  ASSUME NEW x \in VendorState
  PROVE  x.enabled \in BOOLEAN /\ x.keyed \in BOOLEAN
BY DEF VendorState, Vendor

LEMMA Switched ==
  ASSUME NEW x \in VendorState, NEW b \in BOOLEAN
  PROVE  /\ [x EXCEPT !.enabled = b] \in VendorState
         /\ [x EXCEPT !.enabled = b].enabled = b /\ [x EXCEPT !.enabled = b].keyed = x.keyed
BY DEF VendorState, Vendor

LEMMA KeyNoted ==
  ASSUME NEW x \in VendorState, NEW b \in BOOLEAN
  PROVE  /\ [x EXCEPT !.keyed = b] \in VendorState
         /\ [x EXCEPT !.keyed = b].keyed = b /\ [x EXCEPT !.keyed = b].enabled = x.enabled
BY DEF VendorState, Vendor

LEMMA Parts ==
  ASSUME NEW c \in Conf, NEW vs \in [Vendors -> VendorState]
  PROVE  /\ c.vendors \in [Vendors -> VendorState]
         /\ [c EXCEPT !.vendors = vs] \in Conf /\ [c EXCEPT !.vendors = vs].vendors = vs
BY DEF Conf

LEMMA Beginnings ==
  /\ UnlistedVendor \in VendorState /\ DefaultVendor \in VendorState
  /\ UnlistedVendor.enabled = FALSE /\ DefaultVendor.enabled = FALSE
  /\ Defaults \in Conf
BY SettingsAssumption DEF UnlistedVendor, DefaultVendor, VendorState, Vendor, Defaults, Conf

LEMMA KeyedVendor ==
  ASSUME NEW v, NEW x \in VendorState, NEW K
  PROVE  /\ Keyed(v, x, K) \in VendorState /\ (Keyed(v, x, K).keyed <=> v \in K)
         /\ Keyed(v, x, K).enabled <=> x.enabled \/ v \in K \cap CloudVendors
<1> DEFINE k == v \in K
           on == x.enabled \/ v \in K \cap CloudVendors
           y == [x EXCEPT !.keyed = k]
<1>1. k \in BOOLEAN /\ on \in BOOLEAN
  OBVIOUS
<1>2. y \in VendorState /\ y.keyed = k
  BY <1>1, KeyNoted
<1>3. Keyed(v, x, K) = [y EXCEPT !.enabled = on]
  BY DEF Keyed
<1> HIDE DEF y
<1>4. Keyed(v, x, K) \in VendorState /\ Keyed(v, x, K).keyed = k /\ Keyed(v, x, K).enabled = on
  BY <1>1, <1>2, <1>3, Switched
<1>5. QED
  BY <1>4

LEMMA ValidatedConf ==
  ASSUME NEW c \in Conf
  PROVE  /\ Validated(c) \in Conf
         /\ \A v \in Vendors : /\ Validated(c).vendors[v].keyed = c.vendors[v].keyed
                               /\ Validated(c).vendors[v].enabled => c.vendors[v].enabled
         /\ \A v \in CloudVendors : Validated(c).vendors[v].enabled =>
                                      c.vendors[v].keyed \/ c.vendors[v] = UnlistedVendor
<1> DEFINE w(v) == [c.vendors[v] EXCEPT !.enabled = FALSE]
           vs == [v \in Vendors |-> IF v \in CloudVendors /\ ~c.vendors[v].keyed /\ c.vendors[v] # UnlistedVendor
                                    THEN w(v) ELSE c.vendors[v]]
<1>1. c.vendors \in [Vendors -> VendorState]
  BY DEF Conf
<1>2. ASSUME NEW v \in Vendors
      PROVE  w(v) \in VendorState /\ w(v).enabled = FALSE /\ w(v).keyed = c.vendors[v].keyed
  BY <1>1, Switched
<1>3. Validated(c) = [c EXCEPT !.vendors = vs]
  BY DEF Validated
<1> HIDE DEF w
<1>4. /\ vs \in [Vendors -> VendorState]
      /\ \A v \in Vendors : vs[v].keyed = c.vendors[v].keyed /\ (vs[v].enabled => c.vendors[v].enabled)
      /\ \A v \in CloudVendors : vs[v].enabled => c.vendors[v].keyed \/ c.vendors[v] = UnlistedVendor
  <2>1. vs \in [Vendors -> VendorState]
    BY <1>1, <1>2
  <2>2. ASSUME NEW v \in Vendors
        PROVE  vs[v].keyed = c.vendors[v].keyed /\ (vs[v].enabled => c.vendors[v].enabled)
    BY <1>2
  <2>3. ASSUME NEW v \in CloudVendors, vs[v].enabled
        PROVE  c.vendors[v].keyed \/ c.vendors[v] = UnlistedVendor
    <3>1. v \in Vendors
      BY SettingsAssumption
    <3>2. ASSUME ~c.vendors[v].keyed, c.vendors[v] # UnlistedVendor
          PROVE  FALSE
      <4>1. vs[v] = w(v)
        BY <3>1, <3>2
      <4>2. w(v).enabled = FALSE
        BY <1>2, <3>1
      <4>3. QED
        BY <2>3, <4>1, <4>2, Zenon
    <3>3. QED
      BY <3>2
  <2> HIDE DEF vs
  <2>4. QED
    BY <2>1, <2>2, <2>3
<1> HIDE DEF vs
<1>5. QED
  BY <1>3, <1>4, Parts

LEMMA SyncedConf ==
  ASSUME SettingsInv
  PROVE  /\ Synced \in Conf /\ Off(Synced, wish)
<1> DEFINE K == keyRows[StoreFile]
           vs == [v \in Vendors |-> IF conf.vendors[v] = UnlistedVendor THEN UnlistedVendor
                                    ELSE Keyed(v, conf.vendors[v], K)]
<1>1. conf \in Conf /\ conf.vendors \in [Vendors -> VendorState]
  BY DEF SettingsInv, SettingsTyped, Conf
<1>2. Synced = [conf EXCEPT !.vendors = vs]
  BY DEF Synced
<1> HIDE DEF K
<1>3. vs \in [Vendors -> VendorState]
  BY <1>1, KeyedVendor, Beginnings
<1>4. ASSUME NEW v \in CloudVendors, wish[v] = "cleared", ~vs[v].keyed
      PROVE  ~vs[v].enabled
  <2>1. v \in Vendors /\ ~conf.vendors[v].enabled
    BY <1>4, SettingsAssumption DEF SettingsInv, WithdrawnStaysOut
  <2>2. QED
    BY <1>1, <1>4, <2>1, KeyedVendor, Beginnings
<1> HIDE DEF vs
<1>5. QED
  BY <1>1, <1>2, <1>3, <1>4, Parts DEF Off

\* What is taken over becomes the configuration.
LEMMA Taking ==
  ASSUME NEW c \in Conf, NEW h \in [Vendors -> Wishes], Off(c, h), Become(c, h), configFile' \in Conf, LoginsOut'
  PROVE  SettingsInv'
<1>1. \A v \in Vendors : wish'[v] = IF h[v] = "cleared" /\ c.vendors[v].keyed THEN "-" ELSE h[v]
  BY DEF Become, Noted
<1>2. wish' \in [Vendors -> Wishes] /\ conf' = c
  BY DEF Become, Noted, Wishes
<1>3. \A v \in CloudVendors : wish'[v] = "cleared" => ~conf'.vendors[v].enabled
  BY <1>1, <1>2, SettingsAssumption DEF Off
<1>4. QED
  BY <1>2, <1>3 DEF SettingsInv, SettingsTyped, WithdrawnStaysOut, LoginsOut

LEMMA SavedConf ==
  ASSUME NEW c \in Conf
  PROVE  SavedContent(c) \in Conf
<1> DEFINE vs == [v \in Vendors |-> IF c.vendors[v] = UnlistedVendor THEN UnlistedVendor
                                    ELSE [c.vendors[v] EXCEPT !.keyed = FALSE]]
<1>1. c.vendors \in [Vendors -> VendorState]
  BY DEF Conf
<1>2. vs \in [Vendors -> VendorState]
  <2>1. \A v \in Vendors : [c.vendors[v] EXCEPT !.keyed = FALSE] \in VendorState
    BY <1>1, KeyNoted
  <2>2. QED
    BY <1>1, <2>1, Beginnings
<1>3. SavedContent(c) = [c EXCEPT !.vendors = vs]
  BY DEF SavedContent
<1> HIDE DEF vs
<1>4. QED
  BY <1>2, <1>3, Parts

\* What a file says is on is on only with a key, once it is validated.
LEMMA LoadedConf ==
  ASSUME NEW f \in Conf, NEW db
  PROVE  /\ LoadFile(f, db) \in Conf
         /\ \A h : Off(Validated(LoadFile(f, db)), h)
<1> DEFINE K == keyRows[StoreOf(f.place, db)]
           x(v) == IF f.vendors[v] = UnlistedVendor THEN DefaultVendor ELSE f.vendors[v]
           vs == [v \in Vendors |-> Keyed(v, x(v), K)]
<1>1. f.vendors \in [Vendors -> VendorState]
  BY DEF Conf
<1>2. \A v \in Vendors : x(v) \in VendorState
  BY <1>1, Beginnings
<1>3. LoadFile(f, db) = [f EXCEPT !.unread = "default", !.vendors = vs]
  BY DEF LoadFile
<1> HIDE DEF K, x
<1>4. vs \in [Vendors -> VendorState]
  BY <1>2, KeyedVendor
<1> HIDE DEF vs
<1>5. LoadFile(f, db) \in Conf
  BY <1>3, <1>4 DEF Conf
<1>6. ASSUME NEW h, NEW v \in CloudVendors, ~Validated(LoadFile(f, db)).vendors[v].keyed
      PROVE  ~Validated(LoadFile(f, db)).vendors[v].enabled
  <2>1. v \in Vendors
    BY SettingsAssumption
  <2>2. QED
    BY <1>5, <1>6, <2>1, ValidatedConf, Beginnings
<1>7. QED
  BY <1>5, <1>6 DEF Off

\* The configuration with another flag of a vendor.
WithFlag(c, v, b) == [c EXCEPT !.vendors[v].enabled = b]
WithKey(c, v, b) == [c EXCEPT !.vendors[v].keyed = b]

LEMMA Flagged ==
  ASSUME NEW c \in Conf, NEW v \in Vendors, NEW b \in BOOLEAN
  PROVE  /\ WithFlag(c, v, b) \in Conf /\ WithFlag(c, v, b).vendors[v].enabled = b
         /\ \A w \in Vendors : /\ WithFlag(c, v, b).vendors[w].keyed = c.vendors[w].keyed
                               /\ w # v => WithFlag(c, v, b).vendors[w] = c.vendors[w]
<1> DEFINE x == [c.vendors[v] EXCEPT !.enabled = b]
           vs == [c.vendors EXCEPT ![v] = x]
<1>1. c.vendors \in [Vendors -> VendorState]
  BY DEF Conf
<1>2. x \in VendorState /\ x.keyed = c.vendors[v].keyed /\ x.enabled = b
  BY <1>1, Switched
<1>3. WithFlag(c, v, b) = [c EXCEPT !.vendors = vs]
  BY DEF WithFlag
<1> HIDE DEF x
<1>4. /\ vs \in [Vendors -> VendorState] /\ vs[v].enabled = b
      /\ \A w \in Vendors : vs[w].keyed = c.vendors[w].keyed /\ (w # v => vs[w] = c.vendors[w])
  BY <1>1, <1>2
<1> HIDE DEF vs
<1>5. QED
  BY <1>3, <1>4, Parts

LEMMA KeyFlagged ==
  ASSUME NEW c \in Conf, NEW v \in Vendors, NEW b \in BOOLEAN
  PROVE  /\ WithKey(c, v, b) \in Conf
         /\ \A w \in Vendors \ {v} : WithKey(c, v, b).vendors[w] = c.vendors[w]
<1> DEFINE x == [c.vendors[v] EXCEPT !.keyed = b]
           vs == [c.vendors EXCEPT ![v] = x]
<1>1. c.vendors \in [Vendors -> VendorState]
  BY DEF Conf
<1>2. x \in VendorState
  BY <1>1, KeyNoted
<1>3. WithKey(c, v, b) = [c EXCEPT !.vendors = vs]
  BY DEF WithKey
<1> HIDE DEF x
<1>4. vs \in [Vendors -> VendorState] /\ \A w \in Vendors \ {v} : vs[w] = c.vendors[w]
  BY <1>1, <1>2
<1> HIDE DEF vs
<1>5. QED
  BY <1>3, <1>4, Parts

LEMMA SettingsStart == SettingsInit => SettingsInv
<1> SUFFICES ASSUME SettingsInit PROVE SettingsInv
  OBVIOUS
<1>1. /\ conf = Defaults /\ configFile = Defaults /\ wish = [v \in Vendors |-> "-"]
      /\ loginProviders = {} /\ loginFile = {} /\ withdrawnLogins = {}
  BY DEF SettingsInit
<1>2. SettingsTyped /\ \A v \in Vendors : wish[v] # "cleared"
  BY <1>1, Beginnings DEF SettingsTyped, Wishes
<1>3. QED
  BY <1>1, <1>2, SettingsAssumption DEF SettingsInv, LoginsOut, WithdrawnStaysOut

LEMMA SettingsKeep == SettingsInv /\ [SettingsNext]_settingsVars => SettingsInv'
<1> SUFFICES ASSUME SettingsInv, [SettingsNext]_settingsVars PROVE SettingsInv'
  OBVIOUS
<1>0. /\ conf \in Conf /\ configFile \in Conf /\ wish \in [Vendors -> Wishes] /\ LoginsOut
      /\ conf.vendors \in [Vendors -> VendorState]
      /\ CloudVendors \subseteq Vendors /\ Off(conf, wish)
  BY SettingsAssumption DEF SettingsInv, SettingsTyped, Conf, WithdrawnStaysOut, Off
\* A request about vendors: what it takes over, and what it saves.
<1>1. ASSUME NEW c \in Conf, NEW h \in [Vendors -> Wishes], Off(c, h), Become(c, h), UNCHANGED providerLoginVars,
             \/ UNCHANGED fileVars
             \/ \E d \in Conf : configFile' = SavedContent(d)
      PROVE  SettingsInv'
  <2>1. configFile' \in Conf
    BY <1>0, <1>1, SavedConf DEF fileVars
  <2>2. LoginsOut'
    BY <1>0, <1>1 DEF LoginsOut, providerLoginVars
  <2>3. QED
    BY <1>1, <2>1, <2>2, Taking
<1>2. CASE LookUp
  BY <1>0, <1>1, <1>2, SyncedConf DEF LookUp, SettingsRequest
\* What is sent as a list.
<1>3. ASSUME NEW c \in Conf, NEW list \in VendorLists, c.vendors = list, Become(Validated(c), On(list, wish)),
             UNCHANGED fileVars, UNCHANGED providerLoginVars
      PROVE  SettingsInv'
  <2>1. On(list, wish) \in [Vendors -> Wishes]
    BY <1>0 DEF On, Wishes
  <2>2. Off(Validated(c), On(list, wish))
    BY <1>0, <1>3, ValidatedConf DEF Off, On
  <2>3. QED
    BY <1>1, <1>3, <2>1, <2>2, ValidatedConf
<1>4. ASSUME NEW list \in VendorLists, PutProviders(list) \/ PutConfig(list) PROVE SettingsInv'
  <2>1. list \in [Vendors -> VendorState]
    BY SettingsAssumption, Beginnings DEF VendorState
  <2>2. PICK wrong \in {conf.wrong, {}} :
          LET c == [conf EXCEPT !.vendors = list, !.wrong = wrong]
          IN  Become(Validated(c), On(list, wish)) /\ UNCHANGED fileVars /\ UNCHANGED providerLoginVars
    <3>1. CASE PutProviders(list)
      <4>1. [conf EXCEPT !.vendors = list, !.wrong = conf.wrong] = [conf EXCEPT !.vendors = list]
        BY <1>0, <2>1 DEF Conf
      <4>2. QED
        BY <3>1, <4>1 DEF PutProviders, SettingsRequest
    <3>2. CASE PutConfig(list)
      BY <3>2 DEF PutConfig, SettingsRequest
    <3>3. QED
      BY <1>4, <3>1, <3>2
  <2> DEFINE c == [conf EXCEPT !.vendors = list, !.wrong = wrong]
  <2>3. c \in Conf /\ c.vendors = list
    <3>1. wrong \in SUBSET Sections
      BY <1>0 DEF Conf
    <3>2. QED
      BY <1>0, <2>1, <3>1 DEF Conf
  <2> HIDE DEF c
  <2>4. QED
    BY <1>3, <2>2, <2>3 DEF c
<1>5. ASSUME NEW v \in Vendors, Toggle(v) PROVE SettingsInv'
  <2> DEFINE b == ~Synced.vendors[v].enabled
             turned == WithFlag(Synced, v, b)
             after == Validated(turned)
             d == ~after.vendors[v].enabled
             restored == WithFlag(after, v, d)
             end == IF Faulty(turned) THEN restored ELSE after
             h == [wish EXCEPT ![v] = IF end.vendors[v].enabled THEN "on" ELSE IF @ = "cleared" THEN @ ELSE "off"]
  <2>1. /\ Become(end, h) /\ UNCHANGED providerLoginVars
        /\ UNCHANGED fileVars \/ Persist(after)
    BY <1>5, Zenon DEF Toggle, SettingsRequest, WithFlag
  <2>2. Synced \in Conf /\ Off(Synced, wish)
    BY SyncedConf
  <2>3. b \in BOOLEAN /\ d \in BOOLEAN
    OBVIOUS
  <2> HIDE DEF b, d
  <2>4. /\ turned \in Conf
         /\ \A w \in Vendors \ {v} : turned.vendors[w] = Synced.vendors[w]
    BY <2>2, <2>3, Flagged
  <2> HIDE DEF turned
  <2>5. /\ after \in Conf
        /\ \A w \in CloudVendors \ {v} : /\ after.vendors[w].enabled => turned.vendors[w].enabled
                                         /\ after.vendors[w].keyed = turned.vendors[w].keyed
    BY <1>0, <2>4, ValidatedConf
  <2> HIDE DEF after
  <2>6. restored \in Conf /\ \A w \in Vendors \ {v} : restored.vendors[w] = after.vendors[w]
    BY <2>3, <2>5, Flagged
  <2> HIDE DEF restored
  <2>7. end \in Conf /\ \A w \in Vendors \ {v} : end.vendors[w] = after.vendors[w]
    BY <2>5, <2>6
  <2> HIDE DEF end
  <2>8. h \in [Vendors -> Wishes] /\ \A w \in Vendors \ {v} : h[w] = wish[w]
    BY <1>0 DEF Wishes
  <2>9. h[v] = "cleared" => ~end.vendors[v].enabled
    BY <1>0
  <2> HIDE DEF h
  <2>10. Off(end, h)
    <3> SUFFICES ASSUME NEW w \in CloudVendors, h[w] = "cleared", ~end.vendors[w].keyed
                 PROVE  ~end.vendors[w].enabled
      BY DEF Off
    <3>1. CASE w = v
      BY <2>9, <3>1
    <3>2. CASE w # v
      <4>1. /\ w \in Vendors /\ wish[w] = "cleared" /\ end.vendors[w] = after.vendors[w]
            /\ turned.vendors[w] = Synced.vendors[w]
        BY <1>0, <2>4, <2>7, <2>8, <3>2
      <4>2. ~Synced.vendors[w].keyed
        BY <2>5, <3>2, <4>1
      <4>3. ~Synced.vendors[w].enabled
        BY <2>2, <4>1, <4>2 DEF Off
      <4>4. QED
        BY <2>5, <3>2, <4>1, <4>3
    <3>3. QED
      BY <3>1, <3>2
  <2>11. QED
    BY <1>1, <2>1, <2>5, <2>7, <2>8, <2>10 DEF Persist
\* A section, whose value may be out of range.
<1>6. ASSUME NEW s \in Sections, NEW inRange \in BOOLEAN, PutSection(s, inRange) PROVE SettingsInv'
  <2> DEFINE c == [conf EXCEPT !.wrong = IF inRange THEN @ \ {s} ELSE @ \cup {s}]
  <2>1. c \in Conf /\ c.vendors = conf.vendors
    BY <1>0 DEF Conf
  <2>2. /\ Become(Validated(c), wish) /\ UNCHANGED providerLoginVars
        /\ UNCHANGED fileVars \/ Persist(Validated(c))
    BY <1>6 DEF PutSection, SettingsRequest
  <2> HIDE DEF c
  <2>3. Validated(c) \in Conf /\ Off(Validated(c), wish)
    BY <1>0, <2>1, ValidatedConf DEF Off
  <2>4. QED
    BY <1>0, <1>1, <2>2, <2>3 DEF Persist
<1>7. ASSUME NEW inRange \in BOOLEAN, UpdateLlmCost(inRange) \/ UpdateSafetyConfig(inRange) \/ UpdateQualityConfig(inRange)
      PROVE  SettingsInv'
  BY <1>6, <1>7 DEF Sections, UpdateLlmCost, UpdateSafetyConfig, UpdateQualityConfig
\* The other sections.
<1>8. ASSUME NEW c \in Conf, c.vendors = conf.vendors, Become(c, wish), UNCHANGED providerLoginVars,
             UNCHANGED fileVars \/ configFile' = SavedContent(c)
      PROVE  SettingsInv'
  <2>1. Off(c, wish)
    BY <1>0, <1>8 DEF Off
  <2>2. QED
    BY <1>0, <1>1, <1>8, <2>1
<1>9. /\ \A p \in Places : [conf EXCEPT !.place = p] \in Conf /\ [conf EXCEPT !.place = p].vendors = conf.vendors
      /\ [conf EXCEPT !.unread = "changed"] \in Conf /\ [conf EXCEPT !.unread = "changed"].vendors = conf.vendors
  BY <1>0 DEF Conf
<1>10. CASE UpdateLlmRouting \/ UpdateObservability \/ SaveConfig \/ \E p \in Places : UpdateProjectConfig(p)
  BY <1>0, <1>8, <1>9, <1>10 DEF UpdateLlmRouting, UpdateObservability, SaveConfig, UpdateProjectConfig, Put,
                                 Persist, SettingsRequest
<1>11. CASE UpdateGraphify \/ UpdateTools
  BY <1>0, <1>8, <1>9, <1>11 DEF UpdateGraphify, UpdateTools, Put, Persist, SettingsRequest
<1>12. ASSUME NEW config, NEW db, PutServer(config, db) PROVE SettingsInv'
  BY <1>0, <1>8, <1>12 DEF PutServer, SettingsRequest
\* A vendor that is switched on, or cleared.
<1>13. ASSUME NEW v \in Vendors, NEW c \in Conf, NEW b \in BOOLEAN, Off(c, wish),
              Become(WithFlag(c, v, b), [wish EXCEPT ![v] = "on"]), UNCHANGED providerLoginVars,
              UNCHANGED configFile \/ Persist(WithFlag(c, v, b))
       PROVE  SettingsInv'
  <2> DEFINE h == [wish EXCEPT ![v] = "on"]
             d == WithFlag(c, v, b)
  <2>1. h \in [Vendors -> Wishes] /\ h[v] = "on" /\ \A w \in Vendors \ {v} : h[w] = wish[w]
    BY <1>0 DEF Wishes
  <2>2. d \in Conf /\ \A w \in Vendors \ {v} : d.vendors[w] = c.vendors[w]
    BY Flagged
  <2> HIDE DEF h, d
  <2>3. Off(d, h)
    BY <1>0, <1>13, <2>1, <2>2 DEF Off
  <2>4. configFile' \in Conf
    BY <1>0, <1>13, <2>2, SavedConf DEF Persist, d
  <2>5. LoginsOut'
    BY <1>0, <1>13 DEF LoginsOut, providerLoginVars
  <2>6. QED
    BY <1>13, <2>1, <2>2, <2>3, <2>4, <2>5, Taking DEF d, h
<1>14. ASSUME NEW v \in Vendors, NEW known \in BOOLEAN, SetDefault(v, known) PROVE SettingsInv'
  <2>1. /\ Become(WithFlag(conf, v, TRUE), [wish EXCEPT ![v] = "on"]) /\ UNCHANGED providerLoginVars
        /\ UNCHANGED configFile \/ Persist(WithFlag(conf, v, TRUE))
    BY <1>14, Zenon DEF SetDefault, SettingsRequest, WithFlag, fileVars
  <2>2. QED
    BY <1>0, <1>13, <2>1
<1>15. ASSUME NEW v \in Vendors, SetKey(v) PROVE SettingsInv'
  <2> DEFINE c == WithKey(conf, v, TRUE)
             h == [wish EXCEPT ![v] = "on"]
             d == WithFlag(c, v, TRUE)
  <2>1. Become(d, h) /\ UNCHANGED providerLoginVars /\ UNCHANGED configFile
    BY <1>15, Zenon DEF SetKey, SettingsRequest, WithFlag, WithKey
  <2>2. c \in Conf /\ \A w \in Vendors \ {v} : c.vendors[w] = conf.vendors[w]
    BY <1>0, KeyFlagged
  <2> HIDE DEF c
  <2>3. d \in Conf /\ \A w \in Vendors \ {v} : d.vendors[w] = c.vendors[w]
    <3>1. PICK b \in BOOLEAN : b = TRUE
      OBVIOUS
    <3>2. WithFlag(c, v, b) \in Conf /\ \A w \in Vendors \ {v} : WithFlag(c, v, b).vendors[w] = c.vendors[w]
      BY <2>2, Flagged
    <3>3. QED
      BY <3>1, <3>2
  <2> HIDE DEF d
  <2>4. h \in [Vendors -> Wishes] /\ h[v] = "on" /\ \A w \in Vendors \ {v} : h[w] = wish[w]
    BY <1>0 DEF Wishes
  <2> HIDE DEF h
  <2>5. Off(d, h)
    BY <1>0, <2>2, <2>3, <2>4 DEF Off
  <2>6. configFile' \in Conf /\ LoginsOut'
    BY <1>0, <2>1 DEF LoginsOut, providerLoginVars
  <2>7. QED
    BY <2>1, <2>3, <2>4, <2>5, <2>6, Taking
<1>16. ASSUME NEW v \in Vendors, ClearKey(v) PROVE SettingsInv'
  <2> DEFINE c == WithKey(Synced, v, FALSE)
             h == [wish EXCEPT ![v] = "cleared"]
             d == WithFlag(c, v, FALSE)
  <2>1. Become(d, h) /\ UNCHANGED providerLoginVars /\ UNCHANGED configFile
    BY <1>16, Zenon DEF ClearKey, SettingsRequest, WithFlag, WithKey
  <2>2. Synced \in Conf /\ Off(Synced, wish)
    BY SyncedConf
  <2>3. c \in Conf /\ \A w \in Vendors \ {v} : c.vendors[w] = Synced.vendors[w]
    BY <2>2, KeyFlagged
  <2> HIDE DEF c
  <2>4. /\ d \in Conf /\ ~d.vendors[v].enabled
        /\ \A w \in Vendors \ {v} : d.vendors[w] = c.vendors[w]
    <3>1. PICK b \in BOOLEAN : b = FALSE
      OBVIOUS
    <3>2. /\ WithFlag(c, v, b) \in Conf /\ WithFlag(c, v, b).vendors[v].enabled = b
          /\ \A w \in Vendors \ {v} : WithFlag(c, v, b).vendors[w] = c.vendors[w]
      BY <2>3, Flagged
    <3>3. QED
      BY <3>1, <3>2
  <2> HIDE DEF d
  <2>5. h \in [Vendors -> Wishes] /\ \A w \in Vendors \ {v} : h[w] = wish[w]
    BY <1>0 DEF Wishes
  <2> HIDE DEF h
  <2>6. Off(d, h)
    BY <1>0, <2>2, <2>3, <2>4, <2>5 DEF Off
  <2>7. configFile' \in Conf /\ LoginsOut'
    BY <1>0, <2>1 DEF LoginsOut, providerLoginVars
  <2>8. QED
    BY <2>1, <2>4, <2>5, <2>6, <2>7, Taking
<1>17. CASE Reload
  <2> DEFINE f == IF environment.config = ".agent.json" THEN configFile ELSE Defaults
             c == LoadFile(f, environment.db)
             d == IF Faulty(c) THEN conf ELSE Validated(c)
  <2>1. Become(d, wish) /\ UNCHANGED fileVars /\ UNCHANGED providerLoginVars
    BY <1>17, Zenon DEF Reload, SettingsRequest
  <2>2. f \in Conf
    BY <1>0, Beginnings
  <2> HIDE DEF f
  <2>3. c \in Conf /\ Off(Validated(c), wish)
    BY <2>2, LoadedConf
  <2> HIDE DEF c
  <2>4. d \in Conf /\ Off(d, wish)
    BY <1>0, <2>3, ValidatedConf
  <2> HIDE DEF d
  <2>5. QED
    BY <1>0, <1>1, <2>1, <2>4
<1>18. CASE RestartSettings
  <2> DEFINE c == LoadFile(configFile', "unset")
  <2>1. /\ Become(Validated(c), wish) /\ configFile' \in {configFile, Defaults}
        /\ loginProviders' = {} /\ UNCHANGED <<loginFile, withdrawnLogins>>
    BY <1>18 DEF RestartSettings
  <2>2. configFile' \in Conf
    BY <1>0, <2>1, Beginnings
  <2>3. c \in Conf /\ Off(Validated(c), wish)
    BY <2>2, LoadedConf
  <2> HIDE DEF c
  <2>4. LoginsOut'
    BY <1>0, <2>1 DEF LoginsOut
  <2>5. QED
    BY <1>0, <2>1, <2>2, <2>3, <2>4, Taking, ValidatedConf
\* The login providers.
<1>19. ASSUME UNCHANGED <<conf, wish, configFile>>, LoginsOut' PROVE SettingsInv'
  BY <1>19 DEF SettingsInv, SettingsTyped, WithdrawnStaysOut, LoginsOut
<1>20. CASE LookUpLogins
  BY <1>0, <1>19, <1>20 DEF LookUpLogins, LoginRequest, fileVars, LoginsOut
<1>21. ASSUME NEW p \in Logins, SetLogin(p) \/ RemoveLogin(p) PROVE SettingsInv'
  <2>1. UNCHANGED <<conf, wish, configFile>>
    BY <1>21 DEF SetLogin, RemoveLogin, LoginRequest, fileVars
  <2>2. loginFile' \in {loginProviders', loginFile, {}}
    BY <1>21 DEF SetLogin, RemoveLogin, SaveLogins
  <2>3. LoginsOut'
    BY <1>0, <1>21, <2>2 DEF SetLogin, RemoveLogin, LoginsOut
  <2>4. QED
    BY <1>19, <2>1, <2>3
<1>22. CASE UNCHANGED settingsVars
  BY <1>0, <1>19, <1>22 DEF settingsVars, LoginsOut
<1>23. QED
  BY <1>2, <1>4, <1>5, <1>7, <1>10, <1>11, <1>12, <1>14, <1>15, <1>16, <1>17, <1>18, <1>20, <1>21, <1>22
     DEF SettingsNext, GetConfig, GetLlmConfig, KeyStatus, KeysSummary, ValidateKey

\* A vendor whose key was cleared stays off until it is asked for or a key of
\* it turns up, and a login provider that was removed does not come back:
\* through every order of requests, reloads and restarts.
THEOREM WithdrawnIsNotReturned == SettingsSpec => []WithdrawnStaysOut
<1>1. SettingsInv => WithdrawnStaysOut
  BY DEF SettingsInv
<1>2. QED
  BY SettingsStart, SettingsKeep, <1>1, PTL DEF SettingsSpec

-----------------------------------------------------------------------------
(* The stories over HTTP.  That the log has the end of what was said is    *)
(* inductive once both are in order, and no id in them is one that a later *)
(* request will give: the entry that the log drops is then the earliest of *)
(* those it has.                                                           *)

LogEntry == [kind : {"feedback", "approval", "project"}, story : ApiStories \cup {"-"}, id : Nat]
SaidIds(log, s) == {log[i].id : i \in Said(log, s)}
InOrderOf(log, s) == \A i, j \in Said(log, s) : i < j => log[i].id < log[j].id
\* What was said but for the first of it.
Later(said, dropped) == {said[k] : k \in (dropped + 1)..Len(said)}

Agrees(log, said, s) ==
  /\ InOrderOf(log, s)
  /\ \E dropped \in 0..Len(said) : /\ SaidIds(log, s) = Later(said, dropped)
                                   /\ Len(log) < LogCap => dropped = 0

ApiTyped == /\ activity \in Seq(LogEntry) /\ Len(activity) <= LogCap
            /\ feedback \in [ApiStories -> Seq(Nat)] /\ calls \in Nat

\* What was said is in the order of the requests, which are numbered.
Numbered == /\ \A s \in ApiStories :
                 /\ \A k \in 1..Len(feedback[s]) : feedback[s][k] < calls
                 /\ \A k, l \in 1..Len(feedback[s]) : k < l => feedback[s][k] < feedback[s][l]
            /\ \A i \in 1..Len(activity) : activity[i].kind = "feedback" => activity[i].id < calls

ApiInv == ApiTyped /\ Numbered /\ FeedbackAgreesWithLog

LEMMA AgreesIs == FeedbackAgreesWithLog <=> \A s \in ApiStories : Agrees(activity, feedback[s], s)
BY DEF FeedbackAgreesWithLog, Agrees, InOrderOf, SaidIds, Later

LEMMA ApiStarts == ApiInit => ApiInv
<1> SUFFICES ASSUME ApiInit PROVE ApiInv
  OBVIOUS
<1>1. activity = <<>> /\ feedback = [s \in ApiStories |-> <<>>] /\ calls = 0
  BY DEF ApiInit
<1>2. ApiTyped /\ Numbered
  BY <1>1, ApiAssumption DEF ApiTyped, Numbered
<1>3. FeedbackAgreesWithLog
  <2> SUFFICES ASSUME NEW s \in ApiStories
               PROVE  /\ \A i, j \in Said(activity, s) : i < j => activity[i].id < activity[j].id
                      /\ \E dropped \in 0..Len(feedback[s]) :
                           /\ SaidIds(activity, s) = Later(feedback[s], dropped)
                           /\ Len(activity) < LogCap => dropped = 0
    BY DEF FeedbackAgreesWithLog, SaidIds, Later
  <2>1. Said(activity, s) = {}
    BY <1>1 DEF Said
  <2>2. SaidIds(activity, s) = {} /\ feedback[s] = <<>> /\ Len(feedback[s]) = 0
    BY <1>1, <2>1 DEF SaidIds
  <2>3. Later(feedback[s], 0) = {}
    BY <2>2 DEF Later
  <2>4. QED
    BY <2>1, <2>2, <2>3
<1>4. QED
  BY <1>2, <1>3 DEF ApiInv

LEMMA Appended ==
  ASSUME NEW log \in Seq(LogEntry), NEW e \in LogEntry
  PROVE  LET new == Append(log, e)
         IN /\ new \in Seq(LogEntry) /\ new # <<>>
            /\ Len(log) \in Nat /\ Len(new) = Len(log) + 1
            /\ \A i \in 1..Len(log) : new[i] = log[i]
            /\ new[Len(log) + 1] = e
OBVIOUS

\* One more entry of a log, on another subject or the latest on this one.
LEMMA Logged ==
  ASSUME NEW log \in Seq(LogEntry), NEW e \in LogEntry, NEW s \in ApiStories, InOrderOf(log, s),
         \A i \in Said(log, s) : log[i].id < e.id \/ e.kind # "feedback"
  PROVE  /\ InOrderOf(Append(log, e), s)
         /\ SaidIds(Append(log, e), s)
              = IF e.kind = "feedback" /\ e.story = s THEN SaidIds(log, s) \cup {e.id} ELSE SaidIds(log, s)
<1> DEFINE new == Append(log, e)
           mine == e.kind = "feedback" /\ e.story = s
<1>1. /\ new \in Seq(LogEntry) /\ Len(new) = Len(log) + 1 /\ Len(log) \in Nat
      /\ DOMAIN new = 1..(Len(log) + 1) /\ DOMAIN log = 1..Len(log)
      /\ \A i \in 1..Len(log) : new[i] = log[i]
      /\ new[Len(log) + 1] = e
  OBVIOUS
<1> HIDE DEF new
<1>2. Said(log, s) \subseteq 1..Len(log)
  BY <1>1 DEF Said
<1>3. Said(new, s) = IF mine THEN Said(log, s) \cup {Len(log) + 1} ELSE Said(log, s)
  BY <1>1 DEF Said
<1>4. \A i \in Said(log, s) : new[i] = log[i] /\ i < Len(log) + 1 /\ ~(Len(log) + 1 < i)
  BY <1>1, <1>2
<1>5. InOrderOf(new, s)
  BY <1>1, <1>3, <1>4 DEF InOrderOf
<1>6. SaidIds(new, s) = IF mine THEN SaidIds(log, s) \cup {e.id} ELSE SaidIds(log, s)
  BY <1>1, <1>3, <1>4 DEF SaidIds
<1>7. QED
  BY <1>5, <1>6 DEF new

\* The first entry of a log is dropped.
LEMMA FirstDropped ==
  ASSUME NEW log \in Seq(LogEntry), log # <<>>, NEW s \in ApiStories, InOrderOf(log, s)
  PROVE  /\ InOrderOf(Tail(log), s)
         /\ SaidIds(Tail(log), s)
              = IF 1 \in Said(log, s) THEN SaidIds(log, s) \ {log[1].id} ELSE SaidIds(log, s)
         /\ 1 \in Said(log, s) => /\ log[1].id \in SaidIds(log, s)
                                  /\ \A n \in SaidIds(log, s) : log[1].id <= n
<1> DEFINE new == Tail(log)
<1>1. /\ Len(log) \in Nat /\ Len(log) >= 1 /\ Len(new) = Len(log) - 1
      /\ DOMAIN new = 1..(Len(log) - 1) /\ DOMAIN log = 1..Len(log)
      /\ \A i \in 1..(Len(log) - 1) : new[i] = log[i + 1]
      /\ \A i \in 1..Len(log) : log[i] \in LogEntry
  OBVIOUS
<1> HIDE DEF new
<1>2. Said(log, s) \subseteq 1..Len(log) /\ Said(new, s) \subseteq 1..(Len(log) - 1)
  BY <1>1 DEF Said
<1>3. \A i \in 1..(Len(log) - 1) : i \in Said(new, s) <=> i + 1 \in Said(log, s)
  BY <1>1 DEF Said
<1>4. \A i \in Said(log, s) : log[i].id \in Nat
  BY <1>1, <1>2 DEF LogEntry
<1>5. InOrderOf(new, s)
  <2> SUFFICES ASSUME NEW i \in Said(new, s), NEW j \in Said(new, s), i < j PROVE new[i].id < new[j].id
    BY DEF InOrderOf
  <2>1. i \in 1..(Len(log) - 1) /\ j \in 1..(Len(log) - 1)
    BY <1>2
  <2>2. i + 1 \in Said(log, s) /\ j + 1 \in Said(log, s) /\ i + 1 < j + 1
    BY <1>3, <2>1
  <2>3. log[i + 1].id < log[j + 1].id
    BY <2>2 DEF InOrderOf
  <2>4. QED
    BY <1>1, <2>1, <2>3
<1>6. \A i \in Said(log, s) : i # 1 => i - 1 \in Said(new, s) /\ new[i - 1] = log[i]
  BY <1>1, <1>2, <1>3
<1>7. \A i \in Said(new, s) : i + 1 \in Said(log, s) /\ i + 1 # 1 /\ new[i] = log[i + 1]
  BY <1>1, <1>2, <1>3
<1>8. SaidIds(new, s) = {log[i].id : i \in Said(log, s) \ {1}}
  BY <1>6, <1>7 DEF SaidIds
<1>9. 1 \in Said(log, s) => \A i \in Said(log, s) \ {1} : log[1].id < log[i].id
  BY <1>1, <1>2 DEF InOrderOf
<1>10. 1 \in Said(log, s) => log[1].id \in SaidIds(log, s) /\ \A n \in SaidIds(log, s) : log[1].id <= n
  BY <1>4, <1>9 DEF SaidIds
<1>11. SaidIds(new, s) = IF 1 \in Said(log, s) THEN SaidIds(log, s) \ {log[1].id} ELSE SaidIds(log, s)
  <2>1. CASE 1 \in Said(log, s)
    <3>1. \A i \in Said(log, s) \ {1} : log[i].id # log[1].id
      BY <1>4, <1>9, <2>1
    <3>2. QED
      BY <1>8, <2>1, <3>1 DEF SaidIds
  <2>2. CASE 1 \notin Said(log, s)
    <3>1. Said(log, s) \ {1} = Said(log, s)
      BY <2>2
    <3>2. QED
      BY <1>8, <2>2, <3>1 DEF SaidIds
  <2>3. QED
    BY <2>1, <2>2
<1>12. QED
  BY <1>5, <1>10, <1>11 DEF new

\* What was said later than the first of it, when more is said and when the
\* earliest of it is taken away.
LEMMA LaterSaid ==
  ASSUME NEW said \in Seq(Nat), NEW n \in Nat, NEW dropped \in 0..Len(said)
  PROVE  /\ Later(Append(said, n), dropped) = Later(said, dropped) \cup {n}
         /\ dropped \in 0..Len(Append(said, n))
<1> DEFINE new == Append(said, n)
<1>1. /\ Len(new) = Len(said) + 1 /\ Len(said) \in Nat
      /\ \A k \in 1..Len(said) : new[k] = said[k]
      /\ new[Len(said) + 1] = n
  OBVIOUS
<1> HIDE DEF new
<1>2. (dropped + 1)..Len(new) = ((dropped + 1)..Len(said)) \cup {Len(said) + 1}
  BY <1>1
<1>3. \A k \in (dropped + 1)..Len(said) : new[k] = said[k]
  BY <1>1
<1>4. Later(new, dropped) = Later(said, dropped) \cup {n}
  <2>1. Later(new, dropped) = {new[k] : k \in (dropped + 1)..Len(said)} \cup {new[Len(said) + 1]}
    BY <1>2 DEF Later
  <2>2. {new[k] : k \in (dropped + 1)..Len(said)} = Later(said, dropped)
    BY <1>3 DEF Later
  <2>3. QED
    BY <1>1, <2>1, <2>2
<1>5. QED
  BY <1>1, <1>4 DEF new

LEMMA EarliestTaken ==
  ASSUME NEW said \in Seq(Nat), \A k, l \in 1..Len(said) : k < l => said[k] < said[l],
         NEW dropped \in 0..Len(said), NEW n \in Later(said, dropped),
         \A m \in Later(said, dropped) : n <= m
  PROVE  dropped + 1 \in 0..Len(said) /\ Later(said, dropped + 1) = Later(said, dropped) \ {n}
<1>1. /\ Len(said) \in Nat /\ \A k \in 1..Len(said) : said[k] \in Nat
      /\ (dropped + 1)..Len(said) \subseteq 1..Len(said)
  OBVIOUS
<1>2. PICK k \in (dropped + 1)..Len(said) : n = said[k]
  BY DEF Later
<1>3. dropped + 1 \in (dropped + 1)..Len(said) /\ dropped + 1 \in 1..Len(said)
  BY <1>1, <1>2
<1>4. said[dropped + 1] \in Later(said, dropped)
  BY <1>3 DEF Later
<1>5. n <= said[dropped + 1]
  BY <1>4
<1>6. k = dropped + 1
  <2>1. CASE k > dropped + 1
    <3>1. said[dropped + 1] < said[k]
      BY <1>1, <1>2, <1>3, <2>1
    <3>2. said[dropped + 1] \in Nat /\ said[k] \in Nat
      BY <1>1, <1>2, <1>3
    <3>3. QED
      BY <1>2, <1>5, <3>1, <3>2
  <2>2. QED
    BY <1>1, <1>2, <2>1
<1>7. (dropped + 2)..Len(said) = ((dropped + 1)..Len(said)) \ {dropped + 1}
  BY <1>1
<1>8. \A l \in (dropped + 2)..Len(said) : said[dropped + 1] # said[l]
  BY <1>1, <1>3
<1>9. Later(said, dropped + 1) = {said[l] : l \in (dropped + 2)..Len(said)}
  BY DEF Later
<1>10. QED
  BY <1>1, <1>2, <1>3, <1>6, <1>7, <1>8, <1>9 DEF Later

\* What is in the log.
LEMMA EntriesLogged ==
  ASSUME ApiInv
  PROVE  /\ Len(activity) \in Nat /\ DOMAIN activity = 1..Len(activity)
         /\ \A i \in 1..Len(activity) : activity[i] \in LogEntry /\ activity[i].id \in Nat
<1>1. activity \in Seq(LogEntry)
  BY DEF ApiInv, ApiTyped
<1>2. \A i \in 1..Len(activity) : activity[i] \in LogEntry
  BY <1>1
<1>3. \A x \in LogEntry : x.id \in Nat
  BY DEF LogEntry
<1> HIDE DEF LogEntry
<1>4. QED
  BY <1>1, <1>2, <1>3

\* What a request that is not about feedback adds to the log, and what one
\* adds that is, with its number.
LEMMA LogAgrees ==
  ASSUME ApiInv, NEW e \in LogEntry, AddActivity(e), calls' \in Nat, calls' = calls + 1,
         \/ e.kind # "feedback" /\ UNCHANGED feedback
         \/ /\ e.kind = "feedback" /\ e.id = calls /\ e.story \in ApiStories
            /\ feedback' = [feedback EXCEPT ![e.story] = Append(@, calls)]
  PROVE  ApiInv'
<1> DEFINE log == Append(activity, e)
           full == Len(log) > LogCap
<1>1. /\ activity \in Seq(LogEntry) /\ log \in Seq(LogEntry) /\ log # <<>>
      /\ Len(activity) \in Nat /\ Len(log) = Len(activity) + 1 /\ Len(activity) <= LogCap
      /\ LogCap \in Nat /\ LogCap >= 1
      /\ \A i \in 1..Len(activity) : log[i] = activity[i]
      /\ log[Len(activity) + 1] = e
      /\ feedback \in [ApiStories -> Seq(Nat)] /\ calls \in Nat
  <2>1. /\ activity \in Seq(LogEntry) /\ Len(activity) <= LogCap
        /\ feedback \in [ApiStories -> Seq(Nat)] /\ calls \in Nat
    BY DEF ApiInv, ApiTyped
  <2>2. LogCap \in Nat /\ LogCap >= 1
    BY ApiAssumption
  <2>3. /\ log \in Seq(LogEntry) /\ log # <<>>
        /\ Len(activity) \in Nat /\ Len(log) = Len(activity) + 1
        /\ \A i \in 1..Len(activity) : log[i] = activity[i]
        /\ log[Len(activity) + 1] = e
    BY <2>1, Appended
  <2> HIDE DEF log
  <2>4. QED
    BY <2>1, <2>2, <2>3
<1>2. /\ activity' = IF full THEN Tail(log) ELSE log
      /\ activity' \in Seq(LogEntry) /\ Len(activity') <= LogCap
      /\ Len(activity') < LogCap => ~full
      /\ Len(Tail(log)) = Len(activity)
  <2>1. Tail(log) \in Seq(LogEntry) /\ Len(Tail(log)) = Len(log) - 1
    BY <1>1
  <2>2. activity' = IF full THEN Tail(log) ELSE log
    BY DEF AddActivity
  <2> HIDE DEF log
  <2>3. QED
    BY <1>1, <2>1, <2>2
<1>3. \A i \in 1..Len(log) : log[i].kind = "feedback" => log[i].id < calls'
  <2> SUFFICES ASSUME NEW i \in 1..Len(log), log[i].kind = "feedback" PROVE log[i].id < calls'
    OBVIOUS
  <2>1. CASE i \in 1..Len(activity)
    <3>1. log[i] = activity[i] /\ activity[i].id < calls /\ activity[i] \in LogEntry
      BY <1>1, <2>1 DEF ApiInv, Numbered
    <3>2. activity[i].id \in Nat
      BY <3>1 DEF LogEntry
    <3> HIDE DEF log
    <3>3. QED
      BY <1>1, <3>1, <3>2
  <2>2. CASE i = Len(activity) + 1
    BY <1>1, <2>2
  <2> HIDE DEF log
  <2>3. QED
    BY <1>1, <2>1, <2>2
<1>4. \A i \in 1..Len(activity') : activity'[i].kind = "feedback" => activity'[i].id < calls'
  <2>1. CASE ~full
    BY <1>2, <1>3, <2>1
  <2>2. CASE full
    <3>1. \A i \in 1..Len(Tail(log)) : i + 1 \in 1..Len(log) /\ Tail(log)[i] = log[i + 1]
      BY <1>1
    <3> HIDE DEF log
    <3>2. QED
      BY <1>2, <1>3, <2>2, <3>1
  <2>3. QED
    BY <2>1, <2>2
\* Of each story.
<1>5. ASSUME NEW s \in ApiStories
      PROVE  /\ feedback'[s] \in Seq(Nat)
             /\ \A k \in 1..Len(feedback'[s]) : feedback'[s][k] < calls'
             /\ \A k, l \in 1..Len(feedback'[s]) : k < l => feedback'[s][k] < feedback'[s][l]
             /\ InOrderOf(activity', s)
             /\ \E dropped \in 0..Len(feedback'[s]) :
                  /\ SaidIds(activity', s) = Later(feedback'[s], dropped)
                  /\ Len(activity') < LogCap => dropped = 0
  <2> DEFINE mine == e.kind = "feedback" /\ e.story = s
             old == feedback[s]
             said == feedback'[s]
  <2>1. /\ old \in Seq(Nat) /\ Len(old) \in Nat
        /\ \A k \in 1..Len(old) : old[k] < calls /\ old[k] \in Nat
        /\ \A k, l \in 1..Len(old) : k < l => old[k] < old[l]
    BY <1>1 DEF ApiInv, Numbered
  <2>2. said = IF mine THEN Append(old, calls) ELSE old
    BY <1>1
  <2>3. /\ InOrderOf(activity, s)
        /\ \E dropped \in 0..Len(old) : /\ SaidIds(activity, s) = Later(old, dropped)
                                        /\ Len(activity) < LogCap => dropped = 0
    BY DEF ApiInv, FeedbackAgreesWithLog, InOrderOf, SaidIds, Later
  <2>4. PICK dropped \in 0..Len(old) : /\ SaidIds(activity, s) = Later(old, dropped)
                                       /\ Len(activity) < LogCap => dropped = 0
    BY <2>3
  <2>5. \A i \in Said(activity, s) : activity[i].id < calls /\ activity[i].id \in Nat
    BY <1>1, EntriesLogged DEF Said, ApiInv, Numbered
  <2>6. /\ InOrderOf(log, s)
        /\ SaidIds(log, s) = IF mine THEN SaidIds(activity, s) \cup {e.id} ELSE SaidIds(activity, s)
    <3>1. \A i \in Said(activity, s) : activity[i].id < e.id \/ e.kind # "feedback"
      BY <2>5
    <3>2. QED
      BY <1>1, <2>3, <3>1, Logged
  <2>7. /\ said \in Seq(Nat)
        /\ \A k \in 1..Len(said) : said[k] < calls'
        /\ \A k, l \in 1..Len(said) : k < l => said[k] < said[l]
    <3>1. CASE mine
      <4>1. /\ Append(old, calls) \in Seq(Nat) /\ Len(Append(old, calls)) = Len(old) + 1
            /\ \A k \in 1..Len(old) : Append(old, calls)[k] = old[k]
            /\ Append(old, calls)[Len(old) + 1] = calls
        BY <1>1, <2>1
      <4>2. said = Append(old, calls)
        BY <2>2, <3>1
      <4> HIDE DEF said, old
      <4>3. /\ Len(said) = Len(old) + 1 /\ \A k \in 1..Len(old) : said[k] = old[k]
            /\ said[Len(old) + 1] = calls
        BY <4>1, <4>2
      <4>4. \A k \in 1..Len(said) : k \in 1..Len(old) \/ k = Len(old) + 1
        BY <2>1, <4>3
      <4>5. \A k \in 1..Len(said) : said[k] < calls'
        <5> SUFFICES ASSUME NEW k \in 1..Len(said) PROVE said[k] < calls'
          OBVIOUS
        <5>1. calls \in Nat /\ calls' = calls + 1
          BY <1>1
        <5>2. said[k] \in Nat /\ (said[k] < calls \/ said[k] = calls)
          BY <2>1, <4>3, <4>4, <5>1
        <5>3. QED
          BY <5>1, <5>2
      <4>6. \A k, l \in 1..Len(said) : k < l => said[k] < said[l]
        BY <2>1, <4>3, <4>4
      <4>7. QED
        BY <4>1, <4>2, <4>5, <4>6
    <3>2. CASE ~mine
      <4>1. said = old
        BY <2>2, <3>2
      <4> HIDE DEF said, old
      <4>2. QED
        BY <1>1, <2>1, <4>1
    <3>3. QED
      BY <3>1, <3>2
  <2>8. SaidIds(log, s) = Later(said, dropped) /\ dropped \in 0..Len(said)
    <3>1. CASE mine
      BY <1>1, <2>1, <2>2, <2>4, <2>6, <3>1, LaterSaid
    <3>2. CASE ~mine
      BY <2>2, <2>4, <2>6, <3>2
    <3>3. QED
      BY <3>1, <3>2
  <2> HIDE DEF said, old, mine
  <2>9. CASE ~full
    <3>1. activity' = log /\ Len(activity) < LogCap
      BY <1>1, <1>2, <2>9
    <3>2. QED
      BY <2>4, <2>6, <2>7, <2>8, <3>1 DEF said
  <2>10. CASE full
    <3>1. activity' = Tail(log) /\ ~(Len(activity') < LogCap)
      BY <1>2, <2>10
    <3> HIDE DEF log
    <3>2. /\ InOrderOf(Tail(log), s)
          /\ SaidIds(Tail(log), s)
               = IF 1 \in Said(log, s) THEN SaidIds(log, s) \ {log[1].id} ELSE SaidIds(log, s)
          /\ 1 \in Said(log, s) => /\ log[1].id \in SaidIds(log, s)
                                   /\ \A n \in SaidIds(log, s) : log[1].id <= n
      BY <1>1, <2>6, FirstDropped
    <3>3. CASE 1 \in Said(log, s)
      <4>1. dropped + 1 \in 0..Len(said) /\ Later(said, dropped + 1) = Later(said, dropped) \ {log[1].id}
        <5>1. log[1].id \in Later(said, dropped) /\ \A m \in Later(said, dropped) : log[1].id <= m
          BY <2>8, <3>2, <3>3
        <5>2. said \in Seq(Nat) /\ dropped \in 0..Len(said) /\ \A k, l \in 1..Len(said) : k < l => said[k] < said[l]
          BY <2>7, <2>8
        <5>3. PICK n, sd : n = log[1].id /\ sd = said
          OBVIOUS
        <5>4. n \in Later(sd, dropped) /\ \A m \in Later(sd, dropped) : n <= m
          BY <5>1, <5>3
        <5>5. sd \in Seq(Nat) /\ dropped \in 0..Len(sd) /\ \A k, l \in 1..Len(sd) : k < l => sd[k] < sd[l]
          BY <5>2, <5>3
        <5>6. dropped + 1 \in 0..Len(sd) /\ Later(sd, dropped + 1) = Later(sd, dropped) \ {n}
          BY <5>4, <5>5, EarliestTaken
        <5>7. QED
          BY <5>3, <5>6
      <4>2. QED
        BY <2>7, <2>8, <3>1, <3>2, <3>3, <4>1 DEF said
    <3>4. CASE 1 \notin Said(log, s)
      BY <2>7, <2>8, <3>1, <3>2, <3>4 DEF said
    <3>5. QED
      BY <3>3, <3>4
  <2>11. QED
    BY <2>9, <2>10
<1>6. feedback' \in [ApiStories -> Seq(Nat)]
  <2>1. \A s \in ApiStories : feedback'[s] \in Seq(Nat)
    BY <1>5
  <2>2. \E f : feedback' = [s \in ApiStories |-> f[s]]
    BY <1>1
  <2>3. QED
    BY <2>1, <2>2
<1>7. ApiTyped' /\ Numbered'
  BY <1>2, <1>4, <1>5, <1>6 DEF ApiTyped, Numbered
<1>8. FeedbackAgreesWithLog'
  BY <1>5 DEF FeedbackAgreesWithLog, InOrderOf, SaidIds, Later
<1>9. QED
  BY <1>7, <1>8 DEF ApiInv

\* A request of which neither the log nor the feedback tells.
LEMMA Untold ==
  ASSUME ApiInv, UNCHANGED <<activity, feedback>>, calls' \in {calls, calls + 1}
  PROVE  ApiInv'
<1>1. calls' \in Nat /\ calls <= calls' /\ calls \in Nat
  BY DEF ApiInv, ApiTyped
<1>2. \A s \in ApiStories : \A k \in 1..Len(feedback[s]) : feedback[s][k] \in Nat
  BY DEF ApiInv, ApiTyped
<1>3. \A i \in 1..Len(activity) : activity[i].id \in Nat
  BY EntriesLogged
<1>4. Numbered'
  BY <1>1, <1>2, <1>3 DEF ApiInv, Numbered
<1>5. ApiTyped'
  BY <1>1 DEF ApiInv, ApiTyped
<1>6. FeedbackAgreesWithLog'
  <2>1. FeedbackAgreesWithLog' <=> \A s \in ApiStories : Agrees(activity', feedback'[s], s)
    BY DEF FeedbackAgreesWithLog, Agrees, InOrderOf, SaidIds, Later
  <2>2. QED
    BY <2>1, AgreesIs DEF ApiInv
<1>7. QED
  BY <1>4, <1>5, <1>6 DEF ApiInv

LEMMA ApiKeeps == ApiInv /\ [ApiNext]_apiVars => ApiInv'
<1> SUFFICES ASSUME ApiInv, [ApiNext]_apiVars PROVE ApiInv'
  OBVIOUS
<1>1. ASSUME NEW status, Call(status), UNCHANGED <<activity, feedback>> PROVE ApiInv'
  BY <1>1, Untold DEF Call
<1>2. calls \in Nat
  BY DEF ApiInv, ApiTyped
<1>3. ASSUME NEW status, Call(status), NEW kind \in {"approval", "project"}, NEW s \in ApiStories \cup {"-"},
             AddActivity(Entry(kind, s, 0)), UNCHANGED feedback
      PROVE  ApiInv'
  <2>1. Entry(kind, s, 0) \in LogEntry /\ Entry(kind, s, 0).kind # "feedback"
    BY DEF Entry, LogEntry
  <2>2. calls' = calls + 1 /\ calls' \in Nat
    BY <1>2, <1>3 DEF Call
  <2> HIDE DEF Entry
  <2>3. QED
    BY <1>3, <2>1, <2>2, LogAgrees
<1>4. ASSUME NEW s \in ApiStories, SubmitFeedback(s) PROVE ApiInv'
  <2>1. CASE s \in Kept
    <3>1. /\ feedback' = [feedback EXCEPT ![s] = Append(@, calls)]
          /\ AddActivity(Entry("feedback", s, calls)) /\ calls' = calls + 1
      BY <1>4, <2>1 DEF SubmitFeedback, Call
    <3>2. /\ Entry("feedback", s, calls) \in LogEntry /\ Entry("feedback", s, calls).kind = "feedback"
          /\ Entry("feedback", s, calls).id = calls /\ Entry("feedback", s, calls).story = s
      BY <1>2 DEF Entry, LogEntry
    <3>3. calls' \in Nat
      BY <1>2, <3>1
    <3>4. QED
      BY <3>1, <3>2, <3>3, LogAgrees
  <2>2. CASE s \notin Kept
    BY <1>1, <1>4, <2>2 DEF SubmitFeedback
  <2>3. QED
    BY <2>1, <2>2
<1>5. ASSUME NEW s \in ApiStories, NEW d \in {"approve", "reject", "other"}, SubmitApproval(s, d) PROVE ApiInv'
  BY <1>1, <1>3, <1>5 DEF SubmitApproval
<1>6. ASSUME NEW p \in Projects, CreateProject(p) \/ DeleteProject(p) PROVE ApiInv'
  BY <1>1, <1>3, <1>6 DEF CreateProject, DeleteProject
<1>7. ASSUME NEW batch, Submit(batch) PROVE ApiInv'
  BY <1>1, <1>7 DEF Submit
<1>8. ASSUME NEW batch, RunTasks(batch) PROVE ApiInv'
  BY <1>8, Untold DEF RunTasks
<1>9. ASSUME NEW status, Call(status), Nothing PROVE ApiInv'
  BY <1>1, <1>9 DEF Nothing
<1>10. ASSUME NEW s \in ApiStories,
              \/ GetStoryStatus(s) \/ ApproveStory(s) \/ GetStoryDetail(s) \/ GetStoryTimeline(s) \/ GetStoryChanges(s)
              \/ GetStoryFeedback(s) \/ PauseStory(s) \/ ResumeStory(s)
       PROVE  ApiInv'
  BY <1>9, <1>10 DEF GetStoryStatus, ApproveStory, GetStoryDetail, GetStoryTimeline, GetStoryChanges,
                    GetStoryFeedback, PauseStory, ResumeStory
<1>11. ASSUME \/ \E p \in Projects : UpdateProject(p)
              \/ ListStories \/ GetMetrics \/ SubmitInstruction \/ ListInstructions \/ GetInstruction
              \/ CancelInstruction \/ RetryInstruction \/ GetPendingApprovals \/ GetActivity \/ GetDashboard
              \/ ListProjects
       PROVE  ApiInv'
  BY <1>9, <1>11 DEF UpdateProject, ListStories, GetMetrics, SubmitInstruction, ListInstructions, GetInstruction,
                    CancelInstruction, RetryInstruction, GetPendingApprovals, GetActivity, GetDashboard, ListProjects
<1>12. CASE UNCHANGED apiVars
  BY <1>12, Untold DEF apiVars
<1>13. CASE ApiNext
  BY <1>4, <1>5, <1>6, <1>7, <1>8, <1>10, <1>11, <1>13 DEF ApiNext, SubmitStory, BatchSubmit
<1>14. QED
  BY <1>12, <1>13

\* What the log has of the feedback on a story is the end of what was said
\* about it, in its order, however large the log may grow and whatever else
\* is logged in between.
THEOREM LogTellsTheFeedback == ApiSpec => []FeedbackAgreesWithLog
<1>1. ApiInv => FeedbackAgreesWithLog
  BY DEF ApiInv
<1>2. QED
  BY <1>1, ApiStarts, ApiKeeps, PTL DEF ApiSpec

-----------------------------------------------------------------------------
(* The rate limiter.  Dropping stale buckets makes no difference to        *)
(* anybody: one that is kept is the lasting one, and one that is not would *)
(* be full by now.                                                         *)

\* What is kept is what would have been kept, and what is not is full.
Unnoticed(c) ==
  /\ lasting[c].filled <= now
  /\ IF buckets[c] = NoBucket THEN Level(lasting[c]) = Burst
     ELSE buckets[c] = lasting[c] /\ accessed[c] = lasting[c].filled

LimiterInv == LimiterTypeOK /\ \A c \in Clients : Unnoticed(c)

LEMMA TimesMonotone ==
  ASSUME NEW r \in Nat, NEW x \in Nat, NEW y \in Nat, x <= y
  PROVE  r * x <= r * y /\ r * x \in Nat /\ r * y \in Nat
<1> DEFINE d == y - x
<1>1. d \in Nat /\ y = x + d
  OBVIOUS
<1> HIDE DEF d
<1>2. r * y = r * x + r * d
  BY <1>1
<1>3. r * d \in Nat /\ r * x \in Nat
  BY <1>1
<1> QED BY <1>2, <1>3

\* A bucket's level is between what it held and the burst.
LEMMA LevelBounds ==
  ASSUME NEW b \in Bucket, now \in Nat, b.filled <= now
  PROVE  Level(b) \in 0..Burst /\ Level(b) >= b.tokens
<1>1. b.tokens \in 0..Burst /\ b.filled \in Nat /\ Burst \in Nat /\ Rate \in Nat
  BY LimiterAssumption DEF Bucket
<1>2. now - b.filled \in Nat /\ Rate * (now - b.filled) \in Nat
  BY <1>1, TimesMonotone
<1> QED BY <1>1, <1>2 DEF Level

\* A bucket that was filled longer than Ttl ago is full.
LEMMA StaleIsFull ==
  ASSUME NEW b \in Bucket, now \in Nat, b.filled <= now, now - b.filled > Ttl
  PROVE  Level(b) = Burst
<1>1. b.tokens \in Nat /\ b.filled \in Nat /\ Burst \in Nat /\ Rate \in Nat /\ Ttl \in Nat /\ Burst <= Rate * Ttl
  BY LimiterAssumption DEF Bucket
<1>2. Rate * Ttl <= Rate * (now - b.filled) /\ Rate * (now - b.filled) \in Nat /\ Rate * Ttl \in Nat
  <2>1. now - b.filled \in Nat /\ Ttl <= now - b.filled
    BY <1>1
  <2> QED BY <1>1, <2>1, TimesMonotone
<1> QED BY <1>1, <1>2 DEF Level

LEMMA FullIsFull ==
  ASSUME now \in Nat
  PROVE  Level(FullBucket) = Burst
<1>1. Rate * (now - now) = 0 /\ Burst \in Nat
  BY LimiterAssumption
<1> QED BY <1>1 DEF Level, FullBucket

\* What a client would have if buckets were kept is what it has.
LEMMA SameLevel ==
  ASSUME LimiterInv, NEW c \in Clients
  PROVE  Level(BucketOf(c)) = Level(lasting[c])
<1>1. Unnoticed(c) /\ lasting[c] \in Bucket /\ now \in Nat
  BY LimiterAssumption DEF LimiterInv, LimiterTypeOK
<1>2. CASE buckets[c] = NoBucket
  BY <1>1, <1>2, FullIsFull DEF BucketOf, Unnoticed
<1>3. CASE IsStale(c)
  <2>1. accessed[c] = lasting[c].filled /\ now - accessed[c] > Ttl /\ lasting[c].filled <= now
    BY <1>1, <1>3 DEF IsStale, Unnoticed
  <2>2. Level(lasting[c]) = Burst
    BY <1>1, <2>1, StaleIsFull
  <2> QED BY <1>1, <1>3, <2>2, FullIsFull DEF BucketOf
<1>4. CASE buckets[c] # NoBucket /\ ~IsStale(c)
  BY <1>1, <1>4 DEF BucketOf, Unnoticed
<1> QED BY <1>2, <1>3, <1>4

LEMMA ConsumeType ==
  ASSUME NEW b \in Bucket, now \in 0..MaxTime, b.filled <= now
  PROVE  Consume(b) \in Bucket /\ Consume(b).filled = now /\ Consume(b) # NoBucket
<1>1. Level(b) \in 0..Burst /\ Burst \in Nat /\ now \in Nat
  BY LevelBounds, LimiterAssumption
<1> QED BY <1>1 DEF Consume, Bucket, NoBucket

LEMMA LimiterInitially == LimiterInit => LimiterInv
<1> SUFFICES ASSUME LimiterInit PROVE LimiterInv
  OBVIOUS
<1>1. Burst \in Nat /\ MaxTime \in Nat /\ 0 \in 0..MaxTime /\ Burst \in 0..Burst
  BY LimiterAssumption
<1>2. [tokens |-> Burst, filled |-> 0] \in Bucket
  BY <1>1 DEF Bucket
<1>3. LimiterTypeOK
  BY <1>1, <1>2 DEF LimiterInit, LimiterTypeOK
<1>4. ASSUME NEW c \in Clients PROVE Unnoticed(c)
  <2>1. now = 0 /\ buckets[c] = NoBucket /\ lasting[c] = FullBucket
    BY DEF LimiterInit, FullBucket
  <2>2. Level(lasting[c]) = Burst /\ lasting[c].filled = 0
    BY <2>1, FullIsFull DEF FullBucket
  <2> QED BY <2>1, <2>2 DEF Unnoticed
<1> QED BY <1>3, <1>4 DEF LimiterInv

LEMMA LimiterStep == LimiterInv /\ [LimiterNext]_limiterVars => LimiterInv'
<1> SUFFICES ASSUME LimiterInv, [LimiterNext]_limiterVars PROVE LimiterInv'
  OBVIOUS
<1>t. /\ buckets \in [Clients -> Bucket \cup {NoBucket}] /\ lasting \in [Clients -> Bucket]
      /\ accessed \in [Clients -> 0..MaxTime] /\ now \in 0..MaxTime /\ now \in Nat
      /\ \A c \in Clients : Unnoticed(c)
  BY LimiterAssumption DEF LimiterInv, LimiterTypeOK
<1>1. CASE Pass
  <2>1. now' = now + 1 /\ now' \in 0..MaxTime /\ buckets' = buckets /\ accessed' = accessed /\ lasting' = lasting
    BY <1>1, <1>t, LimiterAssumption DEF Pass
  <2>2. LimiterTypeOK'
    BY <1>t, <2>1 DEF LimiterTypeOK, Bucket, NoBucket
  <2>3. ASSUME NEW c \in Clients PROVE Unnoticed(c)'
    <3>1. lasting[c] \in Bucket /\ Unnoticed(c) /\ lasting[c].filled \in Nat
      BY <1>t DEF Bucket
    <3>2. lasting'[c] = lasting[c] /\ lasting[c].filled <= now'
      BY <1>t, <2>1, <3>1 DEF Unnoticed
    <3>3. CASE buckets[c] = NoBucket   \* a level that is full stays full
      <4>1. Level(lasting[c])' = Burst
        <5>1. Level(lasting[c]) = Burst /\ lasting[c].filled <= now
          BY <3>1, <3>3 DEF Unnoticed
        <5> DEFINE b == lasting[c]
        <5>2. b \in Bucket /\ b.filled <= now /\ Level(b) = Burst
          BY <3>1, <5>1
        <5>3. b.tokens \in Nat /\ b.filled \in Nat /\ Burst \in Nat /\ Rate \in Nat
          BY <3>1, LimiterAssumption DEF Bucket
        <5>4. Rate * (now - b.filled) <= Rate * (now + 1 - b.filled)
              /\ Rate * (now - b.filled) \in Nat /\ Rate * (now + 1 - b.filled) \in Nat
          <6>1. now - b.filled \in Nat /\ now + 1 - b.filled \in Nat /\ now - b.filled <= now + 1 - b.filled
            BY <1>t, <5>2, <5>3
          <6> QED BY <5>3, <6>1, TimesMonotone
        <5> QED BY <1>t, <2>1, <5>2, <5>3, <5>4 DEF Level
      <4> QED BY <2>1, <3>2, <3>3, <4>1 DEF Unnoticed, NoBucket
    <3>4. CASE buckets[c] # NoBucket
      BY <2>1, <3>1, <3>2, <3>4 DEF Unnoticed, NoBucket
    <3> QED BY <3>3, <3>4
  <2> QED BY <2>2, <2>3 DEF LimiterInv
<1>2. ASSUME NEW k \in Clients, IsAllowed(k) PROVE LimiterInv'
  <2>1. now' = now /\ accessed' = [accessed EXCEPT ![k] = now]
        /\ lasting' = [lasting EXCEPT ![k] = Consume(lasting[k])]
        /\ buckets' = [d \in Clients |-> IF d = k THEN Consume(BucketOf(k))
                                         ELSE IF IsStale(d) THEN NoBucket ELSE buckets[d]]
    BY <1>2, <1>t DEF IsAllowed
  <2>2. Level(BucketOf(k)) = Level(lasting[k])
    BY SameLevel
  <2>3. Consume(BucketOf(k)) = Consume(lasting[k])
    BY <2>2 DEF Consume
  <2>4. Consume(lasting[k]) \in Bucket /\ Consume(lasting[k]).filled = now /\ Consume(lasting[k]) # NoBucket
    <3>1. lasting[k] \in Bucket /\ lasting[k].filled <= now
      BY <1>t DEF Unnoticed
    <3> QED BY <1>t, <3>1, ConsumeType
  <2>5. LimiterTypeOK'
    <3>1. buckets' \in [Clients -> Bucket \cup {NoBucket}]
      BY <1>t, <2>1, <2>3, <2>4
    <3>2. lasting' \in [Clients -> Bucket] /\ accessed' \in [Clients -> 0..MaxTime] /\ now' \in 0..MaxTime
      BY <1>t, <2>1, <2>4
    <3> QED BY <3>1, <3>2 DEF LimiterTypeOK, Bucket, NoBucket
  <2>6. ASSUME NEW c \in Clients PROVE Unnoticed(c)'
    <3>1. CASE c = k
      <4>1. buckets'[c] = Consume(lasting[k]) /\ lasting'[c] = Consume(lasting[k]) /\ accessed'[c] = now
        BY <1>t, <2>1, <2>3, <3>1
      <4> QED BY <1>t, <2>1, <2>4, <4>1 DEF Unnoticed, NoBucket
    <3>2. CASE c # k
      <4>1. lasting'[c] = lasting[c] /\ accessed'[c] = accessed[c]
            /\ buckets'[c] = IF IsStale(c) THEN NoBucket ELSE buckets[c]
        BY <1>t, <2>1, <3>2
      <4>2. Level(lasting[c])' = Level(lasting[c])
        BY <2>1, <4>1 DEF Level
      <4>3. Unnoticed(c) /\ lasting[c] \in Bucket
        BY <1>t
      <4>4. CASE IsStale(c)
        <5>1. accessed[c] = lasting[c].filled /\ now - accessed[c] > Ttl /\ lasting[c].filled <= now
          BY <4>3, <4>4 DEF IsStale, Unnoticed
        <5>2. Level(lasting[c]) = Burst
          BY <1>t, <4>3, <5>1, StaleIsFull
        <5> QED BY <2>1, <4>1, <4>2, <4>4, <5>1, <5>2 DEF Unnoticed, NoBucket
      <4>5. CASE ~IsStale(c)
        <5>1. buckets'[c] = buckets[c]
          BY <4>1, <4>5
        <5> QED BY <2>1, <4>1, <4>2, <4>3, <5>1 DEF Unnoticed, NoBucket
      <4> QED BY <4>4, <4>5
    <3> QED BY <3>1, <3>2
  <2> QED BY <2>5, <2>6 DEF LimiterInv
<1>3. CASE UNCHANGED limiterVars
  BY <1>3 DEF limiterVars, LimiterInv, LimiterTypeOK, Unnoticed, Level, Bucket, NoBucket
<1> QED BY <1>1, <1>2, <1>3 DEF LimiterNext

\* In every reachable state a client that asks is answered as if no bucket
\* had ever been dropped (_cleanup_stale_buckets).
THEOREM LimiterNeverForgets == LimiterSpec => []DroppingIsInvisible
<1>1. LimiterInv => DroppingIsInvisible
  BY SameLevel DEF DroppingIsInvisible
<1> QED BY <1>1, LimiterInitially, LimiterStep, PTL DEF LimiterSpec

\* The limiter's variables keep their types; no bucket holds more than the
\* burst, or less than nothing.
THEOREM LimiterTypeCorrect == LimiterSpec => []LimiterTypeOK
<1>1. LimiterInv => LimiterTypeOK
  BY DEF LimiterInv
<1> QED BY <1>1, LimiterInitially, LimiterStep, PTL DEF LimiterSpec
=============================================================================
