--------------------------------- MODULE Scim ---------------------------------
(***************************************************************************)
(* auth/scim_provider.py behind auth/scim_routes.py: users and groups      *)
(* written by an identity provider over SCIM, kept in memory and, when a   *)
(* path is given (main.py gives none), written out as a whole after every  *)
(* change.  A PUT is not validated; what a file holds is, when it is read. *)
(*                                                                         *)
(* Membership is kept twice, in `groups' of a user and `members' of a      *)
(* group, and nothing relates the two.                                     *)
(***************************************************************************)
EXTENDS Integers

CONSTANTS ScimIds, ScimNames, GroupIds, ScimRoles,
          ScimBodies,    \* the users a request may describe
          MaxScimRequests, MaxScimFailures   \* bounds

VARIABLES scimUsers,    \* _users: [ScimIds -> ScimUser, NoScimUser]
          scimGroups,   \* _groups: [GroupIds -> members, OddGroup or NoMembers]
          scimFile,     \* the file at persistence_path, or CutShort
          answer,       \* what the last request was answered with
          promised,     \* history: [ScimIds -> what its last requests promised, or Unclear]
          scimRequests, scimFailures

scimVars == <<scimUsers, scimGroups, scimFile, answer, promised, scimRequests, scimFailures>>

\* null, a number or a text where the type of the field has something else
Odd == "odd"
ScimUser == [name : ScimNames \cup {Odd}, active : {"yes", "no", Odd}, roles : SUBSET ScimRoles,
             groups : SUBSET (GroupIds \cup {Odd})]
Valid(user) == user.name # Odd /\ user.active # Odd /\ Odd \notin user.groups
NoScimUser == [name |-> "none"]
OddGroup == {Odd}
NoMembers == {"absent"}
Unclear == [name |-> "unclear"]
CutShort == [cut |-> TRUE]

ASSUME ScimAssumption == ScimBodies \subseteq ScimUser

ScimContent(us, gs) == [users |-> us, groups |-> gs]

ScimInit == /\ scimUsers = [u \in ScimIds |-> NoScimUser] /\ scimGroups = [g \in GroupIds |-> NoMembers]
            /\ scimFile = ScimContent(scimUsers, scimGroups) /\ promised = scimUsers
            /\ answer = "none" /\ scimRequests = 0 /\ scimFailures = 0

\* A file that is there but cannot be parsed keeps the provider from being made.
CountRequest == answer # "down" /\ scimRequests < MaxScimRequests /\ scimRequests' = scimRequests + 1

\* save, and the answer: a failure is raised again, which the routes answer
\* with 500, while what is in memory stays changed.
Save == \/ /\ scimFile' = ScimContent(scimUsers', scimGroups') /\ answer' = "ok" /\ UNCHANGED scimFailures
        \/ /\ scimFailures < MaxScimFailures /\ scimFailures' = scimFailures + 1
           /\ scimFile' \in {scimFile, CutShort} /\ answer' = "500"

\* What is promised about user u: what was answered, nothing after an error
\* nor while a value of it cannot be read back.
Promise(u) == promised' = [promised EXCEPT ![u] = IF answer' = "ok" /\ Valid(scimUsers'[u])
                                                  THEN scimUsers'[u] ELSE Unclear]

PutUser(u, user) == scimUsers' = [scimUsers EXCEPT ![u] = user]

\* create_user, which validates: ids are not used again.
CreateScimUser(u, user) ==
  /\ CountRequest /\ Valid(user) /\ scimUsers[u] = NoScimUser /\ promised[u] = NoScimUser
  /\ PutUser(u, user) /\ UNCHANGED scimGroups /\ Save /\ Promise(u)

\* update_user: the body names the fields to replace, with any values; one
\* whose address or roles cannot be taken apart ends with 500 and leaves what
\* was set before them, unsaved.
UpdateScimUser(u, user) ==
  /\ CountRequest /\ scimUsers[u] # NoScimUser /\ UNCHANGED scimGroups
  /\ \/ PutUser(u, user) /\ Save
     \/ /\ PutUser(u, [scimUsers[u] EXCEPT !.name = user.name, !.active = user.active])
        /\ answer' = "500" /\ UNCHANGED <<scimFile, scimFailures>>
  /\ Promise(u)

\* The operations of a PATCH on the fields that are kept here; "other" stands
\* for a path that contains the name of no field that may be patched.
Operations == [op : {"add", "replace"}, path : {"roles"}, value : ScimRoles]
              \cup [op : {"add", "replace"}, path : {"groups"}, value : GroupIds \cup {Odd}]
              \cup [op : {"replace"}, path : {"active"}, value : {"yes", "no"}]
              \cup [op : {"remove"}, path : {"roles", "groups", "active", "other"}, value : {"-"}]

Patched(S, o) == CASE o.op = "add" -> S \cup {o.value} [] o.op = "remove" -> {} [] OTHER -> {o.value}

\* _apply_patch_add, _apply_patch_remove, _apply_patch_replace
Apply(user, o) ==
  CASE o.path = "active" /\ o.op = "replace" -> [user EXCEPT !.active = o.value]
    [] o.path = "roles"  -> [user EXCEPT !.roles = Patched(@, o)]
    [] o.path = "groups" -> [user EXCEPT !.groups = Patched(@, o)]
    [] OTHER -> user

\* patch_user with the operations o1 and o2.  One that names another field, or
\* none, ends the request with 404 or 500; what was applied before it stays,
\* unsaved.
PatchScimUser(u, o1, o2) ==
  /\ CountRequest /\ scimUsers[u] # NoScimUser /\ UNCHANGED scimGroups
  /\ LET once == IF o1.path = "other" THEN scimUsers[u] ELSE Apply(scimUsers[u], o1)
     IN  PutUser(u, IF "other" \in {o1.path, o2.path} THEN once ELSE Apply(once, o2))
  /\ IF "other" \in {o1.path, o2.path}
     THEN answer' \in {"404", "500"} /\ UNCHANGED <<scimFile, scimFailures>>
     ELSE Save
  /\ Promise(u)

\* Mutant of DeleteScimUser: the file is written at the next change only.
DeleteScimUser_Unsaved(u) ==
  /\ CountRequest /\ scimUsers[u] # NoScimUser
  /\ PutUser(u, [scimUsers[u] EXCEPT !.active = "no"])
  /\ answer' = "ok" /\ UNCHANGED <<scimGroups, scimFile, scimFailures>> /\ Promise(u)
\* delete_user deactivates.
DeleteScimUser(u) ==
  /\ CountRequest /\ scimUsers[u] # NoScimUser
  /\ PutUser(u, [scimUsers[u] EXCEPT !.active = "no"])
  /\ UNCHANGED scimGroups /\ Save /\ Promise(u)

\* create_group, update_group; the second takes any values.
PutGroup(g, members) == /\ CountRequest /\ (members = OddGroup => scimGroups[g] # NoMembers)
                        /\ scimGroups' = [scimGroups EXCEPT ![g] = members]
                        /\ UNCHANGED <<scimUsers, promised>> /\ Save

DeleteGroup(g) == /\ CountRequest /\ scimGroups[g] # NoMembers
                  /\ scimGroups' = [scimGroups EXCEPT ![g] = NoMembers]
                  /\ UNCHANGED <<scimUsers, promised>> /\ Save

\* What the routes answer when the provider finds the request wrong, and
\* nothing is changed: a name is missing, a value is odd in a new user, the
\* user or group is not there, or the body is no object.
UserRoutes == [create |-> "400", update |-> "404", patch |-> "404", delete |-> "404"]
GroupRoutes == [create |-> "400", update |-> "404", delete |-> "404"]

RefuseScim == /\ CountRequest
              /\ \/ \E r \in DOMAIN UserRoutes : answer' = UserRoutes[r]
                 \/ \E r \in DOMAIN GroupRoutes : answer' = GroupRoutes[r]
                 \/ answer' = "500"
              /\ UNCHANGED <<scimUsers, scimGroups, scimFile, promised, scimFailures>>

\* What load makes of the users of a file: it leaves out what is not valid.
Readable(us) == [u \in ScimIds |-> IF us[u] # NoScimUser /\ Valid(us[u]) THEN us[u] ELSE NoScimUser]

\* The process starts again: load.
RestartScim ==
  /\ CountRequest
  /\ IF scimFile = CutShort
     THEN answer' = "down" /\ UNCHANGED <<scimUsers, scimGroups>>
     ELSE /\ answer' = "none" /\ scimUsers' = Readable(scimFile.users)
          /\ scimGroups' = [g \in GroupIds |-> IF scimFile.groups[g] = OddGroup THEN NoMembers
                                               ELSE scimFile.groups[g]]
  /\ promised' = [u \in ScimIds |-> IF promised[u] = Unclear /\ scimUsers'[u] # NoScimUser /\ answer' # "down"
                                    THEN scimUsers'[u] ELSE promised[u]]
  /\ UNCHANGED <<scimFile, scimFailures>>

ScimNext ==
  \/ \E u \in ScimIds : \/ \E user \in ScimBodies : CreateScimUser(u, user) \/ UpdateScimUser(u, user)
                        \/ \E o1, o2 \in Operations : PatchScimUser(u, o1, o2)
                        \/ DeleteScimUser(u)
  \/ \E g \in GroupIds : (\E ms \in (SUBSET ScimIds) \cup {OddGroup} : PutGroup(g, ms)) \/ DeleteGroup(g)
  \/ RefuseScim \/ RestartScim

ScimSpec == ScimInit /\ [][ScimNext]_scimVars
-----------------------------------------------------------------------------
\* What a request about a user was answered with success for is what is known
\* of that user, across restarts, the failed requests of others and their saves
\* that fail before they write, unless a later request about the same user
\* failed or a PUT or PATCH gave it a value that cannot be read back: such a
\* user is left out of the next start, although the request was answered with
\* 200.  A save that stops short is the end: the file cannot be read, no
\* provider is made of it ("down"), and nothing is claimed.
AnsweredSurvives == answer # "down" => \A u \in ScimIds : promised[u] \in {Unclear, scimUsers[u]}
=============================================================================
