------------------------------ MODULE MCServices ------------------------------
(* What answers requests: the router to the language models, the accounts   *)
(* and their sessions, single sign-on, the provisioning of users, the       *)
(* settings, the story routes with the operations console, and the commands *)
(* that are run for them.  They share no state, so a behaviour exercises    *)
(* one of them and leaves the others as they start.                         *)
EXTENDS MCModelRouter, Accounts, SingleSignOn, Scim, Settings, StoryApi, Commands

VARIABLE part

vars == <<part, routerVars, accountVars, ssoVars, scimVars, settingsVars, apiVars, commandVars>>

\* What is sent as a list of vendors: all of them, with and without keys and
\* models, or one of them, the others being left out.
V(on, key, models) == [enabled |-> on, keyed |-> key, models |-> models]
MCLists == {[v \in Vendors |-> x] : x \in {V(TRUE, FALSE, TRUE), V(TRUE, TRUE, FALSE)}}
           \cup {[v \in Vendors |-> IF v = "ollama" THEN UnlistedVendor ELSE V(TRUE, TRUE, TRUE)],
                 [v \in Vendors |-> IF v = "ollama" THEN V(TRUE, FALSE, FALSE) ELSE UnlistedVendor]}

\* A user, two with a value that is no name and no truth value.
MCBodies == LET user == [name |-> "n", active |-> "yes", roles |-> {}, groups |-> {}]
            IN {user, [user EXCEPT !.name = Odd], [user EXCEPT !.active = Odd]}

Init == /\ part \in {"router", "accounts", "logins", "sso", "scim", "settings",
                      "api", "commands"}
        /\ RouterInit /\ AccountInit /\ SsoInit /\ ScimInit /\ SettingsInit /\ ApiInit /\ CommandInit

\* The accounts are taken with two requests of administrators under way, and
\* with one of them and logins by a provider, while there were two of them
\* ever; a third, the one made again after a deletion, a torn file or a second
\* start, is met by one request less.
Waiting == {r \in Requests : asked[r] # NoRequest}

AtMost(n) == Cardinality(Waiting') <= (IF userCount' <= 2 THEN n ELSE n - 1)

\* Requests under way differ in what was asked only, and so do callbacks.
MCSymmetry == Permutations(Requests) \cup Permutations(Callbacks)

\* Every part but p keeps its state.
Only(p) == /\ part = p /\ UNCHANGED part
           /\ p # "router" => UNCHANGED routerVars
           /\ p \notin {"accounts", "logins"} => UNCHANGED accountVars
           /\ p # "sso" => UNCHANGED ssoVars
           /\ p # "scim" => UNCHANGED scimVars
           /\ p # "settings" => UNCHANGED settingsVars
           /\ p # "api" => UNCHANGED apiVars
           /\ p # "commands" => UNCHANGED commandVars

Next == \/ Only("router") /\ RouterNext
        \/ Only("accounts") /\ AccountNext /\ AtMost(2) /\ UNCHANGED loginVars
        \/ Only("logins") /\ AccountNext /\ AtMost(1)
        \/ Only("sso") /\ SsoNext
        \/ Only("scim") /\ ScimNext
        \/ Only("settings") /\ SettingsNext
        \/ Only("api") /\ ApiNext
        \/ Only("commands") /\ CommandNext

Spec == Init /\ [][Next]_vars
=============================================================================
