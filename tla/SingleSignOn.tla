----------------------------- MODULE SingleSignOn -----------------------------
(***************************************************************************)
(* auth/sso_provider.py and auth/middleware.py: sessions opened by SAML    *)
(* responses and OpenID Connect callbacks, keys, and the decision about a  *)
(* request that carries any of them.                                       *)
(*                                                                         *)
(* A session is of the subject the identity provider names, and is looked  *)
(* up among the users of SCIM by that name.                                *)
(***************************************************************************)
EXTENDS Integers

CONSTANTS Subjects,       \* who an identity provider may name
          ScimUserIds,    \* ids of the users SCIM may hold
          OidcStates, ApiKeys,
          MaxSsoSessions  \* bound

ASSUME SsoAssumption == MaxSsoSessions \in Nat

VARIABLES verifiers,      \* _pkce_verifiers: [OidcStates -> "unissued", "kept" or "spent"]
          aged,           \* the states issued more than ten minutes ago
          ssoSessions,    \* _sessions: [1..MaxSsoSessions -> SsoSession or NoSsoSession]
          opened,         \* number of sessions opened
          apiKeys,        \* _api_keys: [ApiKeys -> user id or NoKeyUser]
          scimKnown,      \* the users SCIM holds; it never removes one
          decision,       \* the last AuthDecision: the credential it went by, and for whom
          led             \* history: [OidcStates -> the sessions ever opened by way of it]

ssoVars == <<verifiers, aged, ssoSessions, opened, apiKeys, scimKnown, decision, led>>
oidcVars == <<verifiers, aged, led>>

SsoSession == [user : Subjects, expired : BOOLEAN]
NoSsoSession == [user |-> "none"]
NoKeyUser == "none"
\* What a request may carry in its cookie or as a bearer token, and as a key; 0 and "" for none.
Tokens == 0..MaxSsoSessions
Keys == ApiKeys \cup {""}
Denied == [by |-> "nothing", user |-> "none"]

SsoInit == /\ verifiers = [s \in OidcStates |-> "unissued"] /\ aged = {} /\ opened = 0
           /\ led = [s \in OidcStates |-> 0]
           /\ ssoSessions = [i \in 1..MaxSsoSessions |-> NoSsoSession]
           /\ apiKeys = [k \in ApiKeys |-> NoKeyUser] /\ scimKnown = {} /\ decision = Denied

\* _create_session
Open(u) == /\ opened < MaxSsoSessions /\ opened' = opened + 1
           /\ ssoSessions' = [ssoSessions EXCEPT ![opened + 1] = [user |-> u, expired |-> FALSE]]

\* handle_saml_response: one without a NameID, or that is no XML, opens nothing.
SamlResponse(u) == Open(u) /\ UNCHANGED <<oidcVars, apiKeys, scimKnown, decision>>

InitiateOidc(s) == /\ verifiers[s] = "unissued" /\ verifiers' = [verifiers EXCEPT ![s] = "kept"]
                   /\ UNCHANGED <<aged, led, ssoSessions, opened, apiKeys, scimKnown, decision>>

TenMinutes(s) == /\ verifiers[s] # "unissued" /\ aged' = aged \cup {s}
                 /\ UNCHANGED <<verifiers, led, ssoSessions, opened, apiKeys, scimKnown, decision>>

\* Mutant of Redeem: a verifier is kept when the exchange fails, and when it does not.
Redeem_Kept(s) == UNCHANGED verifiers
Redeem(s) == verifiers' = [verifiers EXCEPT ![s] = "spent"]

\* handle_oidc_callback: the verifier is gone before its age is looked at and
\* before the code is exchanged, which may fail.
OidcCallback(s, u) ==
  /\ verifiers[s] = "kept" /\ Redeem(s)
  /\ \/ s \notin aged /\ Open(u) /\ led' = [led EXCEPT ![s] = @ + 1]
     \/ UNCHANGED <<ssoSessions, opened, led>>
  /\ UNCHANGED <<aged, apiKeys, scimKnown, decision>>

EightHours(i) == /\ ssoSessions[i] # NoSsoSession /\ ssoSessions' = [ssoSessions EXCEPT ![i].expired = TRUE]
                 /\ UNCHANGED <<oidcVars, opened, apiKeys, scimKnown, decision>>

RevokeSession(i) == /\ ssoSessions[i] # NoSsoSession
                    /\ ssoSessions' = [ssoSessions EXCEPT ![i] = NoSsoSession]
                    /\ UNCHANGED <<oidcVars, opened, apiKeys, scimKnown, decision>>

RegisterKey(k, u) == /\ apiKeys' = [apiKeys EXCEPT ![k] = u]
                     /\ UNCHANGED <<oidcVars, ssoSessions, opened, scimKnown, decision>>

RevokeKey(k) == /\ apiKeys[k] # NoKeyUser /\ apiKeys' = [apiKeys EXCEPT ![k] = NoKeyUser]
                /\ UNCHANGED <<oidcVars, ssoSessions, opened, scimKnown, decision>>

Provision(u) == /\ scimKnown' = scimKnown \cup {u}
                /\ UNCHANGED <<oidcVars, ssoSessions, opened, apiKeys, decision>>

\* validate_session and _validate_api_key, then get_user
Provisioned(u) == IF u \in scimKnown THEN u ELSE "none"
OfToken(i) == IF i \in DOMAIN ssoSessions /\ ssoSessions[i] # NoSsoSession /\ ~ssoSessions[i].expired
              THEN Provisioned(ssoSessions[i].user) ELSE "none"
OfKey(k) == IF k \in ApiKeys THEN Provisioned(apiKeys[k]) ELSE "none"

\* authenticate: the cookie, then the bearer token, then the key; the first
\* that stands for a user decides, and expired sessions looked at are dropped.
Authenticate(cookie, bearer, key) ==
  /\ decision' = CASE OfToken(cookie) # "none" -> [by |-> "token", user |-> OfToken(cookie)]
                   [] OfToken(bearer) # "none" -> [by |-> "token", user |-> OfToken(bearer)]
                   [] OfKey(key) # "none"      -> [by |-> "key", user |-> OfKey(key)]
                   [] OTHER                    -> Denied
  /\ LET looked == {cookie} \cup (IF OfToken(cookie) = "none" THEN {bearer} ELSE {})
     IN ssoSessions' = [i \in DOMAIN ssoSessions |->
          IF i \in looked /\ ssoSessions[i] # NoSsoSession /\ ssoSessions[i].expired
          THEN NoSsoSession ELSE ssoSessions[i]]
  /\ UNCHANGED <<oidcVars, opened, apiKeys, scimKnown>>

SsoNext ==
  \/ \E u \in Subjects : SamlResponse(u) \/ \E s \in OidcStates : OidcCallback(s, u)
  \/ \E s \in OidcStates : InitiateOidc(s) \/ TenMinutes(s)
  \/ \E i \in 1..MaxSsoSessions : EightHours(i) \/ RevokeSession(i)
  \/ \E k \in ApiKeys : RevokeKey(k) \/ \E u \in ScimUserIds : RegisterKey(k, u)
  \/ \E u \in ScimUserIds : Provision(u)
  \/ \E cookie, bearer \in Tokens, key \in Keys : Authenticate(cookie, bearer, key)

SsoSpec == SsoInit /\ [][SsoNext]_ssoVars
-----------------------------------------------------------------------------
\* A login that was begun opens one session in all, and only while ten minutes
\* have not passed, whether the exchange of its code succeeds, fails or is
\* asked for again, and whatever became of the session meanwhile.
OneLoginOneSession ==
  [][\A s \in OidcStates : led'[s] # led[s] => led[s] = 0 /\ s \notin aged]_ssoVars
=============================================================================
