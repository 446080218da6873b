------------------------------- MODULE Settings -------------------------------
(***************************************************************************)
(* The live configuration as api/admin_routes.py changes it, with          *)
(* load_config and validate_config of config/__init__.py, the file         *)
(* .agent.json, the stores of keys of config/llm_key_store.py, and the     *)
(* login providers of auth/auth_routes.py, which have a file of their own. *)
(*                                                                         *)
(* Of the configuration are kept the vendors of language models, the       *)
(* sections whose values are out of range, the project's directory, which  *)
(* says where the keys are, and the sections load_config does not read.    *)
(* Routing and logging, which nothing here depends on, are left out, and   *)
(* so is what is read by requests that change nothing.                     *)
(***************************************************************************)
EXTENDS Integers

CONSTANTS Vendors, CloudVendors,   \* those with a client; those that need a key
          Places,                  \* directories and paths for a store of keys
          DefaultPlace,
          VendorLists,             \* what is sent as a list of vendors
          Logins,                  \* login providers
          MaxSettings, MaxLoginFailures   \* bounds: requests; saves of logins that fail

VARIABLES conf,         \* config_holder["config"]
          configFile,   \* what load_config makes of .agent.json
          environment,  \* the variables AGENT_CONFIG_FILE and AGENT_ADMIN_DB_PATH
          keyRows,      \* [Places -> the vendors with a key there]
          wish,        \* history: what was last asked of a vendor
          loginProviders, loginFile,   \* _oauth_providers and its file
          withdrawnLogins,     \* history: those removed, and saved so
          settings, starts, loginFailures

settingsVars == <<conf, configFile, environment, keyRows, wish, loginProviders, loginFile, withdrawnLogins,
                  settings, starts, loginFailures>>
fileVars == <<configFile, environment, keyRows>>
providerLoginVars == <<loginProviders, loginFile, withdrawnLogins, loginFailures>>

Vendor == [enabled : BOOLEAN, keyed : BOOLEAN, models : BOOLEAN]
\* the sections whose values validate_config checks
Sections == {"cost", "safety", "quality"}
UnlistedVendor == [enabled |-> FALSE, keyed |-> FALSE, models |-> FALSE, listed |-> FALSE]

ASSUME SettingsAssumption == /\ CloudVendors \subseteq Vendors /\ DefaultPlace \in Places
                             /\ VendorLists \subseteq [Vendors -> Vendor \cup {UnlistedVendor}]

DefaultVendor == [enabled |-> FALSE, keyed |-> FALSE, models |-> TRUE]
Defaults == [vendors |-> [v \in Vendors |-> DefaultVendor], wrong |-> {}, place |-> DefaultPlace, unread |-> "default"]
NoEnvironment == [config |-> ".agent.json", db |-> "unset"]

\* resolve_admin_db_path
StoreOf(place, db) == IF db = "unset" THEN place ELSE db

\* A vendor as it is when the keys K are read; a key turns on one that needs it.
Keyed(v, vendor, K) == [vendor EXCEPT !.keyed = v \in K, !.enabled = @ \/ v \in K \cap CloudVendors]

\* load_config of the content f, with the path of the store in the environment:
\* a vendor that is not listed comes back as the defaults have it.
LoadFile(f, db) ==
  [f EXCEPT !.unread = "default",
            !.vendors = [v \in Vendors |-> Keyed(v, IF f.vendors[v] = UnlistedVendor THEN DefaultVendor ELSE f.vendors[v],
                                                 keyRows[StoreOf(f.place, db)])]]

\* Mutant of Validated: a vendor without a key stays on.
Validated_Keyless(c) == c
\* validate_config turns off vendors that lack a key ...
Validated(c) ==
  [c EXCEPT !.vendors = [v \in Vendors |-> IF v \in CloudVendors /\ ~c.vendors[v].keyed /\ c.vendors[v] # UnlistedVendor
                                           THEN [c.vendors[v] EXCEPT !.enabled = FALSE] ELSE c.vendors[v]]]
\* ... and finds fault with the rest.
Faulty(c) == \/ c.wrong # {}
             \/ \E v \in Vendors : Validated(c).vendors[v].enabled /\ ~c.vendors[v].models

StoreFile == StoreOf(conf.place, environment.db)

\* _sync_provider_keys_from_store
Synced == [conf EXCEPT !.vendors = [v \in Vendors |-> IF conf.vendors[v] = UnlistedVendor THEN UnlistedVendor
                                                      ELSE Keyed(v, conf.vendors[v], keyRows[StoreFile])]]

\* _persist_config_non_secret writes to .agent.json, whatever load_config reads.
SavedContent(c) == [c EXCEPT !.vendors = [v \in Vendors |-> IF c.vendors[v] = UnlistedVendor THEN UnlistedVendor
                                                       ELSE [c.vendors[v] EXCEPT !.keyed = FALSE]]]
Persist(c) == configFile' = SavedContent(c) /\ UNCHANGED <<environment, keyRows>>

\* A vendor whose key was cleared counts as asked for again when a key of it
\* is found.
Noted(c, h) == [v \in Vendors |-> IF h[v] = "cleared" /\ c.vendors[v].keyed THEN "-" ELSE h[v]]
Become(c, h) == conf' = c /\ wish' = Noted(c, h)

SettingsRequest == settings < MaxSettings /\ settings' = settings + 1 /\ UNCHANGED <<starts, providerLoginVars>>

SettingsInit == /\ conf = Defaults /\ configFile = Defaults /\ environment = NoEnvironment
                /\ keyRows = [p \in Places |-> {}] /\ wish = [v \in Vendors |-> "-"]
                /\ loginProviders = {} /\ loginFile = {} /\ withdrawnLogins = {}
                /\ settings = 0 /\ starts = 0 /\ loginFailures = 0

LookUp == SettingsRequest /\ Become(Synced, wish) /\ UNCHANGED fileVars
GetConfig == LookUp
GetLlmConfig == LookUp
KeyStatus == LookUp
KeysSummary == LookUp
\* validate_provider_api_key tries the key it has read and keeps nothing of the answer.
ValidateKey == LookUp

On(list, h) == [v \in Vendors |-> IF list[v].enabled THEN "on" ELSE h[v]]

\* update_config: a faulty body is refused before it is taken over, and
\* nothing is saved.
PutConfig(list) ==
  LET body == [conf EXCEPT !.vendors = list, !.wrong = {}]
  IN /\ SettingsRequest /\ ~Faulty(body)
     /\ Become(Validated(body), On(list, wish)) /\ UNCHANGED fileVars

\* update_llm_providers: assigned before it is validated, and not saved
PutProviders(list) == /\ SettingsRequest
                      /\ Become(Validated([conf EXCEPT !.vendors = list]), On(list, wish))
                      /\ UNCHANGED fileVars

\* toggle_provider.  When the result is faulty the flag is turned over again,
\* also where validate_config had turned it back already.
Toggle(v) ==
  LET turned == [Synced EXCEPT !.vendors[v].enabled = ~@]
      after == Validated(turned)
      restored == [after EXCEPT !.vendors[v].enabled = ~@]
      end == IF Faulty(turned) THEN restored ELSE after
  IN /\ SettingsRequest /\ conf.vendors[v] # UnlistedVendor
     /\ Become(end, [wish EXCEPT ![v] = IF end.vendors[v].enabled THEN "on" ELSE IF @ = "cleared" THEN @ ELSE "off"])
     /\ IF Faulty(turned) THEN UNCHANGED fileVars ELSE Persist(after)

\* A section is assigned before it is validated: a value that is refused stays
\* in force, unsaved.
PutSection(s, inRange) ==
  LET c == [conf EXCEPT !.wrong = IF inRange THEN @ \ {s} ELSE @ \cup {s}]
  IN /\ SettingsRequest /\ Become(Validated(c), wish)
     /\ IF Faulty(c) THEN UNCHANGED fileVars ELSE Persist(Validated(c))

UpdateLlmCost(inRange) == PutSection("cost", inRange)
UpdateSafetyConfig(inRange) == PutSection("safety", inRange)
UpdateQualityConfig(inRange) == PutSection("quality", inRange)

\* The other sections are not validated.
Put(c) == SettingsRequest /\ Become(c, wish) /\ Persist(c)
UpdateProjectConfig(place) == Put([conf EXCEPT !.place = place])
UpdateLlmRouting == Put(conf)
UpdateObservability == Put(conf)
UpdateGraphify == Put([conf EXCEPT !.unread = "changed"])
UpdateTools == SettingsRequest /\ Become([conf EXCEPT !.unread = "changed"], wish) /\ UNCHANGED fileVars

\* update_server_config: the environment is changed at once, and saved nowhere.
PutServer(config, db) == /\ SettingsRequest /\ Become(conf, wish)
                         /\ environment' = [config |-> config, db |-> db]
                         /\ configFile' = SavedContent(conf) /\ UNCHANGED keyRows

SetKey(v) ==
  /\ SettingsRequest /\ v \in CloudVendors /\ conf.vendors[v] # UnlistedVendor
  /\ keyRows' = [keyRows EXCEPT ![StoreFile] = @ \cup {v}]
  /\ Become([conf EXCEPT !.vendors[v].keyed = TRUE, !.vendors[v].enabled = TRUE], [wish EXCEPT ![v] = "on"])
  /\ UNCHANGED <<configFile, environment>>

ClearKey(v) ==
  /\ SettingsRequest /\ conf.vendors[v] # UnlistedVendor
  /\ keyRows' = [keyRows EXCEPT ![StoreFile] = @ \ {v}]
  /\ Become([Synced EXCEPT !.vendors[v].keyed = FALSE, !.vendors[v].enabled = FALSE], [wish EXCEPT ![v] = "cleared"])
  /\ UNCHANGED <<configFile, environment>>

\* set_default_llm turns the vendor on before it looks for the model.
SetDefault(v, known) ==
  LET c == [conf EXCEPT !.vendors[v].enabled = TRUE]
  IN /\ SettingsRequest /\ conf.vendors[v] # UnlistedVendor
     /\ Become(c, [wish EXCEPT ![v] = "on"])
     /\ IF known THEN Persist(c) ELSE UNCHANGED fileVars

SaveConfig == Put(conf)

\* reload_config; a file that is not there is read as empty.
Reload == LET c == LoadFile(IF environment.config = ".agent.json" THEN configFile ELSE Defaults, environment.db)
          IN /\ SettingsRequest /\ UNCHANGED fileVars
             /\ Become(IF Faulty(c) THEN conf ELSE Validated(c), wish)

\* create_uvicorn_app of a new process, in the environment the first had,
\* after a kill that may have torn a file being saved, which then reads as
\* empty.  What is faulty is only logged.
RestartSettings ==
  /\ settings < MaxSettings /\ settings' = settings + 1 /\ starts' = starts + 1
  /\ configFile' \in {configFile, Defaults} /\ environment' = NoEnvironment /\ UNCHANGED keyRows
  /\ Become(Validated(LoadFile(configFile', "unset")), wish)
  /\ loginProviders' = {} /\ UNCHANGED <<loginFile, withdrawnLogins, loginFailures>>

\* A request about the login providers of auth_routes.
LoginRequest == settings < MaxSettings /\ settings' = settings + 1 /\ UNCHANGED <<starts, conf, wish, fileVars>>

\* _save_oauth_configs: a failure is logged and nothing more.
SaveLogins == \/ loginFile' = loginProviders' /\ UNCHANGED loginFailures
              \/ /\ loginFailures < MaxLoginFailures /\ loginFailures' = loginFailures + 1
                 /\ loginFile' \in {loginFile, {}}

\* _get_oauth_providers reads the file whenever none is known.
LookUpLogins == /\ LoginRequest /\ loginProviders = {} /\ loginProviders' = loginFile
                /\ UNCHANGED <<loginFile, withdrawnLogins, loginFailures>>

\* admin_set_oauth_provider, which does not read the file first
SetLogin(p) == /\ LoginRequest /\ loginProviders' = loginProviders \cup {p} /\ SaveLogins
               /\ withdrawnLogins' = withdrawnLogins \ {p}

RemoveLogin(p) == /\ LoginRequest /\ p \in loginProviders /\ loginProviders' = loginProviders \ {p} /\ SaveLogins
                  /\ withdrawnLogins' = IF loginFile' = loginProviders' THEN withdrawnLogins \cup {p} ELSE withdrawnLogins

SettingsNext ==
  \/ GetConfig \/ GetLlmConfig \/ KeyStatus \/ KeysSummary \/ ValidateKey
  \/ UpdateLlmRouting \/ UpdateObservability \/ UpdateGraphify \/ UpdateTools
  \/ SaveConfig \/ Reload \/ RestartSettings \/ LookUpLogins
  \/ \E list \in VendorLists : PutProviders(list) \/ PutConfig(list)
  \/ \E v \in Vendors : Toggle(v) \/ SetKey(v) \/ ClearKey(v) \/ \E known \in BOOLEAN : SetDefault(v, known)
  \/ \E inRange \in BOOLEAN : UpdateLlmCost(inRange) \/ UpdateSafetyConfig(inRange) \/ UpdateQualityConfig(inRange)
  \/ \E p \in Places : \/ UpdateProjectConfig(p)
                       \/ \E config \in {".agent.json", "elsewhere"}, db \in {p, "unset"} : PutServer(config, db)
  \/ \E p \in Logins : SetLogin(p) \/ RemoveLogin(p)

SettingsSpec == SettingsInit /\ [][SettingsNext]_settingsVars
-----------------------------------------------------------------------------
\* What was withdrawn stays out until it is asked for: a vendor whose key
\* was cleared is not turned on by a file that says it is on, by a store read
\* anew or by a request about something else, unless a key of it turns up;
\* and a login provider that was removed does not come back from its file.
WithdrawnStaysOut == /\ \A v \in CloudVendors : wish[v] = "cleared" => ~conf.vendors[v].enabled
                     /\ loginProviders \cap withdrawnLogins = {}

\* "Persist immediately so provider enable/disable survives restart": a vendor
\* that was turned off, and is, is off in the next process.
DisabledSurvives ==
  [][ starts' # starts => \A v \in Vendors : wish[v] = "off" /\ ~conf.vendors[v].enabled => ~conf'.vendors[v].enabled ]_settingsVars
=============================================================================
