---------------------------- MODULE PluginSettings ----------------------------
(***************************************************************************)
(* The settings of a plugin for an agent: a document in Redis.  Requests   *)
(* save some of its values, or reset all of them; every request to the     *)
(* agent migrates it to the settings of the plugin's installed version.    *)
(* All of them read the document, change it and store it.                  *)
(***************************************************************************)
EXTENDS Naturals, FiniteSets

CONSTANTS NoValue,
          Default,     \* the default value of every setting
          SettingKeys,
          Values,
          Versions,    \* versions of the plugin
          KeysOf,      \* the settings a version has
          Refused,     \* the values a version does not accept any more
          Required,    \* versions that have a setting without a default
          Chores,      \* requests under way at a time
          MaxChores    \* bound: requests and upgrades

ASSUME SettingsAssumption ==
    /\ KeysOf \in [Versions -> SUBSET SettingKeys] /\ Refused \in [Versions -> SUBSET Values]
    /\ Required \subseteq Versions /\ NoValue \notin Values /\ Default \notin Values
    \* A request then saves the whole document, as the route asks of it.
    /\ \A v \in Required : Cardinality(KeysOf[v]) = 1

VARIABLES
    prefs,    \* the stored document
    version,  \* the installed version
    chore,    \* per request: what it does, and the document it has read
    wish,     \* history: the values saved last, of settings supported ever since
    muddled,  \* history: two requests were under way at once
    chores    \* requests and upgrades so far

psVars == <<prefs, version, chore, wish, muddled, chores>>

\* No document, an empty one and a null are the same to every reader.
Blank == [k \in SettingKeys |-> NoValue]
Rest == [op |-> "none", read |-> Blank, key |-> NoValue, value |-> NoValue]
Resting == \A t \in Chores : chore[t] = Rest
Counted == chores < MaxChores /\ chores' = chores + 1

\* The defaults cannot be had from a model with a required setting.
Defaults(v) ==
    [k \in SettingKeys |-> IF k \in KeysOf[v] /\ v \notin Required THEN Default ELSE NoValue]

Takes(t, c) ==
    /\ chore[t] = Rest /\ Counted
    /\ chore' = [chore EXCEPT ![t] = c]
    /\ muddled' = (muddled \/ ~Resting)
    /\ UNCHANGED <<prefs, version, wish>>

-----------------------------------------------------------------------------
\* A request to the agent: activate_settings reads the document.
Visit(t) == Takes(t, [Rest EXCEPT !.op = "migrate", !.read = prefs])

\* The route has validated the value.
Save(t, k, x) ==
    /\ k \in KeysOf[version] /\ x \notin Refused[version]
    /\ Takes(t, [op |-> "save", read |-> prefs, key |-> k, value |-> x])

\* The factory settings are those of the system agent.
Reset(t) ==
    /\ version \notin Required
    /\ Takes(t, [Rest EXCEPT !.op = "reset", !.read = Defaults(version)])

Supported(doc, v) ==
    [k \in SettingKeys |-> IF k \notin KeysOf[v] THEN NoValue
                           ELSE IF doc[k] # NoValue THEN doc[k] ELSE Default]
Valid(doc, v) == \A k \in SettingKeys : doc[k] \notin Refused[v]

\* Mutant of Migrated: the defaults win.
MigratedAfresh(doc, v) == Defaults(v)

\* The values of settings that the version still has are kept when it accepts
\* them; where the defaults cannot be had, the error leaves a null.
Migrated(doc, v) ==
    IF v \notin Required /\ doc # Blank /\ Valid(Supported(doc, v), v)
    THEN Supported(doc, v) ELSE Defaults(v)

Migrate(t) ==
    /\ chore[t].op = "migrate"
    /\ prefs' = IF Migrated(chore[t].read, version) = chore[t].read THEN prefs
                ELSE Migrated(chore[t].read, version)
    /\ wish' = [k \in SettingKeys |->
                  IF k \in KeysOf[version] /\ Valid(Supported(chore[t].read, version), version)
                  THEN wish[k] ELSE NoValue]
    /\ chore' = [chore EXCEPT ![t] = Rest]
    /\ UNCHANGED <<version, muddled, chores>>

\* update_setting, called atomic: the values are merged into what was read.
StoreSaved(t) ==
    /\ chore[t].op = "save"
    /\ LET c == chore[t] IN
       /\ prefs' = [c.read EXCEPT ![c.key] = c.value]
       /\ wish' = [wish EXCEPT ![c.key] = c.value]
    /\ chore' = [chore EXCEPT ![t] = Rest]
    /\ UNCHANGED <<version, muddled, chores>>

StoreReset(t) ==
    /\ chore[t].op = "reset"
    /\ prefs' = chore[t].read
    /\ wish' = Blank
    /\ chore' = [chore EXCEPT ![t] = Rest]
    /\ UNCHANGED <<version, muddled, chores>>

\* deactivate_settings, at a toggle or when the plugin or the agent goes.
DeactivateSettings ==
    /\ prefs # Blank /\ Counted
    /\ prefs' = Blank /\ wish' = Blank
    /\ muddled' = (muddled \/ ~Resting)
    /\ UNCHANGED <<version, chore>>

Upgrade(v) ==
    /\ v # version /\ Counted
    /\ version' = v
    /\ muddled' = (muddled \/ ~Resting)
    /\ UNCHANGED <<prefs, chore, wish>>

ChoreDies(t) ==
    /\ chore[t] # Rest
    /\ chore' = [chore EXCEPT ![t] = Rest]
    /\ UNCHANGED <<prefs, version, wish, muddled, chores>>

-----------------------------------------------------------------------------
psInit ==
    /\ version \in Versions
    /\ prefs = Defaults(version)
    /\ chore = [t \in Chores |-> Rest]
    /\ wish = Blank
    /\ muddled = FALSE
    /\ chores = 0

psNext ==
    \/ \E t \in Chores :
         \/ Visit(t) \/ Reset(t) \/ Migrate(t) \/ StoreSaved(t) \/ StoreReset(t) \/ ChoreDies(t)
         \/ \E k \in SettingKeys, x \in Values : Save(t, k, x)
    \/ \E v \in Versions : Upgrade(v)
    \/ DeactivateSettings

psSpec == psInit /\ [][psNext]_psVars

-----------------------------------------------------------------------------
(* Properties. *)

\* load_settings: the document, or the defaults.
Loaded == IF prefs = Blank THEN Defaults(version) ELSE prefs

\* As long as requests come one after the other, a value that was saved is the
\* one the plugin loads, through upgrades to versions that still have its setting
\* and accept the values.
SavedKept ==
    ~muddled /\ Resting => \A k \in SettingKeys : wish[k] # NoValue => Loaded[k] = wish[k]
=============================================================================
