------------------------- MODULE PluginReplication -------------------------
(***************************************************************************)
(* Plugins on several pods: the plugin folder and the lists of active      *)
(* plugins (the system's and each agent's, in Redis) are shared, what is   *)
(* loaded and hooked is kept by each pod's MadHatter, and MarchHare tells  *)
(* the other pods of installations and uninstallations.                    *)
(*                                                                         *)
(* A pod serves several tasks on one event loop: requests, background      *)
(* installations, event handlers.  An action goes from one await to the    *)
(* next.  An agent's own MadHatter is made for each request and filled     *)
(* from Redis; making it stores the list it has read.                      *)
(*                                                                         *)
(* Only plugins that can be toggled are modelled: the core plugins are     *)
(* always there.  Dependencies between plugins, and plugins that fail to   *)
(* be activated, are left out.                                             *)
(***************************************************************************)
EXTENDS MarchHare, SequencesExt

CONSTANTS
  Agents,
  Installed,     \* the plugins installed and active before the first pod boots
  Slots,         \* Slots: how many tasks a pod works on at once
  Requests,      \* which requests users make
  Reinstalls,    \* may a plugin that is there be installed again?
  MaxRequests,   \* bound on their number
  MaxCrashes     \* bound on the ends of pods

ASSUME InstalledArePlugins == Installed \subseteq Plugins /\ IsFiniteSet(Plugins)

ASSUME NoneIsNoAgent == None \notin Agents \cup Plugins

ASSUME ReplicationBounds == MaxRequests \in Nat /\ MaxCrashes \in Nat /\ Reinstalls \in BOOLEAN

VARIABLES
  folder,    \* the plugins in the plugin folder, which the pods share
  listed,    \* the setting active_plugins of the system
  enabled,   \* enabled[a]: the setting active_plugins of agent a
  stage,     \* stage[p]: down, booting or serving
  active,    \* active[p]: active_plugins of the system's MadHatter, a list
  loaded,    \* loaded[p]: the keys of its dictionary of plugins
  hooks,     \* hooks[p]: the plugins whose hooks and procedures it has cached
  task,      \* task[p][k]: what slot k of pod p works on
  requests, crashes

shared == <<folder, listed, enabled>>
local == <<stage, active, loaded, hooks>>
vars == <<hareVars, shared, local, task, requests, crashes>>

Ops == {"none", "boot", "install", "installed", "uninstall", "uninstalled", "toggle",
        "agent", "visit"}

Pcs == {"idle", "load", "activate", "deactivate", "store", "refresh", "list", "agents",
        "discover", "rewrite", "resave", "notify"}

Task ==
  [op     : Ops,
   pc     : Pcs,
   plugin : Plugins \cup {None},
   agent  : Agents \cup {None},     \* the agent at hand
   off    : BOOLEAN,                \* deactivating, not activating
   put    : SUBSET Plugins,         \* the list about to be stored for the system
   todo   : SUBSET Agents,
   mine   : SUBSET Plugins,         \* the list of the agent's own MadHatter
   fits   : BOOLEAN]                \* all of it was loaded when the agent was made

NoTask ==
  [op |-> "none", pc |-> "idle", plugin |-> None, agent |-> None, off |-> FALSE,
   put |-> {}, todo |-> {}, mine |-> {}, fits |-> TRUE]

-----------------------------------------------------------------------------

At(p, k, pc) == task[p][k].pc = pc

Goto(p, k, pc) == task' = [task EXCEPT ![p][k].pc = pc]

\* A task ends, with or without an error: errors are logged or sent to the user.
End(p, k) == task' = [task EXCEPT ![p][k] = NoTask]

Begin(p, k, op, pc, x, off) ==
  /\ task[p][k] = NoTask
  /\ task' = [task EXCEPT ![p][k] = [NoTask EXCEPT !.op = op, !.pc = pc, !.plugin = x,
                                                  !.off = off]]

Active(p, x) == x \in ToSet(active[p])

OnlyTask == UNCHANGED <<hareVars, shared, local, requests, crashes>>

Counted == requests < MaxRequests /\ requests' = requests + 1

Serving(p) == stage[p] = "serving"

-----------------------------------------------------------------------------
(* Activation and deactivation by the system's MadHatter. *)

\* install_plugin: the package is extracted into the folder, the plugin made and
\* put into the dictionary; then activate awaits the installation of its
\* requirements.
BeginInstall(p, k, x) ==
  /\ Serving(p) /\ "install" \in Requests /\ Counted
  /\ x \in folder => Reinstalls
  /\ Begin(p, k, "install", "activate", x, FALSE)
  /\ folder' = folder \cup {x} /\ loaded' = [loaded EXCEPT ![p] = @ \cup {x}]
  /\ UNCHANGED <<hareVars, listed, enabled, stage, active, hooks, crashes>>

\* _handle_plugin_event: install_extracted_plugin, or an error without a folder.
HandleInstallation(p, k, i) ==
  LET x == stream[i].plugin
  IN /\ Handle(p, i) /\ stream[i].kind = "installation" /\ stream[i].pod # p
     /\ task[p][k] = NoTask
     /\ IF x \in folder
        THEN /\ Begin(p, k, "installed", "activate", x, FALSE)
             /\ loaded' = [loaded EXCEPT ![p] = @ \cup {x}]
        ELSE UNCHANGED <<task, loaded>>
     /\ UNCHANGED <<shared, stage, active, hooks, requests, crashes>>

\* Events of the pod itself are ignored.
IgnoreOwn(p, i) ==
  /\ Handle(p, i) /\ stream[i].pod = p
  /\ UNCHANGED <<shared, local, task, requests, crashes>>

\* Mutant of Activate: the list to store is taken before the plugin joins it.
ActivateAfterList(p, k) ==
  /\ At(p, k, "activate")
  /\ active' = [active EXCEPT ![p] = Append(@, task[p][k].plugin)]
  /\ task' = [task EXCEPT ![p][k].pc = "store", ![p][k].put = ToSet(active[p])]
  /\ UNCHANGED <<hareVars, shared, stage, loaded, hooks, requests, crashes>>

\* activate_plugin, after _on_plugin_activation.
Activate(p, k) ==
  /\ At(p, k, "activate")
  /\ active' = [active EXCEPT ![p] = Append(@, task[p][k].plugin)]
  /\ task' = [task EXCEPT ![p][k].pc = "store", ![p][k].put = ToSet(active'[p])]
  /\ UNCHANGED <<hareVars, shared, stage, loaded, hooks, requests, crashes>>

\* Mutant of Deactivate: the plugin stays in the dictionary.
DeactivateKeepsPlugin(p, k) ==
  LET x == task[p][k].plugin
  IN /\ At(p, k, "deactivate") /\ Active(p, x)
     /\ active' = [active EXCEPT ![p] = RemoveFirst(@, x)]
     /\ task' = [task EXCEPT ![p][k].pc = "store", ![p][k].put = ToSet(active'[p])]
     /\ UNCHANGED <<hareVars, shared, stage, loaded, hooks, requests, crashes>>

\* deactivate_plugin, after the settings were deleted; list.remove raises when a
\* second deactivation came first, and that error is swallowed.
Deactivate(p, k) ==
  LET x == task[p][k].plugin
  IN /\ At(p, k, "deactivate") /\ Active(p, x)
     /\ active' = [active EXCEPT ![p] = RemoveFirst(@, x)]
     /\ loaded' = [loaded EXCEPT ![p] = @ \ {x}]
     /\ task' = [task EXCEPT ![p][k].pc = "store", ![p][k].put = ToSet(active'[p])]
     /\ UNCHANGED <<hareVars, shared, stage, hooks, requests, crashes>>

\* _on_finish_discovering_plugins: the list is stored ...
Store(p, k) ==
  /\ At(p, k, "store")
  /\ listed' = task[p][k].put
  /\ Goto(p, k, "refresh")
  /\ UNCHANGED <<hareVars, folder, enabled, local, requests, crashes>>

\* ... and the caches are rebuilt: plugin by plugin, up to the first active one
\* that is not in the dictionary (KeyError).
Complete(p) == ToSet(active[p]) \subseteq loaded[p]

Cached(p) ==
  {active[p][n] : n \in {m \in DOMAIN active[p] :
                           \A l \in 1..m : active[p][l] \in loaded[p]}}

\* Mutant of Uninstalling: the folder goes first.
UninstallingFolderFirst(p, k, x, t) ==
  IF x \in folder /\ x \in loaded[p]
  THEN /\ folder' = folder \ {x}
       /\ task' = [task EXCEPT ![p][k] =
                     [t EXCEPT !.pc = IF Active(p, x) THEN "deactivate" ELSE "notify"]]
  ELSE UNCHANGED folder /\ task' = [task EXCEPT ![p][k] = [t EXCEPT !.pc = "notify"]]

\* MadHatter.uninstall_plugin: deactivate first, remove the folder then.  Both the
\* early return and the KeyError of a plugin that is not in the dictionary lead
\* to the `finally` of the lizard's uninstall_plugin.
Uninstalling(p, k, x, t) ==
  IF x \in folder /\ x \in loaded[p]
  THEN IF Active(p, x)
       THEN UNCHANGED folder /\ task' = [task EXCEPT ![p][k] = [t EXCEPT !.pc = "deactivate"]]
       ELSE /\ folder' = folder \ {x}
            /\ task' = [task EXCEPT ![p][k] = [t EXCEPT !.pc = "notify"]]
  ELSE UNCHANGED folder /\ task' = [task EXCEPT ![p][k] = [t EXCEPT !.pc = "notify"]]

\* MadHatter.toggle_plugin of the system.
Toggling(p, k, x, t) ==
  IF x \in folder /\ ~Active(p, x)
  THEN /\ loaded' = [loaded EXCEPT ![p] = @ \cup {x}]
       /\ task' = [task EXCEPT ![p][k] = [t EXCEPT !.pc = "activate", !.off = FALSE]]
  ELSE /\ UNCHANGED loaded
       /\ IF x \in folder /\ x \in loaded[p]
          THEN task' = [task EXCEPT ![p][k] = [t EXCEPT !.pc = "deactivate"]]
          ELSE End(p, k)

\* What follows the rebuilding of the caches.
Refresh(p, k) ==
  LET t == task[p][k]
      x == t.plugin
  IN /\ At(p, k, "refresh") /\ t.op # "boot"
     /\ hooks' = [hooks EXCEPT ![p] = Cached(p)]
     /\ IF t.op \in {"uninstall", "uninstalled"}
        THEN folder' = folder \ {x} /\ Goto(p, k, "notify")
        ELSE /\ UNCHANGED folder
             /\ IF /\ t.op \in {"install", "toggle"}
                   /\ Complete(p) \/ t.off
                   /\ x \in loaded[p]
                   /\ t.op = "toggle" => Active(p, x)
                THEN task' = [task EXCEPT ![p][k].pc = "list", ![p][k].off = FALSE]
                ELSE End(p, k)
     /\ UNCHANGED <<hareVars, listed, enabled, stage, active, loaded, requests, crashes>>

\* The plugin was taken out of the list by another task while this one awaited.
DeactivateAgain(p, k) ==
  LET t == task[p][k]
  IN /\ At(p, k, "deactivate") /\ ~Active(p, t.plugin)
     /\ IF t.op = "toggle" THEN End(p, k) /\ UNCHANGED folder
        ELSE Goto(p, k, "notify") /\ folder' = folder \ {t.plugin}
     /\ UNCHANGED <<hareVars, listed, enabled, local, requests, crashes>>

-----------------------------------------------------------------------------
(* Uninstallation and toggling by BillTheLizard. *)

\* uninstall_plugin: the agents first, if the plugin is active on the system.
Uninstall(p, k, x, op) ==
  IF Active(p, x)
  THEN UNCHANGED folder /\ Begin(p, k, op, IF x \in loaded[p] THEN "list" ELSE "notify", x, TRUE)
  ELSE Uninstalling(p, k, x, [NoTask EXCEPT !.op = op, !.plugin = x, !.off = TRUE])

BeginUninstall(p, k, x) ==
  /\ Serving(p) /\ "uninstall" \in Requests /\ Counted
  /\ x \in folder /\ task[p][k] = NoTask
  /\ Uninstall(p, k, x, "uninstall")
  /\ UNCHANGED <<hareVars, listed, enabled, local, crashes>>

HandleUninstallation(p, k, i) ==
  /\ Handle(p, i) /\ stream[i].kind = "uninstallation" /\ stream[i].pod # p
  /\ task[p][k] = NoTask
  /\ Uninstall(p, k, stream[i].plugin, "uninstalled")
  /\ UNCHANGED <<listed, enabled, local, requests, crashes>>

\* Mutant of BeginToggle: the system is switched before its agents.
BeginToggleSystemFirst(p, k, x) ==
  /\ Serving(p) /\ "toggle" \in Requests /\ Counted
  /\ x \in folder /\ task[p][k] = NoTask
  /\ Toggling(p, k, x, [NoTask EXCEPT !.op = "toggle", !.plugin = x, !.off = TRUE])
  /\ UNCHANGED <<hareVars, shared, stage, active, hooks, crashes>>

\* toggle_plugin: switched off in the agents, then toggled on the system.
BeginToggle(p, k, x) ==
  /\ Serving(p) /\ "toggle" \in Requests /\ Counted
  /\ x \in folder /\ task[p][k] = NoTask
  /\ IF Active(p, x)
     THEN /\ x \in loaded[p]
          /\ UNCHANGED loaded /\ Begin(p, k, "toggle", "list", x, TRUE)
     ELSE Toggling(p, k, x, [NoTask EXCEPT !.op = "toggle", !.plugin = x])
  /\ UNCHANGED <<hareVars, shared, stage, active, hooks, crashes>>

\* on_plugin_activate, on_plugin_deactivate: the agents that list the plugin ...
ListAgents(p, k) ==
  /\ At(p, k, "list")
  /\ task' = [task EXCEPT ![p][k].todo = {a \in Agents : task[p][k].plugin \in enabled[a]},
                          ![p][k].pc = "agents"]
  /\ OnlyTask

\* ... one after the other, if they still do (_get_cheshire_cat_on_plugin_event).
NextAgent(p, k, a) ==
  /\ At(p, k, "agents") /\ a \in task[p][k].todo
  /\ task' = [task EXCEPT
       ![p][k].todo = @ \ {a}, ![p][k].agent = a,
       ![p][k].pc = IF task[p][k].plugin \in enabled[a] THEN "discover" ELSE "agents"]
  /\ OnlyTask

AgentsDone(p, k) ==
  LET t == task[p][k]
  IN /\ At(p, k, "agents") /\ t.todo = {}
     /\ \/ t.op = "install" /\ Goto(p, k, "notify") /\ UNCHANGED <<folder, loaded>>
        \/ t.op = "toggle" /\ ~t.off /\ End(p, k) /\ UNCHANGED <<folder, loaded>>
        \/ t.op = "toggle" /\ t.off /\ Toggling(p, k, t.plugin, t) /\ UNCHANGED folder
        \/ /\ t.op \in {"uninstall", "uninstalled"}
           /\ Uninstalling(p, k, t.plugin, t) /\ UNCHANGED loaded
     /\ UNCHANGED <<hareVars, listed, enabled, stage, active, hooks, requests, crashes>>

\* The notification hooks look at the dictionary first; handlers do not notify.
Notify(p, k) ==
  LET t == task[p][k]
  IN /\ At(p, k, "notify")
     /\ \/ t.op = "install" /\ t.plugin \in loaded[p] /\ Publish(p, "installation", t.plugin)
        \/ t.op = "uninstall" /\ t.plugin \notin loaded[p] /\ Publish(p, "uninstallation", t.plugin)
        \/ /\ t.op = "install" => t.plugin \notin loaded[p]
           /\ t.op = "uninstall" => t.plugin \in loaded[p]
           /\ UNCHANGED hareVars
     /\ End(p, k)
     /\ UNCHANGED <<shared, local, requests, crashes>>

-----------------------------------------------------------------------------
(* Agents: their MadHatter is made for the request, or for a plugin event. *)

BeginVisit(p, k, a) ==
  /\ Serving(p) /\ "visit" \in Requests /\ Counted /\ task[p][k] = NoTask
  /\ task' = [task EXCEPT ![p][k] = [NoTask EXCEPT !.op = "visit", !.agent = a, !.pc = "discover"]]
  /\ UNCHANGED <<hareVars, shared, local, crashes>>

BeginAgentToggle(p, k, a, x) ==
  /\ Serving(p) /\ "agent" \in Requests /\ Counted /\ task[p][k] = NoTask
  /\ task' = [task EXCEPT ![p][k] = [NoTask EXCEPT !.op = "agent", !.agent = a, !.plugin = x,
                                                   !.pc = "discover"]]
  /\ UNCHANGED <<hareVars, shared, local, crashes>>

\* discover_plugins of the agent: read its list, take what the system has loaded ...
Discover(p, k) ==
  LET mine == enabled[task[p][k].agent]
  IN /\ At(p, k, "discover")
     /\ task' = [task EXCEPT ![p][k].mine = mine, ![p][k].fits = mine \subseteq loaded[p],
                             ![p][k].pc = "rewrite"]
     /\ OnlyTask

\* ... and store the list.  A listed plugin that was not loaded is a KeyError.
\* Then the plugin is switched in the agent's own list, if that is the task.
Rewrite(p, k) ==
  LET t == task[p][k]
      x == t.plugin
      on == IF t.op = "agent" THEN x \notin t.mine ELSE ~t.off
  IN /\ At(p, k, "rewrite")
     /\ enabled' = [enabled EXCEPT ![t.agent] = t.mine]
     /\ IF t.fits /\ t.op # "visit" /\ x \in folder
        THEN task' = [task EXCEPT
               ![p][k].mine = IF on THEN @ \cup ({x} \cap loaded[p]) ELSE @ \ {x},
               ![p][k].pc = IF on \/ x \in t.mine THEN "resave" ELSE "agents"]
        ELSE IF t.op \in {"uninstall", "uninstalled"} THEN Goto(p, k, "notify") ELSE End(p, k)
     /\ UNCHANGED <<hareVars, folder, listed, local, requests, crashes>>

Resave(p, k) ==
  LET t == task[p][k]
  IN /\ At(p, k, "resave")
     /\ enabled' = [enabled EXCEPT ![t.agent] = t.mine]
     /\ IF t.op = "agent" THEN End(p, k) ELSE Goto(p, k, "agents")
     /\ UNCHANGED <<hareVars, folder, listed, local, requests, crashes>>

-----------------------------------------------------------------------------
(* Pods come and go. *)

\* bootstrap: discover_plugins reads the system's list, in any order ...
Boot(p, k) ==
  /\ stage[p] = "down" /\ stage' = [stage EXCEPT ![p] = "booting"]
  /\ \E list \in SetToSeqs(listed) : active' = [active EXCEPT ![p] = list]
  /\ Begin(p, k, "boot", "load", None, FALSE)
  /\ UNCHANGED <<hareVars, shared, loaded, hooks, requests, crashes>>

\* ... loads what is in the folder, and logs what is not ...
BootLoad(p, k) ==
  /\ At(p, k, "load")
  /\ loaded' = [loaded EXCEPT ![p] = ToSet(active[p]) \cap folder]
  /\ task' = [task EXCEPT ![p][k].put = ToSet(active[p]), ![p][k].pc = "store"]
  /\ UNCHANGED <<hareVars, shared, stage, active, hooks, requests, crashes>>

\* ... and rebuilds the caches; before_lizard_bootstrap starts the listener.
BootRefresh(p, k) ==
  /\ At(p, k, "refresh") /\ task[p][k].op = "boot" /\ Complete(p)
  /\ hooks' = [hooks EXCEPT ![p] = Cached(p)]
  /\ Listen(p) /\ End(p, k)
  /\ UNCHANGED <<shared, stage, active, loaded, requests, crashes>>

\* after_lizard_bootstrap; the server begins to serve.
Serve(p) ==
  /\ stage[p] = "booting" /\ MarkReady(p)
  /\ stage' = [stage EXCEPT ![p] = "serving"]
  /\ UNCHANGED <<shared, active, loaded, hooks, task, requests, crashes>>

Down(p) ==
  /\ stage' = [stage EXCEPT ![p] = "down"]
  /\ active' = [active EXCEPT ![p] = <<>>] /\ loaded' = [loaded EXCEPT ![p] = {}]
  /\ hooks' = [hooks EXCEPT ![p] = {}]
  /\ task' = [task EXCEPT ![p] = [k \in Slots |-> NoTask]]
  /\ Halt(p)
  /\ UNCHANGED <<shared, requests>>

\* A listed plugin that could not be loaded: bootstrap raises KeyError, the
\* process ends.
BootFail(p, k) ==
  /\ At(p, k, "refresh") /\ task[p][k].op = "boot" /\ ~Complete(p)
  /\ Down(p) /\ UNCHANGED crashes

Crash(p) ==
  /\ stage[p] # "down" /\ crashes < MaxCrashes /\ crashes' = crashes + 1
  /\ Down(p)

-----------------------------------------------------------------------------

Init ==
  /\ HareInit
  /\ folder = Installed /\ listed = Installed /\ enabled = [a \in Agents |-> {}]
  /\ stage = [p \in Pods |-> "down"] /\ active = [p \in Pods |-> <<>>]
  /\ loaded = [p \in Pods |-> {}] /\ hooks = [p \in Pods |-> {}]
  /\ task = [p \in Pods |-> [k \in Slots |-> NoTask]]
  /\ requests = 0 /\ crashes = 0

\* What a pod goes on with once it has begun.
Step(p, k) ==
  \/ Activate(p, k) \/ Deactivate(p, k) \/ DeactivateAgain(p, k)
  \/ Store(p, k) \/ Refresh(p, k) \/ Notify(p, k)
  \/ ListAgents(p, k) \/ AgentsDone(p, k) \/ \E a \in Agents : NextAgent(p, k, a)
  \/ Discover(p, k) \/ Rewrite(p, k) \/ Resave(p, k)
  \/ BootLoad(p, k) \/ BootRefresh(p, k) \/ BootFail(p, k)

Request(p, k) ==
  \/ \E x \in Plugins :
       \/ BeginInstall(p, k, x) \/ BeginUninstall(p, k, x) \/ BeginToggle(p, k, x)
       \/ \E a \in Agents : BeginAgentToggle(p, k, a, x)
  \/ \E a \in Agents : BeginVisit(p, k, a)

Listener(p) ==
  /\ Poll(p) \/ PollAgain(p) \/ Receive(p)
  /\ UNCHANGED <<shared, local, task, requests, crashes>>

Handler(p) ==
  \E i \in handlers[p] :
    \/ IgnoreOwn(p, i)
    \/ \E k \in Slots : HandleInstallation(p, k, i) \/ HandleUninstallation(p, k, i)

Next ==
  \E p \in Pods :
    \/ Listener(p) \/ Handler(p) \/ Serve(p) \/ Crash(p)
    \/ \E k \in Slots : Step(p, k) \/ Request(p, k) \/ Boot(p, k)

Spec == Init /\ [][Next]_vars

\* A task that has begun is run by the event loop, the listener polls, handler
\* tasks are scheduled, and a pod that has begun to boot goes on.
Fairness ==
  \A p \in Pods :
    /\ WF_vars(Listener(p)) /\ WF_vars(Handler(p)) /\ WF_vars(Serve(p))
    /\ \A k \in Slots : WF_vars(Step(p, k))

FairSpec == Spec /\ Fairness

-----------------------------------------------------------------------------
(* Properties. *)

\* The shapes of the variables, and the ends of the stream (MadHatter.__init__,
\* MarchHare.__init__).
TypeOK ==
  /\ HareTypeOK
  /\ folder \subseteq Plugins /\ listed \subseteq Plugins
  /\ enabled \in [Agents -> SUBSET Plugins]
  /\ stage \in [Pods -> {"down", "booting", "serving"}]
  /\ active \in [Pods -> Seq(Plugins)]
  /\ loaded \in [Pods -> SUBSET Plugins] /\ hooks \in [Pods -> SUBSET Plugins]
  /\ task \in [Pods -> [Slots -> Task]]
  /\ requests \in Nat /\ crashes \in Nat

Idle(p) == Serving(p) /\ handlers[p] = {} /\ \A k \in Slots : task[p][k] = NoTask

\* Every plugin of the system's stored list is in the folder, so that a pod can
\* boot (discover_plugins) from it at any time, whenever another one ends: an uninstallation takes
\* the plugin off the list before it removes the folder.
Bootable == listed \subseteq folder

\* Between two tasks, a pod has the hooks of its active plugins, and has loaded
\* no others, wherever earlier tasks ended (_on_finish_discovering_plugins).
CachesMatch ==
  \A p \in Pods : Idle(p) => hooks[p] = ToSet(active[p]) /\ loaded[p] = hooks[p]

\* Between two tasks, an agent's list has loaded plugins only, so that the agent
\* can be made for the next request: deactivation reaches the agents first
\* (toggle_plugin and uninstall_plugin of BillTheLizard).
AgentsLoad ==
  \A p \in Pods : Idle(p) => \A a \in Agents : enabled[a] \subseteq loaded[p]

NothingMissed(p) == ToSet(got[p]) = DOMAIN stream

\* Installations on several pods at once end, when every pod has got every event,
\* with the same plugins loaded everywhere and listed, whatever the order in
\* which the pods stored their lists: the pod that stores last has all of them in
\* its own (_on_finish_discovering_plugins).  This is for pods that do one task
\* after the other.
InstallsAgree ==
  (\A p \in Pods : Idle(p) /\ NothingMissed(p)) =>
    /\ listed = folder
    /\ \A p \in Pods : loaded[p] = folder

\* A pod whose listener has its place in the stream comes to have every plugin
\* installed on another pod (_listener_loop, _handle_plugin_event).
Spread ==
  \A p \in Pods, x \in Plugins :
    Serving(p) /\ cursor[p] # None
      /\ (\E i \in DOMAIN stream : i > cursor[p] /\ stream[i].plugin = x)
    ~> x \in loaded[p]

-----------------------------------------------------------------------------
(* What the repository says, and the code does not do: no run has this, see the  *)
(* README, section 5.                                                            *)

\* uninstall_plugin, mad_hatter.py: "removing the plugin folder, deactivating the
\* plugin if it is active, and clearing it from any stored metadata".
UninstallClears ==
  \A p \in Pods, x \in Plugins :
    Idle(p) /\ x \notin folder => x \notin listed

=============================================================================
