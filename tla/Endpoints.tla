-------------------------------- MODULE Endpoints --------------------------------
(***************************************************************************)
(* The HTTP routes of the plugins in one server process.  An endpoint of   *)
(* an active plugin becomes a route of the application, which serves the   *)
(* function it was made with; routes are found again by path and methods.  *)
(* Requests that install, uninstall and toggle plugins interleave where    *)
(* they wait: for requirements, for the agents, for Redis.  The agents and *)
(* the other replicas are modelled in PluginReplication.                   *)
(***************************************************************************)
EXTENDS Naturals, Sequences, SequencesExt, FiniteSets

CONSTANTS Extensions,   \* plugins
          Editions,     \* versions of their packages
          Offers,       \* the endpoints of a plugin's version: path and methods
          DependsOn,    \* the plugins a plugin depends on
          Admins,       \* requests at a time
          MaxOrders,    \* bound: requests
          MaxRestarts,  \* bound: restarts of the server
          MaxMisses     \* bound: plugins that cannot be loaded or deactivated

ASSUME EndpointsAssumption ==
    /\ 0 \notin Editions /\ "none" \notin Extensions /\ IsFiniteSet(Extensions)
    /\ DependsOn \in [Extensions -> SUBSET Extensions]
    /\ \A p \in Extensions, v \in Editions : IsFiniteSet(Offers[p][v])

VARIABLES
    routes,   \* the routes of the application: endpoint, plugin and edition of the function
    folders,  \* per plugin: the edition in the folder, 0 for none
    plugins,  \* per plugin: the edition that is loaded, 0 for none
    listed,   \* per plugin: how often it is in the list of active plugins
    order,    \* per request: what it does and where it is
    astray,   \* history: plugins with a request refused, two requests at a time,
              \* installed while active, listed when the caches could not be rebuilt,
              \* or still listed when uninstalled
    expenses    \* requests, restarts, misses

epVars == <<routes, folders, plugins, listed, order, astray, expenses>>

Idle == [at |-> "idle", does |-> "nothing", plugin |-> "none"]
Of(r) == order[r].plugin
Orders(r, o) == order' = [order EXCEPT ![r] = o]
OrderGoes(r, at) == Orders(r, [order[r] EXCEPT !.at = at])
Closes(r) == Orders(r, Idle)
Spends(what) == expenses' = [expenses EXCEPT ![what] = @ + 1]
Dependents(p) == {q \in Extensions : plugins[q] # 0 /\ p \in DependsOn[q]}
Listed(p) == listed[p] > 0
Ordered(p) == \E r \in Admins : Of(r) = p
Present == {q \in Extensions : folders[q] # 0}

\* Some plugin is listed and not loaded: the caches cannot be rebuilt.
Broken == \E q \in Extensions : Listed(q) /\ plugins[q] = 0

-----------------------------------------------------------------------------
(* Routes. *)

\* Mutant of Found: the methods are not looked at.
FoundByPath(rs, e) == SelectInSeq(rs, LAMBDA route : route.endpoint.path = e.path)

\* The first route of the path and methods, whoever's it is; 0 for none.
Found(rs, e) == SelectInSeq(rs, LAMBDA route : route.endpoint = e)

\* CatEndpoint.activate: a route that is there stays.
RouteAdded(rs, e, p, v) ==
    IF Found(rs, e) > 0 THEN rs
    ELSE Append(rs, [endpoint |-> e, plugin |-> p, edition |-> v])

\* CatEndpoint.deactivate
RouteRemoved(rs, e) == IF Found(rs, e) = 0 THEN rs ELSE RemoveAt(rs, Found(rs, e))

RoutesAdded(rs, p, v) == FoldSeq(LAMBDA e, acc : RouteAdded(acc, e, p, v), rs, SetToSeq(Offers[p][v]))
RoutesRemoved(rs, p, v) == FoldSeq(LAMBDA e, acc : RouteRemoved(acc, e), rs, SetToSeq(Offers[p][v]))

-----------------------------------------------------------------------------
(* Requests. *)

\* toggle_plugin and uninstall_plugin of an active plugin: on_plugin_deactivate
\* removes its routes, and waits for the agents.  A plugin that is listed and not
\* loaded is an error.
BeginOrder(r, does, p) ==
    /\ order[r] = Idle /\ expenses.orders < MaxOrders /\ folders[p] # 0
    /\ Spends("orders")
    /\ IF ~Listed(p) THEN /\ Orders(r, [at |-> does, does |-> does, plugin |-> p])
                          /\ UNCHANGED routes
       ELSE IF plugins[p] = 0 THEN UNCHANGED <<order, routes>>
       ELSE /\ Orders(r, [at |-> does, does |-> does, plugin |-> p])
            /\ routes' = RoutesRemoved(routes, p, plugins[p])
    /\ astray' = astray \union {q \in {p} : Ordered(q)}
    /\ UNCHANGED <<folders, plugins, listed>>

\* install_plugin: the package replaces the folder; the plugin made of it is not
\* listed yet while its requirements are installed.
Extract(r, p, v) ==
    /\ order[r] = Idle /\ expenses.orders < MaxOrders
    /\ Spends("orders")
    /\ IF DependsOn[p] \subseteq Present
       THEN /\ folders' = [folders EXCEPT ![p] = v]
            /\ plugins' = [plugins EXCEPT ![p] = v]
            /\ Orders(r, [at |-> "load", does |-> "install", plugin |-> p])
       ELSE folders' = [folders EXCEPT ![p] = 0] /\ UNCHANGED <<order, plugins>>
    /\ astray' = astray \union {q \in {p} : Ordered(q) \/ Listed(q)}
    /\ UNCHANGED <<routes, listed>>

\* deactivate_plugin: the plugin that is listed twice stays in the list; an exception,
\* of the plugin's own function or of the caches, is only logged.
Deactivated(p) ==
    /\ plugins' = [plugins EXCEPT ![p] = 0]
    /\ listed' = [listed EXCEPT ![p] = @ - 1]
    /\ UNCHANGED expenses

NotDeactivated ==
    /\ expenses.misses < MaxMisses /\ Spends("misses")
    /\ UNCHANGED <<plugins, listed>>

RefuseOrder(r) ==
    /\ Closes(r)
    /\ astray' = astray \union {Of(r)}
    /\ UNCHANGED <<folders, plugins, listed, expenses>>

\* activate_plugin, up to where the requirements are installed.
StartLoading(r) ==
    /\ IF DependsOn[Of(r)] \subseteq Present
       THEN OrderGoes(r, "load") /\ plugins' = [plugins EXCEPT ![Of(r)] = folders[Of(r)]]
       ELSE OrderGoes(r, "finish") /\ UNCHANGED plugins
    /\ UNCHANGED <<folders, listed, astray, expenses>>

\* MadHatter.toggle_plugin looks at the list again.
ToggleListed(r) ==
    /\ order[r].at = "toggle"
    /\ IF folders[Of(r)] = 0 \/ (Listed(Of(r)) /\ Dependents(Of(r)) # {}) THEN RefuseOrder(r)
       ELSE IF ~Listed(Of(r)) THEN StartLoading(r)
       ELSE /\ Deactivated(Of(r)) \/ NotDeactivated
            /\ OrderGoes(r, "add") /\ UNCHANGED <<folders, astray>>
    /\ UNCHANGED routes

\* MadHatter.uninstall_plugin: the folder goes, even when the deactivation failed.
Uninstall(r) ==
    /\ order[r].at = "uninstall"
    /\ IF folders[Of(r)] = 0 THEN Closes(r) /\ UNCHANGED <<folders, plugins, listed, astray, expenses>>
       ELSE IF Dependents(Of(r)) # {} \/ (plugins[Of(r)] = 0) THEN RefuseOrder(r)
       ELSE /\ IF Listed(Of(r)) THEN Deactivated(Of(r)) \/ NotDeactivated
               ELSE UNCHANGED <<plugins, listed, expenses>>
            /\ folders' = [folders EXCEPT ![Of(r)] = 0]
            /\ astray' = astray \union {q \in {Of(r)} : listed'[q] > 0}
            /\ Closes(r)
    /\ UNCHANGED routes

\* _on_plugin_activation, once its requirements are there: the plugin, unless it was
\* taken away meanwhile, has the functions of the files now in the folder; it is
\* listed once more.
Load(r) ==
    /\ order[r].at = "load" /\ folders[Of(r)] # 0
    /\ plugins' = [plugins EXCEPT ![Of(r)] = IF @ = 0 THEN 0 ELSE folders[Of(r)]]
    /\ listed' = [listed EXCEPT ![Of(r)] = @ + 1]
    /\ OrderGoes(r, "finish")
    /\ UNCHANGED <<routes, folders, astray, expenses>>

\* It cannot be loaded, or its files are not there any more.
Miss(r) ==
    /\ order[r].at = "load"
    /\ IF folders[Of(r)] = 0 THEN UNCHANGED expenses ELSE expenses.misses < MaxMisses /\ Spends("misses")
    /\ plugins' = [plugins EXCEPT ![Of(r)] = 0]
    /\ OrderGoes(r, "finish")
    /\ UNCHANGED <<routes, folders, listed, astray>>

\* _on_finish_discovering_plugins, once the list is stored: a plugin that is listed and
\* not loaded, this or another, ends the request before it comes to the routes.
RebuildFails(r) ==
    /\ order[r].at = "finish" /\ Broken
    /\ Closes(r)
    /\ astray' = astray \union {q \in {Of(r)} : Listed(q)}
    /\ UNCHANGED <<routes, folders, plugins, listed, expenses>>

\* activate_plugin_endpoints, for a toggle only when the plugin is listed by now;
\* a plugin that is not loaded is an error.
AddRoutes(r) ==
    /\ order[r].at = "add" \/ (order[r].at = "finish" /\ ~Broken)
    /\ LET p == Of(r)
       IN  routes' = IF plugins[p] # 0 /\ (order[r].does = "install" \/ Listed(p))
                     THEN RoutesAdded(routes, p, plugins[p]) ELSE routes
    /\ Closes(r)
    /\ UNCHANGED <<folders, plugins, listed, astray, expenses>>

\* The server ends, in any request, and starts: the plugins that are listed are
\* loaded, their endpoints become the routes.  It does not start when one of them
\* cannot be loaded.
Restart ==
    /\ expenses.restarts < MaxRestarts /\ Spends("restarts")
    /\ \A p \in Extensions : Listed(p) => folders[p] # 0 /\ DependsOn[p] \subseteq Present
    /\ plugins' = [p \in Extensions |-> IF Listed(p) THEN folders[p] ELSE 0]
    /\ listed' = [p \in Extensions |-> IF Listed(p) THEN 1 ELSE 0]
    /\ routes' = FoldSeq(LAMBDA p, rs : IF Listed(p) THEN RoutesAdded(rs, p, folders[p]) ELSE rs,
                         <<>>, SetToSeq(Extensions))
    /\ order' = [r \in Admins |-> Idle]
    /\ astray' = {}
    /\ UNCHANGED folders

-----------------------------------------------------------------------------
epInit ==
    /\ routes = <<>>
    /\ folders = [p \in Extensions |-> 0]
    /\ plugins = [p \in Extensions |-> 0]
    /\ listed = [p \in Extensions |-> 0]
    /\ order = [r \in Admins |-> Idle]
    /\ astray = {}
    /\ expenses = [orders |-> 0, restarts |-> 0, misses |-> 0]

epNext ==
    \/ \E r \in Admins :
         \/ \E p \in Extensions :
              \/ \E does \in {"toggle", "uninstall"} : BeginOrder(r, does, p)
              \/ \E v \in Editions : Extract(r, p, v)
         \/ ToggleListed(r) \/ Uninstall(r) \/ Load(r) \/ Miss(r)
         \/ RebuildFails(r) \/ AddRoutes(r)
    \/ Restart

epSpec == epInit /\ [][epNext]_epVars

-----------------------------------------------------------------------------
(* Properties. *)

\* The endpoints of a plugin in any edition, and those no other plugin offers.
Offered(p) == UNION {Offers[p][v] : v \in Editions}
Own(p) == Offered(p) \ UNION {Offered(q) : q \in Extensions \ {p}}

\* A plugin no request is about has the routes of its endpoints, each once and with
\* the function of the edition that is loaded, when it is active, and no routes when
\* it is not; over requests that interleave, installations and deactivations that fail
\* and restarts.  Left out until the next start are the plugins (astray) a request was
\* refused for after it had removed their routes, that two requests were for at a time,
\* that were installed again while active, that were listed when the caches could not
\* be rebuilt, because some plugin was listed and not loaded, or that were uninstalled
\* while their deactivation failed: the code may leave each with the wrong routes.
Served ==
    \A p \in Extensions \ astray :
      ~Ordered(p) =>
        \A e \in Own(p) :
          LET places == {n \in DOMAIN routes : routes[n].endpoint = e}
          IN  IF Listed(p) /\ e \in Offers[p][plugins[p]]
              THEN \E n \in places :
                     /\ places = {n}
                     /\ routes[n] = [endpoint |-> e, plugin |-> p, edition |-> plugins[p]]
              ELSE places = {}
=============================================================================
