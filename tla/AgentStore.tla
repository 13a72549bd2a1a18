----------------------------- MODULE AgentStore -----------------------------
(***************************************************************************)
(* The agents of the service.  An agent is nothing but what is stored of   *)
(* it: one settings document in Redis (the list of its plugins, its        *)
(* metadata and, per category, the service it has selected), further Redis *)
(* keys, its tenant's points in the vector store and its folder.  Every    *)
(* request loads its agent from there, and loading writes: missing         *)
(* settings are created.  A request is a program of items, each item one   *)
(* call of the code; every round trip to a store is a step of its own, so  *)
(* requests interleave as tasks of one or several processes do.            *)
(***************************************************************************)
EXTENDS Naturals, Sequences, FiniteSets, SequencesExt

CONSTANTS None,          \* no document, no holder, no value
          Agents,        \* agent ids
          SubstringIds,  \* the ids that occur inside the key prefix before the id
          Categories,    \* categories of services an agent selects one of
          Tasks,         \* requests in progress at a time
          Ops,           \* the kinds of requests of a run
          Exclusive,     \* bound: the kinds of requests a run serves alone
          Uses,          \* the kinds of data requests add to an agent
          Faults,        \* what may fail: "vector", "files", "crash"
          MaxRequests,   \* bound: requests
          MaxFaults,     \* bound: failures
          MaxOffers      \* bound: changes of the offered services

\* What is stored of an agent beside its settings; RedisKinds are keys under
\* agents:<id>:, OtherKeys are its keys under the prefixes of the webhooks and
\* the analytics plugin, points and procedures are in the vector store.
RedisKinds == {"conversations", "plugins", "users", "rows"}
OtherKeys == {"webhooks", "analytics"}
Kinds == RedisKinds \union OtherKeys \union {"points", "procedures", "files"}

ASSUME AgentsAssumption ==
    /\ SubstringIds \subseteq Agents /\ Uses \subseteq Kinds
    /\ IsFiniteSet(Agents) /\ IsFiniteSet(Categories)
    /\ Categories \cap {"plugins", "metadata"} = {}
    /\ None \notin Agents \union Tasks \union Categories \union Kinds
    /\ None \notin {"settings", "metadata", "optional", "default", "custom",
                    "failed", "refused"}
    /\ None \notin Seq([key : Categories \union {"plugins", "metadata"},
                        impl : {"default", "custom"}])

VARIABLES
    doc,      \* per agent: its settings document, or None
    data,     \* per agent: the kinds of data stored of it
    locks,    \* per agent and pattern: the task that holds the distributed lock
    offered,  \* the categories whose "custom" class the active plugins offer
    task,     \* per task: the request it serves
    acked,    \* history: per agent and category, the selection last acknowledged
    raced,    \* history: the agents whose list was stored by a decision out of date
    requests, faults, offers

vars == <<doc, data, locks, offered, task, acked, raced, requests, faults, offers>>

-----------------------------------------------------------------------------
(* Settings documents. *)

Keys == Categories \union {"plugins", "metadata"}
Setting(k, i) == [key |-> k, impl |-> i]

\* Mutant of Same: services are looked up by class also for their category.
SameClass(by, s, e) == s.key = e.key /\ (e.key \in Categories => s.impl = e.impl)

\* The lookups by category and by name: a service is named after its class,
\* the other settings after their key.
Same(by, s, e) ==
    /\ s.key = e.key
    /\ by = "name" /\ e.key \in Categories => s.impl = e.impl

Entries(d) == IF d = None THEN <<>> ELSE d
Has(d, by, e) == \E i \in DOMAIN Entries(d) : Same(by, Entries(d)[i], e)
Selected(d, c) ==
    SelectInSeq(Entries(d), LAMBDA s : s.key = c)
\* JSON.SET at a filter path overwrites every match with the whole setting.
PathSet(d, by, e) == [i \in DOMAIN d |-> IF Same(by, d[i], e) THEN e ELSE d[i]]

MainKeys == {a \in Agents : doc[a] # None \/ data[a] \cap RedisKinds # {}}

-----------------------------------------------------------------------------
(* Programs: what each request calls, in order. *)

Do(d, a) == [key |-> None, impl |-> None, do |-> d, agent |-> a]
On(d, a, k) == [key |-> k, impl |-> None, do |-> d, agent |-> a]
Upsert(by, a, k, i) == [key |-> k, impl |-> i, do |-> by, agent |-> a]

CategorySeq == SetToSeq(Categories)
PerCategory(d, a) == [i \in DOMAIN CategorySeq |-> On(d, a, CategorySeq[i])]

BuildProg(a) ==
    <<Do("activate", a), Upsert("name", a, "plugins", "default")>>
        \o PerCategory("ensure", a) \o PerCategory("select", a)
LoadProg(a) == <<Do("exists", a), Do("settings", a)>> \o BuildProg(a)

\* Mutant of CreateProg: the procedures are not embedded.
CreateProgBare(a, meta) ==
    <<Do("check", a)>> \o BuildProg(a) \o <<Do("built", a), Do("initialize", a)>>

CreateProg(a, meta) ==
    <<Do("check", a)>> \o BuildProg(a) \o <<Do("built", a)>>
        \o (IF meta THEN <<Upsert("name", a, "metadata", "default")>> ELSE <<>>)
        \o <<Do("initialize", a), Do("procedures", a)>>

\* Mutant of DestroyProg: the users of the agent are left.
DestroyProgKeepsUsers(a) ==
    <<On("memory", a, "points"), On("memory", a, "procedures"), Do("folder", a),
      On("drop", a, "settings"), On("drop", a, "conversations"),
      On("drop", a, "plugins"), Do("purge", a)>>

DestroyProg(a) ==
    <<On("memory", a, "points"), On("memory", a, "procedures"), Do("folder", a),
      On("drop", a, "settings"), On("drop", a, "conversations"),
      On("drop", a, "plugins"), On("drop", a, "users"), Do("purge", a)>>
CloneProg(a, b) ==
    <<Do("free", b), Do("scan", a)>> \o LoadProg(b)
        \o <<Do("initialize", b), Do("copyPoints", a), Do("procedures", b),
             Do("copyFiles", a)>>
FactoryProg(as) ==
    FlattenSeq([i \in DOMAIN as |-> LoadProg(as[i]) \o DestroyProg(as[i])
                                    \o <<Do("mark", as[i])>>]) \o <<Do("flush", None)>>

Idle == [agent |-> None, op |-> "idle", to |-> None, prog |-> <<>>, at |-> "start",
         seen |-> <<>>, got |-> {}, alone |-> FALSE, built |-> FALSE, answer |-> None]

Touches(T) == {T.agent, T.to}
Overlaps(S, op, T) == \/ "factory" \in {op, T.op}
                      \/ (S \ {None}) \cap Touches(T) # {}

Start(t, op, a, b, prog) ==
    LET others == {u \in Tasks \ {t} : /\ task[u].op # "idle"
                                       /\ Overlaps({a, b}, op, task[u])}
    IN /\ task[t].op = "idle"
       /\ op \in Ops
       /\ \A u \in Tasks : task[u].op # "idle" => Exclusive \cap {op, task[u].op} = {}
       /\ requests < MaxRequests
       /\ requests' = requests + 1
       /\ task' = [u \in Tasks |->
                     IF u = t THEN [Idle EXCEPT !.op = op, !.agent = a, !.to = b,
                                                !.prog = prog, !.alone = (others = {})]
                     ELSE IF u \in others THEN [task[u] EXCEPT !.alone = FALSE]
                     ELSE task[u]]
       /\ UNCHANGED <<doc, data, locks, offered, acked, raced, faults, offers>>

-----------------------------------------------------------------------------
(* Steps of a request.  It is at the head of its program.                  *)

Item(t) == Head(task[t].prog)
At(t, d, at) == /\ task[t].prog # <<>>
                /\ Item(t).do = d
                /\ task[t].at = at

Then(t, prog) == [task[t] EXCEPT !.prog = prog, !.at = "start", !.seen = <<>>]
Next1(t) == Then(t, Tail(task[t].prog))
Stay(t, at, seen) == [task[t] EXCEPT !.at = at, !.seen = seen]
Becomes(t, r) == task' = [task EXCEPT ![t] = r]
Advance(t) == Becomes(t, Next1(t))

\* After an exception: the creation of an agent rolls back by destroying it
\* when its object was built; a clone "rolls back" the key <id>, which is no
\* key of the store; the factory reset goes on with the next agent when the
\* destruction of one fails; everything else answers the failure.
AfterMark(prog) ==
    LET i == CHOOSE j \in DOMAIN prog :
                /\ prog[j].do = "mark"
                /\ \A k \in 1..(j - 1) : prog[k].do # "mark"
    IN SubSeq(prog, i + 1, Len(prog))
Destroying == {"memory", "folder", "drop", "purge"}
AfterFailure(t) ==
    LET T == task[t] IN
    IF T.built
    THEN [Then(t, DestroyProg(T.agent)) EXCEPT !.built = FALSE, !.answer = "failed"]
    ELSE IF T.op = "factory" /\ Item(t).do \in Destroying
    THEN Then(t, AfterMark(T.prog))
    ELSE [Then(t, <<>>) EXCEPT !.answer = "failed"]
Fail(t) == Becomes(t, AfterFailure(t))

NoAck(a) == [acked EXCEPT ![a] = [c \in Categories |-> None]]
UNCHANGED_store == UNCHANGED <<doc, data, locks, acked, raced>>
UNCHANGED_world == UNCHANGED <<offered, requests, faults, offers>>

-----------------------------------------------------------------------------
(* Loading an agent. *)

Exists(t) ==
    /\ At(t, "exists", "start")
    /\ IF Item(t).agent \in MainKeys THEN Advance(t) ELSE Fail(t)
    /\ UNCHANGED_store /\ UNCHANGED_world

\* An agent without settings is None: a creation that found keys of the id
\* returns it, the factory reset passes over it, any other request fails.
Settings(t) ==
    /\ At(t, "settings", "start")
    /\ IF Entries(doc[Item(t).agent]) # <<>> THEN Advance(t)
       ELSE IF Item(t).key = "optional" THEN Becomes(t, Then(t, <<>>))
       ELSE IF task[t].op = "factory" THEN Becomes(t, Then(t, AfterMark(task[t].prog)))
       ELSE Fail(t)
    /\ UNCHANGED_store /\ UNCHANGED_world

\* Activating the settings of the plugins creates the missing ones.
Activate(t) ==
    /\ At(t, "activate", "start")
    /\ IF "plugins" \in data[Item(t).agent] THEN Advance(t)
       ELSE Becomes(t, Stay(t, "absent", <<>>))
    /\ UNCHANGED_store /\ UNCHANGED_world

ActivateStore(t) ==
    /\ At(t, "activate", "absent")
    /\ data' = [data EXCEPT ![Item(t).agent] = @ \union {"plugins"}]
    /\ Advance(t)
    /\ UNCHANGED <<doc, locks, acked, raced>> /\ UNCHANGED_world

Ensure(t) ==
    /\ At(t, "ensure", "start")
    /\ LET i == Item(t) IN
       IF Selected(doc[i.agent], i.key) # 0 THEN Advance(t)
       ELSE Becomes(t, Then(t, <<Upsert("name", i.agent, i.key, "default")>>
                                   \o Tail(task[t].prog)))
    /\ UNCHANGED_store /\ UNCHANGED_world

\* The selected service is looked up by category; without one the default is
\* created and looked up again.
Select(t) ==
    /\ At(t, "select", "start") \/ At(t, "reselect", "start")
    /\ LET i == Item(t)
           n == Selected(doc[i.agent], i.key)
       IN IF n # 0 THEN Becomes(t, Stay(t, "chosen", <<doc[i.agent][n]>>))
          ELSE IF i.do = "reselect" THEN Fail(t)
          ELSE Becomes(t, Then(t, <<Upsert("name", i.agent, i.key, "default"),
                                    On("reselect", i.agent, i.key)>>
                                      \o Tail(task[t].prog)))
    /\ UNCHANGED_store /\ UNCHANGED_world

\* Mutant of Instantiate: no default object for a class nobody offers.
InstantiateOffered(t) ==
    /\ At(t, "select", "chosen") \/ At(t, "reselect", "chosen")
    /\ LET s == task[t].seen[1] IN
       Becomes(t, [Next1(t) EXCEPT !.got =
                     @ \union {r \in {s} : s.impl = "custom" => Item(t).key \in offered}])
    /\ UNCHANGED_store /\ UNCHANGED_world

\* Its configuration is read by name; a class nobody offers, or a
\* configuration that is gone, falls back to the default object.
Instantiate(t) ==
    /\ At(t, "select", "chosen") \/ At(t, "reselect", "chosen")
    /\ LET i == Item(t)
           s == task[t].seen[1]
           usable == /\ s.impl = "custom" => i.key \in offered
                     /\ Has(doc[i.agent], "name", s)
       IN Becomes(t, [Next1(t) EXCEPT !.got =
                        @ \union {IF usable THEN s ELSE Setting(i.key, "default")}])
    /\ UNCHANGED_store /\ UNCHANGED_world

-----------------------------------------------------------------------------
(* Upserting a setting: a lookup, then the path is overwritten in place, or
   the whole list is read and stored again with the setting appended. *)

IsUpsert(t, at) == At(t, "name", at) \/ At(t, "category", at)
Lookup(t) ==
    /\ IsUpsert(t, "start")
    /\ LET i == Item(t) IN
       Becomes(t, Stay(t, IF Has(doc[i.agent], i.do, Setting(i.key, i.impl))
                          THEN "found" ELSE "absent", <<>>))
    /\ UNCHANGED_store /\ UNCHANGED_world

Acknowledges(t) == task[t].op = "replace" /\ Item(t).do = "category"
Ack(t) ==
    acked' = IF Acknowledges(t)
             THEN [acked EXCEPT ![Item(t).agent][Item(t).key] = Item(t).impl]
             ELSE acked

\* A path that matches nothing any more is an error or a no-op of the server.
StorePath(t) ==
    /\ IsUpsert(t, "found")
    /\ LET i == Item(t)
           e == Setting(i.key, i.impl)
       IN \/ /\ ~Has(doc[i.agent], i.do, e)
             /\ Fail(t)
             /\ UNCHANGED <<doc, acked>>
          \/ /\ doc[i.agent] # None
             /\ doc' = [doc EXCEPT ![i.agent] = PathSet(@, i.do, e)]
             /\ Advance(t)
             /\ IF Has(doc[i.agent], i.do, e) THEN Ack(t) ELSE UNCHANGED acked
    /\ UNCHANGED <<data, locks, raced>> /\ UNCHANGED_world

ReadList(t) ==
    /\ IsUpsert(t, "absent")
    /\ Becomes(t, Stay(t, "list", Entries(doc[Item(t).agent])))
    /\ UNCHANGED_store /\ UNCHANGED_world

\* The decision to append was taken on a document that has changed since: the
\* list read is no longer the list, or the setting is there by now.
Stale(t) ==
    LET i == Item(t) IN
    \/ task[t].seen # Entries(doc[i.agent])
    \/ Has(doc[i.agent], i.do, Setting(i.key, i.impl))
StoreList(t) ==
    /\ IsUpsert(t, "list")
    /\ LET i == Item(t) IN
       /\ doc' = [doc EXCEPT ![i.agent] =
                    Append(task[t].seen, Setting(i.key, i.impl))]
       /\ raced' = IF Stale(t) THEN raced \union {i.agent} ELSE raced
       /\ Ack(t)
    /\ Advance(t)
    /\ UNCHANGED <<data, locks>> /\ UNCHANGED_world

\* A service whose class is not offered is refused before anything is stored.
Supported(t) ==
    /\ At(t, "supported", "start")
    /\ IF Item(t).impl = "custom" /\ Item(t).key \notin offered THEN Fail(t)
       ELSE Advance(t)
    /\ UNCHANGED_store /\ UNCHANGED_world

-----------------------------------------------------------------------------
(* Creating an agent. *)

Check(t) ==
    /\ At(t, "check", "start")
    /\ LET a == Item(t).agent IN
       IF a \in MainKeys
       THEN Becomes(t, Then(t, <<Do("exists", a), On("settings", a, "optional")>>
                                 \o BuildProg(a)))
       ELSE Advance(t)
    /\ UNCHANGED_store /\ UNCHANGED_world

Built(t) ==
    /\ At(t, "built", "start")
    /\ Becomes(t, [Next1(t) EXCEPT !.built = TRUE])
    /\ UNCHANGED_store /\ UNCHANGED_world

\* The collections of the vector store are there for every tenant.
Initialize(t) ==
    /\ At(t, "initialize", "start")
    /\ Advance(t)
    /\ UNCHANGED_store /\ UNCHANGED_world

\* The procedures are cleared, then embedded.
ClearProcedures(t) ==
    /\ At(t, "procedures", "start")
    /\ data' = [data EXCEPT ![Item(t).agent] = @ \ {"procedures"}]
    /\ Becomes(t, Stay(t, "cleared", <<>>))
    /\ UNCHANGED <<doc, locks, acked, raced>> /\ UNCHANGED_world

EmbedProcedures(t) ==
    /\ At(t, "procedures", "cleared")
    /\ data' = [data EXCEPT ![Item(t).agent] = @ \union {"procedures"}]
    /\ Advance(t)
    /\ UNCHANGED <<doc, locks, acked, raced>> /\ UNCHANGED_world

\* What any other request stores of the agent it loaded.
Use(t) ==
    /\ At(t, "use", "start")
    /\ data' = [data EXCEPT ![Item(t).agent] = @ \union {Item(t).key}]
    /\ Advance(t)
    /\ UNCHANGED <<doc, locks, acked, raced>> /\ UNCHANGED_world

-----------------------------------------------------------------------------
(* Destroying an agent. *)

Memory(t) ==
    /\ At(t, "memory", "start")
    /\ data' = [data EXCEPT ![Item(t).agent] = @ \ {Item(t).key}]
    /\ Advance(t)
    /\ UNCHANGED <<doc, locks, acked, raced>> /\ UNCHANGED_world

Folder(t) ==
    /\ At(t, "folder", "start")
    /\ data' = [data EXCEPT ![Item(t).agent] = @ \ {"files"}]
    /\ Advance(t)
    /\ UNCHANGED <<doc, locks, acked, raced>> /\ UNCHANGED_world

\* The keys of a pattern are collected under its lock, then deleted: a key
\* stored in between stays.
Stored(a, k) == IF k = "settings" THEN doc[a] # None ELSE k \in data[a]
Collect(t) ==
    /\ At(t, "drop", "start")
    /\ LET a == Item(t).agent
           k == Item(t).key
       IN /\ locks[a][k] = None
          /\ locks' = [locks EXCEPT ![a][k] = t]
          /\ Becomes(t, Stay(t, IF Stored(a, k) THEN "found" ELSE "empty", <<>>))
    /\ UNCHANGED <<doc, data, acked, raced>> /\ UNCHANGED_world

Delete(t) ==
    /\ At(t, "drop", "found") \/ At(t, "drop", "empty")
    /\ LET a == Item(t).agent
           k == Item(t).key
           found == task[t].at = "found"
       IN /\ IF found /\ k = "settings"
             THEN doc' = [doc EXCEPT ![a] = None] /\ acked' = NoAck(a)
             ELSE UNCHANGED <<doc, acked>>
          /\ data' = [data EXCEPT ![a] = IF found THEN @ \ {k} ELSE @]
          /\ locks' = [locks EXCEPT ![a][k] = IF @ = t THEN None ELSE @]
    /\ Advance(t)
    /\ UNCHANGED raced /\ UNCHANGED_world

\* Whoever waits for a lock longer than blocking_timeout gets a LockError.
LockTimeout(t) ==
    /\ At(t, "drop", "start")
    /\ locks[Item(t).agent][Item(t).key] # None
    /\ Fail(t)
    /\ UNCHANGED_store /\ UNCHANGED_world

\* Plugins are told of the destruction: the ingestion rows are dropped.
Purge(t) ==
    /\ At(t, "purge", "start")
    /\ data' = [data EXCEPT ![Item(t).agent] = @ \ {"rows"}]
    /\ Advance(t)
    /\ UNCHANGED <<doc, locks, acked, raced>> /\ UNCHANGED_world

-----------------------------------------------------------------------------
(* Cloning an agent, and the factory reset. *)

Free(t) ==
    /\ At(t, "free", "start")
    /\ IF Item(t).agent \in MainKeys
       THEN Becomes(t, [Then(t, <<>>) EXCEPT !.answer = "refused"])
       ELSE Advance(t)
    /\ UNCHANGED_store /\ UNCHANGED_world

\* Mutant of Scan: the users are not copied.
ScanWithoutUsers(t) ==
    /\ At(t, "scan", "start")
    /\ LET a == Item(t).agent
           keys == {k \in {"settings", "plugins", "rows"} : Stored(a, k)}
           seq == SetToSeq(keys)
       IN Becomes(t, Then(t, [i \in DOMAIN seq |-> On("copy", a, seq[i])]
                               \o Tail(task[t].prog)))
    /\ UNCHANGED_store /\ UNCHANGED_world

Scan(t) ==
    /\ At(t, "scan", "start")
    /\ LET a == Item(t).agent
           keys == {k \in {"settings", "plugins", "users", "rows"} : Stored(a, k)}
           seq == SetToSeq(keys)
       IN Becomes(t, Then(t, [i \in DOMAIN seq |-> On("copy", a, seq[i])]
                               \o Tail(task[t].prog)))
    /\ UNCHANGED_store /\ UNCHANGED_world

\* A key is read; what is gone meanwhile is skipped.
CopyRead(t) ==
    /\ At(t, "copy", "start")
    /\ LET a == Item(t).agent
           k == Item(t).key
       IN IF ~Stored(a, k) THEN Advance(t)
          ELSE Becomes(t, Stay(t, "read", IF k = "settings" THEN Entries(doc[a]) ELSE <<>>))
    /\ UNCHANGED_store /\ UNCHANGED_world

\* The id is replaced at its first occurrence in the key, which for some ids
\* lies before the id: then the copy is no key of the clone.
CopyWrite(t) ==
    /\ At(t, "copy", "read")
    /\ LET b == task[t].to
           k == Item(t).key
           lands == Item(t).agent \notin SubstringIds
       IN /\ IF lands /\ k = "settings"
             THEN doc' = [doc EXCEPT ![b] = task[t].seen] /\ acked' = NoAck(b)
             ELSE UNCHANGED <<doc, acked>>
          /\ data' = [data EXCEPT ![b] =
                        IF lands /\ k # "settings" THEN @ \union {k} ELSE @]
    /\ Advance(t)
    /\ UNCHANGED <<locks, raced>> /\ UNCHANGED_world

CopyPoints(t) ==
    /\ At(t, "copyPoints", "start")
    /\ IF "points" \in data[Item(t).agent]
       THEN Becomes(t, Stay(t, "read", <<>>)) ELSE Advance(t)
    /\ UNCHANGED_store /\ UNCHANGED_world

AddPoints(t) ==
    /\ At(t, "copyPoints", "read")
    /\ data' = [data EXCEPT ![task[t].to] = @ \union {"points"}]
    /\ Advance(t)
    /\ UNCHANGED <<doc, locks, acked, raced>> /\ UNCHANGED_world

CopyFiles(t) ==
    /\ At(t, "copyFiles", "start")
    /\ data' = [data EXCEPT ![task[t].to] = @ \union (data[Item(t).agent] \cap {"files"})]
    /\ Advance(t)
    /\ UNCHANGED <<doc, locks, acked, raced>> /\ UNCHANGED_world

Mark(t) ==
    /\ At(t, "mark", "start")
    /\ Advance(t)
    /\ UNCHANGED_store /\ UNCHANGED_world

\* The database is flushed and the folders of the plugins are removed.
Flush(t) ==
    /\ At(t, "flush", "start")
    /\ doc' = [a \in Agents |-> None]
    /\ data' = [a \in Agents |-> data[a] \ (RedisKinds \union OtherKeys)]
    /\ locks' = [a \in Agents |-> [k \in DOMAIN locks[a] |-> None]]
    /\ acked' = [a \in Agents |-> [c \in Categories |-> None]]
    /\ offered' = {}
    /\ Advance(t)
    /\ UNCHANGED <<raced, requests, faults, offers>>

Finish(t) ==
    /\ task[t].op # "idle" /\ task[t].prog = <<>>
    /\ task' = [task EXCEPT ![t] = Idle]
    /\ UNCHANGED_store /\ UNCHANGED_world

-----------------------------------------------------------------------------
(* What may fail. *)

VectorItems == {"initialize", "procedures", "memory", "copyPoints"}
FileItems == {"folder", "copyFiles"}
StoreFails(t) ==
    /\ task[t].prog # <<>>
    /\ \/ "vector" \in Faults /\ Item(t).do \in VectorItems
       \/ "files" \in Faults /\ Item(t).do \in FileItems
    /\ faults < MaxFaults
    /\ faults' = faults + 1
    /\ Fail(t)
    /\ UNCHANGED_store /\ UNCHANGED <<offered, requests, offers>>

\* A process dies with its request; its locks stay until they expire.
Crash(t) ==
    /\ "crash" \in Faults
    /\ task[t].prog # <<>>
    /\ faults < MaxFaults
    /\ faults' = faults + 1
    /\ task' = [task EXCEPT ![t] = Idle]
    /\ UNCHANGED_store /\ UNCHANGED <<offered, requests, offers>>

\* A lock whose holder is gone is released after its timeout.
LockExpires(a, k) ==
    /\ locks[a][k] # None
    /\ LET t == locks[a][k] IN
       ~(/\ At(t, "drop", "found") \/ At(t, "drop", "empty")
         /\ Item(t).agent = a /\ Item(t).key = k)
    /\ locks' = [locks EXCEPT ![a][k] = None]
    /\ UNCHANGED <<doc, data, task, acked, raced>> /\ UNCHANGED_world

\* A plugin that offers a service is activated or deactivated.
Offer(c) ==
    /\ offers < MaxOffers
    /\ offers' = offers + 1
    /\ offered' = IF c \in offered THEN offered \ {c} ELSE offered \union {c}
    /\ UNCHANGED <<doc, data, locks, task, acked, raced, requests, faults>>

-----------------------------------------------------------------------------
(* Requests. *)

Create(t, a) == \E meta \in BOOLEAN : Start(t, "create", a, None, CreateProg(a, meta))
Destroy(t, a) == Start(t, "destroy", a, None, LoadProg(a) \o DestroyProg(a))
Reset(t, a) ==
    Start(t, "reset", a, None, LoadProg(a) \o DestroyProg(a) \o CreateProg(a, FALSE))
Clone(t, a, b) == Start(t, "clone", a, b, LoadProg(a) \o CloneProg(a, b))
Update(t, a) ==
    Start(t, "update", a, None, LoadProg(a) \o <<Upsert("name", a, "metadata", "default")>>)
Replace(t, a, c, i) ==
    Start(t, "replace", a, None,
          LoadProg(a) \o <<Upsert("supported", a, c, i), Upsert("category", a, c, i)>>)
UseAgent(t, a, k) == Start(t, "use", a, None, LoadProg(a) \o <<On("use", a, k)>>)
FactoryReset(t) ==
    \E as \in SetToSeqs(MainKeys) : Start(t, "factory", None, None, FactoryProg(as))

Request(t) ==
    \/ \E a \in Agents :
          \/ Create(t, a) \/ Destroy(t, a) \/ Reset(t, a) \/ Update(t, a)
          \/ \E b \in Agents \ {a} : Clone(t, a, b)
          \/ \E c \in Categories, i \in {"default", "custom"} : Replace(t, a, c, i)
          \/ \E k \in Uses : UseAgent(t, a, k)
    \/ FactoryReset(t)

Step(t) ==
    \/ Exists(t) \/ Settings(t) \/ Activate(t) \/ ActivateStore(t) \/ Ensure(t)
    \/ Select(t) \/ Instantiate(t) \/ Lookup(t) \/ StorePath(t) \/ ReadList(t)
    \/ StoreList(t) \/ Supported(t) \/ Check(t) \/ Built(t) \/ Initialize(t) \/ ClearProcedures(t)
    \/ EmbedProcedures(t) \/ Use(t) \/ Memory(t) \/ Folder(t) \/ Collect(t)
    \/ Delete(t) \/ LockTimeout(t) \/ Purge(t) \/ Free(t) \/ Scan(t) \/ CopyRead(t)
    \/ CopyWrite(t) \/ CopyPoints(t) \/ AddPoints(t) \/ CopyFiles(t) \/ Mark(t)
    \/ Flush(t) \/ Finish(t)

LockKeys == {"settings", "conversations", "plugins", "users"}

\* Some agents are there already, and in use.
NewDoc == <<Setting("plugins", "default")>>
              \o [i \in DOMAIN CategorySeq |-> Setting(CategorySeq[i], "default")]

Init ==
    /\ \E old \in SUBSET Agents :
          /\ doc = [a \in Agents |-> IF a \in old THEN NewDoc ELSE None]
          /\ data = [a \in Agents |-> IF a \in old THEN Kinds \ Uses ELSE {}]
    /\ locks = [a \in Agents |-> [k \in LockKeys |-> None]]
    /\ offered = Categories
    /\ task = [t \in Tasks |-> Idle]
    /\ acked = [a \in Agents |-> [c \in Categories |-> None]]
    /\ raced = {}
    /\ requests = 0 /\ faults = 0 /\ offers = 0

Next ==
    \/ \E t \in Tasks : Request(t) \/ Step(t) \/ StoreFails(t) \/ Crash(t)
    \/ \E a \in Agents, k \in LockKeys : LockExpires(a, k)
    \/ \E c \in Categories : Offer(c)

Spec == Init /\ [][Next]_vars

-----------------------------------------------------------------------------
(* Properties. *)

\* The shapes of the variables.
TypeOK ==
    /\ \A a \in Agents :
         /\ doc[a] # None => doc[a] \in Seq([key : Keys, impl : {"default", "custom"}])
         /\ data[a] \subseteq Kinds
         /\ \A k \in LockKeys : locks[a][k] \in Tasks \union {None}
    /\ offered \subseteq Categories
    /\ \A t \in Tasks :
         /\ task[t].op \in Ops \union {"idle"}
         /\ task[t].got \subseteq [key : Categories, impl : {"default", "custom"}]
         /\ task[t].answer \in {None, "failed", "refused"}

\* A request that is done; it was alone on its agents from start to end.
Done(t, op) == task[t].op = op /\ task[t].prog = <<>>
DoneAlone(t, op) == Done(t, op) /\ task[t].alone /\ task[t].answer = None

Gone(a) == doc[a] = None /\ data[a] \subseteq OtherKeys

\* Once a destruction has succeeded only the keys of the webhooks and the
\* analytics plugin are left of the agent, which no destruction looks for,
\* whatever it had and whichever failures and crashes came before: its own
\* loading writes settings first, and the parts are removed one store after the
\* other.
DestroyLeavesOtherKeys ==
    \A t \in Tasks : DoneAlone(t, "destroy") => Gone(task[t].agent)

\* A whole agent: its document has each category exactly once.
OneEach(d) ==
    /\ \A c \in Categories \union {"plugins"} :
          Cardinality({i \in DOMAIN Entries(d) : Entries(d)[i].key = c}) = 1
    /\ Cardinality({i \in DOMAIN Entries(d) : Entries(d)[i].key = "metadata"}) <= 1
Fresh(d) == OneEach(d) /\ \A i \in DOMAIN d : d[i].impl = "default" /\ d[i].key # "metadata"

\* A reset leaves the agent as new but for its webhooks and analytics: every
\* service back at its default, no metadata, and of the data a destruction
\* looks for only what a new agent has.
ResetIsFresh ==
    \A t \in Tasks : DoneAlone(t, "reset") =>
        /\ Fresh(doc[task[t].agent])
        /\ data[task[t].agent] \ OtherKeys = {"plugins", "procedures"}

\* A clone has the settings, the points, the files and the users of the agent
\* it was made of, but not its conversations.  (It may have more: an id is free
\* when it has no key under agents:, whatever files, points, webhooks and
\* analytics an agent of that id has left.)
CloneIsFaithful ==
    \A t \in Tasks : DoneAlone(t, "clone") =>
        LET a == task[t].agent
            b == task[t].to
        IN /\ doc[b] = doc[a]
           /\ data[a] \ ({"conversations"} \union OtherKeys) \subseteq data[b]
           /\ "conversations" \notin data[b]

\* Requests that load the agent, other replacements and changes of the offered
\* classes leave an acknowledged selection in place, unless a setting was
\* appended on a decision out of date (SelectionIsAtomic shows what happens then).
SelectionKept ==
    \A a \in Agents \ raced, c \in Categories : acked[a][c] # None =>
        LET n == Selected(doc[a], c)
        IN n # 0 /\ doc[a][n].impl = acked[a][c]

\* The upserts are documented as atomic: an acknowledged selection is in place.
\* The code does not keep it (README, section 5), and no run has it.
SelectionIsAtomic ==
    \A a \in Agents, c \in Categories : acked[a][c] # None =>
        LET n == Selected(doc[a], c)
        IN n # 0 /\ doc[a][n].impl = acked[a][c]

\* A request that loaded its agent got one service of every category.
GotEach ==
    \A t \in Tasks : Done(t, "use") /\ task[t].answer = None =>
        \A c \in Categories : Cardinality({s \in task[t].got : s.key = c}) = 1
=============================================================================
