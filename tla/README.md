# Grinning Cat core: TLA+ models and proofs

This directory models the Grinning Cat core (`cat/` in the repository): a
multi-tenant FastAPI service for AI agents.  Several server processes
("replicas", "pods") share a Redis instance, a vector store and the folder of
the plugins, and coordinate only through them.  The core's own logic, and its
difficulty, is in what happens *between* the awaits: a file ingestion that a
crash, a deletion, a re-embedding or another process's recovery sweep may meet
at any point; a list that two requests read, change and store; a job that all
replicas start at once.

Paths below are relative to the repository.

## 1. Inventory

| Component | State | Operations | Hard behaviour | Module |
| --- | --- | --- | --- | --- |
| Ingestion status registry (`core_plugins/ingestion_status/registry.py`) | one Redis document per source: status, phase, embedder, chunker; one lock per source | set_status, set_phase, claim_source_for_resume, delete_status | every write is a read and a store; the claim lock has a time to live | `IngestionStatus`, `EfficientIngestion` |
| Lifecycle hooks, heartbeat (`ingestion_status/plugin.py`) | a heartbeat task per source and process | hooks of start, processing, download, completion, error, deletion; the heartbeat loop | the heartbeat writes the row concurrently with its own job | `EfficientIngestion`, `CoreIngestion` |
| Reconcile and endpoints (`ingestion_status/reconcile.py`, `endpoints.py`) | none | garbage collection of rows, dismissal of a row | list first, decide later, delete last | `EfficientIngestion` |
| Efficient ingestion engine (`core_plugins/efficient_ingestion/`) | the pass in memory: points seen, embedder, chunker, sources to do | ingest_file, run, reembed_sources (phase machine), recovery sweep | crash at any step; the sweep against live uploads; the pass against uploads | `EfficientIngestion` |
| Merge and split of chunks (`rabbit_hole.py`, `efficient_ingestion/split.py`) | none | merge short chunks, split oversized ones | boundaries of a guess and a binary search | `Splitting` |
| RabbitHole, core engine (`rabbit_hole.py`, `services/factory/ingestion.py`) | one object per process holding *the* current agent and user; permits | ingest_file, re-embed pass of all agents | the fields are shared by concurrent ingestions; permits on every exit path | `CoreIngestion` |
| Vector store, memory endpoints (`services/factory/vector_db.py`, `core_plugins/memory/`) | collections, aliases, points of all tenants | initialize, add, edit, import, delete, walk | collections are replaced step by step; ids without tenant | `VectorStore` |
| File manager (`services/factory/file_manager.py`, `routes/file_manager.py`) | files of an agent and its conversations | save, delete, transfer to another manager | three stores changed one after the other; transfers beside edits and beside each other | `FileStore` |
| MarchHare (`core_plugins/march_hare/`) | stream cursor, ready flag, handler tasks | notify, consume loop | lost, skipped, reordered events | `EventLog`, `MarchHare` |
| MadHatter, BillTheLizard (`looking_glass/mad_hatter/`, `bill_the_lizard.py`) | loaded plugins and hooks per process; active plugins per agent and system | install, uninstall, toggle, bootstrap | processes diverge; partial failure | `PluginReplication` |
| Plugin requirements (`mad_hatter/plugin.py`, `plugin_extractor.py`) | hash and lock file in the folder; the environment | activate, install, extract | lock, poll, deadline, undo | `Requirements` |
| Plugin settings (`db/cruds/plugins.py`, `plugin.py`) | a document per agent and plugin | save, reset, migrate, upgrade | migration at every request | `PluginSettings` |
| Endpoints of plugins (`decorators/endpoint.py`) | the routes of the application | activate, deactivate | found by path and methods, while requests wait and fail half-way | `Endpoints` |
| Settings store, agents, services (`db/cruds/settings.py`, `bill_the_lizard.py`, `service_factory.py`) | a list of settings per agent, further keys | create, load, reset, clone, destroy, replace a service | read-modify-store without a lock; an agent is whatever keys are left | `AgentStore` |
| Users (`db/cruds/users.py`) | a key per user | create, update, delete | unique names under an expiring lock | `Accounts` |
| Conversations (`stray_cat.py`, `conversations.py`) | messages per conversation, history per session | turn, append, pop, attributes | stale histories | `ChatSessions` |
| WebSockets and callbacks (`callbacks.py`, `websocket_manager.py`, `notifier.py`) | connection table per replica, pub/sub, parser state | connect, publish, deliver, sort tokens | replaced connections, order of frames | `Delivery` |
| WhiteRabbit (`core_plugins/white_rabbit/`) | job store, lock | schedule, run, remove, shut down | one job, many schedulers, and writers that do not take its lock | `Scheduler` |
| Webhooks, analytics | a list; counters | read, change, store | lost updates | `Webhooks`, `Analytics` |
| Migrations (`migrations/`) | head, history | upgrade, downgrade, revision | containers start together | `Migrations` |
| Authentication, other routes, parsers, prompts, decorators, start-up | none shared | | | - |

Interaction: the upload routes call the engine of the agent; the engine calls
the vector store, the file manager and, through hooks, the status registry; the
sweep (a periodic task of every process) reads the registry and calls the
engine; removing a file or a conversation changes the same stores without
asking the engine; changing the embedder starts a re-embed pass in the
background; plugin changes travel between processes through MarchHare's stream;
a turn of a conversation publishes its frames in Redis for the replica that has
the socket.

Correctness, per component: *ingestion* - no chunk is stored twice, a COMPLETED
row stands for vectors in the store, a live upload is never stolen, an in-flight
source is eventually settled, chunks go where they were uploaded to; *replication* -
processes agree on the installed and active plugins once events are handled; *agents* - of a
destroyed agent the keys of two plugins are left and nothing else, a clone has the settings, users, points and
files of its original, a selection that was acknowledged stays unless another store races with it;
*stores* - tenants do not touch each other's points, a file of the agent is not lost by one transfer
at a time between managers that copy, names are unique unless a lock ran out, saved settings come through
upgrades; *sessions* - what is said comes to whoever listens, once and in order.  What the code does not
keep of these is in section 5 and, race by race, in the list of hazards.

## 2. Plan

1. `IngestionStatus`, `EfficientIngestion` (done, proofs of type correctness and of the
   main safety invariants).
2. `EventLog`, `MarchHare`, `PluginReplication` (done; `MarchHare` is proved to implement
   `EventLog`).
3. `AgentStore` (done): settings, agents and services over five stores.
4. `CoreIngestion` (done): RabbitHole's shared fields, the semaphore, the pass over agents.
5. Thirteen smaller services (done): `VectorStore`, `FileStore`, `Accounts`, `ChatSessions`,
   `Delivery`, `Scheduler`, `Webhooks`, `Analytics`, `PluginSettings`, `Endpoints`,
   `Requirements`, `Migrations`, `Splitting`.
6. Proofs (done): every safety invariant and action property that a passing run checks:
   `EfficientIngestion`, `MarchHare`, `CoreIngestion`, `PluginReplication`, `AgentStore` and
   the services (section 6).  Liveness stays with TLC.

## 3. The modules

`IngestionStatus` has the document of a source and the pure part of each
registry write (`SetStatus`, `SetPhase`, `SetParsing`, ...), and the test of
`claim_source_for_resume` (`Claimable`).

### The efficient ingestion engine

`EfficientIngestion` EXTENDS `IngestionStatus` with the state and the steps:

| Variable | Code |
| --- | --- |
| `row` | the Redis documents `agents:<agent>:ingestion:<scope>:<hash>` |
| `disk` | the file storage: which upload's bytes are there |
| `points`, `collection` | the points of each source, in batches; the embedder the collections were created for |
| `chats` | existing conversations |
| `embedder`, `chunker` | the agent's active configuration |
| `job` | the task a process runs: an upload (`ingest`), a sweep's source (`sweep`), a re-embed pass (`run`), a removal (`delete`, `forget`, `gc`), with the local variables of `reembed_sources` |
| `beat` | the heartbeat task spawned by an upload |
| `wired` | the agent wired into the process's RabbitHole, as far as its chunker |
| `lock`, `sweeper` | the resume lock of a source, the lock of the sweep |
| `overlap` | history: sources on which two workers have been at once |
| `lapsed` | history: workers whose resume lock ran out during their claim |

Every await on Redis, the vector store or the file storage ends an action.
`set_status` is two commands, so each status write of a job is `ReadExisting`
followed by the action named after the writer (`Start`, `Processing`, `Parsing`,
`Embedding`, `Complete`, `Error`, ...).  Likewise the claim is `Claim` (lock, read,
check) and `Claimed` (store, unlock); a heartbeat is `BeatGet`, `BeatRead`,
`BeatStore`; a deletion is `RemoveFile`, `RemovePoints`, `DeleteRow`.  `Crash` loses
a process's memory and keeps the stores and the locks; locks go by `LockExpires`
and `SweepLockExpires`.

Abstractions:

- A worker is a process with one task at a time; two workers give every
  interleaving of two tasks.  A pass that handles several sources keeps its list;
  the sweep handles one listed row per job, with its lock taken and released
  around it.  A pass runs over the agent and its conversations one after the other.
- Content is a version number, the chunks of one pass over a file are one
  batch.  A batch records the version, the chunker and the embedder.
- Time is one bit, `stale`: older than the boot threshold
  (`_boot_stale_seconds`, at least twice the heartbeat interval).  A row ages
  (`Age`) unless an upload keeps it fresh: its heartbeat runs, or it is at the
  storage of the file, before the heartbeat is spawned (`KeptFresh`).  So it is
  assumed that saving one file and one heartbeat take less than the threshold.
  The gate of the re-embed pass and of uploads is off, as it is when
  `CAT_INGESTION_RESUME_STALE_SECONDS` is not set.
- Locks may run out at any step (`LockExpires`, `SweepLockExpires`), that of a claim between its
  two Redis commands too; a claim gives back only a lock that is still its own.
- Left out: `store_file=False`, deferred images, the best-effort handling of
  errors of status writes, the markers `resume_owner` and `resume_at`, which
  nothing reads.

### Plugins on several replicas

`EventLog` is the abstract specification of an event stream, `MarchHare` the
component that implements it (`HandlersInOrder` is `EventLog`'s specification under
the mapping `log <- stream`, `taken <- got`), and `PluginReplication` EXTENDS `MarchHare`
with what the pods do upon events and requests:

| Variable | Code |
| --- | --- |
| `stream`, `listening`, `ready`, `cursor`, `reading`, `handlers` | the Redis stream, a pod's listener task, `_ready_event`, `last_id`, the pending XREAD, the handler tasks |
| `got` | history: the events for which a pod has spawned a handler |
| `folder` | `cat/plugins`, shared by the pods as the docs recommend |
| `listed`, `enabled` | the settings `active_plugins` of the system and of each agent |
| `active`, `loaded`, `hooks` | `active_plugins`, the keys of `plugins` and the cached hooks of the system's MadHatter in a pod |
| `task` | what each of a pod's concurrent tasks is at |
| `stage` | down, booting, serving |

An installation is `BeginInstall` or `HandleInstallation`, `Activate`, `Store`, `Refresh`,
the agents (`ListAgents`, then `NextAgent`, `Discover`, `Rewrite`, `Resave` for each,
`AgentsDone`), `Notify`; an uninstallation or a toggle goes through the agents first,
then `Deactivate`, `Store`, `Refresh`.  A request to an agent makes the agent's own
MadHatter: `Discover` reads its list, `Rewrite` stores it.  `Boot`, `BootLoad`, `Store`,
`BootRefresh`, `Serve` are the bootstrap, `BootFail` its end when a listed plugin could
not be loaded.  `Crash` ends a pod.

Abstractions:

- A plugin is a model value that can be toggled.  Core plugins are always there
  and left out, and with them the order of the list except where duplicates and the
  first missing plugin matter (`active` is a sequence).  Dependencies between plugins
  and plugins that fail to be activated are left out (`Endpoints` has both).
- The settings a plugin stores, its endpoints and its requirements are in modules of
  their own.
- XREAD returns one event at a time, Redis does not fail, and the trimming of the
  stream to its last 1000 events is left out.
- A bootstrap loads its plugins in one action (`BootLoad`); it reads the folder plugin
  by plugin, with awaits in between.
- A pod is one process.  (Worker processes of one pod would share its `pod_id` and
  ignore each other's events.)

### Agents

`AgentStore`:

| Variable | Code |
| --- | --- |
| `doc` | the settings document of an agent: its plugins, its metadata, a selected class per category |
| `data` | which kinds of data there are of it: Redis keys (plugin settings, users, conversations, status rows; the keys of the webhooks and of the analytics plugin, `OtherKeys`, which have prefixes of their own), points and procedures in the vector store, files |
| `locks` | the distributed locks, per agent and pattern of keys |
| `offered` | the categories for which an active plugin offers a class besides the default |
| `task` | the requests, each a program of items |
| `acked`, `raced` | history: the selections acknowledged; agents whose list was stored on a decision out of date |

A request is a program of items (`LoadProg`, `CreateProg`, `DestroyProg`, `CloneProg`,
`FactoryProg`), one item per call that `bill_the_lizard.py`, `cheshire_cat.py` and the
service factory make, and an item is one or more actions, one per round trip: an upsert is
`Lookup`, then `StorePath`, or `ReadList` and `StoreList`; a deletion by pattern is
`Collect` and `Delete`, the one that goes on until nothing is left `Purge`.  Loading an
agent is a program that writes what it does not find, which is why it stands in front of
a destruction too.  Abstractions: one class besides the default per category; the content
of points, files and conversations is a set of kinds.

### RabbitHole and the core engine

`CoreIngestion`:

| Variable | Code |
| --- | --- |
| `hole` | the fields `cat` and `stray` of the process's one RabbitHole |
| `job` | the ingestions: uploads and the tasks of a pass, one per agent and collection |
| `free` | the permits of the semaphore |
| `files`, `points`, `beats` | the stored files, the points with the place they were uploaded to, the heartbeats |
| `built` | the embedder each collection was created for |
| `pass` | the re-embed pass: `ListSources`, `Initialize`, `Launch`, `EndPass` |
| `mixed` | history: an ingestion set the fields below another's |

`Setup` (and `Wire`, when the agent has to be loaded first) overwrites the fields; the actions
after it read them again, as the methods do.  `Enter` waits for a permit, `Leave` gives it back
on all paths.  Abstractions: the chunks of a source are one point; the status registry is in
`EfficientIngestion`.

### The services

Thirteen parts share no state with one another, and `MCServices` checks them in one run,
one part per behaviour.

| Module | State and code | Abstracted |
| --- | --- | --- |
| `VectorStore` | `colls` collections with size and alias, `memories` points, `calls` requests: `_check_embedding_size`, `create_db_collection`, `save_dump`, add, edit, import, delete, walks by offset (`vector_db.py`), the checks of the memory endpoints | vectors are the embedder that made them; search and quantization are left out |
| `FileStore` | `stored` files per manager, `vectors` which files have points, `client` requests, each with the transfer it may leave behind as a background task (`file_manager.py`, `custom.py`, `routes/file_manager.py`) | file contents |
| `Accounts` | `users` keys, `mutex` locks per name (`cruds/users.py`, `routes/users.py`) | passwords, permissions |
| `ChatSessions` | `convs` conversations, `session` histories held by requests and sockets (`stray_cat.py`, `working_memory.py`, `cruds/conversations.py`) | a message is who said it in which turn |
| `Delivery` | `socket`, `table` connections, `speech` turns with the parser's state, `wire` Redis pub/sub (`callbacks.py`, `notifier.py`, `websocket_manager.py`, `routes/websocket.py`) | a token is a list of words and tags, of one block of thinking at most (`TokenAssumption`) |
| `Scheduler` | `jobs` the job store, `lock`, `run` executions of the job, toggles and the embeddings of the pass, of creations and clones, `offered` what each agent offers, `shelf` what is stored (`white_rabbit.py`, `main.py`, `embed_procedures`) | a procedure is a name; APScheduler is external |
| `Webhooks` | `webhooks` the list, `editor` requests and hooks | one event type |
| `Analytics` | `embeddings`, `tokens` documents, `counter` updates | one agent |
| `PluginSettings` | `prefs` document, `version` installed, `chore` requests (`plugin.py`, `cruds/plugins.py`) | values are old, new, default |
| `Migrations` | `head`, `history`, `command` (`migrations/`) | revisions are numbers; what they do is external |
| `Requirements` | `folder`, `flocks`, `env`, `task` (`plugin.py`, `plugin_extractor.py`) | packages have no versions |
| `Splitting` | `chunks`, `mergeds`, `scan`, `sized` (`rabbit_hole.py`, `split.py`) | a word is its length |
| `Endpoints` | `routes`, `folders`, `plugins`, `listed`, `order` (`endpoint.py`, `mad_hatter.py`, `bill_the_lizard.py`) | a function is the edition it comes from; Redis does not fail |

`Lists` has what several of them do with a list.  The `MC` modules give TLC the constants;
the `_proofs` modules hold the theorems.

## 4. The runs

| Run | Instance | Question |
| --- | --- | --- |
| `ingest` | 2 workers, a file, 1 upload, 1 crash, delete, dismiss, reconcile | are there duplicates, empty COMPLETED rows, two claims at once, stolen uploads? |
| `ingest_pass` | 2 workers, a file in a conversation, 2 embedders of different sizes, 1 upload, 1 change, removal of the conversation | does an upload that meets a re-embed pass complete wrongly? |
| `ingest_alone` | 1 worker, a file and a URL, 2 uploads, 1 embedder change, 1 failure of any kind | is the state after any sequence of jobs right, with several sources in one pass? |
| `settle` | 1 worker, 2 uploads, 2 failures, 1 chunker change, removals, fairness | does each file get out of its in-flight statuses? |
| `plugins_pod` | 1 pod, 2 plugins, 1 agent, 5 requests of every kind, 2 crashes | is the state between tasks right, can the pod always boot again? |
| `plugins_pods` | 2 pods, 2 plugins, 1 installation of each, fairness | do the pods agree in the end? |
| `plugins_any` | 2 pods with 2 tasks at a time, 1 plugin already installed, 2 requests of every kind, 1 crash | does MarchHare keep the order of the stream, over restarts too? |
| `agents` | 2 agents, 2 tasks, 3 requests of any kind, 1 failed store or crash, 1 change of what plugins offer | what is left after destruction and reset, what does a clone get, does a selection stay? |
| `core_ingest` | 2 agents, a conversation, a file and a URL, 2 uploads, a pass, 1 permit, 1 failure, fairness | do chunks go home, do permits and heartbeats come back, does all come to rest? |
| `services` | the thirteen parts of section 3, two actors each, 2 to 5 requests, 1 or 2 failures | what each service promises (below) |
| `mixed_sources`, `required_settings` | one statement of the documentation each, violated | see section 5 |

What `services` asks: agents do not touch each other's points (`TenantsApart`); a walk sees
each point once and misses none (`WalkComplete`); collections fit the embedder after an
initialisation, whatever crashed before (`Ready`); no request and no transfer, nor its failure, loses a file
of the agent's folder but those that a manager had moved, or that transfers overlap on
(`FilesKept`); user names are unique (`UniqueNames`); messages are only added, one answer
per question (`AppendsKept`, `Alternates`); a socket gets every frame once, in order and
as what it is (`Streamed`); an agent's procedures are there once and current after a run that was alone on it
(`ToolsMatch`); no URL is told twice (`OnceEach`); totals match the parts whatever updates
are lost (`TotalsAgree`); saved settings come through upgrades (`SavedKept`); the head
tells what was migrated (`SchemaMatches`); an active plugin has its packages
(`RequirementsMet`); no word is lost in chunking (`Split`); active plugins have their routes
and inactive ones none (`Served`).

The conditions in these properties ("unless ...") leave out steps after which the code does
break them.  They are stated with history variables (`overlap`, `lapsed`, `mixed`, `raced`,
`muddled`, `excused`, `calm`, `crossed`, `outOfStep`, `met`, `astray`, `replaced`), and sections 4 and 5 say what
happens without them.  A property therefore shows nothing of the race it leaves out: that two claims meet
when the lock runs out under one of them (`ClaimMutex`), that a name is taken twice when it does
(`UniqueNames`), that ingestions overwrite each other's fields (`GoesHome`, `PassRestores`,
`BeatsStop`; `mixed_sources` shows it), that an update of a list is lost (`SelectionKept`, `OnceEach`,
`TotalsAgree`), that a failed turn stores an old history (`AppendsKept`), that a replaced connection takes the
new one along (`Streamed`).  In `PROJECT.json` these hazards stand without a property, or with one
that covers them in part, and a note.

The exceptions of four services in full:

- `Ready`: after initialisations for two embedders of one size that crossed, a collection may have
  two aliases.  The comparison looks at the first (`vector_db.py:652`), so a later initialisation may keep
  the other's vectors; the model picks either alias as the first and marks the collection `mixed`.
- `FilesKept`: transfers are background tasks, and nothing keeps two apart.  When a manager is
  selected while a transfer is under way, each may remove what the other has brought (`file_manager.py:292`):
  the files there are at that moment are left out.  The local manager moves what it downloads (`custom.py:37`) into a
  temporary folder that goes when the transfer fails: what was moved is lost.  A file saved with a manager
  that is not selected any more, or that a transfer is to empty, may be removed with it.
- `ToolsMatch`: a plugin switched off or uninstalled on the system changes what agents offer, and nothing embeds again
  (`bill_the_lizard.py:361`); the re-embed pass drops collections; the pass, a creation, a clone and a
  toggle embed without the lock of the job.  The agent is out of step from then to the end of a run that
  nothing met and that stored what is offered by then.  The embedding of an agent that offers nothing any more
  leaves the old procedures, so only a toggle, which removes them first, puts it in step.
- `Served`: a request that was refused after it had removed the routes, two requests for one plugin, an installation over an
  active plugin, a list with a plugin that is not loaded, at which the rebuilding of the caches ends any
  request (`mad_hatter.py:228`), also one for another plugin, and an uninstallation whose
  deactivation failed, which is logged only (`mad_hatter.py:198`).

Bounds.  Two workers are the least that interleave, and a third adds only
another copy of the same steps; the safety properties of `ingest`
are proved for any number.  One upload next to the
sweep, the collector and a crash already reaches every phase of every pass;
the second upload of `ingest_alone` and `settle` covers the re-upload.  `MaxCopies` = 2
tells one copy from more.  Symmetry is used in safety runs only.
`CHECK_DEADLOCK FALSE`: once the bounded requests are served nobody asks for
anything, and the system really rests.  Two pods are the least that have an event to
exchange; two plugins let the lists of two pods differ; five requests are an
installation, a removal, a second installation and two toggles of either kind.
`plugins_any` begins with an installed plugin (`Installed`) so that two requests are
enough for two concurrent deactivations of it.  In `agents` creation, reset, clone, factory
reset, use and update are served alone (`Exclusive`), destruction and replacement at any
interleaving; three requests are a request that makes the agent differ from a new one, a
second that meets it, and a third that reads.  `core_ingest` has one permit, so that every
ingestion waits for it; a second agent and a conversation give three homes.  In `services`
two actors interleave, and the requests are as many as the longest story needs: save,
upgrade, request (`PluginSettings`); two initialisations that cross and a third alone (`MaxAgain`, `VectorStore`);
a save and two selections, whose transfers overlap (`FileStore`); two changes of what an agent offers, embedded or not
(`MaxChanges`, `Scheduler`, with one procedure that is offered or not); two registrations, a deletion and two events (`Webhooks`);
three points in pages of two so that a page ends inside the collection.

`plugins_pod` and `plugins_pods` give each pod one task at a time (`Slots` has one
element): `Bootable`, `CachesMatch`, `AgentsLoad` and `InstallsAgree` say that every task
leaves a right state behind, whatever crashed before and whatever the other pod
does.  Nothing in the code keeps two tasks of one pod apart, and with two slots TLC
refutes each of the four: an uninstallation during an installation of the same
plugin, an installation event during a toggle, two stores of the system's list that
arrive in the other order.  `plugins_any` has two slots.

`Bootable` and `CachesMatch` are without re-installations (see `UninstallClears` in
section 5), `InstallsAgree` is without uninstallations: the pod that gets an uninstallation
event finds no folder, returns, keeps the plugin loaded, and its next store lists it again.
`InstallsAgree` and `Spread` leave out events that a pod has missed, because it was
between two reads from "$", or not ready.

`CompletedIsStored` and the like leave out sources in `overlap`: the code allows two
uploads of one source at once (no lock covers an upload, and the claim of an
upload is not gated by age), and what remains is then decided by who writes
last.  `ClaimMutex` and `SweepSparesLiveUploads` hold without this exception; the lock of a claim has 30 seconds
and is not renewed (`registry.py:248`), and `ClaimMutex` leaves out the workers it ran out for (`lapsed`).
`CompletedIsEmbedded` is checked for embedders of different vector sizes, because
the vector store tells embedders apart by size only.

`TypeOK` of `AgentStore`, `CoreIngestion` and `PluginReplication` hold in the instances of
`agents`, `core_ingest` and `plugins_any`; they are stated for the reader, and no run
of the list repeats them.

Fairness (`settle`).  Weak fairness of `Work(w)`: a task that has begun
is run by its event loop.  Weak fairness of `Age` and the lock expiries: time
passes.  Strong fairness of `Sweep(w)`: the periodic loop is a task of its own and
comes round every `CAT_INGESTION_RESUME_INTERVAL_SECONDS` whatever requests its
process serves in between; in the model a request occupies the worker.  (The model's
sweep picks one row, so with several files fairness of the sweep as a whole would not be
fairness to each; the code goes through all rows, and `settle` has one file.)  No
fairness of requests, crashes, or failures, and these are bounded.

Fairness (`plugins_pods`).  Weak fairness of the listener, of the handlers, of a task that
has begun and of the end of the bootstrap: they are tasks of one event loop.  No
fairness of requests, boots and crashes.

Fairness (`core_ingest`).  Weak fairness of the pass's own steps and of the tasks'
steps together: the event loop runs something as long as something can run.  It is not fair to
each task, and that every ingestion gets its permit follows from there being finitely many.

## 5. Where the code and its documentation differ

Two runs show a difference in their list of violations:

- `mixed_sources`: `bill_the_lizard.py:228` says that the pass re-embeds all files and
  procedures in all the agents.  Its tasks, and uploads beside it, share one RabbitHole
  (`rabbit_hole.py:67`), so a pass without a failure may store the chunks of one agent
  under another, and a source it found has no vectors where it belongs (`ReembedsAll`).
- `required_settings`: settings are migrated "without losing the values of the
  configurations still supported" (`plugin.py:84`).  For a plugin with a setting
  that has no default, the defaults are None, the migration raises, its bare `except` yields
  None, and that is stored over the saved values, at every request to the agent
  (`SavedKept`).

The following are stated as definitions that no run of the list checks; adding the definition to the
configuration named here makes TLC print the behaviour.

| Definition | Add to | Difference |
| --- | --- | --- |
| `CompletedIsCurrent` (`EfficientIngestion`) | `IngestAlone.cfg` | a re-upload is completed with the chunks of the earlier upload, if that one crashed or failed in the embedding phase (`resume.py:117-120` promises a re-ingest from the file's content) |
| `CompletedAfterPass` | `IngestPass.cfg` | an upload that completes between the listing of the sources of a re-embed pass and the drop of the collections keeps a COMPLETED row without points (`ingestion_status/plugin.py:169`) |
| `AbandonedStaysGone` | `Ingest.cfg` | removing the file does not abandon an in-flight source (`endpoints.py:200-205`) |
| `EverythingSettles` (PROPERTY) | `Settle.cfg`, with `Sources = {url}`, `Urls = {url}`, `url = url` | a URL whose worker dies in the download is never resumed (`reembed.py:373-374`) |
| `UninstallClears` (`PluginReplication`) | `PluginsPod.cfg`, with `Reinstalls = TRUE` | a plugin that was installed twice stays in the stored list after it was uninstalled (`mad_hatter.py:126-127`); the next bootstrap ends with a KeyError at `mad_hatter.py:228` |
| `SelectionIsAtomic` (`AgentStore`) | `Agents.cfg` | the upserts of settings are documented as atomic (`settings.py:90`), and a concurrent append or store undoes an acknowledged selection (`settings.py:107`) |
| `OneEmbedder` (`VectorStore`) | `Services.cfg` | vectors of an embedder come into a collection made for another of the same size, which the comment at `vector_db.py:645` calls wrong |
| `TransferKeepsFiles` (`FileStore`) | `Services.cfg` | a transfer takes the top folder's files and then removes the whole tree, conversations' files included (`file_manager.py:288`, `292`), though it is documented as a transfer of the files (`file_manager.py:279`) |

Read in the code while modelling, without a definition:

- *Replication.*  The docstring of `before_lizard_bootstrap` (`march_hare.py:283-286`) says
  that no events published during the bootstrap are missed, that of `mark_ready`
  (`march_hare.py:86-88`) that they are skipped, and they are.  Installing an active plugin again lists it
  twice, so its hooks run twice (`mad_hatter.py:227-235`).  A hook of a
  plugin that was removed meanwhile and that raises makes `execute_hook` fail with a KeyError
  (`mad_hatter.py:276`).
- *Endpoints.*  An activation is ignored when a route of the same path and methods exists, so a
  plugin that is installed again serves the old functions until a restart, and keeps the endpoints it
  dropped; a removal takes the first match, whoever's it is; routes are removed before
  a step that may refuse the deactivation; while a listed plugin is not loaded, installations of others end with
  a KeyError and leave them listed without routes (`mad_hatter.py:167`, `228`).
- *Plugin requirements.*  A failed installation removes packages other plugins share; the hash
  lies in a mounted folder, the environment in the container.
- *Migrations.*  `upgrade` to a revision that is not above the head (an older image: its entry
  point upgrades at every start) walks to the base, applies everything again and
  moves the head back; `downgrade` to a revision not below the head reverts everything;
  containers that start together apply a revision twice.
- *Agents.*  `destroy` ("Destroy all data from the cat", `cheshire_cat.py:107`) leaves the agent's webhooks
  (`webhooks/crud.py:12`) and analytics (`analytics/cruds/embeddings.py:24`, `llm.py:32`): an agent that is
  reset, or created again under its id, has them still; only the factory reset removes them, and a clone does not
  copy them.  The rollback of a failed clone does nothing (`utilities.py:229`); an id that occurs in
  the word "agents" breaks a clone (`settings.py:407`); ids that are used again inherit files and
  points a crash has left; the rollback of `ServiceUpdater` is unreachable.
- *Core ingestion.*  The start hook gets the raw file name, later hooks the sanitised source
  (`rabbit_hole.py:192`, `333-340`), so the two are different rows for names that change.
- *Users.*  A password that is updated is hashed twice (`routes/users.py:110`, after
  `UserUpdate.__init__`); an update without permissions resets them; a stale update stores a
  deleted user again or brings an old name back (`users.py:330`); deleting a user leaves the
  conversations, for the key to delete has a wildcard in it.
- *Conversations.*  A failed turn pops from its own copy of the history, which drops the messages of
  others or creates a deleted conversation again; a conversation deleted during a turn comes
  back with the answer only; the first turn may undo a name given meanwhile.
- *WebSockets.*  The handler that ends removes the connection that took its place; closing the
  replaced connection is a coroutine nobody awaits (`websocket.py:94`); the listener ends for good
  upon any exception (`websocket_manager.py:84-87`).
- *Callbacks.*  A block of thinking that opens in the token that closed another is sent as chat
  (`callbacks.py:122`); tags that are split over tokens are not seen; concurrent model calls of one turn
  share the parser's state.
- *WhiteRabbit.*  The shutdown of one replica removes the shared job for all (`white_rabbit.py:151`), and
  takes the scheduler away before a running job releases its lock (`main.py:68`, `35`), which stays for
  the rest of its hour; `embed_procedures` returns before it clears when an agent offers none; toggles, the
  re-embed pass, creations and clones embed without the lock; what a change on the system takes away is not
  embedded again.
- *Counters, webhooks, plugin settings.*  Documented or meant as atomic, they read, change and
  store; concurrent updates are lost.
- *Vector store.*  The alias check looks at one alias of a collection that may have two (`vector_db.py:652`).
- *Files.*  Overlapping transfers remove each other's files, a failed transfer from the local manager those it had
  moved (section 4).  `list_files` returns nothing if any excluded name is in the folder
  (`file_manager.py:198`); `delete_files` removes the tree but the points of top-level files only.
- *Splitting.*  Chunks that are only blanks are returned unsplit, and three characters per token is an
  estimate, not the bound its docstring says.

## 6. What is proved

For every set of sources, workers, embedders and chunkers, every vector size and
every bound (assumptions `SourcesAssumption`, `NoneIsNoActor`, `BoundsAssumption`,
`NoneAssumption`, `NoneIsNoDoc`: a missing value is no actor, no embedder and no row):

- `TypeCorrect`: `Spec => []TypeOK`.  `TypeOK` is inductive; one lemma per action.
- `OneCopy`: `Spec => []AtMostOneCopy`.  Not inductive: that the points are one batch
  before `Add` holds because the same job was at `Remove` with no other worker on
  the source.  The inductive invariant `CopyInv` says for each job how many batches it
  holds, that the points are empty where it is about to add, and that two workers on one
  source put it into `overlap`.
- `ClaimsExclude`: `Spec => []ClaimMutex`, from `LockHeld`: a job between the two commands of
  a claim holds the lock of its source, unless that ran out (`lapsed`).
- `SweepSpares`: `Spec => SweepSparesLiveUploads`, from `Fresh`: a row that is kept fresh
  is not stale, whoever wrote it last; the sweep claims stale rows only.
- In `Completed_proofs`, `CompletedStands`: `Spec => []CompletedIsStored`.  `Calm` says for each
  source that has not been in `overlap`, whatever the configuration: a worker takes the row back from
  COMPLETED before it touches the points, holds one batch when it removes the old ones, and completes
  only what it has stored; a removal takes the file before the points, and a row is abandoned only where
  the conversation is gone.  `Firm` adds, while the embedder is the first one, that every row and every
  heartbeat knows this one only (`Pristine`) and that a COMPLETED row has its points (`Backed`).
- `CompletedEmbedded`: `Spec => []CompletedIsEmbedded`, for embedders of different sizes (`Sized`: the
  store tells embedders apart by size only) and one change of the embedder.  `Across` carries the facts over the
  change: a job of the old embedder finds no collection to add to (`Lagging`), one that is about to
  complete has stored points of the embedder it writes (`Ending`), and a COMPLETED row that
  names the embedder of the collection has its points (`Named`).  With a second change, back to the first
  embedder, while a job is between `Add` and `Complete`, the property is false: the job writes COMPLETED for
  points that two drops have removed.
- `PassCompletes`: `Spec => []CompletedAfterPass`, for one worker and one change of the embedder.
  `Passing` says where the debt of a drop is: a COMPLETED row without points belongs to the other embedder and
  is in the list of the pass under way, or is still to be listed (`Kept`, `Due`); and as long as nothing
  failed the pass ends only when its list is empty (`Ended`, `Finishes`, `Listed`).  With a second worker the
  property is false (`CompletedAfterPass` in section 5).

For every set of pods and plugins (assumption `NoneIsNoPosition`):

- `HareTyped`: `HareSpec => []HareTypeOK`.
- `HareImplementsLog`: `HareSpec => HandlersInOrder`, by refinement: `LogStep` maps each
  step to `Publish`, `Take` or a stutter.  The invariant is `Behind`: all that a pod has
  taken lies behind its cursor and behind its pending read, which holds over
  restarts because a new listener begins at the end of the stream.

For every set of agents, conversations, sources, uploads and embedders, and every number of permits
(assumptions `IngestAssumption`, `TasksAssumption`: uploads and agents are finite and
distinct), in `CoreIngestion_proofs`:

- `PermitsKept`: `Spec => []PermitsMatch`.  The count is changed by launching, leaving and
  each error path; that a pass launches tasks which hold no permit yet needs `Quiet`: the
  pass's tasks are idle unless it is embedding.
- `ChunksGoHome`: `Spec => []GoesHome`, and `HeartbeatsStop`: `Spec => []BeatsStop`.  Neither is
  inductive, for chunks are stored under the fields of the RabbitHole.  `HomeInv`: as long as
  nothing overlapped, all ingestions under way are for one agent and one conversation, and the
  fields of the RabbitHole are theirs; a heartbeat belongs to one of them.
- `PassBringsBack`: `Spec => []PassRestores`.  `RestoreInv`: while a pass embeds without a failure,
  each source it found is still to do, at hand in the task of its agent, or restored; a
  task clears before it takes its first source, so it never removes what it has restored.

For every set of pods, plugins and agents (assumptions `InstalledArePlugins`: the plugins are
finite and those installed at the start are among them, `NoneIsNoAgent`, `ReplicationBounds`), in
`PluginReplication_proofs`:

- `ReplicationTypes`: `Spec => []TypeOK`, from `Typed`.
- `PodsAgree`: `Spec => []InstallsAgree` under `InstallsOnly`: the requests are installations, no pod
  ends, and a pod handles one request or event at a time (the configuration of `PluginsPods.cfg`; with
  uninstallations or activations the stored lists do overwrite each other, which is why
  `PluginsAny.cfg` asks for less).  The invariant `Inv`: each plugin in the folder was
  published or is about to be (`Published`, `Announced`); a pod has it, will act on its event, or is
  doing so (`Having`, `Seen`); and what is stored is some pod's list, or some pod is about to store its
  own (`LastStored`).
- `PodBoots`, `PodMatches`, `PodLoadsAgents`: `Spec => []Bootable`, `[]CachesMatch` and `[]AgentsLoad`
  under `OnePod`: one pod, one task at a time, and no plugin installed twice (the configuration of
  `PluginsPod.cfg`; section 5 says what installing twice does).  Ends of the pod at any step are
  included.  `Alone` says for each phase of a task (booting, switching on, switching off, at one of the
  agents) which of the stored list, the active list, the loaded plugins and the hooks agree already.

For every set of agents, categories and requests (assumption `AgentsAssumption`: agents and
categories are finite, and the names of keys differ), in `AgentStore_proofs`:

- `AgentTypes`: `Spec => []TypeOK`, from `Shapes`, which also says what of an agent each
  request has read and has still to do (`Sound`).
- `SelectionStays`: `Spec => []SelectionKept`.  The invariant says where in the document the
  acknowledged setting is, and that a replacement that has read the document and not yet stored
  it either holds what was acknowledged or is about to be excused by `raced`.
- `EachIsGot`: `Spec => []GotEach`.  `UsesInv`: what a request has got and the lookups it has still to
  do are together one of each category; a lookup that finds nothing is repeated in its place.
- `OtherKeysAreLeft`, `ResetMakesFresh`, `CloneHasAll`: `Spec => []DestroyLeavesOtherKeys`,
  `[]ResetIsFresh` and `[]CloneIsFaithful`.  `LifeInv`: requests that are alone on an agent are apart
  from all others (`AloneInv`), and a request's remaining program tells what is already gone
  (`Ending`), what is made (`Resetting`) or copied (`Cloning`).  `CloneHasAll` has the hypothesis
  `SubstringIds = {}` of `Agents.cfg`: no id occurs in the prefix of the keys, without which the scan
  of a clone misses keys (section 5).
- Programs are sequences and documents lists of any length, so these proofs use induction on
  lengths, in the form of the least counterexample (`FromZero`).

For every set of keys, names and requests (assumption `AccountAssumption`), in `Services_proofs`:

- `NamesUnique`: `acSpec => []UniqueNames`.  `NamesInv`: a creation past its lock holds the lock of
  its name or the name is excused (a lock expired, an update set the name); the keys it has
  scanned are those of all users who have the name, and once they are matched there are none.

For every set of processes, folder numbers, versions and packages (assumption `RequirementsAssumption`), in
`Services_proofs`:

- `PackagesThere`: `rqSpec => []RequirementsMet`.  `InstalledInv`: until the folder is replaced
  under its lock, an activation has hashed the version that is there and has the
  lock of the folder that is there; while it installs nothing is recorded; a plugin is loaded, and stays
  active, only from a folder whose hash is recorded.

For every set of operators and number of revisions (assumption `MigrationAssumption`), in
`Services_proofs`:

- `HeadIsTrue`: `mgSpec => []SchemaMatches`.  `SchemaInv`: what a command goes through is a
  stretch of the chain; as long as nobody downgrades, an upgrade has applied all below the
  revision it is at (whoever applied them); commands one at a time are at the revision
  next to the head, and the last entry of the history is what the head was set to.

For the other services whose proofs are in `Services_proofs`, one invariant each:

- `SettingsComeThrough`: `psSpec => []SavedKept`, with the hypothesis `Required = {}` of `Services.cfg`
  (`required_settings` shows what a setting without a default does).  `SavedInv`: as long as requests
  came one after the other, what the one under way has read is what is stored.
- `FilesStay`: `fsSpec => []FilesKept`, for managers that copy and managers that move.  `FilesInv` says
  where each file that is kept lies: with a manager that no transfer empties, or in what the one transfer that
  handles it has still to take along; a file saved beside a transfer counts if it goes to a manager that stays.
- `ToolsAreOffered`: `scSpec => []ToolsMatch` (`SchedulerAssumption`: Nil is no run and no agent).
  `ToolsInv`: jobs hold the lock from its acquisition to their end, so as long as none expired under its run
  two jobs are never on one agent; a run that met nothing is the only one on its agent, and what is on the
  shelf follows from the step it is at.
- `TurnsAlternate` and `MessagesStay`: `csSpec => []Alternates` and `csSpec => AppendsKept`.
  `TurnsInv`: in a conversation that is calm one turn at most is under way, its step tells whether the
  question is stored yet, and from its rereading on its own history is the stored one.

`Lists_proofs` has what the remaining proofs rest on: facts about lists of any length (what is
kept of one, what a flattened list of lists holds, prefixes, ascending lists), about finite sets and about sums and
folds over them.  The provers cannot take an operator as a parameter, so induction is over a set: a set of
lists that has the empty one and, with a list, each that is longer by one element, has all
(`SeqUpward`; `SetUpward` for finite sets).  A fold is expanded to the recursive function it
stands for, of which `FoldExists` shows that there is one.  For the same reason `Webhooks` filters
with `Only` of `Lists`, which takes the set of what is kept.  In `ListServices_proofs`:

- `AgentsApart` and `StoreIsReady`: `vsSpec => TenantsApart` and `vsSpec => []Ready`
  (`VectorAssumption`: the names of the standard collections are some and differ).  `PointsInv`: an id that was
  not imported belongs to one agent, be it in a point or in a request that has still to store it; an
  initialisation that is alone has made all collections before the one it is at fit its embedder, and one
  with several aliases is one that crossed initialisations have marked (`mixed`).
- `WalksComplete`: `vsSpec => []WalkComplete` (`VectorAssumption`: ids are positive numbers, and
  finitely many).  `WalksInv`: what a walk has seen ascends and lies below its offset, and each point it started
  with is seen, gone, or still to come.
- `WebhooksOnce`: `whSpec => []OnceEach`.  Every list that is stored, read or still to
  post has no URL twice, and what is left to post of an event has not been posted.
- `AnalyticsAgree`: `anSpec => []TotalsAgree` (`AnalyticsAssumption`: the files are finitely many).
  What a request has read agrees with itself, so what it stores does, whatever it stores over.
- `EndpointsServed`: `epSpec => []Served` (`EndpointsAssumption`: plugins and what an edition offers are
  finitely many, editions are not 0).  `EndpointsInv`: a plugin no request is
  about has its routes in a state that follows from the folder, the list of active plugins and the loaded edition; one
  that a request is about has none until it is done, whatever requests for others do in between and wherever
  they fail; a plugin that is not astray is listed only if it is loaded from its folder.
- `ChunksSplit`: `spSpec => []Split` (`SplittingAssumption`: limits are numbers, words have characters).
  `SplitInv`: what came out so far covers the chunks before the current one and of that the words before the place of the
  search; the bisection keeps a prefix that fits, or none, below its upper bound (`Bisecting`).

- `DeliveryStreams`: `dlSpec => []Streamed` (`DeliveryAssumption`: the HTTP request is no WebSocket, "none" is
  no replica and no conversation; `TokenAssumption`: a token is a word, or holds the beginning of a thought, its
  end or both, with or without words around them; the parser looks for each tag once per token, and for a
  second thought in one token the property is not claimed).  `DeliveryInv` has three parts.  Places: connections have numbers of
  their own, a table names a connection at its own place only, and one that never shared its place is the one
  named there.  Speech: each turn has one speaker and only frames of its own, and in a call the parser's flag says
  whether what was said so far ends in a thought, so the frames it makes of any token are what a listener should hear
  (`TokenSorts`); a call that has streamed no thinking has none to repeat at its end.  Wires: a frame goes from
  the speaker to the wire of each listening replica, and from there to the sockets, and stays at its place among those
  of its turn.

Only model-checked: liveness (`FilesSettle`, `Spread`, `ComesToRest`), which is out of the prover's reach.

## 7. Not modelled

- Authentication (JWT, API keys, permission checks), most HTTP routes, file parsers, prompts,
  token counting, logging: they keep no state that several actors share.  What a route does
  beyond calling a modelled operation (existence and permission checks) is in that operation's
  module where a property depends on it.
- Forms and the agentic workflow: one turn's state in one process.  (`self.stray.cheshire_cat` in
  the forms does not exist, so their `next` always ends in its `except`.)
- WhiteRabbit's pause, resume and one-shot jobs, which nothing in the core calls.
- Dependency injection of services and decorators other than endpoints: pure registration.
- Redis, Qdrant, APScheduler, uv and the language model are external: a command is one
  atomic step, or a step that may fail where the code handles that.
- The data that properties do not tell apart, as section 3 says module by module.
