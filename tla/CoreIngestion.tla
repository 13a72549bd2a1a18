---------------------------- MODULE CoreIngestion ----------------------------
(***************************************************************************)
(* The core ingestion engine: RabbitHole.ingest_file and the re-embed pass *)
(* over all agents.  A process has one RabbitHole; the agent and the       *)
(* conversation it works for are fields that every ingestion overwrites    *)
(* and reads again after each await.  Uploads run as background tasks, the *)
(* pass runs one task per agent and collection, all in one process.  A     *)
(* semaphore bounds the ingestions that are past their start.              *)
(***************************************************************************)
EXTENDS Naturals, FiniteSets

CONSTANTS None,
          Agents, Chats, Sources,
          Urls,            \* the sources that are downloaded and never stored
          Uploads,         \* background tasks for uploads
          Embedders,
          Size,            \* the size of an embedder's vectors
          MaxConcurrency,  \* CAT_INGESTION_MAX_CONCURRENCY, 0 for unlimited
          MaxUploads,      \* bound: uploads
          MaxChanges,      \* bound: changes of the embedder
          MaxFaults        \* bound: failed downloads, saves, parses

ASSUME IngestAssumption ==
    /\ Urls \subseteq Sources
    /\ Size \in [Embedders -> Nat]
    /\ MaxConcurrency \in Nat

Collections == {"declarative", "episodic"}
CollectionOf(chat) == IF chat = None THEN "declarative" ELSE "episodic"
PassTasks == Agents \X Collections
Tasks == Uploads \union PassTasks

\* Finitely many tasks, and the uploads are other tasks than those of the pass.
ASSUME TasksAssumption ==
    IsFiniteSet(Uploads) /\ IsFiniteSet(Agents) /\ Uploads \cap PassTasks = {}

VARIABLES
    hole,      \* the fields of the RabbitHole: cat and stray
    job,       \* per task: the ingestion it runs
    free,      \* permits of the semaphore
    files,     \* the files stored: <<agent, chat, source>>
    points,    \* the points stored
    beats,     \* the heartbeats that run: <<agent, chat, source>>
    embedder,  \* the selected embedder
    built,     \* per collection: the embedder it was created for
    pass,      \* the re-embed pass
    mixed,     \* history: an ingestion set the fields up below another's
    uploads, changes, faults

vars == <<hole, job, free, files, points, beats, embedder, built, pass, mixed,
          uploads, changes, faults>>
counters == <<uploads, changes, faults>>

NoJob == [agent |-> None, chat |-> None, source |-> None, store |-> FALSE,
          pc |-> "idle", tag |-> None, by |-> None]
Idle(t) == job[t].pc = "idle"
\* The tasks between their setup and their end.
Running == {t \in Tasks : job[t].pc \notin {"idle", "clear", "next", "setup"}}
\* The tasks past their start: those the semaphore bounds.
Body == {t \in Tasks : job[t].pc \in {"resolve", "save", "beat", "parse", "tag",
                                      "add", "leave"}}
At(t, pc) == job[t].pc = pc
Goto(t, pc) == job' = [job EXCEPT ![t].pc = pc]
Home(t) == <<job[t].agent, job[t].chat>>

-----------------------------------------------------------------------------
(* ingest_file, await by await. *)

\* The engine hands the source to the RabbitHole of the process.
Ingests(u, a, c, s) ==
    job' = [job EXCEPT ![u] = [NoJob EXCEPT !.agent = a, !.chat = c, !.source = s,
                                           !.store = TRUE, !.pc = "setup"]]

\* A file, read into memory and of a type that is handled; what is not is refused.
UploadFile(u, a, c, s) ==
    /\ Idle(u) /\ s \notin Urls
    /\ uploads < MaxUploads /\ uploads' = uploads + 1
    /\ Ingests(u, a, c, s)
    /\ UNCHANGED <<hole, free, files, points, beats, embedder, built, pass, mixed,
                   changes, faults>>

\* A URL that answers; the download comes later.
UploadUrl(u, a, c, s) ==
    /\ Idle(u) /\ s \in Urls
    /\ uploads < MaxUploads /\ uploads' = uploads + 1
    /\ Ingests(u, a, c, s)
    /\ UNCHANGED <<hole, free, files, points, beats, embedder, built, pass, mixed,
                   changes, faults>>

\* The ingestions of another home that are under way when t sets the fields.
Disturbs(t) == \E u \in Running \ {t} : Home(u) # Home(t)

\* Mutant of Setup: for an agent the conversation of the last ingestion is kept.
SetupKeepsStray(t) ==
    /\ At(t, "setup")
    /\ IF job[t].chat = None
       THEN hole' = [hole EXCEPT !.cat = job[t].agent] /\ Goto(t, "start")
       ELSE hole' = [hole EXCEPT !.stray = job[t].chat] /\ Goto(t, "wire")
    /\ UNCHANGED <<free, files, points, beats, embedder, built, pass, mixed, counters>>

\* An agent is wired at once; for a conversation its agent is loaded first.
Setup(t) ==
    /\ At(t, "setup")
    /\ IF job[t].chat = None
       THEN hole' = [cat |-> job[t].agent, stray |-> None] /\ Goto(t, "start")
       ELSE hole' = [hole EXCEPT !.stray = job[t].chat] /\ Goto(t, "wire")
    /\ mixed' = (mixed \/ Disturbs(t))
    /\ UNCHANGED <<free, files, points, beats, embedder, built, pass, counters>>

Wire(t) ==
    /\ At(t, "wire")
    /\ hole' = [hole EXCEPT !.cat = job[t].agent]
    /\ Goto(t, "start")
    /\ UNCHANGED <<free, files, points, beats, embedder, built, pass, mixed, counters>>

\* The start hook runs before the semaphore is waited for.
Enter(t) ==
    /\ At(t, "start")
    /\ MaxConcurrency > 0 => free > 0
    /\ free' = IF MaxConcurrency > 0 THEN free - 1 ELSE free
    /\ Goto(t, "resolve")
    /\ UNCHANGED <<hole, files, points, beats, embedder, built, pass, mixed, counters>>

Fault == faults < MaxFaults /\ faults' = faults + 1

\* A URL is downloaded, between two hooks; a failure raises.
Resolve(t) ==
    /\ At(t, "resolve")
    /\ \/ Goto(t, "save") /\ UNCHANGED faults
       \/ job[t].source \in Urls /\ Fault /\ Goto(t, "leave")
    /\ UNCHANGED <<hole, free, files, points, beats, embedder, built, pass, mixed,
                   uploads, changes>>

\* The file is stored first; a failure to store it is logged only.
Save(t) ==
    /\ At(t, "save")
    /\ IF job[t].store /\ job[t].source \notin Urls
       THEN \/ /\ files' = files \union {<<hole.cat, hole.stray, job[t].source>>}
               /\ UNCHANGED faults
            \/ Fault /\ UNCHANGED files
       ELSE UNCHANGED <<files, faults>>
    /\ Goto(t, "beat")
    /\ UNCHANGED <<hole, free, points, beats, embedder, built, pass, mixed,
                   uploads, changes>>

Beat(t) ==
    /\ At(t, "beat")
    /\ beats' = beats \union {<<hole.cat, hole.stray, job[t].source>>}
    /\ Goto(t, "parse")
    /\ UNCHANGED <<hole, free, files, points, embedder, built, pass, mixed, counters>>

\* Parsing and splitting; no chunks is an error too.
Parse(t) ==
    /\ At(t, "parse")
    /\ \/ Goto(t, "tag") /\ UNCHANGED faults
       \/ Fault /\ Goto(t, "leave")
    /\ UNCHANGED <<hole, free, files, points, beats, embedder, built, pass, mixed,
                   uploads, changes>>

\* Every chunk is tagged with the conversation, else with that of its metadata.
Tag(t) ==
    /\ At(t, "tag")
    /\ job' = [job EXCEPT ![t].pc = "add", ![t].by = embedder,
                          ![t].tag = IF hole.stray # None THEN hole.stray
                                     ELSE IF job[t].store THEN None ELSE job[t].chat]
    /\ UNCHANGED <<hole, free, files, points, beats, embedder, built, pass, mixed,
                   counters>>

\* After the embedding the collection and the tenant are read again; vectors of
\* another size are refused.
Add(t) ==
    /\ At(t, "add")
    /\ LET coll == CollectionOf(hole.stray) IN
       IF Size[built[coll]] = Size[job[t].by]
       THEN points' = points \union
              {[coll |-> coll, agent |-> hole.cat, chat |-> job[t].tag,
                source |-> job[t].source, by |-> job[t].by, home |-> Home(t)]}
       ELSE UNCHANGED points
    /\ Goto(t, "leave")
    /\ UNCHANGED <<hole, free, files, beats, embedder, built, pass, mixed, counters>>

\* Mutant of Leave: a failed ingestion keeps its permit.
LeaveOnSuccess(t) ==
    /\ At(t, "leave")
    /\ free' = IF MaxConcurrency > 0 /\ job[t].by # None THEN free + 1 ELSE free
    /\ Goto(t, "stop")
    /\ UNCHANGED <<hole, files, points, beats, embedder, built, pass, mixed, counters>>

\* The permit is given back on every path.
Leave(t) ==
    /\ At(t, "leave")
    /\ free' = IF MaxConcurrency > 0 THEN free + 1 ELSE free
    /\ Goto(t, "stop")
    /\ UNCHANGED <<hole, files, points, beats, embedder, built, pass, mixed, counters>>

\* Mutant of Stop: the heartbeat of a source of the pass is not stopped.
StopUploads(t) ==
    /\ At(t, "stop")
    /\ beats' = IF t \in Uploads THEN beats \ {<<hole.cat, hole.stray, job[t].source>>}
                ELSE beats
    /\ job' = [job EXCEPT ![t] = IF t \in Uploads THEN NoJob
                                 ELSE [NoJob EXCEPT !.pc = "next"]]
    /\ UNCHANGED <<hole, free, files, points, embedder, built, pass, mixed, counters>>

\* In the end the heartbeat is stopped, and what observes the points is called.
Stop(t) ==
    /\ At(t, "stop")
    /\ beats' = beats \ {<<hole.cat, hole.stray, job[t].source>>}
    /\ job' = [job EXCEPT ![t] = IF t \in Uploads THEN NoJob
                                 ELSE [NoJob EXCEPT !.pc = "next"]]
    /\ UNCHANGED <<hole, free, files, points, embedder, built, pass, mixed, counters>>

-----------------------------------------------------------------------------
(* The re-embed pass. *)

NoPass == [pc |-> "idle", lists |-> {}, found |-> {}, todo |-> {}]

ChangeEmbedder(e) ==
    /\ changes < MaxChanges
    /\ pass.pc = "idle"
    /\ e # embedder
    /\ changes' = changes + 1
    /\ embedder' = e
    /\ pass' = [NoPass EXCEPT !.pc = "list", !.lists = PassTasks]
    /\ UNCHANGED <<hole, job, free, files, points, beats, built, mixed, uploads, faults>>

\* The sources of an agent are those of its points; a file must still be there.
Readable(a, c) ==
    {[agent |-> a, coll |-> c, chat |-> p.chat, source |-> p.source] :
        p \in {q \in points : /\ q.coll = c /\ q.agent = a
                              /\ q.source \in Urls \/ <<a, q.chat, q.source>> \in files}}
ListSources(a, c) ==
    /\ pass.pc = "list"
    /\ <<a, c>> \in pass.lists
    /\ pass' = [pass EXCEPT !.lists = @ \ {<<a, c>>},
                            !.found = @ \union Readable(a, c),
                            !.pc = IF pass.lists = {<<a, c>>} THEN "initialize" ELSE @]
    /\ UNCHANGED <<hole, job, free, files, points, beats, embedder, built, mixed, counters>>

\* The collections are shared by the agents: one of another embedder is dropped.
Initialize(c) ==
    /\ pass.pc = "initialize"
    /\ built[c] # embedder
    /\ built' = [built EXCEPT ![c] = embedder]
    /\ points' = {p \in points : p.coll # c}
    /\ UNCHANGED <<hole, job, free, files, beats, embedder, pass, mixed, counters>>

\* One task per agent and collection that has sources, all at once.
Launch ==
    /\ pass.pc = "initialize"
    /\ \A c \in Collections : built[c] = embedder
    /\ pass' = [pass EXCEPT !.pc = "embed", !.todo = pass.found]
    /\ job' = [t \in Tasks |->
                 IF t \in PassTasks /\ \E f \in pass.found : <<f.agent, f.coll>> = t
                 THEN [NoJob EXCEPT !.pc = "clear"] ELSE job[t]]
    /\ UNCHANGED <<hole, free, files, points, beats, embedder, built, mixed, counters>>

\* Mutant of Clear: the points of the conversation collection are cleared for
\* all agents.
ClearAll(t) ==
    /\ At(t, "clear")
    /\ points' = {p \in points : p.coll # t[2]}
    /\ Goto(t, "next")
    /\ UNCHANGED <<hole, free, files, beats, embedder, built, pass, mixed, counters>>

Clear(t) ==
    /\ At(t, "clear")
    /\ points' = {p \in points : <<p.agent, p.coll>> # t}
    /\ Goto(t, "next")
    /\ UNCHANGED <<hole, free, files, beats, embedder, built, pass, mixed, counters>>

\* The sources of a task are ingested one after the other, nothing is stored.
NextSource(t) ==
    /\ At(t, "next")
    /\ \/ \E f \in pass.todo :
            /\ <<f.agent, f.coll>> = t
            /\ pass' = [pass EXCEPT !.todo = @ \ {f}]
            /\ job' = [job EXCEPT ![t] = [NoJob EXCEPT !.agent = f.agent, !.chat = f.chat,
                                                       !.source = f.source, !.pc = "setup"]]
       \/ /\ \A f \in pass.todo : <<f.agent, f.coll>> # t
          /\ job' = [job EXCEPT ![t] = NoJob]
          /\ UNCHANGED pass
    /\ UNCHANGED <<hole, free, files, points, beats, embedder, built, mixed, counters>>

EndPass ==
    /\ pass.pc = "embed"
    /\ \A t \in PassTasks : Idle(t)
    /\ pass' = [pass EXCEPT !.pc = "done"]
    /\ UNCHANGED <<hole, job, free, files, points, beats, embedder, built, mixed, counters>>

ForgetPass ==
    /\ pass.pc = "done"
    /\ pass' = NoPass
    /\ UNCHANGED <<hole, job, free, files, points, beats, embedder, built, mixed, counters>>

-----------------------------------------------------------------------------
Step(t) ==
    \/ Setup(t) \/ Wire(t) \/ Enter(t) \/ Resolve(t) \/ Save(t) \/ Beat(t) \/ Parse(t)
    \/ Tag(t) \/ Add(t) \/ Leave(t) \/ Stop(t) \/ Clear(t) \/ NextSource(t)

PassStep ==
    \/ \E a \in Agents, c \in Collections : ListSources(a, c)
    \/ \E c \in Collections : Initialize(c)
    \/ Launch \/ EndPass \/ ForgetPass

Init ==
    /\ hole = [cat |-> None, stray |-> None]
    /\ job = [t \in Tasks |-> NoJob]
    /\ free = MaxConcurrency
    /\ files = {} /\ points = {} /\ beats = {}
    /\ embedder \in Embedders
    /\ built = [c \in Collections |-> embedder]
    /\ pass = NoPass
    /\ mixed = FALSE
    /\ uploads = 0 /\ changes = 0 /\ faults = 0

Next ==
    \/ \E t \in Tasks : Step(t)
    \/ PassStep
    \/ \E u \in Uploads, a \in Agents, c \in Chats \union {None}, s \in Sources :
          UploadFile(u, a, c, s) \/ UploadUrl(u, a, c, s)
    \/ \E e \in Embedders : ChangeEmbedder(e)

Spec == Init /\ [][Next]_vars

\* The event loop keeps running while a task can run.
FairSpec ==
    /\ Spec
    /\ WF_vars(PassStep)
    /\ WF_vars(\E t \in Tasks : Step(t))

-----------------------------------------------------------------------------
(* Properties. *)

\* The shapes of the variables.
TypeOK ==
    /\ hole \in [cat : Agents \union {None}, stray : Chats \union {None}]
    /\ \A t \in Tasks : job[t].source \in Sources \union {None} /\ job[t].store \in BOOLEAN
    /\ free \in 0..MaxConcurrency
    /\ files \subseteq Agents \X (Chats \union {None}) \X Sources
    /\ built \in [Collections -> Embedders]
    /\ mixed \in BOOLEAN

AtHome(p) ==
    /\ <<p.agent, p.chat>> = p.home
    /\ p.coll = CollectionOf(p.chat)

\* Every chunk is stored for the agent and the conversation it was uploaded to,
\* unless two ingestions for different ones overlapped in the process.
GoesHome == ~mixed => \A p \in points : AtHome(p)

\* The permits in use are those of the ingestions in the body, whatever fails.
PermitsMatch == MaxConcurrency > 0 => free + Cardinality(Body) = MaxConcurrency

\* A pass brings back every source it has found, of every agent, with vectors of
\* the new embedder, unless ingestions overlapped or failed.
Restored(f) ==
    \E p \in points : /\ p.agent = f.agent /\ p.coll = f.coll
                      /\ p.chat = f.chat /\ p.source = f.source
                      /\ p.by = embedder
PassRestores ==
    pass.pc = "done" /\ ~mixed /\ faults = 0 => \A f \in pass.found : Restored(f)

\* The same, without the exception for overlapping ingestions.
ReembedsAll == pass.pc = "done" /\ faults = 0 => \A f \in pass.found : Restored(f)

\* Heartbeats stop with their ingestions, unless those overlapped.
BeatsStop ==
    ~mixed /\ (\A t \in Tasks : Idle(t)) => beats = {}

\* Every ingestion ends, though it may wait for a permit, and with the uploads
\* bounded the process comes to rest: no permit is lost, no pass hangs.
ComesToRest == <>[](pass.pc = "idle" /\ \A t \in Tasks : Idle(t))
=============================================================================
