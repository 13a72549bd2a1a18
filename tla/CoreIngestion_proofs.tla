------------------------- MODULE CoreIngestion_proofs -------------------------
(***************************************************************************)
(* The core ingestion engine for any agents, conversations, sources and    *)
(* permits: where chunks go, what a pass brings back, when heartbeats stop,*)
(* and that no permit is lost.                                             *)
(***************************************************************************)
EXTENDS CoreIngestion, FiniteSetTheorems, TLAPS

-----------------------------------------------------------------------------
(* The shapes of the variables. *)

InBody == {"resolve", "save", "beat", "parse", "tag", "add", "leave"}
\* The places of an ingestion that has set the fields of the RabbitHole.
Wired == InBody \union {"start", "stop"}
Pcs == Wired \union {"idle", "clear", "next", "setup", "wire"}

Job == [agent : Agents \union {None}, chat : Chats \union {None},
        source : Sources \union {None}, store : BOOLEAN, pc : Pcs,
        tag : Chats \union {None}, by : Embedders \union {None}]
Point == [coll : Collections, agent : Agents \union {None}, chat : Chats \union {None},
          source : Sources \union {None}, by : Embedders \union {None},
          home : (Agents \union {None}) \X (Chats \union {None})]
Found == [agent : Agents, coll : Collections, chat : Chats \union {None},
          source : Sources \union {None}]
Pass == [pc : {"idle", "list", "initialize", "embed", "done"}, lists : SUBSET PassTasks,
         found : SUBSET Found, todo : SUBSET Found]

Typed ==
    /\ hole \in [cat : Agents \union {None}, stray : Chats \union {None}]
    /\ job \in [Tasks -> Job]
    /\ free \in Nat
    /\ points \subseteq Point
    /\ embedder \in Embedders
    /\ pass \in Pass
    /\ mixed \in BOOLEAN

LEMMA NoJobTyped == NoJob \in Job /\ NoJob.pc = "idle"
  BY DEF NoJob, Job, Pcs

LEMMA NoPassTyped == NoPass \in Pass /\ NoPass.pc = "idle"
  BY DEF NoPass, Pass

\* What Goto does to the job of a task.
LEMMA Moved ==
  ASSUME Typed, NEW t \in Tasks, NEW pc \in Pcs, Goto(t, pc)
  PROVE  /\ job' \in [Tasks -> Job]
         /\ job'[t] = [job[t] EXCEPT !.pc = pc]
         /\ job'[t].pc = pc /\ job'[t].tag = job[t].tag
         /\ job'[t].agent = job[t].agent /\ job'[t].chat = job[t].chat
         /\ job'[t].source = job[t].source
         /\ \A u \in Tasks \ {t} : job'[u] = job[u]
  BY DEF Typed, Goto, Job

\* What another assignment does to it.
LEMMA Assigned ==
  ASSUME Typed, NEW t \in Tasks, NEW j \in Job, job' = [job EXCEPT ![t] = j]
  PROVE  /\ job' \in [Tasks -> Job]
         /\ job'[t] = j
         /\ \A u \in Tasks \ {t} : job'[u] = job[u]
  BY DEF Typed

LEMMA Places == {"idle", "clear", "next", "setup", "wire", "start", "resolve", "save", "beat",
                 "parse", "tag", "add", "leave", "stop"} \subseteq Pcs
  BY DEF Pcs, Wired, InBody

-----------------------------------------------------------------------------
(* The steps of a task. *)

\* A step of a task changes its job only, and of the pass only what is to do.
OwnStep(t) ==
    /\ job' \in [Tasks -> Job]
    /\ \A u \in Tasks \ {t} : job'[u] = job[u]
    /\ job[t].pc # "idle"
    /\ pass' \in Pass /\ pass'.pc = pass.pc

LEMMA StopOwn ==
  ASSUME Typed, NEW t \in Tasks, Stop(t)
  PROVE  OwnStep(t) /\ job'[t].pc \in {"idle", "next"}
  <1> DEFINE j == IF t \in Uploads THEN NoJob ELSE [NoJob EXCEPT !.pc = "next"]
  <1>1. j \in Job /\ j.pc \in {"idle", "next"}
    BY NoJobTyped DEF Job, Pcs
  <1>2. job' = [job EXCEPT ![t] = j] /\ UNCHANGED pass /\ job[t].pc = "stop"
    BY DEF Stop, At
  <1> HIDE DEF j
  <1>3. QED BY <1>1, <1>2, Assigned DEF OwnStep, Typed

LEMMA NextOwn ==
  ASSUME Typed, NEW t \in Tasks, NextSource(t)
  PROVE  OwnStep(t) /\ job'[t].pc \in {"idle", "setup"}
  <1>1. job[t].pc = "next"
    BY DEF NextSource, At
  <1>2. CASE job' = [job EXCEPT ![t] = NoJob] /\ UNCHANGED pass
    BY <1>1, <1>2, NoJobTyped, Assigned DEF OwnStep, Typed
  <1>3. ASSUME NEW f \in pass.todo,
               pass' = [pass EXCEPT !.todo = @ \ {f}],
               job' = [job EXCEPT ![t] = [NoJob EXCEPT !.agent = f.agent, !.chat = f.chat,
                                                       !.source = f.source, !.pc = "setup"]]
        PROVE  OwnStep(t) /\ job'[t].pc \in {"idle", "setup"}
    <2> DEFINE j == [NoJob EXCEPT !.agent = f.agent, !.chat = f.chat,
                                  !.source = f.source, !.pc = "setup"]
    <2>1. f \in Found
      BY DEF Typed, Pass
    <2>2. j \in Job /\ j.pc = "setup"
      BY <2>1 DEF NoJob, Job, Pcs, Found
    <2>3. pass' \in Pass /\ pass'.pc = pass.pc
      BY <1>3 DEF Typed, Pass
    <2>4. job' = [job EXCEPT ![t] = j]
      BY <1>3
    <2> HIDE DEF j
    <2>5. QED BY <1>1, <2>2, <2>3, <2>4, Assigned DEF OwnStep
  <1>4. QED BY <1>2, <1>3 DEF NextSource

LEMMA TagOwn ==
  ASSUME Typed, NEW t \in Tasks, Tag(t)
  PROVE  /\ OwnStep(t)
         /\ job'[t].pc = "add" /\ job'[t].agent = job[t].agent
         /\ job'[t].chat = job[t].chat /\ job'[t].source = job[t].source
         /\ job'[t].by = embedder
         /\ job'[t].tag = IF hole.stray # None THEN hole.stray
                          ELSE IF job[t].store THEN None ELSE job[t].chat
  <1> DEFINE tag == IF hole.stray # None THEN hole.stray
                    ELSE IF job[t].store THEN None ELSE job[t].chat
             j == [job[t] EXCEPT !.pc = "add", !.by = embedder, !.tag = tag]
  <1>1. job[t] \in Job /\ tag \in Chats \union {None}
    BY DEF Typed, Job
  <1>2. UNCHANGED pass /\ job[t].pc = "tag"
    BY DEF Tag, At
  <1>3. job' = [job EXCEPT ![t] = j]
    BY DEF Tag, Typed
  <1> HIDE DEF tag
  <1>4. /\ j \in Job /\ j.pc = "add" /\ j.agent = job[t].agent
        /\ j.chat = job[t].chat /\ j.source = job[t].source /\ j.tag = tag
        /\ j.by = embedder
    BY <1>1, Places DEF Typed, Job
  <1> HIDE DEF j
  <1>5. OwnStep(t) /\ job'[t] = j
    BY <1>2, <1>3, <1>4, Assigned DEF OwnStep, Typed
  <1>6. QED BY <1>4, <1>5 DEF tag

\* The other steps of a task go from one place to another.
Moves(t, from, to) ==
    /\ job[t].pc = from /\ job'[t].pc = to
    /\ job'[t].agent = job[t].agent /\ job'[t].chat = job[t].chat
    /\ job'[t].source = job[t].source /\ job'[t].tag = job[t].tag

LEMMA MovedOwn ==
  ASSUME Typed, NEW t \in Tasks, NEW from, At(t, from), from # "idle",
         NEW to \in Pcs, Goto(t, to), UNCHANGED pass
  PROVE  OwnStep(t) /\ Moves(t, from, to)
  BY Moved DEF At, OwnStep, Moves, Typed

LEMMA SetupOwn ==
  ASSUME Typed, NEW t \in Tasks, Setup(t)
  PROVE  OwnStep(t) /\ Moves(t, "setup", IF job[t].chat = None THEN "start" ELSE "wire")
  BY MovedOwn, Places DEF Setup

LEMMA WireOwn ==
  ASSUME Typed, NEW t \in Tasks, Wire(t)
  PROVE  OwnStep(t) /\ Moves(t, "wire", "start")
  BY MovedOwn, Places DEF Wire

LEMMA EnterOwn ==
  ASSUME Typed, NEW t \in Tasks, Enter(t)
  PROVE  OwnStep(t) /\ Moves(t, "start", "resolve")
  BY MovedOwn, Places DEF Enter

LEMMA ResolveOwn ==
  ASSUME Typed, NEW t \in Tasks, Resolve(t)
  PROVE  OwnStep(t) /\ (Moves(t, "resolve", "save") \/ Moves(t, "resolve", "leave"))
  BY MovedOwn, Places DEF Resolve

LEMMA SaveOwn ==
  ASSUME Typed, NEW t \in Tasks, Save(t)
  PROVE  OwnStep(t) /\ Moves(t, "save", "beat")
  BY MovedOwn, Places DEF Save

LEMMA BeatOwn ==
  ASSUME Typed, NEW t \in Tasks, Beat(t)
  PROVE  OwnStep(t) /\ Moves(t, "beat", "parse")
  BY MovedOwn, Places DEF Beat

LEMMA ParseOwn ==
  ASSUME Typed, NEW t \in Tasks, Parse(t)
  PROVE  OwnStep(t) /\ (Moves(t, "parse", "tag") \/ Moves(t, "parse", "leave"))
  BY MovedOwn, Places DEF Parse

LEMMA AddOwn ==
  ASSUME Typed, NEW t \in Tasks, Add(t)
  PROVE  OwnStep(t) /\ Moves(t, "add", "leave")
  BY MovedOwn, Places DEF Add

LEMMA LeaveOwn ==
  ASSUME Typed, NEW t \in Tasks, Leave(t)
  PROVE  OwnStep(t) /\ Moves(t, "leave", "stop")
  BY MovedOwn, Places DEF Leave

LEMMA ClearOwn ==
  ASSUME Typed, NEW t \in Tasks, Clear(t)
  PROVE  OwnStep(t) /\ Moves(t, "clear", "next")
  BY MovedOwn, Places DEF Clear

LEMMA StepOwn ==
  ASSUME Typed, NEW t \in Tasks, Step(t)
  PROVE  OwnStep(t)
  BY SetupOwn, WireOwn, EnterOwn, ResolveOwn, SaveOwn, BeatOwn, ParseOwn, TagOwn, AddOwn,
     LeaveOwn, StopOwn, ClearOwn, NextOwn DEF Step

-----------------------------------------------------------------------------
(* The steps of the pass, and uploads. *)

\* The other steps either leave the jobs alone, or hand one to an idle upload, or
\* launch the tasks of the pass.
LEMMA UploadShape ==
  ASSUME Typed, NEW u \in Uploads, NEW a \in Agents, NEW c \in Chats \union {None},
         NEW s \in Sources, UploadFile(u, a, c, s) \/ UploadUrl(u, a, c, s)
  PROVE  /\ job' \in [Tasks -> Job] /\ job[u].pc = "idle" /\ job'[u].pc = "setup"
         /\ \A t \in Tasks \ {u} : job'[t] = job[t]
         /\ UNCHANGED <<hole, free, points, beats, embedder, pass, mixed>>
  <1> DEFINE j == [NoJob EXCEPT !.agent = a, !.chat = c, !.source = s,
                                !.store = TRUE, !.pc = "setup"]
  <1>1. u \in Tasks
    BY DEF Tasks
  <1>2. j \in Job /\ j.pc = "setup"
    BY DEF NoJob, Job, Pcs
  <1>3. job' = [job EXCEPT ![u] = j]
    BY DEF UploadFile, UploadUrl, Ingests
  <1>4. job[u].pc = "idle" /\ UNCHANGED <<hole, free, points, beats, embedder, pass, mixed>>
    BY DEF UploadFile, UploadUrl, Idle
  <1> HIDE DEF j
  <1>5. QED BY <1>1, <1>2, <1>3, <1>4, Assigned

LEMMA PassShape ==
  ASSUME Typed, PassStep \/ \E e \in Embedders : ChangeEmbedder(e)
  PROVE  /\ pass' \in Pass
         /\ embedder' \in Embedders
         /\ points' \subseteq points
         /\ UNCHANGED <<hole, free, beats, mixed>>
  <1>1. ASSUME NEW a \in Agents, NEW c \in Collections, ListSources(a, c)
        PROVE  pass' \in Pass /\ UNCHANGED <<hole, free, points, beats, embedder, mixed>>
    <2>1. ASSUME NEW p \in points
          PROVE  [agent |-> a, coll |-> c, chat |-> p.chat, source |-> p.source] \in Found
      <3>1. p.chat \in Chats \union {None} /\ p.source \in Sources \union {None}
        BY DEF Typed, Point
      <3>2. QED BY <3>1 DEF Found
    <2>2. Readable(a, c) \subseteq Found
      BY <2>1 DEF Readable
    <2>3. QED BY <1>1, <2>2 DEF ListSources, Typed, Pass
  <1>2. ASSUME NEW c \in Collections, Initialize(c)
        PROVE  pass' \in Pass /\ points' \subseteq points
                 /\ UNCHANGED <<hole, free, beats, embedder, mixed>>
    BY <1>2 DEF Initialize, Typed
  <1>3. CASE Launch
    BY <1>3 DEF Launch, Typed, Pass
  <1>4. CASE EndPass
    BY <1>4 DEF EndPass, Typed, Pass
  <1>5. CASE ForgetPass
    BY <1>5, NoPassTyped DEF ForgetPass, Typed
  <1>6. ASSUME NEW e \in Embedders, ChangeEmbedder(e)
        PROVE  pass' \in Pass /\ embedder' \in Embedders
                 /\ UNCHANGED <<hole, free, points, beats, mixed>>
    BY <1>6 DEF ChangeEmbedder, NoPass, Pass
  <1>7. QED BY <1>1, <1>2, <1>3, <1>4, <1>5, <1>6 DEF PassStep, Typed

LEMMA LaunchShape ==
  ASSUME Typed, Launch
  PROVE  /\ job' \in [Tasks -> Job]
         /\ \A t \in Tasks : job'[t] = job[t] \/ (t \in PassTasks /\ job'[t].pc = "clear")
  <1> DEFINE j == [NoJob EXCEPT !.pc = "clear"]
             L == {t \in PassTasks : \E f \in pass.found : <<f.agent, f.coll>> = t}
  <1>1. j \in Job /\ j.pc = "clear"
    BY DEF NoJob, Job, Pcs
  <1>2. job' = [t \in Tasks |-> IF t \in L THEN j ELSE job[t]]
    BY DEF Launch
  <1>3. L \subseteq PassTasks
    OBVIOUS
  <1> HIDE DEF j, L
  <1>4. QED BY <1>1, <1>2, <1>3 DEF Typed

\* The other steps of the pass do not touch the jobs.
LEMMA PassLeavesJobs ==
  ASSUME PassStep \/ \E e \in Embedders : ChangeEmbedder(e), ~Launch
  PROVE  job' = job
  BY DEF PassStep, ListSources, Initialize, EndPass, ForgetPass, ChangeEmbedder

-----------------------------------------------------------------------------
(* Type correctness. *)

LEMMA StepTyped ==
  ASSUME Typed, NEW t \in Tasks, Step(t)
  PROVE  Typed'
  <1>1. job' \in [Tasks -> Job] /\ pass' \in Pass
    BY StepOwn DEF OwnStep
  <1>2. job[t] \in Job
    BY DEF Typed
  <1>3. hole' \in [cat : Agents \union {None}, stray : Chats \union {None}]
    <2>1. job[t].agent \in Agents \union {None} /\ job[t].chat \in Chats \union {None}
      BY <1>2 DEF Job
    <2>2. CASE Setup(t)
      BY <2>1, <2>2 DEF Setup, Typed
    <2>3. CASE Wire(t)
      BY <2>1, <2>3 DEF Wire, Typed
    <2>4. CASE UNCHANGED hole
      BY <2>4 DEF Typed
    <2>5. Setup(t) \/ Wire(t) \/ UNCHANGED hole
      BY DEF Step, Enter, Resolve, Save, Beat, Parse, Tag, Add, Leave, Stop, Clear, NextSource
    <2>6. QED BY <2>2, <2>3, <2>4, <2>5
  <1>4. free' \in Nat
    <2>1. CASE Enter(t)
      BY <2>1, IngestAssumption DEF Enter, Typed
    <2>2. CASE Leave(t)
      BY <2>2 DEF Leave, Typed
    <2>3. CASE UNCHANGED free
      BY <2>3 DEF Typed
    <2>4. Enter(t) \/ Leave(t) \/ UNCHANGED free
      BY DEF Step, Setup, Wire, Resolve, Save, Beat, Parse, Tag, Add, Stop, Clear, NextSource
    <2>5. QED BY <2>1, <2>2, <2>3, <2>4
  <1>5. points' \subseteq Point
    <2>1. CASE Add(t)
      <3>1. Home(t) \in (Agents \union {None}) \X (Chats \union {None})
        BY <1>2 DEF Home, Job
      <3>2. CollectionOf(hole.stray) \in Collections
        BY DEF CollectionOf, Collections
      <3>3. [coll |-> CollectionOf(hole.stray), agent |-> hole.cat, chat |-> job[t].tag,
             source |-> job[t].source, by |-> job[t].by, home |-> Home(t)] \in Point
        BY <1>2, <3>1, <3>2 DEF Typed, Job, Point
      <3>4. QED BY <2>1, <3>3 DEF Add, Typed
    <2>2. CASE ~Add(t)
      BY <2>2 DEF Step, Setup, Wire, Enter, Resolve, Save, Beat, Parse, Tag, Leave, Stop,
                  Clear, NextSource, Typed
    <2>3. QED BY <2>1, <2>2
  <1>6. embedder' = embedder /\ mixed' \in BOOLEAN
    BY DEF Step, Setup, Wire, Enter, Resolve, Save, Beat, Parse, Tag, Add, Leave, Stop,
           Clear, NextSource, Typed
  <1>7. QED BY <1>1, <1>3, <1>4, <1>5, <1>6 DEF Typed

LEMMA NextTyped ==
  ASSUME Typed, [Next]_vars
  PROVE  Typed'
  <1>1. CASE UNCHANGED vars
    BY <1>1 DEF vars, Typed
  <1>2. ASSUME NEW u \in Uploads, NEW a \in Agents, NEW c \in Chats \union {None},
               NEW s \in Sources, UploadFile(u, a, c, s) \/ UploadUrl(u, a, c, s)
        PROVE  Typed'
    BY <1>2, UploadShape DEF Typed
  <1>3. ASSUME PassStep \/ \E e \in Embedders : ChangeEmbedder(e) PROVE Typed'
    <2>1. job' \in [Tasks -> Job]
      BY <1>3, LaunchShape, PassLeavesJobs DEF Typed
    <2>2. QED BY <1>3, <2>1, PassShape DEF Typed
  <1>4. QED BY <1>1, <1>2, <1>3, StepTyped DEF Next

LEMMA InitTyped == Init => Typed
  <1> SUFFICES ASSUME Init PROVE Typed
    OBVIOUS
  <1>1. hole \in [cat : Agents \union {None}, stray : Chats \union {None}]
    BY DEF Init
  <1>2. job \in [Tasks -> Job] /\ pass \in Pass
    BY NoJobTyped, NoPassTyped DEF Init
  <1>3. free \in Nat /\ points \subseteq Point /\ embedder \in Embedders /\ mixed \in BOOLEAN
    BY IngestAssumption DEF Init
  <1>4. QED BY <1>1, <1>2, <1>3 DEF Typed

-----------------------------------------------------------------------------
(* The tasks of the pass run while it embeds only. *)

Quiet == pass.pc # "embed" => \A t \in PassTasks : job[t].pc = "idle"

LEMMA QuietNext ==
  ASSUME Typed, Quiet, [Next]_vars
  PROVE  Quiet'
  <1>1. CASE UNCHANGED vars
    BY <1>1 DEF vars, Quiet
  <1>2. ASSUME NEW t \in Tasks, Step(t) PROVE Quiet'
    <2>1. OwnStep(t)
      BY <1>2, StepOwn
    <2>2. CASE t \in PassTasks
      BY <2>1, <2>2 DEF OwnStep, Quiet
    <2>3. CASE t \notin PassTasks
      BY <2>1, <2>3 DEF OwnStep, Quiet, Tasks
    <2>4. QED BY <2>2, <2>3
  <1>3. ASSUME NEW u \in Uploads, NEW a \in Agents, NEW c \in Chats \union {None},
               NEW s \in Sources, UploadFile(u, a, c, s) \/ UploadUrl(u, a, c, s)
        PROVE  Quiet'
    BY <1>3, UploadShape, TasksAssumption DEF Quiet, Tasks
  <1>4. CASE Launch
    BY <1>4 DEF Launch, Quiet, Typed, Pass
  <1>5. CASE (PassStep \/ \E e \in Embedders : ChangeEmbedder(e)) /\ ~Launch
    <2>1. job' = job
      BY <1>5, PassLeavesJobs
    <2>2. pass'.pc # "embed" /\ pass.pc = "embed" => \A t \in PassTasks : job[t].pc = "idle"
      BY <1>5 DEF PassStep, ListSources, Initialize, EndPass, ForgetPass, ChangeEmbedder, Idle
    <2>3. QED BY <2>1, <2>2 DEF Quiet
  <1>6. QED BY <1>1, <1>2, <1>3, <1>4, <1>5 DEF Next

LEMMA QuietInit == Init => Quiet
  BY NoJobTyped, NoPassTyped DEF Init, Quiet, Tasks

\* A launch finds the tasks of the pass idle.
LEMMA LaunchQuiet ==
  ASSUME Typed, Quiet, Launch
  PROVE  \A t \in Tasks : job'[t] = job[t] \/ (job[t].pc = "idle" /\ job'[t].pc = "clear")
  <1>1. \A t \in PassTasks : job[t].pc = "idle"
    BY DEF Launch, Quiet
  <1>2. QED BY <1>1, LaunchShape

-----------------------------------------------------------------------------
(* Permits. *)

LEMMA TasksFinite == IsFiniteSet(Tasks)
  <1>1. IsFiniteSet(Collections)
    <2>1. IsFiniteSet({"declarative"}) /\ IsFiniteSet({"episodic"})
      BY FS_Singleton
    <2>2. Collections = {"declarative"} \union {"episodic"}
      BY DEF Collections
    <2>3. QED BY <2>1, <2>2, FS_Union
  <1>2. IsFiniteSet(Agents \X Collections)
    BY <1>1, FS_Product, TasksAssumption
  <1>3. QED BY <1>2, FS_Union, TasksAssumption DEF Tasks, PassTasks

LEMMA BodyFinite == IsFiniteSet(Body)
  BY TasksFinite, FS_Subset DEF Body

\* A task enters or leaves the body, or the body stays.
LEMMA BodyGrows ==
  ASSUME Typed, NEW t \in Tasks, OwnStep(t), Moves(t, "start", "resolve")
  PROVE  Cardinality(Body') = Cardinality(Body) + 1
  <1>1. t \notin Body /\ Body' = Body \union {t}
    BY DEF OwnStep, Moves, Body
  <1>2. QED BY <1>1, BodyFinite, FS_AddElement

LEMMA BodyShrinks ==
  ASSUME Typed, NEW t \in Tasks, OwnStep(t), Moves(t, "leave", "stop")
  PROVE  Cardinality(Body) \in Nat \ {0} /\ Cardinality(Body') = Cardinality(Body) - 1
  <1>1. t \in Body /\ Body' = Body \ {t}
    BY DEF OwnStep, Moves, Body
  <1>2. QED BY <1>1, BodyFinite, FS_RemoveElement, FS_CardinalityType, FS_EmptySet

LEMMA BodyStays ==
  ASSUME \A t \in Tasks : job'[t].pc \in InBody <=> job[t].pc \in InBody
  PROVE  Body' = Body
  BY DEF Body, InBody

LEMMA PermitsNext ==
  ASSUME Typed, Quiet, PermitsMatch, [Next]_vars
  PROVE  PermitsMatch'
  <1> USE IngestAssumption
  <1>1. Cardinality(Body) \in Nat /\ free \in Nat
    BY BodyFinite, FS_CardinalityType DEF Typed
  <1>2. ASSUME UNCHANGED free,
               \A t \in Tasks : job'[t].pc \in InBody <=> job[t].pc \in InBody
        PROVE  PermitsMatch'
    BY <1>2, BodyStays DEF PermitsMatch
  <1>3. CASE UNCHANGED vars
    BY <1>2, <1>3 DEF vars
  <1>4. ASSUME NEW t \in Tasks, Step(t) PROVE PermitsMatch'
    <2>1. CASE Enter(t)
      <3>1. MaxConcurrency > 0 => free' = free - 1
        BY <2>1 DEF Enter
      <3>2. Cardinality(Body') = Cardinality(Body) + 1
        BY <2>1, EnterOwn, BodyGrows
      <3>3. QED BY <1>1, <3>1, <3>2 DEF PermitsMatch
    <2>2. CASE Leave(t)
      <3>1. MaxConcurrency > 0 => free' = free + 1
        BY <2>2 DEF Leave
      <3>2. Cardinality(Body') = Cardinality(Body) - 1
        BY <2>2, LeaveOwn, BodyShrinks
      <3>3. QED BY <1>1, <3>1, <3>2 DEF PermitsMatch
    <2>3. CASE ~Enter(t) /\ ~Leave(t)
      <3>1. UNCHANGED free
        BY <1>4, <2>3 DEF Step, Setup, Wire, Resolve, Save, Beat, Parse, Tag, Add, Stop, Clear,
                          NextSource
      <3>2. OwnStep(t)
        BY <1>4, StepOwn
      <3>3. job'[t].pc \in InBody <=> job[t].pc \in InBody
        <4>1. CASE Setup(t) \/ Wire(t) \/ Clear(t)
          BY <4>1, SetupOwn, WireOwn, ClearOwn DEF Moves, InBody
        <4>2. CASE Resolve(t) \/ Save(t) \/ Beat(t) \/ Parse(t) \/ Add(t)
          BY <4>2, ResolveOwn, SaveOwn, BeatOwn, ParseOwn, AddOwn DEF Moves, InBody
        <4>3. CASE Tag(t)
          BY <4>3, TagOwn DEF Tag, At, InBody
        <4>4. CASE Stop(t)
          BY <4>4, StopOwn DEF Stop, At, InBody
        <4>5. CASE NextSource(t)
          BY <4>5, NextOwn DEF NextSource, At, InBody
        <4>6. QED BY <1>4, <2>3, <4>1, <4>2, <4>3, <4>4, <4>5 DEF Step
      <3>4. QED BY <1>2, <3>1, <3>2, <3>3 DEF OwnStep
    <2>4. QED BY <2>1, <2>2, <2>3
  <1>5. ASSUME NEW u \in Uploads, NEW a \in Agents, NEW c \in Chats \union {None},
               NEW s \in Sources, UploadFile(u, a, c, s) \/ UploadUrl(u, a, c, s)
        PROVE  PermitsMatch'
    <2>1. \A t \in Tasks : job'[t].pc \in InBody <=> job[t].pc \in InBody
      BY <1>5, UploadShape DEF InBody
    <2>2. QED BY <1>2, <1>5, <2>1, UploadShape
  <1>6. ASSUME PassStep \/ \E e \in Embedders : ChangeEmbedder(e) PROVE PermitsMatch'
    <2>1. \A t \in Tasks : job'[t].pc \in InBody <=> job[t].pc \in InBody
      BY <1>6, LaunchQuiet, PassLeavesJobs DEF InBody
    <2>2. QED BY <1>2, <1>6, <2>1, PassShape
  <1>7. QED BY <1>3, <1>4, <1>5, <1>6 DEF Next

LEMMA PermitsInit == Init => PermitsMatch
  <1> SUFFICES ASSUME Init PROVE PermitsMatch
    OBVIOUS
  <1>1. Body = {}
    BY NoJobTyped DEF Init, Body
  <1>2. QED BY <1>1, FS_EmptySet, IngestAssumption DEF Init, PermitsMatch

\* The permits in use are those of the ingestions in the body, for any number of
\* tasks and permits and whatever fails: _ingestion_guard gives back on every path.
THEOREM PermitsKept == Spec => []PermitsMatch
  <1>1. Spec => [](Typed /\ Quiet /\ PermitsMatch)
    BY InitTyped, NextTyped, QuietInit, QuietNext, PermitsInit, PermitsNext, PTL DEF Spec
  <1>2. QED BY <1>1, PTL

-----------------------------------------------------------------------------
(* Where chunks go, and when heartbeats stop. *)

\* The places where the heartbeat of an ingestion runs.
Beating == {"parse", "tag", "add", "leave", "stop"}

\* The fields of the RabbitHole are those of every ingestion that has set them, and
\* a batch of chunks is tagged for the conversation it came from.
InPlace(t) ==
    /\ job[t].pc = "wire" => hole.stray = job[t].chat
    /\ job[t].pc \in Wired => hole.cat = job[t].agent /\ hole.stray = job[t].chat
    /\ job[t].pc = "add" => job[t].tag = job[t].chat

OnTheWay(t) == job[t].pc \in Wired \union {"wire"}

\* Ingestions that are under way are for one agent and conversation.
Together ==
    \A t, u \in Tasks : OnTheWay(t) /\ OnTheWay(u) =>
      job[t].agent = job[u].agent /\ job[t].chat = job[u].chat

Beats(t, b) ==
    job[t].pc \in Beating /\ b = <<job[t].agent, job[t].chat, job[t].source>>

HomeInv ==
    ~mixed =>
      /\ Together
      /\ \A t \in Tasks : InPlace(t)
      /\ \A p \in points : AtHome(p)
      /\ \A b \in beats : \E t \in Tasks : Beats(t, b)

LEMMA RunningIs == \A t \in Tasks : Typed => (t \in Running <=> OnTheWay(t))
  BY DEF Running, OnTheWay, Typed, Job, Pcs, Wired, InBody

\* What keeps the invariant when task t moves and the fields stay: t was under way
\* already, and comes to no place the invariant forbids.
LEMMA HomeMoves ==
  ASSUME Typed, HomeInv, ~mixed, NEW t \in Tasks, OwnStep(t), OnTheWay(t), OnTheWay(t)',
         job'[t].agent = job[t].agent, job'[t].chat = job[t].chat,
         hole' = hole, InPlace(t)'
  PROVE  Together' /\ \A u \in Tasks : InPlace(u)'
  <1>1. Together'
    BY DEF HomeInv, Together, OnTheWay, OwnStep
  <1>2. ASSUME NEW u \in Tasks PROVE InPlace(u)'
    <2>1. CASE u = t BY <2>1
    <2>2. CASE u # t
      BY <2>2 DEF HomeInv, InPlace, OwnStep
    <2>3. QED BY <2>1, <2>2
  <1>3. QED BY <1>1, <1>2

\* The same when t ends or is not under way yet.
LEMMA HomeRests ==
  ASSUME Typed, HomeInv, ~mixed, NEW t \in Tasks, ~OnTheWay(t)',
         \A u \in Tasks \ {t} : job'[u] = job[u], hole' = hole
  PROVE  Together' /\ \A u \in Tasks : InPlace(u)'
  <1>1. Together'
    BY DEF HomeInv, Together, OnTheWay
  <1>2. InPlace(t)'
    BY DEF OnTheWay, InPlace, Wired, InBody
  <1>3. \A u \in Tasks \ {t} : InPlace(u)'
    BY DEF HomeInv, InPlace
  <1>4. QED BY <1>1, <1>2, <1>3

\* The fields are set while no ingestion for another agent or conversation is
\* under way.
LEMMA SetupHome ==
  ASSUME Typed, HomeInv, NEW t \in Tasks, Setup(t), ~mixed'
  PROVE  Together' /\ \A u \in Tasks : InPlace(u)'
  <1>1. ~mixed /\ ~Disturbs(t)
    BY DEF Setup
  <1>2. OwnStep(t) /\ Moves(t, "setup", IF job[t].chat = None THEN "start" ELSE "wire")
    BY SetupOwn
  <1>3. \A u \in Tasks \ {t} :
          OnTheWay(u) => job[u].agent = job[t].agent /\ job[u].chat = job[t].chat
    BY <1>1, RunningIs DEF Disturbs, Home
  <1>4. Together'
    BY <1>1, <1>2, <1>3 DEF HomeInv, Together, OnTheWay, OwnStep, Moves
  <1>5. /\ hole'.stray = job[t].chat
        /\ hole'.cat = job[t].agent \/ hole'.cat = hole.cat
        /\ job[t].chat = None => hole'.cat = job[t].agent
    BY DEF Setup, Typed
  <1>6. InPlace(t)'
    BY <1>2, <1>5 DEF InPlace, Moves, Wired, InBody
  <1>7. ASSUME NEW u \in Tasks \ {t} PROVE InPlace(u)'
    <2>1. InPlace(u) /\ job'[u] = job[u]
      BY <1>1, <1>2 DEF HomeInv, OwnStep
    <2>2. OnTheWay(u) => job[u].agent = job[t].agent /\ job[u].chat = job[t].chat
      BY <1>3
    <2>3. QED BY <1>5, <2>1, <2>2 DEF InPlace, OnTheWay
  <1>8. QED BY <1>4, <1>6, <1>7

LEMMA WireHome ==
  ASSUME Typed, HomeInv, NEW t \in Tasks, Wire(t), ~mixed'
  PROVE  Together' /\ \A u \in Tasks : InPlace(u)'
  <1>1. ~mixed
    BY DEF Wire
  <1>2. OwnStep(t) /\ Moves(t, "wire", "start")
    BY WireOwn
  <1>3. OnTheWay(t) /\ InPlace(t) /\ Together
    BY <1>1, <1>2 DEF OnTheWay, Moves, HomeInv
  <1>4. Together'
    BY <1>2, <1>3 DEF Together, OnTheWay, OwnStep, Moves
  <1>5. hole'.stray = hole.stray /\ hole'.cat = job[t].agent
    BY DEF Wire, Typed
  <1>6. InPlace(t)'
    BY <1>2, <1>3, <1>5 DEF InPlace, Moves
  <1>7. ASSUME NEW u \in Tasks \ {t} PROVE InPlace(u)'
    <2>1. InPlace(u) /\ job'[u] = job[u]
      BY <1>1, <1>2 DEF HomeInv, OwnStep
    <2>2. OnTheWay(u) => job[u].agent = job[t].agent /\ job[u].chat = job[t].chat
      BY <1>3 DEF Together
    <2>3. QED BY <1>5, <2>1, <2>2 DEF InPlace, OnTheWay
  <1>8. QED BY <1>4, <1>6, <1>7

\* Every step of a task keeps the ingestions in their place.
LEMMA StepHome ==
  ASSUME Typed, HomeInv, NEW t \in Tasks, Step(t), ~mixed'
  PROVE  Together' /\ \A u \in Tasks : InPlace(u)'
  <1>1. OwnStep(t)
    BY StepOwn
  <1>2. ~Setup(t) /\ ~Wire(t) => ~mixed /\ hole' = hole
    BY DEF Step, Enter, Resolve, Save, Beat, Parse, Tag, Add, Leave, Stop, Clear, NextSource
  <1>3. \A u \in Tasks : ~mixed => InPlace(u)
    BY DEF HomeInv
  <1>4. CASE Enter(t) \/ Resolve(t) \/ Save(t) \/ Beat(t) \/ Parse(t) \/ Add(t) \/ Leave(t)
    <2>1. ~Setup(t) /\ ~Wire(t)
      BY <1>4 DEF Enter, Resolve, Save, Beat, Parse, Add, Leave, Setup, Wire, At
    <2>2. /\ job[t].pc \in Wired /\ job'[t].pc \in Wired \ {"add"}
          /\ job'[t].agent = job[t].agent /\ job'[t].chat = job[t].chat
      BY <1>4, EnterOwn, ResolveOwn, SaveOwn, BeatOwn, ParseOwn, AddOwn, LeaveOwn
         DEF Moves, Wired, InBody
    <2>3. OnTheWay(t) /\ OnTheWay(t)' /\ InPlace(t)'
      BY <1>2, <1>3, <2>1, <2>2 DEF OnTheWay, InPlace, Wired, InBody
    <2>4. QED BY <1>1, <1>2, <2>1, <2>2, <2>3, HomeMoves
  <1>5. CASE Tag(t)
    <2>1. job[t].pc = "tag" /\ ~Setup(t) /\ ~Wire(t)
      BY <1>5 DEF Tag, Setup, Wire, At
    <2>2. hole.stray = job[t].chat /\ hole.cat = job[t].agent
      BY <1>2, <1>3, <2>1 DEF InPlace, Wired, InBody
    <2>3. /\ job'[t].pc = "add" /\ job'[t].agent = job[t].agent
          /\ job'[t].chat = job[t].chat /\ job'[t].tag = job[t].chat
      BY <1>5, <2>2, TagOwn
    <2>4. OnTheWay(t) /\ OnTheWay(t)' /\ InPlace(t)'
      BY <1>2, <2>1, <2>2, <2>3 DEF OnTheWay, InPlace, Wired, InBody
    <2>5. QED BY <1>1, <1>2, <2>1, <2>3, <2>4, HomeMoves
  <1>6. CASE Stop(t) \/ Clear(t) \/ NextSource(t)
    <2>1. ~Setup(t) /\ ~Wire(t)
      BY <1>6 DEF Stop, Clear, NextSource, Setup, Wire, At
    <2>2. ~OnTheWay(t)'
      BY <1>6, StopOwn, ClearOwn, NextOwn DEF OnTheWay, Moves, Wired, InBody
    <2>3. QED BY <1>1, <1>2, <2>1, <2>2, HomeRests DEF OwnStep
  <1>7. QED BY <1>4, <1>5, <1>6, SetupHome, WireHome DEF Step

\* What is added goes home.
LEMMA StepPoints ==
  ASSUME Typed, HomeInv, NEW t \in Tasks, Step(t), ~mixed'
  PROVE  \A p \in points' : AtHome(p)
  <1>1. ~mixed
    BY DEF Step, Setup, Wire, Enter, Resolve, Save, Beat, Parse, Tag, Add, Leave, Stop, Clear,
           NextSource
  <1>2. \A p \in points : AtHome(p)
    BY <1>1 DEF HomeInv
  <1>3. CASE Add(t)
    <2> DEFINE p == [coll |-> CollectionOf(hole.stray), agent |-> hole.cat,
                     chat |-> job[t].tag, source |-> job[t].source, by |-> job[t].by,
                     home |-> Home(t)]
    <2>1. hole.cat = job[t].agent /\ hole.stray = job[t].chat /\ job[t].tag = job[t].chat
      BY <1>1, <1>3 DEF Add, At, HomeInv, InPlace, Wired, InBody
    <2>2. AtHome(p)
      BY <2>1 DEF AtHome, Home
    <2>3. points' = points \/ points' = points \union {p}
      BY <1>3 DEF Add
    <2>4. QED BY <1>2, <2>2, <2>3
  <1>4. CASE ~Add(t)
    <2>1. points' \subseteq points
      BY <1>4 DEF Step, Setup, Wire, Enter, Resolve, Save, Beat, Parse, Tag, Leave, Stop, Clear,
                  NextSource
    <2>2. QED BY <1>2, <2>1
  <1>5. QED BY <1>3, <1>4

\* A heartbeat runs for an ingestion; the one that stops takes its own along.
LEMMA StepBeats ==
  ASSUME Typed, HomeInv, NEW t \in Tasks, Step(t), ~mixed'
  PROVE  \A b \in beats' : \E u \in Tasks : Beats(u, b)'
  <1>1. ~mixed
    BY DEF Step, Setup, Wire, Enter, Resolve, Save, Beat, Parse, Tag, Add, Leave, Stop, Clear,
           NextSource
  <1>2. \A b \in beats : \E u \in Tasks : Beats(u, b)
    BY <1>1 DEF HomeInv
  <1>3. OwnStep(t) /\ InPlace(t)
    BY <1>1, StepOwn DEF HomeInv
  <1>4. \A u \in Tasks \ {t}, b \in beats : Beats(u, b) => Beats(u, b)'
    BY <1>3 DEF OwnStep, Beats
  <1>5. CASE Beat(t)
    <2>1. PICK b : b = <<hole.cat, hole.stray, job[t].source>>
      OBVIOUS
    <2>2. Moves(t, "beat", "parse")
      BY <1>5, BeatOwn
    <2>3. beats' = beats \union {b}
      BY <1>5, <2>1 DEF Beat
    <2>4. b = <<job[t].agent, job[t].chat, job[t].source>>
      BY <1>3, <2>1, <2>2 DEF InPlace, Moves, Wired, InBody
    <2>5. Beats(t, b)'
      BY <2>2, <2>4 DEF Beats, Moves, Beating
    <2>6. \A c \in beats : ~Beats(t, c)
      BY <2>2 DEF Beats, Moves, Beating
    <2>7. QED BY <1>2, <1>4, <2>3, <2>5, <2>6
  <1>6. CASE Stop(t)
    <2> DEFINE b == <<hole.cat, hole.stray, job[t].source>>
    <2>1. beats' = beats \ {b} /\ job[t].pc = "stop"
      BY <1>6 DEF Stop, At
    <2>2. b = <<job[t].agent, job[t].chat, job[t].source>>
      BY <1>3, <2>1 DEF InPlace, Wired, InBody
    <2> HIDE DEF b
    <2>3. \A c \in beats' : ~Beats(t, c)
      BY <2>1, <2>2 DEF Beats
    <2>4. QED BY <1>2, <1>4, <2>1, <2>3
  <1>7. CASE Parse(t) \/ Tag(t) \/ Add(t) \/ Leave(t)
    <2>1. /\ job'[t].pc \in Beating /\ job'[t].agent = job[t].agent
          /\ job'[t].chat = job[t].chat /\ job'[t].source = job[t].source
      BY <1>7, ParseOwn, TagOwn, AddOwn, LeaveOwn DEF Moves, Beating
    <2>2. \A b \in beats : Beats(t, b) => Beats(t, b)'
      BY <2>1 DEF Beats
    <2>3. beats' = beats
      BY <1>7 DEF Parse, Tag, Add, Leave
    <2>4. QED BY <1>2, <1>4, <2>2, <2>3
  <1>8. CASE \/ Setup(t) \/ Wire(t) \/ Enter(t) \/ Resolve(t) \/ Save(t) \/ Clear(t)
             \/ NextSource(t)
    <2>1. beats' = beats /\ job[t].pc \notin Beating
      BY <1>8 DEF Setup, Wire, Enter, Resolve, Save, Clear, NextSource, At, Beating
    <2>2. \A b \in beats : ~Beats(t, b)
      BY <2>1 DEF Beats
    <2>3. QED BY <1>2, <1>4, <2>1, <2>2
  <1>9. QED BY <1>5, <1>6, <1>7, <1>8 DEF Step

\* A step that leaves the ingestions under way alone, starts none, and adds no points.
LEMMA HomeStays ==
  ASSUME HomeInv, UNCHANGED <<hole, beats, mixed>>, points' \subseteq points,
         \A t \in Tasks : job'[t] = job[t] \/ (job[t].pc = "idle" /\ job'[t].pc \in {"clear", "setup"})
  PROVE  HomeInv'
  <1> SUFFICES ASSUME ~mixed PROVE HomeInv'
    BY DEF HomeInv
  <1>1. \A t \in Tasks : job'[t] = job[t] \/ (~OnTheWay(t) /\ ~OnTheWay(t)')
    BY DEF OnTheWay, Wired, InBody
  <1>2. Together'
    BY <1>1 DEF HomeInv, Together, OnTheWay
  <1>3. ASSUME NEW t \in Tasks PROVE InPlace(t)'
    <2>1. InPlace(t)
      BY DEF HomeInv
    <2>2. QED BY <2>1 DEF InPlace, Wired, InBody
  <1>4. \A p \in points' : AtHome(p)
    BY DEF HomeInv
  <1>5. ASSUME NEW b \in beats' PROVE \E t \in Tasks : Beats(t, b)'
    <2>1. PICK t \in Tasks : Beats(t, b)
      BY DEF HomeInv
    <2>2. job'[t] = job[t]
      BY <2>1 DEF Beats, Beating
    <2>3. QED BY <2>1, <2>2 DEF Beats
  <1>6. QED BY <1>2, <1>3, <1>4, <1>5 DEF HomeInv, AtHome

LEMMA HomeNext ==
  ASSUME Typed, Quiet, HomeInv, [Next]_vars
  PROVE  HomeInv'
  <1>1. CASE UNCHANGED vars
    BY <1>1, HomeStays DEF vars
  <1>2. ASSUME NEW t \in Tasks, Step(t) PROVE HomeInv'
    BY <1>2, StepHome, StepPoints, StepBeats DEF HomeInv, AtHome
  <1>3. ASSUME NEW u \in Uploads, NEW a \in Agents, NEW c \in Chats \union {None},
               NEW s \in Sources, UploadFile(u, a, c, s) \/ UploadUrl(u, a, c, s)
        PROVE  HomeInv'
    BY <1>3, UploadShape, HomeStays
  <1>4. ASSUME PassStep \/ \E e \in Embedders : ChangeEmbedder(e) PROVE HomeInv'
    <2>1. \A t \in Tasks : job'[t] = job[t] \/ (job[t].pc = "idle" /\ job'[t].pc = "clear")
      BY <1>4, LaunchQuiet, PassLeavesJobs
    <2>2. QED BY <1>4, <2>1, PassShape, HomeStays
  <1>5. QED BY <1>1, <1>2, <1>3, <1>4 DEF Next

LEMMA HomeInit == Init => HomeInv
  <1> SUFFICES ASSUME Init PROVE HomeInv
    OBVIOUS
  <1>1. \A t \in Tasks : job[t].pc = "idle"
    BY NoJobTyped DEF Init
  <1>2. QED BY <1>1 DEF Init, HomeInv, Together, OnTheWay, InPlace, Wired, InBody

LEMMA HomeAlways == Spec => [](Typed /\ Quiet /\ HomeInv)
  BY InitTyped, NextTyped, QuietInit, QuietNext, HomeInit, HomeNext, PTL DEF Spec

\* Chunks go to the agent and the conversation they were uploaded to, unless an
\* ingestion set the fields of the RabbitHole (setup) below one for another, for any
\* number of tasks and however uploads and the pass overlap.
THEOREM ChunksGoHome == Spec => []GoesHome
  <1>1. HomeInv => GoesHome
    BY DEF HomeInv, GoesHome
  <1>2. QED BY <1>1, HomeAlways, PTL

\* No heartbeat outlives its ingestion, with the same exception.
THEOREM HeartbeatsStop == Spec => []BeatsStop
  <1>1. HomeInv => BeatsStop
    BY DEF HomeInv, BeatsStop, Beats, Beating, Idle
  <1>2. QED BY <1>1, HomeAlways, PTL

-----------------------------------------------------------------------------
(* What a pass brings back. *)

\* The task of the pass a source belongs to.
TaskOf(f) == <<f.agent, f.coll>>

\* It is at work on the source, and has not added the chunks.
OnIt(f) ==
    LET j == job[TaskOf(f)]
    IN  /\ j.pc \in {"setup", "wire", "start", "resolve", "save", "beat", "parse", "tag", "add"}
        /\ j.agent = f.agent /\ j.chat = f.chat /\ j.source = f.source
        /\ j.pc = "add" => j.by = embedder

\* A source is still to do, at hand, or restored once its task has cleared the points.
Progress(f) ==
    \/ f \in pass.todo /\ job[TaskOf(f)].pc # "idle"
    \/ OnIt(f)
    \/ Restored(f) /\ job[TaskOf(f)].pc # "clear"

FoundHome == ~mixed => \A f \in pass.found : f.coll = CollectionOf(f.chat)

Undisturbed == pass.pc \in {"embed", "done"} /\ ~mixed /\ faults = 0

RestoreInv ==
    /\ faults \in Nat
    /\ FoundHome
    /\ Undisturbed =>
         /\ \A c \in Collections : built[c] = embedder
         /\ \A f \in pass.found : Progress(f)

LEMMA FoundTask ==
  ASSUME Typed, NEW f \in Found
  PROVE  TaskOf(f) \in PassTasks /\ TaskOf(f) \in Tasks /\ TaskOf(f) \notin Uploads
  BY TasksAssumption DEF TaskOf, Found, PassTasks, Tasks

\* What the steps of tasks do to the rest of the state.
LEMMA StepRest ==
  ASSUME NEW t \in Tasks, Step(t)
  PROVE  /\ UNCHANGED <<embedder, built>> /\ (mixed => mixed')
         /\ UNCHANGED faults \/ faults' = faults + 1
         /\ points \subseteq points' \/ Clear(t)
  <1>1. UNCHANGED <<embedder, built>>
    BY DEF Step, Setup, Wire, Enter, Resolve, Save, Beat, Parse, Tag, Add, Leave, Stop, Clear,
           NextSource
  <1>2. mixed => mixed'
    BY DEF Step, Setup, Wire, Enter, Resolve, Save, Beat, Parse, Tag, Add, Leave, Stop, Clear,
           NextSource
  <1>3. UNCHANGED faults \/ faults' = faults + 1
    BY DEF Step, Setup, Wire, Enter, Resolve, Save, Beat, Parse, Tag, Add, Leave, Stop, Clear,
           NextSource, Fault, counters
  <1>4. points \subseteq points' \/ Clear(t)
    BY DEF Step, Setup, Wire, Enter, Resolve, Save, Beat, Parse, Tag, Add, Leave, Stop,
           NextSource
  <1>5. QED BY <1>1, <1>2, <1>3, <1>4

LEMMA StepFound ==
  ASSUME Typed, NEW t \in Tasks, Step(t)
  PROVE  pass'.found = pass.found /\ (NextSource(t) \/ pass'.todo = pass.todo)
  <1>1. CASE NextSource(t)
    BY <1>1 DEF NextSource, Typed, Pass
  <1>2. CASE ~NextSource(t)
    BY <1>2 DEF Step, Setup, Wire, Enter, Resolve, Save, Beat, Parse, Tag, Add, Leave, Stop, Clear
  <1>3. QED BY <1>1, <1>2

\* Points that are not cleared keep a source restored.
LEMMA RestoredStays ==
  ASSUME NEW f, Restored(f), embedder' = embedder, points \subseteq points'
  PROVE  Restored(f)'
  BY DEF Restored

\* The steps of other tasks leave the progress of a source alone.
LEMMA OthersProgress ==
  ASSUME Typed, NEW t \in Tasks, Step(t), NEW f \in pass.found, TaskOf(f) # t, Progress(f)
  PROVE  Progress(f)'
  <1>1. f \in Found
    BY DEF Typed, Pass
  <1>2. job'[TaskOf(f)] = job[TaskOf(f)]
    BY <1>1, FoundTask, StepOwn DEF OwnStep
  <1>3. embedder' = embedder
    BY StepRest
  <1>4. CASE f \in pass.todo /\ job[TaskOf(f)].pc # "idle"
    <2>1. f \in pass'.todo
      <3>1. CASE NextSource(t)
        BY <1>4, <3>1 DEF NextSource, TaskOf, Typed, Pass
      <3>2. CASE ~NextSource(t)
        BY <1>4, <3>2, StepFound
      <3>3. QED BY <3>1, <3>2
    <2>2. QED BY <1>2, <1>4, <2>1 DEF Progress
  <1>5. CASE OnIt(f)
    BY <1>2, <1>3, <1>5 DEF Progress, OnIt
  <1>6. CASE Restored(f) /\ job[TaskOf(f)].pc # "clear"
    <2>1. Restored(f)'
      <3>1. CASE Clear(t)
        BY <1>3, <1>6, <3>1 DEF Clear, Restored, TaskOf
      <3>2. CASE ~Clear(t)
        BY <1>3, <1>6, <3>2, StepRest, RestoredStays
      <3>3. QED BY <3>1, <3>2
    <2>2. QED BY <1>2, <1>6, <2>1 DEF Progress
  <1>7. QED BY <1>4, <1>5, <1>6 DEF Progress

\* The task itself moves towards the addition of its chunks.
LEMMA MoveProgress ==
  ASSUME Typed, NEW f \in pass.found, Progress(f),
         LET t == TaskOf(f) IN
           /\ job[t].pc # "clear" /\ job'[t].pc \notin {"idle", "clear"}
           /\ job[t].pc \notin {"tag", "add"} \/ ~OnIt(f)
           /\ OnIt(f) => /\ job'[t].pc \in {"wire", "start", "resolve", "save", "beat", "parse", "tag"}
                         /\ job'[t].agent = job[t].agent /\ job'[t].chat = job[t].chat
                         /\ job'[t].source = job[t].source,
         pass'.todo = pass.todo, embedder' = embedder, points \subseteq points'
  PROVE  Progress(f)'
  BY RestoredStays DEF Progress, OnIt

LEMMA OwnProgress ==
  ASSUME Typed, HomeInv, RestoreInv, Undisturbed, Undisturbed',
         NEW f \in pass.found, Step(TaskOf(f))
  PROVE  Progress(f)'
  <1> DEFINE t == TaskOf(f)
  <1>1. t \in Tasks /\ t \notin Uploads
    BY FoundTask DEF Typed, Pass
  <1>2. Progress(f) /\ f.coll = CollectionOf(f.chat) /\ f.coll \in Collections
    BY DEF RestoreInv, FoundHome, Undisturbed, Typed, Pass, Found
  <1>3. UNCHANGED <<embedder, built>> /\ OwnStep(t) /\ UNCHANGED faults
    BY <1>1, StepRest, StepOwn DEF Undisturbed, RestoreInv
  <1>4. CASE Setup(t) \/ Wire(t) \/ Enter(t) \/ Resolve(t) \/ Save(t) \/ Beat(t) \/ Parse(t)
    <2>1. /\ job[t].pc \in {"setup", "wire", "start", "resolve", "save", "beat", "parse"}
          /\ job'[t].pc \in {"wire", "start", "resolve", "save", "beat", "parse", "tag"}
          /\ job'[t].agent = job[t].agent /\ job'[t].chat = job[t].chat
          /\ job'[t].source = job[t].source
      <3>1. ~Fault
        BY <1>3 DEF Fault, RestoreInv
      <3>2. Resolve(t) => Moves(t, "resolve", "save")
        BY <1>1, <3>1, Places, MovedOwn DEF Resolve
      <3>3. Parse(t) => Moves(t, "parse", "tag")
        BY <1>1, <3>1, Places, MovedOwn DEF Parse
      <3>4. QED BY <1>1, <1>4, <3>2, <3>3, SetupOwn, WireOwn, EnterOwn, SaveOwn, BeatOwn DEF Moves
    <2>2. pass'.todo = pass.todo /\ points \subseteq points'
      BY <1>4 DEF Setup, Wire, Enter, Resolve, Save, Beat, Parse
    <2>3. QED BY <1>2, <1>3, <2>1, <2>2, MoveProgress
  <1>5. CASE Tag(t)
    <2>1. /\ job[t].pc = "tag" /\ job'[t].pc = "add" /\ job'[t].by = embedder
          /\ job'[t].agent = job[t].agent /\ job'[t].chat = job[t].chat
          /\ job'[t].source = job[t].source
      BY <1>1, <1>5, TagOwn DEF Tag, At
    <2>2. pass' = pass /\ points' = points
      BY <1>5 DEF Tag
    <2>3. QED BY <1>2, <1>3, <2>1, <2>2, RestoredStays DEF Progress, OnIt
  <1>6. CASE Add(t)
    <2>1. job[t].pc = "add" /\ job'[t].pc = "leave"
      BY <1>1, <1>6, AddOwn DEF Moves
    <2>2. pass' = pass /\ points \subseteq points'
      BY <1>6 DEF Add
    <2>3. ASSUME OnIt(f) PROVE Restored(f)'
      <3>1. /\ job[t].agent = f.agent /\ job[t].chat = f.chat /\ job[t].source = f.source
            /\ job[t].by = embedder
        BY <2>1, <2>3 DEF OnIt
      <3>2. hole.cat = job[t].agent /\ hole.stray = job[t].chat /\ job[t].tag = job[t].chat
        BY <1>1, <2>1 DEF Undisturbed, HomeInv, InPlace, Wired, InBody
      <3>3. CollectionOf(hole.stray) = f.coll /\ built[f.coll] = embedder
        BY <1>2, <3>1, <3>2 DEF RestoreInv
      <3> DEFINE p == [coll |-> CollectionOf(hole.stray), agent |-> hole.cat,
                       chat |-> job[t].tag, source |-> job[t].source, by |-> job[t].by,
                       home |-> Home(t)]
      <3>4. p \in points'
        BY <1>6, <3>1, <3>3 DEF Add
      <3>5. /\ p.agent = f.agent /\ p.coll = f.coll /\ p.chat = f.chat
            /\ p.source = f.source /\ p.by = embedder
        BY <3>1, <3>2, <3>3
      <3> HIDE DEF p
      <3>6. QED BY <1>3, <3>4, <3>5 DEF Restored
    <2>4. QED BY <1>2, <1>3, <2>1, <2>2, <2>3, RestoredStays DEF Progress
  <1>7. CASE Leave(t) \/ Stop(t)
    <2>1. job[t].pc \in {"leave", "stop"} /\ job'[t].pc \in {"stop", "next"}
      <3>1. CASE Leave(t)
        BY <1>1, <3>1, LeaveOwn DEF Moves
      <3>2. CASE Stop(t)
        <4>1. job'[t] = [NoJob EXCEPT !.pc = "next"]
          BY <1>1, <3>2 DEF Stop, Typed
        <4>2. QED BY <3>2, <4>1 DEF Stop, At, NoJob
      <3>3. QED BY <1>7, <3>1, <3>2
    <2>2. pass' = pass /\ points' = points
      BY <1>7 DEF Leave, Stop
    <2>3. QED BY <1>2, <1>3, <2>1, <2>2, RestoredStays DEF Progress, OnIt
  \* Nothing of a task is restored before it has cleared its points.
  <1>8. CASE Clear(t)
    <2>1. job[t].pc = "clear" /\ job'[t].pc = "next" /\ pass' = pass
      BY <1>1, <1>8, ClearOwn DEF Moves, Clear
    <2>2. QED BY <1>2, <2>1 DEF Progress, OnIt
  <1>9. CASE NextSource(t)
    <2>1. job[t].pc = "next" /\ points' = points
      BY <1>9 DEF NextSource, At
    <2>2. CASE Restored(f)
      BY <1>1, <1>3, <1>9, <2>1, <2>2, NextOwn, RestoredStays DEF Progress
    <2>3. CASE ~Restored(f)
      <3>1. f \in pass.todo
        BY <1>2, <2>1, <2>3 DEF Progress, OnIt
      <3>2. PICK g \in pass.todo :
              /\ <<g.agent, g.coll>> = t
              /\ pass' = [pass EXCEPT !.todo = @ \ {g}]
              /\ job' = [job EXCEPT ![t] = [NoJob EXCEPT !.agent = g.agent, !.chat = g.chat,
                                                         !.source = g.source, !.pc = "setup"]]
        BY <1>9, <3>1 DEF NextSource, TaskOf
      <3>3. job'[t] = [NoJob EXCEPT !.agent = g.agent, !.chat = g.chat,
                                    !.source = g.source, !.pc = "setup"]
        BY <1>1, <3>2 DEF Typed
      <3>4. /\ job'[t].pc = "setup" /\ job'[t].agent = g.agent /\ job'[t].chat = g.chat
            /\ job'[t].source = g.source
        BY <3>3 DEF NoJob
      <3>5. pass'.todo = pass.todo \ {g}
        BY <3>2 DEF Typed, Pass
      <3>6. CASE f = g
        BY <3>4, <3>6 DEF Progress, OnIt
      <3>7. CASE f # g
        BY <3>1, <3>4, <3>5, <3>7 DEF Progress
      <3>8. QED BY <3>6, <3>7
    <2>4. QED BY <2>2, <2>3
  <1>10. QED BY <1>4, <1>5, <1>6, <1>7, <1>8, <1>9 DEF Step

LEMMA StepRestore ==
  ASSUME Typed, HomeInv, RestoreInv, NEW t \in Tasks, Step(t)
  PROVE  RestoreInv'
  <1>1. pass'.found = pass.found /\ pass'.pc = pass.pc
    BY StepFound, StepOwn DEF OwnStep
  <1>2. /\ UNCHANGED <<embedder, built>> /\ (mixed => mixed')
        /\ UNCHANGED faults \/ faults' = faults + 1
    BY StepRest
  <1>3. faults' \in Nat /\ FoundHome'
    BY <1>1, <1>2 DEF RestoreInv, FoundHome
  <1>4. Undisturbed' => Undisturbed
    BY <1>1, <1>2 DEF Undisturbed, RestoreInv
  <1>5. ASSUME Undisturbed', NEW f \in pass'.found PROVE Progress(f)'
    <2>1. f \in pass.found /\ Undisturbed /\ Progress(f)
      BY <1>1, <1>4, <1>5 DEF RestoreInv
    <2>2. CASE TaskOf(f) = t
      BY <1>5, <2>1, <2>2, OwnProgress
    <2>3. CASE TaskOf(f) # t
      BY <2>1, <2>3, OthersProgress
    <2>4. QED BY <2>2, <2>3
  <1>6. Undisturbed' => \A c \in Collections : built'[c] = embedder'
    BY <1>2, <1>4 DEF RestoreInv
  <1>7. QED BY <1>3, <1>5, <1>6 DEF RestoreInv

\* The tasks of the pass start with everything that was found to do.
LEMMA LaunchRestore ==
  ASSUME Typed, RestoreInv, Launch
  PROVE  RestoreInv'
  <1>1. pass'.found = pass.found /\ pass'.todo = pass.found
    BY DEF Launch, Typed, Pass
  <1>2. UNCHANGED <<embedder, built, mixed, faults>> /\ \A c \in Collections : built[c] = embedder
    BY DEF Launch, counters
  <1>3. ASSUME NEW f \in pass.found PROVE job'[TaskOf(f)].pc = "clear"
    <2>1. TaskOf(f) \in PassTasks /\ TaskOf(f) \in Tasks
      BY FoundTask DEF Typed, Pass
    <2>2. job'[TaskOf(f)] = [NoJob EXCEPT !.pc = "clear"]
      BY <2>1 DEF Launch, TaskOf
    <2>3. QED BY <2>2 DEF NoJob
  <1>4. \A f \in pass'.found : Progress(f)'
    BY <1>1, <1>3 DEF Progress
  <1>5. QED BY <1>1, <1>2, <1>4 DEF RestoreInv, FoundHome

LEMMA PassRestore ==
  ASSUME Typed, HomeInv, RestoreInv, ~Launch,
         PassStep \/ \E e \in Embedders : ChangeEmbedder(e)
  PROVE  RestoreInv'
  <1>1. UNCHANGED faults /\ mixed' = mixed
    BY DEF PassStep, ListSources, Initialize, EndPass, ForgetPass, ChangeEmbedder, counters
  <1>2. ASSUME NEW a \in Agents, NEW c \in Collections, ListSources(a, c) PROVE RestoreInv'
    <2>1. ASSUME ~mixed, NEW f \in Readable(a, c) PROVE f.coll = CollectionOf(f.chat)
      <3>1. PICK p \in points :
              p.coll = c /\ f = [agent |-> a, coll |-> c, chat |-> p.chat, source |-> p.source]
        BY DEF Readable
      <3>2. f.coll = c /\ f.chat = p.chat
        BY <3>1
      <3>3. QED BY <2>1, <3>1, <3>2 DEF HomeInv, AtHome
    <2>2. pass'.found = pass.found \union Readable(a, c)
      BY <1>2 DEF ListSources, Typed, Pass
    <2>3. pass'.pc \in {"list", "initialize"}
      BY <1>2 DEF ListSources, Typed, Pass
    <2>4. QED BY <1>1, <2>1, <2>2, <2>3 DEF RestoreInv, FoundHome, Undisturbed
  <1>3. ASSUME NEW c \in Collections, Initialize(c) PROVE RestoreInv'
    BY <1>1, <1>3 DEF Initialize, RestoreInv, FoundHome, Undisturbed
  <1>4. CASE EndPass
    <2>1. /\ pass'.found = pass.found /\ pass'.todo = pass.todo /\ pass'.pc = "done"
          /\ pass.pc = "embed" /\ UNCHANGED <<job, points, embedder, built>>
      BY <1>4 DEF EndPass, Typed, Pass
    <2>2. \A f \in pass.found : Progress(f) => Progress(f)'
      BY <2>1 DEF Progress, OnIt, Restored
    <2>3. QED BY <1>1, <2>1, <2>2 DEF RestoreInv, FoundHome, Undisturbed
  <1>5. CASE ForgetPass
    BY <1>1, <1>5 DEF ForgetPass, NoPass, RestoreInv, FoundHome, Undisturbed
  <1>6. ASSUME NEW e \in Embedders, ChangeEmbedder(e) PROVE RestoreInv'
    BY <1>1, <1>6 DEF ChangeEmbedder, NoPass, RestoreInv, FoundHome, Undisturbed
  <1>7. QED BY <1>2, <1>3, <1>4, <1>5, <1>6 DEF PassStep

LEMMA RestoreNext ==
  ASSUME Typed, HomeInv, RestoreInv, [Next]_vars
  PROVE  RestoreInv'
  <1>1. ASSUME UNCHANGED <<points, embedder, built, pass, mixed, faults>>,
               \A f \in pass.found : job'[TaskOf(f)] = job[TaskOf(f)]
        PROVE  RestoreInv'
    <2>1. \A f \in pass.found : Progress(f) => Progress(f)'
      BY <1>1 DEF Progress, OnIt, Restored
    <2>2. QED BY <1>1, <2>1 DEF RestoreInv, FoundHome, Undisturbed
  <1>2. CASE UNCHANGED vars
    BY <1>1, <1>2 DEF vars
  <1>3. ASSUME NEW u \in Uploads, NEW a \in Agents, NEW c \in Chats \union {None},
               NEW s \in Sources, UploadFile(u, a, c, s) \/ UploadUrl(u, a, c, s)
        PROVE  RestoreInv'
    <2>1. \A f \in pass.found : TaskOf(f) \in Tasks \ {u}
      BY FoundTask DEF Typed, Pass
    <2>2. UNCHANGED <<points, embedder, built, pass, mixed, faults>>
      BY <1>3 DEF UploadFile, UploadUrl
    <2>3. QED BY <1>1, <1>3, <2>1, <2>2, UploadShape
  <1>4. QED BY <1>2, <1>3, StepRestore, LaunchRestore, PassRestore DEF Next, PassStep

LEMMA RestoreInit == Init => RestoreInv
  BY DEF Init, NoPass, RestoreInv, FoundHome, Undisturbed

\* A pass that nothing disturbed and nothing failed brings back every source it has
\* found, of every agent and conversation, with vectors of the new embedder: each
\* task clears its points before it takes its sources, and takes all of them.
THEOREM PassBringsBack == Spec => []PassRestores
  <1>1. Spec => [](Typed /\ Quiet /\ HomeInv /\ RestoreInv)
    BY HomeAlways, RestoreInit, RestoreNext, PTL DEF Spec
  <1>2. ASSUME Typed, Quiet, RestoreInv, pass.pc = "done", ~mixed, faults = 0,
               NEW f \in pass.found
        PROVE  Restored(f)
    <2>1. Progress(f)
      BY <1>2 DEF RestoreInv, Undisturbed
    <2>2. job[TaskOf(f)].pc = "idle"
      BY <1>2, FoundTask DEF Quiet, Typed, Pass
    <2>3. QED BY <2>1, <2>2 DEF Progress, OnIt
  <1>3. Typed /\ Quiet /\ RestoreInv => PassRestores
    BY <1>2 DEF PassRestores
  <1>4. QED BY <1>1, <1>3, PTL
=============================================================================
