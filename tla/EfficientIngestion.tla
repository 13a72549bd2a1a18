------------------------- MODULE EfficientIngestion -------------------------
(***************************************************************************)
(* The ingestion engine of the efficient_ingestion plugin together with    *)
(* everything that touches a source while it runs: uploads, the re-embed   *)
(* pass after an embedder change, the recovery sweep, the heartbeat, file  *)
(* deletion, the garbage collector of status rows, and process crashes.    *)
(*                                                                         *)
(* A worker is a task in a server process of its own; it runs one job at a *)
(* time, and every await on Redis, on the vector store or on the file      *)
(* storage ends an action.  set_status is two Redis commands (read the     *)
(* document, store the merged document), so every status write below is a  *)
(* ReadExisting step followed by the action named after the writer.        *)
(*                                                                         *)
(* The sources are those of one agent: its knowledge base and, for the     *)
(* members of ChatScoped, its conversations, one for each source.          *)
(***************************************************************************)
EXTENDS IngestionStatus, Naturals, Sequences

CONSTANTS
  Sources,      \* file names and URLs
  Urls,         \* the sources that are URLs
  ChatScoped,   \* the sources ingested into a conversation
  Workers,
  Dim,          \* Dim[e]: the vector size of embedder e
  Faults,       \* which failures may happen
  Removals,     \* which removals users ask for
  MaxCopies,    \* bound on the copies of one source's points that are told apart
  MaxUploads,   \* bound on the number of ingest_file calls
  MaxSwitches,  \* bound on the number of embedder or chunker changes
  MaxFaults     \* bound on the number of failures

\* The download hooks of a URL fire with the agent as caller, so they reach the
\* source's own row only in the agent scope.
ASSUME SourcesAssumption ==
  Urls \subseteq Sources /\ ChatScoped \subseteq Sources \ Urls

ASSUME NoneIsNoActor == None \notin Workers \cup Sources

ASSUME BoundsAssumption ==
  /\ MaxCopies \in Nat \ {0, 1}
  /\ MaxUploads \in Nat /\ MaxSwitches \in Nat /\ MaxFaults \in Nat

VARIABLES
  row,         \* row[s]: the status document of s in Redis
  disk,        \* disk[s]: the upload whose bytes the file storage holds, 0 if none
  points,      \* points[s]: the batches of points of s in the vector store
  collection,  \* the embedder the vector collections were created for
  chats,       \* the conversations (of ChatScoped sources) that exist
  embedder, chunker,   \* the active configuration
  job,         \* job[w]: what worker w is doing
  beat,        \* beat[w]: the heartbeat task w spawned
  wired,       \* wired[w]: the chunker of the agent wired into w's RabbitHole
  lock,        \* lock[s]: who holds the resume lock of s
  sweeper,     \* who holds the lock of the sweep
  lapsed,      \* history: the workers whose resume lock ran out during their claim
  uploads, switches, faults,
  overlap      \* history: the sources two workers have worked on at once

stores == <<row, disk, points, collection, chats>>
config == <<embedder, chunker, switches>>
proc == <<beat, wired>>
locks == <<lock, sweeper, lapsed>>
history == <<uploads, faults, overlap>>
vars == <<stores, config, job, proc, locks, history>>

\* All the points one pass stored for a source.  A batch has no vectors when
\* its embedder is None (the payload-only points of the parsing phase).
Batch == [ver : Nat, chunker : Chunkers, embedder : Embedders \cup {None}]

\* The places where a job stores a status document.
Writes ==
  {"start", "processing", "embedding", "parsing", "downloading", "downloaded",
   "complete", "abandon", "error", "missing"}

\* Where a pass has taken a source and works on its row or its points.
Busy ==
  Writes \cup {"save", "claimed", "reuse", "clear", "download", "parse", "store", "embed",
               "remove", "add", "check"}

Pcs ==
  Busy \cup {"idle", "scan", "next", "decide", "claim", "stop", "file", "collect",
             "init", "gc", "delrow", "rmfile", "rmpoints", "delchat"}

Kinds == {"none", "ingest", "sweep", "run", "delete", "forget", "gc"}

Job ==
  [kind : Kinds,
   pc   : Pcs,
   src  : Sources \cup {None},         \* the source at hand
   ver  : Nat,                         \* the content at hand
   todo : SUBSET (Sources \X Nat),     \* the sources still to be handled
   had  : [Sources -> Seq(Batch)],     \* the points seen at the start of the pass
   emb  : Embedders \cup {None},       \* the embedder resolved at the start
   chk  : Chunkers \cup {None},        \* the chunker the job's agent was created with
   pts  : Seq(Batch),                  \* the batches being (re)embedded
   next : {"reuse", "parsing"},        \* the phase chosen by the decision
   redo : BOOLEAN,                     \* the decision saw a completed row
   got  : Doc \cup {None}]             \* the document read by set_status

Idle ==
  [kind |-> "none", pc |-> "idle", src |-> None, ver |-> 0, todo |-> {},
   had |-> [s \in Sources |-> <<>>], emb |-> None, chk |-> None, pts |-> <<>>,
   next |-> "parsing", redo |-> FALSE, got |-> None]

\* beat[w].at: off, asleep, about to set_status, or holding the document read.
Beat ==
  [at : {"off", "asleep", "due", "merge"}, src : Sources \cup {None}, got : Doc \cup {None}]

NoBeat == [at |-> "off", src |-> None, got |-> None]

\* Uploads and deletions work on their source from the first step to the last.
WorksOn(w, s) ==
  /\ job[w].src = s
  /\ job[w].kind \in {"ingest", "delete", "forget", "gc"} \/ job[w].pc \in Busy

\* w begins to work on s.
Enter(w, s) ==
  overlap' = IF \E v \in Workers \ {w} : WorksOn(v, s) THEN overlap \cup {s} ELSE overlap

-----------------------------------------------------------------------------
(* Steps of one worker. *)

At(w, pc) == job[w].pc = pc

Src(w) == job[w].src

Goto(w, pc) == job' = [job EXCEPT ![w].pc = pc]

\* What a step of a job leaves alone.
OnlyJob == UNCHANGED <<stores, config, proc, locks, history>>

OnlyRow == UNCHANGED <<disk, points, collection, chats, config, proc, locks, history>>

OnlyPoints == UNCHANGED <<row, disk, collection, chats, config, proc, locks, history>>

OnlyFaults == UNCHANGED <<stores, config, proc, locks, uploads, overlap>>

OnlyOverlap == UNCHANGED <<stores, config, proc, locks, uploads, faults>>

Fail(f) == f \in Faults /\ faults < MaxFaults /\ faults' = faults + 1

\* The first half of set_status: read the existing document.
ReadExisting(w) ==
  /\ job[w].pc \in Writes /\ job[w].got = None
  /\ job' = [job EXCEPT ![w].got = row[Src(w)]]
  /\ OnlyJob

\* The second half: store `doc`, merged from the document read, and go to `pc`.
Write(w, doc, pc) ==
  /\ job[w].got # None
  /\ row' = [row EXCEPT ![Src(w)] = doc]
  /\ job' = [job EXCEPT ![w].got = None, ![w].pc = pc]

Begin(w, kind, pc, s) ==
  /\ At(w, "idle")
  /\ job' = [job EXCEPT ![w] = [Idle EXCEPT !.kind = kind, !.pc = pc, !.src = s,
                                            !.chk = chunker]]

\* EfficientIngestionEngine.ingest_file, from the upload routes.
StartIngest(w, s) ==
  /\ At(w, "idle") /\ uploads < MaxUploads
  /\ s \in ChatScoped => s \in chats
  /\ uploads' = uploads + 1
  /\ LET ver == IF s \in Urls THEN 0 ELSE uploads + 1
     IN job' = [job EXCEPT ![w] =
                  [Idle EXCEPT !.kind = "ingest", !.pc = "start", !.src = s, !.ver = ver,
                               !.todo = {<<s, ver>>}, !.chk = chunker]]
  /\ Enter(w, s)
  /\ UNCHANGED <<stores, config, proc, locks, faults>>

\* rabbithole_ingestion_start
Start(w) ==
  /\ At(w, "start")
  /\ Write(w, SetStatus(job[w].got, "uploaded"), "save")
  /\ OnlyRow

\* save_file; an upload error is logged and swallowed there.
Save(w) ==
  /\ At(w, "save")
  /\ \/ /\ disk' = IF Src(w) \in Urls THEN disk ELSE [disk EXCEPT ![Src(w)] = job[w].ver]
        /\ UNCHANGED faults
     \/ Fail("save") /\ UNCHANGED disk
  /\ Goto(w, "processing")
  /\ UNCHANGED <<row, points, collection, chats, config, proc, locks, uploads, overlap>>

\* rabbithole_ingestion_processing, then rabbithole_processing_heartbeat_start.
Processing(w) ==
  /\ At(w, "processing")
  /\ Write(w, SetParsing(job[w].got, job[w].chk), "scan")
  /\ beat' = [beat EXCEPT ![w] = [NoBeat EXCEPT !.at = "asleep", !.src = Src(w)]]
  /\ UNCHANGED <<disk, points, collection, chats, config, wired, locks, history>>

-----------------------------------------------------------------------------
(* reembed_sources: the phase machine. *)

\* The points and the embedder are read once for the whole pass.
Scan(w) ==
  /\ At(w, "scan")
  /\ job' = [job EXCEPT ![w].pc = "next", ![w].had = points, ![w].emb = embedder]
  /\ OnlyJob

NextSource(w) ==
  /\ At(w, "next")
  /\ \/ job[w].todo = {} /\ Goto(w, "stop")
     \/ \E t \in job[w].todo :
          job' = [job EXCEPT ![w] =
                    [@ EXCEPT !.todo = job[w].todo \ {t}, !.src = t[1], !.ver = t[2],
                              !.pts = job[w].had[t[1]], !.had[t[1]] = <<>>,
                              !.pc = "decide"]]
  /\ OnlyJob

ChatGone(s) == s \in ChatScoped \ chats

\* Mutant of UpToDate: the embedder of the stored vectors is not compared.
UpToDateAnyEmbedder(doc, emb, chk) == doc.status = "completed" /\ doc.chunker = chk

UpToDate(doc, emb, chk) ==
  doc.status = "completed" /\ doc.embedder = emb /\ doc.chunker = chk

StartPhase(doc, had, chk) ==
  IF \/ doc.status = "absent" /\ had # <<>>
     \/ /\ doc.status # "absent" /\ doc.chunker = chk
        /\ doc.status = "completed" \/ doc.phase = "embedding"
  THEN "reuse" ELSE "parsing"

\* Decide the phase from the status document, before any claim.
Decide(w) ==
  /\ At(w, "decide")
  /\ LET j == job[w]
         doc == row[j.src]
         phase == StartPhase(doc, j.pts, j.chk)
         skip == (ChatGone(j.src) /\ j.kind # "ingest") \/ UpToDate(doc, j.emb, j.chk)
     IN /\ job' = [job EXCEPT
             ![w].next = phase, ![w].redo = doc.status = "completed",
             ![w].pts = IF phase = "reuse" THEN j.pts ELSE <<>>,
             ![w].pc = IF skip THEN "next" ELSE IF doc.status = "absent" THEN phase
                                                                         ELSE "claim"]
        /\ IF ~skip /\ doc.status = "absent" THEN Enter(w, j.src) ELSE UNCHANGED overlap
  /\ OnlyOverlap

\* Mutant of Claim: without the lock.
ClaimUnlocked(w) ==
  /\ At(w, "claim")
  /\ LET j == job[w]
         doc == row[j.src]
     IN IF Claimable(doc, j.kind = "sweep", j.redo)
        THEN /\ lock' = [lock EXCEPT ![j.src] = w]
             /\ job' = [job EXCEPT ![w].pc = "claimed", ![w].got = doc]
             /\ Enter(w, j.src)
        ELSE Goto(w, "next") /\ UNCHANGED <<lock, overlap>>
  /\ UNCHANGED <<stores, config, proc, sweeper, lapsed, uploads, faults>>

\* claim_source_for_resume: take the lock, read the document, check it ...
Claim(w) ==
  /\ At(w, "claim") /\ lock[Src(w)] = None
  /\ LET j == job[w]
         doc == row[j.src]
     IN IF Claimable(doc, j.kind = "sweep", j.redo)
        THEN /\ lock' = [lock EXCEPT ![j.src] = w]
             /\ job' = [job EXCEPT ![w].pc = "claimed", ![w].got = doc]
             /\ Enter(w, j.src)
        ELSE Goto(w, "next") /\ UNCHANGED <<lock, overlap>>
  /\ UNCHANGED <<stores, config, proc, sweeper, lapsed, uploads, faults>>

\* ... store it as PROCESSING, whoever holds the lock by now, and release the lock
\* when it is still this worker's.
Claimed(w) ==
  /\ At(w, "claimed")
  /\ row' = [row EXCEPT ![Src(w)] = SetStatus(job[w].got, "processing")]
  /\ job' = [job EXCEPT ![w].pc = job[w].next, ![w].got = None,
                        ![w].next = "parsing", ![w].redo = FALSE]
  /\ lock' = IF lock[Src(w)] = w THEN [lock EXCEPT ![Src(w)] = None] ELSE lock
  /\ lapsed' = lapsed \ {w}
  /\ UNCHANGED <<disk, points, collection, chats, config, proc, sweeper, history>>

\* The lock stayed taken for blocking_timeout: LockError leaves reembed_sources.
ClaimTimeout(w) ==
  /\ At(w, "claim") /\ lock[Src(w)] # None
  /\ Goto(w, "stop")
  /\ OnlyJob

\* Chunk reuse: the points seen by Scan, unless the conversation is gone.
Reuse(w) ==
  /\ At(w, "reuse")
  /\ IF ChatGone(Src(w))
     THEN points' = [points EXCEPT ![Src(w)] = <<>>] /\ Goto(w, "abandon")
     ELSE Goto(w, "embedding") /\ UNCHANGED points
  /\ OnlyPoints

Abandon(w) ==
  /\ At(w, "abandon")
  /\ Write(w, SetStatus(job[w].got, "completed"), "next")
  /\ OnlyRow

\* Mutant of Embedding: no fall-through when there is nothing to embed.
EmbeddingAlways(w) ==
  /\ At(w, "embedding")
  /\ Write(w, SetEmbedding(job[w].got, job[w].emb), "embed")
  /\ OnlyRow

\* set_phase(PHASE_EMBEDDING); with nothing to embed, fall through to parsing.
Embedding(w) ==
  /\ At(w, "embedding")
  /\ Write(w, SetEmbedding(job[w].got, job[w].emb),
           IF job[w].pts = <<>> THEN "parsing" ELSE "embed")
  /\ OnlyRow

Parsing(w) ==
  /\ At(w, "parsing")
  /\ Write(w, SetParsing(job[w].got, job[w].chk), "clear")
  /\ OnlyRow

\* _clear_source_artifacts; a RabbitHole without an agent is wired to this one,
\* and stays wired to it for the life of the process.
Clear(w) ==
  /\ At(w, "clear")
  /\ points' = [points EXCEPT ![Src(w)] = <<>>]
  /\ wired' = [wired EXCEPT ![w] = IF @ = None THEN job[w].chk ELSE @]
  /\ Goto(w, IF Src(w) \in Urls THEN "downloading" ELSE "parse")
  /\ UNCHANGED <<row, disk, collection, chats, config, beat, locks, history>>

\* RabbitHole._resolve_source_bytes for a URL, with its two lifecycle hooks.
Downloading(w) ==
  /\ At(w, "downloading")
  /\ Write(w, SetPhase(job[w].got, "downloading", "downloading"), "download")
  /\ OnlyRow

Download(w) ==
  /\ At(w, "download")
  /\ \/ Goto(w, "downloaded") /\ UNCHANGED faults
     \/ Fail("download") /\ Goto(w, "error")
  /\ OnlyFaults

Downloaded(w) ==
  /\ At(w, "downloaded")
  /\ Write(w, SetPhase(job[w].got, "downloaded", "downloading"), "parse")
  /\ OnlyRow

\* _parse_and_chunk: the chunks come from the chunker of the wired agent.
Parse(w) ==
  /\ At(w, "parse")
  /\ \/ /\ job' = [job EXCEPT ![w].pc = "store",
             ![w].pts = <<[ver |-> job[w].ver, chunker |-> wired[w], embedder |-> None]>>]
        /\ UNCHANGED faults
     \/ Fail("parse") /\ Goto(w, "error")
  /\ OnlyFaults

\* add_points_to_tenant: new points, under fresh identifiers.
Added(old, new) ==
  LET all == old \o new IN IF Len(all) > MaxCopies THEN SubSeq(all, 1, MaxCopies) ELSE all

\* _store_empty_vectors
Store(w) ==
  /\ At(w, "store")
  /\ points' = [points EXCEPT ![Src(w)] = Added(@, job[w].pts)]
  /\ Goto(w, "embedding")
  /\ OnlyPoints

Embedded(batches, emb) ==
  [i \in DOMAIN batches |-> [batches[i] EXCEPT !.embedder = emb]]

\* _embed_phase: compute every vector, then delete the old points, then add.
Embed(w) ==
  /\ At(w, "embed")
  /\ \/ /\ job' = [job EXCEPT ![w].pc = "remove",
                             ![w].pts = Embedded(job[w].pts, job[w].emb)]
        /\ UNCHANGED faults
     \/ Fail("embed") /\ Goto(w, "error")
  /\ OnlyFaults

\* Mutant of Remove: the new points are added next to the old ones.
RemoveNothing(w) == At(w, "remove") /\ Goto(w, "add") /\ OnlyJob

Remove(w) ==
  /\ At(w, "remove")
  /\ points' = [points EXCEPT ![Src(w)] = <<>>]
  /\ Goto(w, "add")
  /\ OnlyPoints

\* The vector store refuses vectors of another size than the collection's.
Add(w) ==
  /\ At(w, "add")
  /\ IF Dim[job[w].emb] = Dim[collection]
     THEN /\ points' = [points EXCEPT ![Src(w)] = Added(@, job[w].pts)]
          /\ job' = [job EXCEPT ![w].pc = "check", ![w].pts = <<>>]
     ELSE UNCHANGED points /\ Goto(w, "error")
  /\ OnlyPoints

\* after_rabbithole_stored_documents: an ERROR row is left alone.
Check(w) ==
  /\ At(w, "check")
  /\ Goto(w, IF row[Src(w)].status = "error" THEN "next" ELSE "complete")
  /\ OnlyJob

Complete(w) ==
  /\ At(w, "complete")
  /\ Write(w, SetCompleted(job[w].got), "next")
  /\ OnlyRow

\* The except branch of reembed_sources.
Error(w) ==
  /\ At(w, "error")
  /\ Write(w, SetStatus(job[w].got, "error"), "next")
  /\ OnlyRow

\* End of the job: an upload's heartbeat is cancelled, a sweep's lock released.
Stop(w) ==
  /\ At(w, "stop")
  /\ job' = [job EXCEPT ![w] = Idle]
  /\ beat' = [beat EXCEPT ![w] = NoBeat]
  /\ sweeper' = IF sweeper = w THEN None ELSE sweeper
  /\ UNCHANGED <<stores, config, wired, lock, lapsed, history>>

-----------------------------------------------------------------------------
(* The recovery sweep and the re-embed pass. *)

\* Mutant of Resumable: an upload that died before PROCESSING is not picked up.
ResumableStarted(status) == status \in {"processing", "error"}

Resumable(status) == status \in {"uploaded", "processing", "error"}

\* _pass_for_agent takes the sweep's lock; list_statuses(agent_id) in
\* _resume_agent returns the agent scope only.
StartSweep(w, s) ==
  /\ sweeper = None /\ sweeper' = w
  /\ s \notin ChatScoped /\ Resumable(row[s].status)
  /\ Begin(w, "sweep", "file", s)
  /\ UNCHANGED <<stores, config, proc, lock, lapsed, history>>

\* _source_from_entry: read the file, or mark it missing.
SweepFile(w) ==
  /\ At(w, "file")
  /\ LET s == Src(w)
     IN IF s \in Urls \/ disk[s] # 0
        THEN /\ job' = [job EXCEPT ![w].todo = {<<s, disk[s]>>}, ![w].pc = "scan"]
             /\ UNCHANGED overlap
        ELSE Goto(w, "missing") /\ Enter(w, s)
  /\ OnlyOverlap

\* mark_file_missing
Missing(w) ==
  /\ At(w, "missing")
  /\ Write(w, SetStatus(job[w].got, "error"), "stop")
  /\ OnlyRow

\* PUT /embedder/settings: store the setting and start the pass in background.
SwitchEmbedder(w, e) ==
  /\ switches < MaxSwitches /\ e # embedder
  /\ embedder' = e /\ switches' = switches + 1
  /\ Begin(w, "run", "collect", None)
  /\ UNCHANGED <<stores, chunker, proc, locks, history>>

\* get_stored_sources_with_metadata: the sources of the stored points.
Collect(w) ==
  /\ At(w, "collect")
  /\ LET stored == {s \in Sources : points[s] # <<>> /\ (s \in Urls \/ disk[s] # 0)}
     IN job' = [job EXCEPT ![w].todo = {<<s, disk[s]>> : s \in stored},
                           ![w].emb = embedder, ![w].pc = "init"]
  /\ OnlyJob

\* QdrantHandler.initialize: a collection of another embedder is deleted and
\* created again.
Initialize(w) ==
  /\ At(w, "init")
  /\ IF collection = job[w].emb THEN UNCHANGED <<points, collection>>
     ELSE points' = [s \in Sources |-> <<>>] /\ collection' = job[w].emb
  /\ Goto(w, "scan")
  /\ UNCHANGED <<row, disk, chats, config, proc, locks, history>>

SwitchChunker(c) ==
  /\ switches < MaxSwitches /\ c # chunker
  /\ chunker' = c /\ switches' = switches + 1
  /\ UNCHANGED <<stores, embedder, job, proc, locks, history>>

-----------------------------------------------------------------------------
(* Removal: DELETE file, DELETE status, reconcile_agent, conversations. *)

\* delete_file: the file, then its points, then (hook) its status row.  Nothing
\* is checked first: the source may be in flight.
StartDelete(w, s) ==
  /\ "delete" \in Removals /\ s \notin Urls
  /\ Begin(w, "delete", "rmfile", s) /\ Enter(w, s)
  /\ OnlyOverlap

\* delete_conversation: its folder, its points, then its document.  The status
\* rows stay.
StartForget(w, s) ==
  /\ "forget" \in Removals /\ s \in ChatScoped \cap chats
  /\ Begin(w, "forget", "rmfile", s) /\ Enter(w, s)
  /\ OnlyOverlap

RemoveFile(w) ==
  /\ At(w, "rmfile")
  /\ disk' = [disk EXCEPT ![Src(w)] = 0]
  /\ Goto(w, "rmpoints")
  /\ UNCHANGED <<row, points, collection, chats, config, proc, locks, history>>

RemovePoints(w) ==
  /\ At(w, "rmpoints")
  /\ points' = [points EXCEPT ![Src(w)] = <<>>]
  /\ Goto(w, IF job[w].kind = "forget" THEN "delchat" ELSE "delrow")
  /\ OnlyPoints

DeleteRow(w) ==
  /\ At(w, "delrow")
  /\ row' = [row EXCEPT ![Src(w)] = NoDoc]
  /\ job' = [job EXCEPT ![w] = Idle]
  /\ OnlyRow

DeleteChat(w) ==
  /\ At(w, "delchat")
  /\ chats' = chats \ {Src(w)}
  /\ job' = [job EXCEPT ![w] = Idle]
  /\ UNCHANGED <<row, disk, points, collection, config, proc, locks, history>>

\* delete_ingestion_status: the status is read, then the row deleted.
StartDismiss(w, s) ==
  /\ "dismiss" \in Removals /\ row[s].status \in {"completed", "error"}
  /\ Begin(w, "gc", "delrow", s) /\ Enter(w, s)
  /\ OnlyOverlap

\* reconcile_agent: the rows are listed, then the canonical sources are read,
\* then the row is deleted.
StartReconcile(w, s) ==
  /\ "reconcile" \in Removals /\ row[s].status = "completed"
  /\ Begin(w, "gc", "gc", s) /\ Enter(w, s)
  /\ OnlyOverlap

Reconcile(w) ==
  /\ At(w, "gc")
  /\ LET s == Src(w)
         vanished == \/ ChatGone(s)
                     \/ IF s \in Urls THEN points[s] = <<>> ELSE disk[s] = 0
     IN job' = [job EXCEPT ![w] = IF vanished THEN [@ EXCEPT !.pc = "delrow"] ELSE Idle]
  /\ OnlyJob

-----------------------------------------------------------------------------
(* The heartbeat, the passing of time, crashes. *)

\* get_status, after the interval: go on only while the row is PROCESSING.
BeatGet(w) ==
  /\ beat[w].at = "asleep"
  /\ beat' = [beat EXCEPT ![w] = IF row[beat[w].src].status = "processing"
                                 THEN [@ EXCEPT !.at = "due"] ELSE NoBeat]
  /\ UNCHANGED <<stores, config, job, wired, locks, history>>

\* set_status(PROCESSING), again a read ...
BeatRead(w) ==
  /\ beat[w].at = "due"
  /\ beat' = [beat EXCEPT ![w].at = "merge", ![w].got = row[beat[w].src]]
  /\ UNCHANGED <<stores, config, job, wired, locks, history>>

\* ... and a store.
BeatStore(w) ==
  /\ beat[w].at = "merge"
  /\ row' = [row EXCEPT ![beat[w].src] = SetStatus(beat[w].got, "processing")]
  /\ beat' = [beat EXCEPT ![w].at = "asleep", ![w].got = None]
  /\ UNCHANGED <<disk, points, collection, chats, config, job, wired, locks, history>>

\* An upload on its way to its heartbeat, or whose heartbeat runs, keeps its row
\* younger than the boot threshold (twice the heartbeat interval).
KeptFresh(s) ==
  \E w \in Workers :
    \/ beat[w].at # "off" /\ beat[w].src = s
    \/ job[w].src = s /\ job[w].pc \in {"save", "processing"}

Age(s) ==
  /\ row[s].status # "absent" /\ ~row[s].stale /\ ~KeptFresh(s)
  /\ row' = [row EXCEPT ![s].stale = TRUE]
  /\ UNCHANGED <<disk, points, collection, chats, config, job, proc, locks, history>>

\* The process dies and starts again: its job, its heartbeat and its RabbitHole
\* are gone, its locks are not.
Crash(w) ==
  /\ job[w] # Idle \/ wired[w] # None
  /\ Fail("crash")
  /\ job' = [job EXCEPT ![w] = Idle]
  /\ beat' = [beat EXCEPT ![w] = NoBeat]
  /\ wired' = [wired EXCEPT ![w] = None]
  /\ lapsed' = lapsed \ {w}
  /\ UNCHANGED <<stores, config, lock, sweeper, uploads, overlap>>

\* The resume lock's time to live runs out: of a process that died, or under a claim
\* that waits longer than that for Redis.
LockExpires(s) ==
  /\ lock[s] # None
  /\ lock' = [lock EXCEPT ![s] = None]
  /\ lapsed' = lapsed \cup {w \in {lock[s]} : At(w, "claimed") /\ Src(w) = s}
  /\ UNCHANGED <<stores, config, job, proc, sweeper, history>>

\* The sweep's lock has the same time to live, and a sweep may outlast it.
SweepLockExpires ==
  /\ sweeper # None
  /\ sweeper' = None
  /\ UNCHANGED <<stores, config, job, proc, lock, lapsed, history>>

-----------------------------------------------------------------------------

Init ==
  /\ row = [s \in Sources |-> NoDoc]
  /\ disk = [s \in Sources |-> 0]
  /\ points = [s \in Sources |-> <<>>]
  /\ embedder \in Embedders /\ collection = embedder /\ chunker \in Chunkers
  /\ chats = ChatScoped
  /\ job = [w \in Workers |-> Idle]
  /\ beat = [w \in Workers |-> NoBeat]
  /\ wired = [w \in Workers |-> None]
  /\ lock = [s \in Sources |-> None] /\ sweeper = None /\ lapsed = {}
  /\ uploads = 0 /\ switches = 0 /\ faults = 0
  /\ overlap = {}

\* What a worker must go on with once its job has begun.
Work(w) ==
  \/ ReadExisting(w) \/ Start(w) \/ Save(w) \/ Processing(w)
  \/ Scan(w) \/ NextSource(w) \/ Decide(w) \/ Claim(w) \/ Claimed(w) \/ ClaimTimeout(w)
  \/ Reuse(w) \/ Abandon(w) \/ Embedding(w) \/ Parsing(w) \/ Clear(w)
  \/ Downloading(w) \/ Download(w) \/ Downloaded(w) \/ Parse(w) \/ Store(w)
  \/ Embed(w) \/ Remove(w) \/ Add(w) \/ Check(w) \/ Complete(w) \/ Error(w) \/ Stop(w)
  \/ SweepFile(w) \/ Missing(w) \/ Collect(w) \/ Initialize(w)
  \/ RemoveFile(w) \/ RemovePoints(w) \/ DeleteRow(w) \/ DeleteChat(w) \/ Reconcile(w)

Sweep(w) == \E s \in Sources : StartSweep(w, s)

Request(w) ==
  \/ \E s \in Sources :
       \/ StartIngest(w, s) \/ StartDelete(w, s) \/ StartForget(w, s)
       \/ StartDismiss(w, s) \/ StartReconcile(w, s)
  \/ \E e \in Embedders : SwitchEmbedder(w, e)

Heartbeat(w) == BeatGet(w) \/ BeatRead(w) \/ BeatStore(w)

Environment ==
  \/ \E s \in Sources : Age(s) \/ LockExpires(s)
  \/ SweepLockExpires
  \/ \E c \in Chunkers : SwitchChunker(c)

Next ==
  \/ \E w \in Workers : Work(w) \/ Sweep(w) \/ Request(w) \/ Heartbeat(w) \/ Crash(w)
  \/ Environment

Spec == Init /\ [][Next]_vars

\* A job that has begun goes on (its event loop runs it), a row that nobody
\* refreshes ages, a lock expires, and the sweep comes round again and again
\* (CAT_INGESTION_RESUME_INTERVAL_SECONDS) whatever else its process does in
\* between, hence SF.  Nobody has to upload, to remove or to reconfigure.
Fairness ==
  /\ \A w \in Workers : WF_vars(Work(w)) /\ SF_vars(Sweep(w))
  /\ \A s \in Sources : WF_vars(Age(s)) /\ WF_vars(LockExpires(s))
  /\ WF_vars(SweepLockExpires)

FairSpec == Spec /\ Fairness

-----------------------------------------------------------------------------
(* Properties. *)

\* Every variable keeps the shape the program gives it.
TypeOK ==
  /\ row \in [Sources -> Doc]
  /\ disk \in [Sources -> Nat]
  /\ points \in [Sources -> Seq(Batch)]
  /\ embedder \in Embedders /\ chunker \in Chunkers /\ collection \in Embedders
  /\ chats \subseteq ChatScoped
  /\ job \in [Workers -> Job]
  /\ beat \in [Workers -> Beat]
  /\ wired \in [Workers -> Chunkers \cup {None}]
  /\ lock \in [Sources -> Workers \cup {None}]
  /\ sweeper \in Workers \cup {None} /\ lapsed \subseteq Workers
  /\ uploads \in Nat /\ switches \in Nat /\ faults \in Nat
  /\ overlap \subseteq Sources

\* No crash, retry, re-upload or re-embedding leaves two copies of a source's
\* chunks, as long as two workers were never on it at once: every pass deletes
\* before it adds, and resumes at a phase that does.
AtMostOneCopy == \A s \in Sources \ overlap : Len(points[s]) <= 1

Stored(s) == Len(points[s]) = 1 /\ points[s][1].embedder # None

\* A COMPLETED row stands for vectors in the store, whatever failed and was
\* resumed on the way.  Left out are the sources that two workers handled at
\* once, those whose file or conversation is gone, and agents whose embedder was
\* changed (the re-embed pass empties the store below the rows).
CompletedIsStored ==
  switches = 0 =>
    \A s \in Sources \ overlap :
      /\ row[s].status = "completed"
      /\ s \in Urls \/ disk[s] # 0
      /\ ~ChatGone(s)
      => Stored(s)

\* Two workers are never between the two commands of a claim of one source, so
\* that neither can miss what the other writes, unless the lock ran out under one
\* of them (lapsed): its time to live is 30 seconds, and it is not renewed.
ClaimMutex ==
  \A v, w \in Workers \ lapsed : At(v, "claimed") /\ At(w, "claimed") /\ Src(v) = Src(w) => v = w

\* The sweep never claims an in-flight source whose upload is alive: about to
\* spawn its heartbeat, or with the heartbeat running (_boot_stale_seconds: "enough
\* to never steal live work").
SweepSparesLiveUploads ==
  [][\A w \in Workers :
       /\ job[w].kind = "sweep" /\ At(w, "claim") /\ job'[w].pc = "claimed"
       /\ row[Src(w)].status # "completed"
       => ~KeptFresh(Src(w))]_vars

\* While no pass is under way and nothing failed, the same holds of an agent whose
\* embedder was changed (after_rabbithole_stored_documents: "a completed row proves
\* all phases finished").
CompletedAfterPass ==
  faults = 0 /\ (\A w \in Workers : job[w].kind # "run") =>
    \A s \in Sources \ overlap :
      row[s].status = "completed" /\ (s \in Urls \/ disk[s] # 0) /\ ~ChatGone(s)
        => Stored(s)

\* Across re-embed passes, a COMPLETED row that names the embedder of the
\* collection stands for vectors in that collection: an upload that resolved its
\* embedder before or after the switch does not complete into a collection that
\* the pass drops.  This leans on the vector store's refusal of another size: it
\* is checked for embedders of different sizes.
CompletedIsEmbedded ==
  \A s \in Sources \ overlap :
    /\ row[s].status = "completed" /\ row[s].embedder = collection
    /\ s \in Urls \/ disk[s] # 0
    /\ ~ChatGone(s)
    => Stored(s) /\ points[s][1].embedder = collection

InFlightRow(s) == row[s].status \in InFlight

\* Whatever crashes, a file of the knowledge base does not stay in flight for
\* ever: the upload or a later sweep brings it to COMPLETED or ERROR, or somebody
\* removes it.
FilesSettle ==
  \A s \in Sources \ (Urls \cup ChatScoped) : InFlightRow(s) ~> ~InFlightRow(s)

-----------------------------------------------------------------------------
(* What the repository says of the engine, and the code does not do: no run has   *)
(* these, see the README, section 5.                                              *)

\* _source_from_entry, resume.py: "Files are re-read from disk ..., so the phase
\* machine performs the full re-ingest from the actual file content".
CompletedIsCurrent ==
  \A s \in Sources \ (Urls \cup overlap) :
    row[s].status = "completed" /\ disk[s] # 0 /\ (\A w \in Workers : ~WorksOn(w, s))
      => \A i \in DOMAIN points[s] : points[s][i].ver = disk[s]

\* delete_ingestion_status, endpoints.py: "To abandon an in-flight source, remove
\* the file instead (that deletes the file, its memory points, and the status row
\* together)".
AbandonedStaysGone ==
  faults = 0 =>
    \A s \in Sources \ (Urls \cup ChatScoped) :
      row[s].status = "completed" /\ (\A w \in Workers : job[w].kind # "delete") => disk[s] # 0

\* reembed_sources, reembed.py: "in-flight / stale row (uploaded/processing/error/
\* downloading/downloaded): resumes from the phase recorded".
EverythingSettles == \A s \in Sources : InFlightRow(s) ~> ~InFlightRow(s)

=============================================================================
