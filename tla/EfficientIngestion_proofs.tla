---------------------- MODULE EfficientIngestion_proofs ----------------------
(***************************************************************************)
(* Proofs about EfficientIngestion for every value of its constants.       *)
(***************************************************************************)
EXTENDS EfficientIngestion, TLAPS

-----------------------------------------------------------------------------
(* Type correctness.  TypeOK is not inductive: what is written to a row or *)
(* to the vector store comes out of a job record, so the fields that a     *)
(* place in the code relies on must be known to be filled there.           *)

\* The places where no source is at hand.
Sourceless == {"idle", "scan", "next", "stop", "collect", "init"}

\* The places between the wiring of the RabbitHole and its use.
Wired == {"downloading", "download", "downloaded", "parse"}

\* The fields that job record j, in a process wired to wd, must have filled.
Filled(j, wd) ==
  /\ j.pc \notin Sourceless => j.src \in Sources
  /\ j.pc = "claimed" => j.got \in Doc
  /\ j.pc # "idle" => j.chk \in Chunkers
  /\ j.pc = "init" => j.emb \in Embedders
  /\ j.pc \in Wired => wd \in Chunkers

BeatFilled(b) ==
  /\ b.at # "off" => b.src \in Sources
  /\ b.at = "merge" => b.got \in Doc

StoresOK ==
  /\ row \in [Sources -> Doc]
  /\ disk \in [Sources -> Nat]
  /\ points \in [Sources -> Seq(Batch)]
  /\ collection \in Embedders
  /\ chats \subseteq ChatScoped

ConfigOK == embedder \in Embedders /\ chunker \in Chunkers /\ switches \in Nat

JobsOK == job \in [Workers -> Job] /\ \A w \in Workers : Filled(job[w], wired[w])

ProcOK ==
  /\ beat \in [Workers -> Beat]
  /\ \A w \in Workers : BeatFilled(beat[w])
  /\ wired \in [Workers -> Chunkers \cup {None}]

LocksOK ==
  /\ lock \in [Sources -> Workers \cup {None}]
  /\ sweeper \in Workers \cup {None}
  /\ lapsed \subseteq Workers

HistoryOK == uploads \in Nat /\ faults \in Nat /\ overlap \subseteq Sources

\* The inductive strengthening of TypeOK.
TypeInv == StoresOK /\ ConfigOK /\ JobsOK /\ ProcOK /\ LocksOK /\ HistoryOK

LEMMA TypeInvIsStronger == TypeInv => TypeOK
  BY DEF TypeInv, TypeOK, StoresOK, ConfigOK, JobsOK, ProcOK, LocksOK, HistoryOK

\* What a step leaves alone stays well typed.
LEMMA Frames ==
  /\ StoresOK /\ UNCHANGED stores => StoresOK'
  /\ ConfigOK /\ UNCHANGED config => ConfigOK'
  /\ ProcOK /\ UNCHANGED proc => ProcOK'
  /\ LocksOK /\ UNCHANGED locks => LocksOK'
  /\ HistoryOK /\ UNCHANGED history => HistoryOK'
  <1>1. StoresOK /\ UNCHANGED stores => StoresOK'
    BY DEF StoresOK, stores
  <1>2. ConfigOK /\ UNCHANGED config => ConfigOK'
    BY DEF ConfigOK, config
  <1>3. ProcOK /\ UNCHANGED proc => ProcOK'
    BY DEF ProcOK, proc
  <1>4. LocksOK /\ UNCHANGED locks => LocksOK'
    BY DEF LocksOK, locks
  <1>5. HistoryOK /\ UNCHANGED history => HistoryOK'
    BY DEF HistoryOK, history
  <1>6. QED BY <1>1, <1>2, <1>3, <1>4, <1>5

LEMMA NoPoints == <<>> \in Seq(Batch)
  OBVIOUS

LEMMA IdleIsJob == Idle \in Job /\ \A wd : Filled(Idle, wd)
  <1>1. [s \in Sources |-> <<>>] \in [Sources -> Seq(Batch)]
    BY NoPoints
  <1>2. Idle \in Job
    BY <1>1, NoPoints DEF Idle, Job, Pcs, Kinds
  <1>3. QED BY <1>2 DEF Idle, Filled, Sourceless, Wired

\* A step that changes one job record keeps the others.
LEMMA JobStep ==
  ASSUME JobsOK, NEW w \in Workers, NEW j \in Job, Filled(j, wired'[w]),
         job' = [job EXCEPT ![w] = j],
         \A v \in Workers \ {w} : wired'[v] = wired[v]
  PROVE  JobsOK'
  <1>1. job' \in [Workers -> Job] /\ job'[w] = j /\ \A v \in Workers \ {w} : job'[v] = job[v]
    BY DEF JobsOK
  <1>2. \A v \in Workers : Filled(job'[v], wired'[v])
    <2> TAKE v \in Workers
    <2>1. CASE v = w BY <2>1, <1>1
    <2>2. CASE v # w BY <2>2, <1>1 DEF JobsOK
    <2>3. QED BY <2>1, <2>2
  <1>3. QED BY <1>1, <1>2 DEF JobsOK

\* A step that only moves a job from one place to another.
LEMMA GotoStep ==
  ASSUME JobsOK, NEW w \in Workers, NEW pc \in Pcs, Goto(w, pc), wired' = wired,
         Filled([job[w] EXCEPT !.pc = pc], wired[w])
  PROVE  JobsOK'
  <1> DEFINE j == [job[w] EXCEPT !.pc = pc]
  <1>1. j \in Job
    BY DEF JobsOK, Job
  <1>2. job' = [job EXCEPT ![w] = j]
    BY DEF Goto
  <1>3. Filled(j, wired'[w])
    OBVIOUS
  <1>4. QED
    <2> HIDE DEF j
    <2> QED BY <1>1, <1>2, <1>3, JobStep

\* The second half of set_status.
LEMMA WriteStep ==
  ASSUME JobsOK, StoresOK, NEW w \in Workers, NEW doc \in Doc, NEW pc \in Pcs,
         Write(w, doc, pc), job[w].pc \notin Sourceless, wired' = wired,
         UNCHANGED <<disk, points, collection, chats>>,
         pc \notin {"claimed", "init", "downloading"},
         pc \in Wired => job[w].pc \in Wired
  PROVE  JobsOK' /\ StoresOK'
  <1> DEFINE j == [job[w] EXCEPT !.got = None, !.pc = pc]
  <1>1. j \in Job /\ job[w] \in Job
    BY DEF JobsOK, Job
  <1>2. job' = [job EXCEPT ![w] = j]
    BY DEF Write
  <1>3. Filled(job[w], wired[w])
    BY DEF JobsOK
  <1>4. j.pc = pc /\ j.src = job[w].src /\ j.chk = job[w].chk
    BY <1>1 DEF Job
  <1>5. Filled(j, wired'[w])
    BY <1>3, <1>4 DEF Filled, Sourceless
  <1>6. JobsOK'
    <2> HIDE DEF j
    <2> QED BY <1>1, <1>2, <1>5, JobStep
  <1>7. Src(w) \in Sources
    BY <1>3 DEF Filled, Src
  <1>8. row' \in [Sources -> Doc]
    BY <1>7 DEF Write, StoresOK
  <1>9. QED
    BY <1>6, <1>8 DEF StoresOK

\* The steps that change nothing but one job.
LEMMA OnlyJobStep ==
  ASSUME TypeInv, NEW w \in Workers, NEW j \in Job, Filled(j, wired[w]),
         job' = [job EXCEPT ![w] = j], OnlyJob
  PROVE  TypeInv'
  <1>1. wired' = wired
    BY DEF OnlyJob, proc
  <1>2. JobsOK'
    BY <1>1, JobStep DEF TypeInv
  <1>3. QED BY <1>2, Frames DEF TypeInv, OnlyJob

\* The steps that change one job and record who else is on its source.
LEMMA OnlyOverlapStep ==
  ASSUME TypeInv, NEW w \in Workers, NEW j \in Job, Filled(j, wired[w]),
         job' = [job EXCEPT ![w] = j], OnlyOverlap, overlap' \subseteq Sources
  PROVE  TypeInv'
  <1>1. wired' = wired
    BY DEF OnlyOverlap, proc
  <1>2. JobsOK'
    BY <1>1, JobStep DEF TypeInv
  <1>3. HistoryOK'
    BY DEF OnlyOverlap, TypeInv, HistoryOK
  <1>4. QED BY <1>2, <1>3, Frames DEF TypeInv, OnlyOverlap

\* The steps that change one job and may fail.
LEMMA OnlyFaultsStep ==
  ASSUME TypeInv, NEW w \in Workers, NEW j \in Job, Filled(j, wired[w]),
         job' = [job EXCEPT ![w] = j], OnlyFaults, faults' \in {faults, faults + 1}
  PROVE  TypeInv'
  <1>1. wired' = wired
    BY DEF OnlyFaults, proc
  <1>2. JobsOK'
    BY <1>1, JobStep DEF TypeInv
  <1>3. HistoryOK'
    BY DEF OnlyFaults, TypeInv, HistoryOK
  <1>4. QED BY <1>2, <1>3, Frames DEF TypeInv, OnlyFaults

\* The steps that change one job and the points.
LEMMA OnlyPointsStep ==
  ASSUME TypeInv, NEW w \in Workers, NEW j \in Job, Filled(j, wired[w]),
         job' = [job EXCEPT ![w] = j], OnlyPoints, points' \in [Sources -> Seq(Batch)]
  PROVE  TypeInv'
  <1>1. wired' = wired
    BY DEF OnlyPoints, proc
  <1>2. JobsOK'
    BY <1>1, JobStep DEF TypeInv
  <1>3. StoresOK'
    BY DEF OnlyPoints, TypeInv, StoresOK
  <1>4. QED BY <1>2, <1>3, Frames DEF TypeInv, OnlyPoints

\* The steps that finish a set_status and change nothing else.
LEMMA OnlyRowStep ==
  ASSUME TypeInv, NEW w \in Workers, NEW doc \in Doc, NEW pc \in Pcs,
         Write(w, doc, pc), OnlyRow, job[w].pc \notin Sourceless,
         pc \notin {"claimed", "init", "downloading"},
         pc \in Wired => job[w].pc \in Wired
  PROVE  TypeInv'
  <1>1. wired' = wired /\ UNCHANGED <<disk, points, collection, chats>>
    BY DEF OnlyRow, proc
  <1>2. JobsOK' /\ StoresOK'
    BY <1>1, WriteStep DEF TypeInv
  <1>3. QED BY <1>2, Frames DEF TypeInv, OnlyRow

\* The registry's writes store documents.
LEMMA DocWrites ==
  ASSUME NEW doc \in Doc, NEW status \in Statuses, NEW phase \in Phases \cup {"none"},
         NEW e \in Embedders \cup {None}, NEW c \in Chunkers \cup {None}
  PROVE  /\ SetStatus(doc, status) \in Doc
         /\ SetPhase(doc, status, phase) \in Doc
         /\ SetEmbedding(doc, e) \in Doc
         /\ SetParsing(doc, c) \in Doc
         /\ SetCompleted(doc) \in Doc
  <1>1. \A st \in Statuses : SetStatus(doc, st) \in Doc
    BY DEF Doc, SetStatus
  <1>2. \A st \in Statuses, ph \in Phases \cup {"none"} : SetPhase(doc, st, ph) \in Doc
    BY <1>1 DEF Doc, SetPhase
  <1>3. {"processing", "completed"} \subseteq Statuses /\ {"embedding", "parsing_chunking"} \subseteq Phases
    BY DEF Statuses, InFlight, Phases
  <1>4. SetEmbedding(doc, e) \in Doc
    <2>1. SetPhase(doc, "processing", "embedding") \in Doc
      BY <1>2, <1>3
    <2>2. QED BY <2>1 DEF SetEmbedding, Doc
  <1>5. SetParsing(doc, c) \in Doc
    <2>1. SetPhase(doc, "processing", "parsing_chunking") \in Doc
      BY <1>2, <1>3
    <2>2. QED BY <2>1 DEF SetParsing, Doc
  <1>6. SetCompleted(doc) \in Doc
    BY <1>2, <1>3 DEF SetCompleted
  <1>7. QED BY <1>1, <1>2, <1>4, <1>5, <1>6

\* A job record that is about to store a document holds one.
LEMMA HeldDoc ==
  ASSUME JobsOK, NEW w \in Workers
  PROVE  /\ job[w] \in Job
         /\ Filled(job[w], wired[w])
         /\ job[w].got # None => job[w].got \in Doc
         /\ job[w].emb \in Embedders \cup {None}
         /\ job[w].chk \in Chunkers \cup {None}
  BY DEF JobsOK, Job

\* The nine writers that only store the document and move on.
LEMMA WritersTyped ==
  ASSUME TypeInv, NEW w \in Workers,
         \/ Start(w) \/ Abandon(w) \/ Embedding(w) \/ Parsing(w) \/ Downloading(w)
         \/ Downloaded(w) \/ Complete(w) \/ Error(w) \/ Missing(w)
  PROVE  TypeInv'
  <1> DEFINE doc == job[w].got
  <1>1. /\ doc \in Doc /\ job[w].emb \in Embedders \cup {None}
        /\ job[w].chk \in Chunkers \cup {None}
    <2>1. doc # None
      BY DEF Write, Start, Abandon, Embedding, Parsing, Downloading, Downloaded, Complete,
             Error, Missing
    <2>2. QED BY <2>1, HeldDoc DEF TypeInv
  <1> HIDE DEF doc
  <1>2. /\ {"uploaded", "completed", "downloading", "downloaded", "error"} \subseteq Statuses
        /\ {"downloading"} \subseteq Phases
    BY DEF Statuses, InFlight, Phases
  <1>3. /\ {"save", "next", "parsing", "embed", "clear", "download", "parse", "stop"} \subseteq Pcs
        /\ {"start", "abandon", "embedding", "parsing", "downloading", "downloaded", "complete",
            "error", "missing"} \cap Sourceless = {}
    BY DEF Pcs, Busy, Writes, Sourceless
  <1>4. ASSUME NEW d \in Doc, NEW pc \in {"save", "next", "parsing", "embed", "clear", "stop"},
               Write(w, d, pc), OnlyRow, job[w].pc \notin Sourceless
        PROVE  TypeInv'
    <2>1. pc \in Pcs /\ pc \notin Wired /\ pc \notin {"claimed", "init", "downloading"}
      BY <1>3 DEF Wired
    <2>2. QED BY <1>4, <2>1, OnlyRowStep
  <1>5. ASSUME NEW d \in Doc, NEW pc \in {"download", "parse"},
               Write(w, d, pc), OnlyRow, job[w].pc \in {"downloading", "downloaded"}
        PROVE  TypeInv'
    <2>1. /\ pc \in Pcs /\ pc \notin {"claimed", "init", "downloading"}
          /\ job[w].pc \in Wired /\ job[w].pc \notin Sourceless
      BY <1>3, <1>5 DEF Wired, Sourceless
    <2>2. QED BY <1>5, <2>1, OnlyRowStep
  <1>6. CASE Start(w)
    BY <1>1, <1>2, <1>3, <1>4, <1>6, DocWrites DEF Start, At, doc
  <1>7. CASE Abandon(w)
    BY <1>1, <1>2, <1>3, <1>4, <1>7, DocWrites DEF Abandon, At, doc
  <1>8. CASE Embedding(w)
    BY <1>1, <1>2, <1>3, <1>4, <1>8, DocWrites DEF Embedding, At, doc
  <1>9. CASE Parsing(w)
    BY <1>1, <1>2, <1>3, <1>4, <1>9, DocWrites DEF Parsing, At, doc
  <1>10. CASE Downloading(w)
    BY <1>1, <1>2, <1>5, <1>10, DocWrites DEF Downloading, At, doc
  <1>11. CASE Downloaded(w)
    BY <1>1, <1>2, <1>5, <1>11, DocWrites DEF Downloaded, At, doc
  <1>12. CASE Complete(w)
    BY <1>1, <1>2, <1>3, <1>4, <1>12, DocWrites DEF Complete, At, doc
  <1>13. CASE Error(w)
    BY <1>1, <1>2, <1>3, <1>4, <1>13, DocWrites DEF Error, At, doc
  <1>14. CASE Missing(w)
    BY <1>1, <1>2, <1>3, <1>4, <1>14, DocWrites DEF Missing, At, doc
  <1>15. QED BY <1>6, <1>7, <1>8, <1>9, <1>10, <1>11, <1>12, <1>13, <1>14

LEMMA GotoOnlyJob ==
  ASSUME TypeInv, NEW w \in Workers, NEW pc \in Pcs, Goto(w, pc), OnlyJob,
         pc \notin Sourceless => job[w].pc \notin Sourceless,
         pc # "idle" => job[w].pc # "idle",
         pc \notin Wired \cup {"claimed", "init"}
  PROVE  TypeInv'
  <1>1. Filled([job[w] EXCEPT !.pc = pc], wired[w])
    BY HeldDoc DEF TypeInv, Filled, Job
  <1>2. wired' = wired
    BY DEF OnlyJob, proc
  <1>3. JobsOK'
    BY <1>1, <1>2, GotoStep DEF TypeInv
  <1>4. QED BY <1>3, Frames DEF TypeInv, OnlyJob

\* The steps of a job that read shared state and change only the job.
LEMMA ReadersTyped ==
  ASSUME TypeInv, NEW w \in Workers,
         \/ ReadExisting(w) \/ Scan(w) \/ NextSource(w) \/ ClaimTimeout(w) \/ Check(w)
         \/ Collect(w) \/ Reconcile(w)
  PROVE  TypeInv'
  <1>1. job[w] \in Job /\ Filled(job[w], wired[w])
    BY HeldDoc DEF TypeInv
  <1>2. CASE ReadExisting(w)
    <2> DEFINE j == [job[w] EXCEPT !.got = row[Src(w)]]
    <2>1. Src(w) \in Sources
      BY <1>1, <1>2 DEF ReadExisting, Filled, Sourceless, Src, Writes
    <2>2. row[Src(w)] \in Doc
      BY <2>1 DEF TypeInv, StoresOK
    <2>3. j \in Job
      BY <1>1, <2>2 DEF Job
    <2>4. Filled(j, wired[w])
      BY <1>1, <2>2 DEF Job, Filled
    <2>5. job' = [job EXCEPT ![w] = j] /\ OnlyJob
      BY <1>2 DEF ReadExisting
    <2> HIDE DEF j
    <2>6. QED BY <2>3, <2>4, <2>5, OnlyJobStep
  <1>3. CASE Scan(w)
    <2> DEFINE j == [job[w] EXCEPT !.pc = "next", !.had = points, !.emb = embedder]
    <2>1. j \in Job
      BY <1>1 DEF Job, TypeInv, StoresOK, ConfigOK, Pcs
    <2>2. Filled(j, wired[w])
      BY <1>1, <1>3 DEF Job, Filled, Scan, At, Sourceless, Wired
    <2>3. job' = [job EXCEPT ![w] = j] /\ OnlyJob
      BY <1>3 DEF Scan
    <2> HIDE DEF j
    <2>4. QED BY <2>1, <2>2, <2>3, OnlyJobStep
  <1>4. CASE NextSource(w)
    <2>1. CASE Goto(w, "stop")
      <3>1. "stop" \in Pcs /\ "stop" \in Sourceless /\ "stop" \notin Wired
        BY DEF Pcs, Sourceless, Wired
      <3>2. job[w].pc # "idle" /\ OnlyJob
        BY <1>4 DEF NextSource, At
      <3>3. QED BY <2>1, <3>1, <3>2, GotoOnlyJob
    <2>2. ASSUME NEW t \in job[w].todo,
                 job' = [job EXCEPT ![w] =
                           [@ EXCEPT !.todo = job[w].todo \ {t}, !.src = t[1], !.ver = t[2],
                                     !.pts = job[w].had[t[1]], !.had[t[1]] = <<>>,
                                     !.pc = "decide"]]
          PROVE  TypeInv'
      <3> DEFINE j == [job[w] EXCEPT !.todo = job[w].todo \ {t}, !.src = t[1], !.ver = t[2],
                                     !.pts = job[w].had[t[1]], !.had[t[1]] = <<>>,
                                     !.pc = "decide"]
      <3>1. t[1] \in Sources /\ t[2] \in Nat
        BY <1>1 DEF Job
      <3>2. job[w].had[t[1]] \in Seq(Batch) /\ [job[w].had EXCEPT ![t[1]] = <<>>] \in [Sources -> Seq(Batch)]
        BY <1>1, <3>1, NoPoints DEF Job
      <3>3. j \in Job
        BY <1>1, <3>1, <3>2 DEF Job, Pcs
      <3>4. Filled(j, wired[w])
        BY <1>1, <1>4, <3>1 DEF Job, Filled, NextSource, At, Sourceless, Wired
      <3>5. job' = [job EXCEPT ![w] = j]
        BY <2>2
      <3>6. OnlyJob
        BY <1>4 DEF NextSource
      <3> HIDE DEF j
      <3>7. QED BY <3>3, <3>4, <3>5, <3>6, OnlyJobStep
    <2>3. QED BY <1>4, <2>1, <2>2 DEF NextSource
  <1>5. CASE ClaimTimeout(w)
    <2>1. "stop" \in Pcs /\ "stop" \in Sourceless /\ "stop" \notin Wired
      BY DEF Pcs, Sourceless, Wired
    <2>2. QED BY <1>5, <2>1, GotoOnlyJob DEF ClaimTimeout, At
  <1>6. CASE Check(w)
    <2>1. {"next", "complete"} \subseteq Pcs \ (Wired \cup {"claimed", "init"})
      BY DEF Pcs, Busy, Writes, Wired
    <2>2. job[w].pc = "check" /\ job[w].pc \notin Sourceless
      BY <1>6 DEF Check, At, Sourceless
    <2>3. QED BY <1>6, <2>1, <2>2, GotoOnlyJob DEF Check
  <1>7. CASE Collect(w)
    <2> DEFINE stored == {s \in Sources : points[s] # <<>> /\ (s \in Urls \/ disk[s] # 0)}
               todo == {<<s, disk[s]>> : s \in stored}
               j == [job[w] EXCEPT !.todo = todo, !.emb = embedder, !.pc = "init"]
    <2>1. todo \in SUBSET (Sources \X Nat)
      BY DEF TypeInv, StoresOK
    <2>2. job' = [job EXCEPT ![w] = j] /\ OnlyJob
      BY <1>7 DEF Collect
    <2> HIDE DEF todo
    <2>3. j \in Job
      BY <1>1, <2>1 DEF Job, TypeInv, ConfigOK, Pcs
    <2>4. Filled(j, wired[w])
      BY <1>1, <1>7 DEF Job, Filled, Collect, At, Sourceless, Wired, TypeInv, ConfigOK
    <2> HIDE DEF j
    <2>5. QED BY <2>2, <2>3, <2>4, OnlyJobStep
  <1>8. CASE Reconcile(w)
    <2>1. Idle \in Job /\ Filled(Idle, wired[w])
      BY IdleIsJob
    <2>2. [job[w] EXCEPT !.pc = "delrow"] \in Job
      BY <1>1 DEF Job, Pcs
    <2>3. Filled([job[w] EXCEPT !.pc = "delrow"], wired[w])
      BY <1>1, <1>8 DEF Job, Filled, Reconcile, At, Sourceless, Wired
    <2>4. PICK j \in {Idle, [job[w] EXCEPT !.pc = "delrow"]} : job' = [job EXCEPT ![w] = j]
      BY <1>8 DEF Reconcile
    <2>5. QED BY <1>8, <2>1, <2>2, <2>3, <2>4, OnlyJobStep DEF Reconcile
  <1>9. QED BY <1>2, <1>3, <1>4, <1>5, <1>6, <1>7, <1>8

\* Enter records sources only.
LEMMA EnterTyped ==
  ASSUME HistoryOK, NEW w \in Workers, NEW s \in Sources,
         overlap' = overlap \/ Enter(w, s)
  PROVE  overlap' \subseteq Sources
  BY DEF HistoryOK, Enter

LEMMA BeginStep ==
  ASSUME TypeInv, NEW w \in Workers, NEW kind \in Kinds, NEW pc \in Pcs,
         NEW s \in Sources \cup {None}, Begin(w, kind, pc, s),
         s = None => pc \in Sourceless, pc \notin Wired \cup {"claimed", "init"},
         wired' = wired
  PROVE  JobsOK'
  <1> DEFINE j == [Idle EXCEPT !.kind = kind, !.pc = pc, !.src = s, !.chk = chunker]
  <1>1. j \in Job
    BY IdleIsJob DEF Job, TypeInv, ConfigOK
  <1>2. Filled(j, wired[w])
    <2>1. j.pc = pc /\ j.src = s /\ j.chk = chunker
      BY IdleIsJob DEF Job
    <2>2. s \in Sources \/ pc \in Sourceless
      OBVIOUS
    <2>3. QED BY <2>1, <2>2 DEF Filled, TypeInv, ConfigOK
  <1>3. job' = [job EXCEPT ![w] = j]
    BY DEF Begin
  <1> HIDE DEF j
  <1>4. QED BY <1>1, <1>2, <1>3, JobStep DEF TypeInv

\* The steps that may put a second worker on a source.
LEMMA EnterersTyped ==
  ASSUME TypeInv, NEW w \in Workers,
         \/ Decide(w) \/ SweepFile(w)
         \/ \E s \in Sources : StartDelete(w, s) \/ StartForget(w, s) \/ StartDismiss(w, s)
                               \/ StartReconcile(w, s)
  PROVE  TypeInv'
  <1>1. job[w] \in Job /\ Filled(job[w], wired[w])
    BY HeldDoc DEF TypeInv
  <1>2. CASE Decide(w)
    <2> DEFINE phase == StartPhase(row[Src(w)], job[w].pts, job[w].chk)
               skip == \/ ChatGone(Src(w)) /\ job[w].kind # "ingest"
                       \/ UpToDate(row[Src(w)], job[w].emb, job[w].chk)
               redo == row[Src(w)].status = "completed"
               pts == IF phase = "reuse" THEN job[w].pts ELSE <<>>
               pc == IF skip THEN "next" ELSE IF row[Src(w)].status = "absent" THEN phase
                                              ELSE "claim"
               j == [job[w] EXCEPT !.next = phase, !.redo = redo, !.pts = pts, !.pc = pc]
    <2>1. phase \in {"reuse", "parsing"} /\ redo \in BOOLEAN
      BY DEF StartPhase
    <2>2. pts \in Seq(Batch)
      BY <1>1, NoPoints DEF Job
    <2>3. pc \in {"next", "reuse", "parsing", "claim"}
      BY <2>1
    <2>4. job' = [job EXCEPT ![w] = j]
      BY <1>2 DEF Decide, Src
    <2>10. OnlyOverlap
      BY <1>2 DEF Decide
    <2>5. job[w].src \in Sources /\ job[w].pc = "decide"
      BY <1>1, <1>2 DEF Decide, At, Filled, Sourceless
    <2>6. overlap' \subseteq Sources
      BY <1>2, <2>5, EnterTyped DEF Decide, TypeInv
    <2> HIDE DEF phase, redo, pts, pc
    <2>7. j \in Job
      <3>1. pc \in Pcs
        BY <2>3 DEF Pcs, Busy, Writes
      <3>2. phase \in {"reuse", "parsing"} /\ redo \in BOOLEAN /\ pts \in Seq(Batch)
        BY <2>1, <2>2
      <3>3. QED BY <1>1, <3>1, <3>2 DEF Job
    <2>8. Filled(j, wired[w])
      <3>1. j.pc = pc /\ j.src = job[w].src /\ j.chk = job[w].chk
        BY <1>1 DEF Job
      <3>2. QED BY <1>1, <2>3, <2>5, <3>1 DEF Filled, Sourceless, Wired
    <2> HIDE DEF j
    <2>9. QED BY <2>4, <2>6, <2>7, <2>8, <2>10, OnlyOverlapStep
  <1>3. CASE SweepFile(w)
    <2>1. Src(w) \in Sources /\ job[w].pc = "file" /\ job[w].src = Src(w)
      BY <1>1, <1>3 DEF SweepFile, At, Filled, Sourceless, Src
    <2>2. overlap' \subseteq Sources
      BY <1>3, <2>1, EnterTyped DEF SweepFile, TypeInv
    <2>3. OnlyOverlap
      BY <1>3 DEF SweepFile
    <2>4. CASE job' = [job EXCEPT ![w].todo = {<<Src(w), disk[Src(w)]>>}, ![w].pc = "scan"]
      <3> DEFINE todo == {<<Src(w), disk[Src(w)]>>}
                 j == [job[w] EXCEPT !.todo = todo, !.pc = "scan"]
      <3>1. todo \in SUBSET (Sources \X Nat)
        BY <2>1 DEF TypeInv, StoresOK
      <3>2. job' = [job EXCEPT ![w] = j]
        BY <2>4
      <3> HIDE DEF todo
      <3>3. j \in Job
        BY <1>1, <3>1 DEF Job, Pcs
      <3>4. Filled(j, wired[w])
        BY <1>1, <2>1 DEF Job, Filled, Sourceless, Wired
      <3> HIDE DEF j
      <3>5. QED BY <2>2, <2>3, <3>2, <3>3, <3>4, OnlyOverlapStep
    <2>5. CASE Goto(w, "missing")
      <3> DEFINE j == [job[w] EXCEPT !.pc = "missing"]
      <3>1. job' = [job EXCEPT ![w] = j]
        BY <2>5 DEF Goto
      <3>2. j \in Job
        BY <1>1 DEF Job, Pcs, Busy, Writes
      <3>3. Filled(j, wired[w])
        BY <1>1, <2>1 DEF Job, Filled, Sourceless, Wired
      <3> HIDE DEF j
      <3>4. QED BY <2>2, <2>3, <3>1, <3>2, <3>3, OnlyOverlapStep
    <2>6. QED BY <1>3, <2>4, <2>5 DEF SweepFile
  <1>4. ASSUME NEW s \in Sources, NEW kind \in {"delete", "forget", "gc"},
               NEW pc \in {"rmfile", "delrow", "gc"},
               Begin(w, kind, pc, s), Enter(w, s), OnlyOverlap
        PROVE  TypeInv'
    <2>1. kind \in Kinds /\ pc \in Pcs /\ pc \notin Wired \cup {"claimed", "init"} /\ wired' = wired
      BY <1>4 DEF Kinds, Pcs, Wired, OnlyOverlap, proc
    <2>2. s # None
      BY NoneIsNoActor
    <2>3. JobsOK'
      BY <1>4, <2>1, <2>2, BeginStep
    <2>4. overlap' \subseteq Sources
      BY <1>4, EnterTyped DEF TypeInv
    <2>5. HistoryOK'
      BY <1>4, <2>4 DEF OnlyOverlap, TypeInv, HistoryOK
    <2>6. QED BY <1>4, <2>3, <2>5, Frames DEF TypeInv, OnlyOverlap
  <1>5. ASSUME NEW s \in Sources,
               StartDelete(w, s) \/ StartForget(w, s) \/ StartDismiss(w, s) \/ StartReconcile(w, s)
        PROVE  TypeInv'
    BY <1>4, <1>5 DEF StartDelete, StartForget, StartDismiss, StartReconcile
  <1>6. QED BY <1>2, <1>3, <1>5

\* What the vector store holds after an addition.
LEMMA AddedBatches ==
  ASSUME NEW old \in Seq(Batch), NEW new \in Seq(Batch)
  PROVE  /\ Added(old, new) \in Seq(Batch)
         /\ old = <<>> /\ Len(new) <= 1 => Len(Added(old, new)) <= 1
  <1> DEFINE all == old \o new
  <1>1. all \in Seq(Batch) /\ Len(all) = Len(old) + Len(new)
    OBVIOUS
  <1>2. MaxCopies \in Nat /\ MaxCopies >= 2
    BY BoundsAssumption
  <1> HIDE DEF all
  <1>3. Len(all) > MaxCopies => SubSeq(all, 1, MaxCopies) \in Seq(Batch)
    BY <1>1, <1>2
  <1>4. Added(old, new) = IF Len(all) > MaxCopies THEN SubSeq(all, 1, MaxCopies) ELSE all
    BY DEF Added, all
  <1>5. old = <<>> /\ Len(new) <= 1 => Len(all) <= 1
    BY <1>1
  <1>6. Len(all) <= 1 => Added(old, new) = all
    BY <1>1, <1>2, <1>4
  <1>7. QED BY <1>1, <1>3, <1>4, <1>5, <1>6

\* Embedding keeps the batches and their number.
LEMMA EmbeddedBatches ==
  ASSUME NEW batches \in Seq(Batch), NEW e \in Embedders \cup {None}
  PROVE  /\ Embedded(batches, e) \in Seq(Batch)
         /\ Len(Embedded(batches, e)) = Len(batches)
  <1>1. DOMAIN batches = 1..Len(batches) /\ Len(batches) \in Nat
    OBVIOUS
  <1>2. ASSUME NEW i \in 1..Len(batches) PROVE [batches[i] EXCEPT !.embedder = e] \in Batch
    <2>1. batches[i] \in Batch
      BY <1>1
    <2>2. QED BY <2>1 DEF Batch
  <1>3. Embedded(batches, e) = [i \in 1..Len(batches) |-> [batches[i] EXCEPT !.embedder = e]]
    BY <1>1 DEF Embedded
  <1>4. QED BY <1>1, <1>2, <1>3

\* The download, the parser and the embedder.
LEMMA FalliblesTyped ==
  ASSUME TypeInv, NEW w \in Workers, Download(w) \/ Parse(w) \/ Embed(w)
  PROVE  TypeInv'
  <1>1. job[w] \in Job /\ Filled(job[w], wired[w])
    BY HeldDoc DEF TypeInv
  <1>2. faults' \in {faults, faults + 1} /\ OnlyFaults
    BY DEF Download, Parse, Embed, Fail
  <1>3. ASSUME NEW pc \in {"downloaded", "error"}, Goto(w, pc),
               job[w].pc \in {"download", "parse", "embed"},
               pc = "downloaded" => job[w].pc = "download"
        PROVE  TypeInv'
    <2> DEFINE j == [job[w] EXCEPT !.pc = pc]
    <2>1. j \in Job
      BY <1>1 DEF Job, Pcs, Busy, Writes
    <2>2. j.pc = pc /\ j.src = job[w].src /\ j.chk = job[w].chk
      BY <1>1 DEF Job
    <2>3. Filled(j, wired[w])
      BY <1>1, <1>3, <2>2 DEF Filled, Sourceless, Wired
    <2>4. job' = [job EXCEPT ![w] = j]
      BY <1>3 DEF Goto
    <2> HIDE DEF j
    <2>5. QED BY <1>2, <2>1, <2>3, <2>4, OnlyFaultsStep
  <1>4. CASE Download(w)
    BY <1>3, <1>4 DEF Download, At
  <1>5. ASSUME NEW pc \in {"store", "remove"}, NEW pts \in Seq(Batch),
               job[w].pc \in {"parse", "embed"},
               job' = [job EXCEPT ![w] = [job[w] EXCEPT !.pc = pc, !.pts = pts]]
        PROVE  TypeInv'
    <2> DEFINE j == [job[w] EXCEPT !.pc = pc, !.pts = pts]
    <2>1. j \in Job
      BY <1>1 DEF Job, Pcs, Busy, Writes
    <2>2. j.pc = pc /\ j.src = job[w].src /\ j.chk = job[w].chk
      BY <1>1 DEF Job
    <2>3. Filled(j, wired[w])
      BY <1>1, <1>5, <2>2 DEF Filled, Sourceless, Wired
    <2> HIDE DEF j
    <2>4. QED BY <1>2, <1>5, <2>1, <2>3, OnlyFaultsStep DEF j
  <1>6. CASE Parse(w)
    <2> DEFINE pts == <<[ver |-> job[w].ver, chunker |-> wired[w], embedder |-> None]>>
    <2>1. job[w].pc = "parse"
      BY <1>6 DEF Parse, At
    <2>2. [ver |-> job[w].ver, chunker |-> wired[w], embedder |-> None] \in Batch
      BY <1>1, <2>1 DEF Filled, Wired, Job, Batch
    <2>3. pts \in Seq(Batch)
      BY <2>2
    <2>4. CASE Goto(w, "error")
      BY <1>3, <2>1, <2>4
    <2>5. CASE job' = [job EXCEPT ![w].pc = "store", ![w].pts = pts]
      <3>1. job' = [job EXCEPT ![w] = [job[w] EXCEPT !.pc = "store", !.pts = pts]]
        BY <2>5
      <3> HIDE DEF pts
      <3>2. QED BY <1>5, <2>1, <2>3, <3>1
    <2>6. QED BY <1>6, <2>4, <2>5 DEF Parse
  <1>7. CASE Embed(w)
    <2> DEFINE pts == Embedded(job[w].pts, job[w].emb)
    <2>1. job[w].pc = "embed"
      BY <1>7 DEF Embed, At
    <2>2. pts \in Seq(Batch)
      BY <1>1, EmbeddedBatches DEF Job
    <2>3. CASE Goto(w, "error")
      BY <1>3, <2>1, <2>3
    <2>4. CASE job' = [job EXCEPT ![w].pc = "remove", ![w].pts = pts]
      <3>1. job' = [job EXCEPT ![w] = [job[w] EXCEPT !.pc = "remove", !.pts = pts]]
        BY <2>4
      <3> HIDE DEF pts
      <3>2. QED BY <1>5, <2>1, <2>2, <3>1
    <2>5. QED BY <1>7, <2>3, <2>4 DEF Embed
  <1>8. QED BY <1>4, <1>6, <1>7

\* The steps that change one job and the points.
LEMMA StorersTyped ==
  ASSUME TypeInv, NEW w \in Workers,
         Reuse(w) \/ Store(w) \/ Remove(w) \/ Add(w) \/ RemovePoints(w)
  PROVE  TypeInv'
  <1>1. job[w] \in Job /\ Filled(job[w], wired[w])
    BY HeldDoc DEF TypeInv
  <1>2. /\ job[w].pc \in {"reuse", "store", "remove", "add", "rmpoints"} /\ OnlyPoints
        /\ job[w].pc # "idle" /\ job[w].pc \notin Sourceless
    BY DEF Reuse, Store, Remove, Add, RemovePoints, At, Sourceless
  <1>3. Src(w) \in Sources /\ Src(w) = job[w].src
    BY <1>1, <1>2 DEF Filled, Src
  <1>4. ASSUME NEW pc \in {"abandon", "embedding", "add", "check", "error", "delchat", "delrow"},
               NEW pts \in Seq(Batch),
               points' \in [Sources -> Seq(Batch)],
               job' = [job EXCEPT ![w] = [job[w] EXCEPT !.pc = pc, !.pts = pts]]
        PROVE  TypeInv'
    <2> DEFINE j == [job[w] EXCEPT !.pc = pc, !.pts = pts]
    <2>1. pc \in Pcs /\ pc \notin Wired \cup {"claimed", "init"}
      BY DEF Pcs, Busy, Writes, Wired
    <2>2. j \in Job
      BY <1>1, <2>1 DEF Job
    <2>3. j.pc = pc /\ j.src = job[w].src /\ j.chk = job[w].chk
      BY <1>1 DEF Job
    <2>4. Filled(j, wired[w])
      BY <1>1, <1>2, <2>1, <2>3 DEF Filled, Sourceless
    <2> HIDE DEF j
    <2>5. QED BY <1>2, <1>4, <2>2, <2>4, OnlyPointsStep DEF j
  <1>5. ASSUME NEW pc \in {"abandon", "embedding", "add", "check", "error", "delchat", "delrow"},
               points' \in [Sources -> Seq(Batch)], Goto(w, pc)
        PROVE  TypeInv'
    <2>1. job[w].pts \in Seq(Batch)
      BY <1>1 DEF Job
    <2>2. [job[w] EXCEPT !.pc = pc] = [job[w] EXCEPT !.pc = pc, !.pts = job[w].pts]
      BY <1>1 DEF Job
    <2>3. job' = [job EXCEPT ![w] = [job[w] EXCEPT !.pc = pc]]
      BY <1>5 DEF Goto
    <2>4. QED BY <1>4, <1>5, <2>1, <2>2, <2>3
  <1>6. /\ points \in [Sources -> Seq(Batch)]
        /\ [points EXCEPT ![Src(w)] = <<>>] \in [Sources -> Seq(Batch)]
    BY <1>3, NoPoints DEF TypeInv, StoresOK
  <1>7. [points EXCEPT ![Src(w)] = Added(points[Src(w)], job[w].pts)] \in [Sources -> Seq(Batch)]
    <2>1. Added(points[Src(w)], job[w].pts) \in Seq(Batch)
      BY <1>1, <1>3, <1>6, AddedBatches DEF Job
    <2>2. QED BY <1>6, <2>1
  <1>8. CASE Reuse(w)
    BY <1>5, <1>6, <1>8 DEF Reuse
  <1>9. CASE Store(w)
    BY <1>5, <1>7, <1>9 DEF Store
  <1>10. CASE Remove(w)
    BY <1>5, <1>6, <1>10 DEF Remove
  <1>11. CASE Add(w)
    <2>1. CASE UNCHANGED points /\ Goto(w, "error")
      BY <1>5, <1>6, <2>1
    <2>2. CASE /\ points' = [points EXCEPT ![Src(w)] = Added(points[Src(w)], job[w].pts)]
               /\ job' = [job EXCEPT ![w].pc = "check", ![w].pts = <<>>]
      <3>1. job' = [job EXCEPT ![w] = [job[w] EXCEPT !.pc = "check", !.pts = <<>>]]
        BY <2>2
      <3>2. QED BY <1>4, <1>7, <2>2, <3>1, NoPoints
    <2>3. QED BY <1>11, <2>1, <2>2 DEF Add
  <1>12. CASE RemovePoints(w)
    BY <1>5, <1>6, <1>12 DEF RemovePoints
  <1>13. QED BY <1>8, <1>9, <1>10, <1>11, <1>12

\* A job that ends, with whatever else the last step does.
LEMMA IdleStep ==
  ASSUME JobsOK, NEW w \in Workers, job' = [job EXCEPT ![w] = Idle],
         \A v \in Workers \ {w} : wired'[v] = wired[v]
  PROVE  JobsOK'
  BY IdleIsJob, JobStep

\* The beginnings of jobs that Enter does not guard.
LEMMA BeginnersTyped ==
  ASSUME TypeInv, NEW w \in Workers,
         \/ \E s \in Sources : StartIngest(w, s) \/ StartSweep(w, s)
         \/ \E e \in Embedders : SwitchEmbedder(w, e)
  PROVE  TypeInv'
  <1>1. ASSUME NEW s \in Sources, StartIngest(w, s)
        PROVE  TypeInv'
    <2> DEFINE ver == IF s \in Urls THEN 0 ELSE uploads + 1
               todo == {<<s, ver>>}
               j == [Idle EXCEPT !.kind = "ingest", !.pc = "start", !.src = s, !.ver = ver,
                                 !.todo = todo, !.chk = chunker]
    <2>1. ver \in Nat /\ todo \in SUBSET (Sources \X Nat)
      BY DEF TypeInv, HistoryOK
    <2>2. job' = [job EXCEPT ![w] = j]
      BY <1>1 DEF StartIngest
    <2> HIDE DEF ver, todo
    <2>3. j \in Job
      <3>1. "ingest" \in Kinds /\ "start" \in Pcs
        BY DEF Kinds, Pcs, Busy, Writes
      <3>2. QED BY <2>1, <3>1, IdleIsJob DEF Job, TypeInv, ConfigOK
    <2>4. j.pc = "start" /\ j.src = s /\ j.chk = chunker
      BY IdleIsJob DEF Job
    <2>5. Filled(j, wired[w])
      BY <2>4 DEF Filled, Wired, TypeInv, ConfigOK
    <2> HIDE DEF j
    <2>6. wired' = wired
      BY <1>1 DEF StartIngest, proc
    <2>7. JobsOK'
      BY <2>2, <2>3, <2>5, <2>6, JobStep DEF TypeInv
    <2>8. HistoryOK'
      <3>1. overlap' \subseteq Sources
        BY <1>1, EnterTyped DEF StartIngest, TypeInv
      <3>2. uploads' = uploads + 1 /\ faults' = faults
        BY <1>1 DEF StartIngest
      <3>3. QED BY <3>1, <3>2 DEF TypeInv, HistoryOK
    <2>9. QED BY <1>1, <2>7, <2>8, Frames DEF TypeInv, StartIngest
  <1>2. ASSUME NEW s \in Sources, StartSweep(w, s)
        PROVE  TypeInv'
    <2>1. /\ "sweep" \in Kinds /\ "file" \in Pcs /\ "file" \notin Wired \cup {"claimed", "init"}
          /\ s # None /\ wired' = wired /\ Begin(w, "sweep", "file", s)
      BY <1>2, NoneIsNoActor DEF Kinds, Pcs, Wired, StartSweep, proc
    <2>2. JobsOK'
      BY <2>1, BeginStep
    <2>3. LocksOK'
      BY <1>2 DEF StartSweep, TypeInv, LocksOK
    <2>4. QED BY <1>2, <2>2, <2>3, Frames DEF StartSweep, TypeInv
  <1>3. ASSUME NEW e \in Embedders, SwitchEmbedder(w, e)
        PROVE  TypeInv'
    <2>1. /\ "run" \in Kinds /\ "collect" \in Pcs /\ "collect" \in Sourceless
          /\ "collect" \notin Wired \cup {"claimed", "init"}
          /\ wired' = wired /\ Begin(w, "run", "collect", None)
      BY <1>3 DEF Kinds, Pcs, Wired, Sourceless, SwitchEmbedder, proc
    <2>2. JobsOK'
      BY <2>1, BeginStep
    <2>3. ConfigOK'
      BY <1>3 DEF SwitchEmbedder, TypeInv, ConfigOK
    <2>4. QED BY <1>3, <2>2, <2>3, Frames DEF SwitchEmbedder, TypeInv
  <1>4. QED BY <1>1, <1>2, <1>3

\* The endings of jobs, a crash among them.
LEMMA EndersTyped ==
  ASSUME TypeInv, NEW w \in Workers, Stop(w) \/ DeleteRow(w) \/ DeleteChat(w) \/ Crash(w)
  PROVE  TypeInv'
  <1>1. job' = [job EXCEPT ![w] = Idle] /\ \A v \in Workers \ {w} : wired'[v] = wired[v]
    BY DEF Stop, DeleteRow, DeleteChat, Crash, OnlyRow, proc, TypeInv, ProcOK
  <1>2. JobsOK'
    BY <1>1, IdleStep DEF TypeInv
  <1>3. ASSUME UNCHANGED wired \/ wired' = [wired EXCEPT ![w] = None],
               beat' = [beat EXCEPT ![w] = NoBeat]
        PROVE  ProcOK'
    <2>1. NoBeat \in Beat /\ BeatFilled(NoBeat)
      BY DEF NoBeat, Beat, BeatFilled
    <2>2. beat' \in [Workers -> Beat] /\ wired' \in [Workers -> Chunkers \cup {None}]
      BY <1>3, <2>1 DEF TypeInv, ProcOK
    <2>3. \A v \in Workers : beat'[v] = beat[v] \/ beat'[v] = NoBeat
      BY <1>3 DEF TypeInv, ProcOK
    <2>4. QED BY <2>1, <2>2, <2>3 DEF TypeInv, ProcOK
  <1>4. CASE Stop(w)
    <2>1. LocksOK'
      BY <1>4 DEF Stop, TypeInv, LocksOK
    <2>2. ProcOK'
      BY <1>3, <1>4 DEF Stop
    <2>3. QED BY <1>2, <1>4, <2>1, <2>2, Frames DEF Stop, TypeInv
  <1>5. CASE DeleteRow(w)
    <2>1. NoDoc \in Doc
      BY DEF NoDoc, Doc
    <2>2. StoresOK'
      BY <1>5, <2>1 DEF DeleteRow, OnlyRow, TypeInv, StoresOK
    <2>3. QED BY <1>2, <1>5, <2>2, Frames DEF DeleteRow, OnlyRow, TypeInv
  <1>6. CASE DeleteChat(w)
    <2>1. StoresOK'
      BY <1>6 DEF DeleteChat, TypeInv, StoresOK
    <2>2. QED BY <1>2, <1>6, <2>1, Frames DEF DeleteChat, TypeInv
  <1>7. CASE Crash(w)
    <2>1. ProcOK'
      BY <1>3, <1>7 DEF Crash
    <2>2. HistoryOK'
      BY <1>7 DEF Crash, Fail, TypeInv, HistoryOK
    <2>3. LocksOK'
      BY <1>7 DEF Crash, TypeInv, LocksOK
    <2>4. QED BY <1>2, <1>7, <2>1, <2>2, <2>3, Frames DEF Crash, TypeInv
  <1>8. QED BY <1>4, <1>5, <1>6, <1>7

\* The heartbeat changes its own record, and the row.
LEMMA HeartbeatTyped ==
  ASSUME TypeInv, NEW w \in Workers, Heartbeat(w)
  PROVE  TypeInv'
  <1>1. beat[w] \in Beat /\ BeatFilled(beat[w]) /\ wired' = wired /\ job' = job
    BY DEF TypeInv, ProcOK, Heartbeat, BeatGet, BeatRead, BeatStore
  <1>2. JobsOK'
    BY <1>1 DEF TypeInv, JobsOK
  <1>3. ASSUME NEW b \in Beat, BeatFilled(b), beat' = [beat EXCEPT ![w] = b]
        PROVE  ProcOK'
    <2>1. beat' \in [Workers -> Beat] /\ \A v \in Workers : beat'[v] = beat[v] \/ beat'[v] = b
      BY <1>3 DEF TypeInv, ProcOK
    <2>2. QED BY <1>1, <1>3, <2>1 DEF TypeInv, ProcOK
  <1>4. CASE BeatGet(w)
    <2>1. PICK b \in {NoBeat, [beat[w] EXCEPT !.at = "due"]} : beat' = [beat EXCEPT ![w] = b]
      BY <1>4 DEF BeatGet
    <2>2. b \in Beat /\ BeatFilled(b)
      BY <1>1, <1>4, <2>1 DEF BeatGet, NoBeat, Beat, BeatFilled
    <2>3. QED BY <1>2, <1>3, <1>4, <2>1, <2>2, Frames DEF BeatGet, TypeInv
  <1>5. CASE BeatRead(w)
    <2> DEFINE b == [beat[w] EXCEPT !.at = "merge", !.got = row[beat[w].src]]
    <2>1. row[beat[w].src] \in Doc
      BY <1>1, <1>5 DEF BeatRead, BeatFilled, TypeInv, StoresOK
    <2>2. b \in Beat /\ BeatFilled(b)
      BY <1>1, <1>5, <2>1 DEF BeatRead, Beat, BeatFilled
    <2>3. beat' = [beat EXCEPT ![w] = b]
      BY <1>5 DEF BeatRead
    <2> HIDE DEF b
    <2>4. ProcOK'
      BY <1>3, <2>2, <2>3
    <2>5. QED BY <1>2, <1>5, <2>4, Frames DEF BeatRead, TypeInv
  <1>6. CASE BeatStore(w)
    <2> DEFINE b == [beat[w] EXCEPT !.at = "asleep", !.got = None]
    <2>1. b \in Beat /\ BeatFilled(b)
      BY <1>1, <1>6 DEF BeatStore, Beat, BeatFilled
    <2>2. beat' = [beat EXCEPT ![w] = b]
      BY <1>6 DEF BeatStore
    <2> HIDE DEF b
    <2>3. ProcOK'
      BY <1>3, <2>1, <2>2
    <2>4. "processing" \in Statuses /\ beat[w].got \in Doc /\ beat[w].src \in Sources
      BY <1>1, <1>6 DEF Statuses, InFlight, BeatStore, BeatFilled
    <2>5. SetStatus(beat[w].got, "processing") \in Doc
      BY <2>4 DEF SetStatus, Doc
    <2>6. StoresOK'
      BY <1>6, <2>4, <2>5 DEF BeatStore, TypeInv, StoresOK
    <2>7. QED BY <1>2, <1>6, <2>3, <2>6, Frames DEF BeatStore, TypeInv
  <1>7. QED BY <1>4, <1>5, <1>6 DEF Heartbeat

\* Save, Processing, Clear and the removal of a file.
LEMMA UploadTyped ==
  ASSUME TypeInv, NEW w \in Workers,
         Save(w) \/ Processing(w) \/ Clear(w) \/ RemoveFile(w) \/ Initialize(w)
  PROVE  TypeInv'
  <1>1. job[w] \in Job /\ Filled(job[w], wired[w])
    BY HeldDoc DEF TypeInv
  <1>2. ASSUME NEW pc \in {"processing", "rmpoints", "scan"}, Goto(w, pc), wired' = wired,
               job[w].pc \in {"save", "rmfile", "init"}, job[w].pc = "init" => pc = "scan"
        PROVE  JobsOK'
    <2>1. pc \in Pcs /\ pc \notin Wired \cup {"claimed", "init"}
      BY DEF Pcs, Busy, Writes, Wired
    <2>2. Filled([job[w] EXCEPT !.pc = pc], wired[w])
      BY <1>1, <1>2, <2>1 DEF Job, Filled, Sourceless
    <2>3. QED BY <1>2, <2>1, <2>2, GotoStep DEF TypeInv
  <1>3. CASE Save(w)
    <2>1. job[w].pc = "save" /\ Src(w) \in Sources /\ wired' = wired /\ Goto(w, "processing")
      BY <1>1, <1>3 DEF Save, At, Filled, Sourceless, Src, proc
    <2>2. JobsOK'
      BY <1>2, <2>1
    <2>3. disk' \in [Sources -> Nat]
      BY <1>1, <1>3, <2>1 DEF Save, Job, TypeInv, StoresOK
    <2>4. StoresOK'
      BY <1>3, <2>3 DEF Save, TypeInv, StoresOK
    <2>5. HistoryOK'
      BY <1>3 DEF Save, Fail, TypeInv, HistoryOK
    <2>6. QED BY <1>3, <2>2, <2>4, <2>5, Frames DEF Save, TypeInv
  <1>4. CASE Processing(w)
    <2> DEFINE doc == SetParsing(job[w].got, job[w].chk)
    <2>1. job[w].pc = "processing" /\ Src(w) \in Sources /\ wired' = wired
      BY <1>1, <1>4 DEF Processing, At, Filled, Sourceless, Src
    <2>2. Write(w, doc, "scan") /\ UNCHANGED <<disk, points, collection, chats>>
      BY <1>4 DEF Processing
    <2>3. doc \in Doc
      <3>1. job[w].got \in Doc /\ job[w].chk \in Chunkers \cup {None}
        BY <2>2, HeldDoc DEF Write, TypeInv
      <3>2. "uploaded" \in Statuses /\ None \in Embedders \cup {None}
        BY DEF Statuses, InFlight
      <3>3. QED BY <3>1, <3>2, DocWrites
    <2> HIDE DEF doc
    <2>4. /\ "scan" \in Pcs /\ "scan" \notin Wired /\ "scan" \notin {"claimed", "init", "downloading"}
          /\ job[w].pc \notin Sourceless
      BY <2>1 DEF Pcs, Wired, Sourceless
    <2>5. JobsOK' /\ StoresOK'
      BY <2>1, <2>2, <2>3, <2>4, WriteStep DEF TypeInv
    <2>6. ProcOK'
      <3> DEFINE b == [NoBeat EXCEPT !.at = "asleep", !.src = Src(w)]
      <3>1. b \in Beat /\ BeatFilled(b)
        BY <2>1 DEF NoBeat, Beat, BeatFilled
      <3>2. beat' = [beat EXCEPT ![w] = b]
        BY <1>4 DEF Processing
      <3> HIDE DEF b
      <3>3. beat' \in [Workers -> Beat] /\ \A v \in Workers : beat'[v] = beat[v] \/ beat'[v] = b
        BY <3>1, <3>2 DEF TypeInv, ProcOK
      <3>4. QED BY <2>1, <3>1, <3>3 DEF TypeInv, ProcOK
    <2>7. QED BY <1>4, <2>5, <2>6, Frames DEF Processing, TypeInv
  <1>5. CASE Clear(w)
    <2>1. job[w].pc = "clear" /\ Src(w) \in Sources /\ job[w].chk \in Chunkers
      BY <1>1, <1>5 DEF Clear, At, Filled, Sourceless, Src
    <2>2. /\ wired' \in [Workers -> Chunkers \cup {None}] /\ wired'[w] \in Chunkers
          /\ \A v \in Workers \ {w} : wired'[v] = wired[v]
      BY <1>5, <2>1 DEF Clear, TypeInv, ProcOK
    <2>3. PICK pc \in {"downloading", "parse"} : Goto(w, pc)
      BY <1>5 DEF Clear
    <2> DEFINE j == [job[w] EXCEPT !.pc = pc]
    <2>4. j \in Job
      BY <1>1 DEF Job, Pcs, Busy, Writes
    <2>5. j.pc = pc /\ j.src = job[w].src /\ j.chk = job[w].chk
      BY <1>1 DEF Job
    <2>6. Filled(j, wired'[w])
      BY <1>1, <2>1, <2>2, <2>5 DEF Filled, Src
    <2>7. job' = [job EXCEPT ![w] = j]
      BY <2>3 DEF Goto
    <2> HIDE DEF j
    <2>8. JobsOK'
      BY <2>2, <2>4, <2>6, <2>7, JobStep DEF TypeInv
    <2>9. StoresOK'
      BY <1>5, <2>1, NoPoints DEF Clear, TypeInv, StoresOK
    <2>10. ProcOK'
      BY <1>5, <2>2 DEF Clear, TypeInv, ProcOK
    <2>11. QED BY <1>5, <2>8, <2>9, <2>10, Frames DEF Clear, TypeInv
  <1>6. CASE RemoveFile(w)
    <2>1. job[w].pc = "rmfile" /\ Goto(w, "rmpoints") /\ wired' = wired
      BY <1>6 DEF RemoveFile, At, proc
    <2>2. JobsOK'
      BY <1>2, <2>1
    <2>3. StoresOK'
      BY <1>6 DEF RemoveFile, TypeInv, StoresOK
    <2>4. QED BY <1>6, <2>2, <2>3, Frames DEF RemoveFile, TypeInv
  <1>7. CASE Initialize(w)
    <2>1. job[w].pc = "init" /\ Goto(w, "scan") /\ wired' = wired
      BY <1>7 DEF Initialize, At, proc
    <2>2. JobsOK'
      BY <1>2, <2>1
    <2>3. job[w].emb \in Embedders
      BY <1>1, <2>1 DEF Filled
    <2>4. StoresOK'
      BY <1>7, <2>3, NoPoints DEF Initialize, TypeInv, StoresOK
    <2>5. QED BY <1>7, <2>2, <2>4, Frames DEF Initialize, TypeInv
  <1>8. QED BY <1>3, <1>4, <1>5, <1>6, <1>7

\* The two halves of a claim.
LEMMA ClaimTyped ==
  ASSUME TypeInv, NEW w \in Workers, Claim(w) \/ Claimed(w)
  PROVE  TypeInv'
  <1>1. job[w] \in Job /\ Filled(job[w], wired[w])
    BY HeldDoc DEF TypeInv
  <1>2. CASE Claim(w)
    <2>1. job[w].pc = "claim" /\ Src(w) \in Sources /\ Src(w) = job[w].src
      BY <1>1, <1>2 DEF Claim, At, Filled, Sourceless, Src
    <2>2. overlap' \subseteq Sources
      BY <1>2, <2>1, EnterTyped DEF Claim, TypeInv
    <2>3. UNCHANGED <<uploads, faults>> /\ wired' = wired
      BY <1>2 DEF Claim, proc
    <2>4. HistoryOK'
      BY <2>2, <2>3 DEF TypeInv, HistoryOK
    <2>5. lock' \in [Sources -> Workers \cup {None}] /\ sweeper' = sweeper /\ lapsed' = lapsed
      BY <1>2 DEF Claim, TypeInv, LocksOK
    <2>6. LocksOK'
      BY <2>5 DEF TypeInv, LocksOK
    <2>7. row[Src(w)] \in Doc
      BY <2>1 DEF TypeInv, StoresOK
    <2>8. PICK j \in {[job[w] EXCEPT !.pc = "claimed", !.got = row[Src(w)]],
                      [job[w] EXCEPT !.pc = "next"]} : job' = [job EXCEPT ![w] = j]
      BY <1>2, <2>1 DEF Claim, Goto
    <2>9. j \in Job
      <3>1. {"claimed", "next"} \subseteq Pcs
        BY DEF Pcs, Busy
      <3>2. [job[w] EXCEPT !.pc = "claimed", !.got = row[Src(w)]] \in Job
        BY <1>1, <2>7, <3>1 DEF Job
      <3>3. [job[w] EXCEPT !.pc = "next"] \in Job
        BY <1>1, <3>1 DEF Job
      <3>4. QED BY <2>8, <3>2, <3>3
    <2>10. Filled(j, wired'[w])
      BY <1>1, <2>1, <2>3, <2>7, <2>8 DEF Job, Filled, Sourceless, Wired
    <2>11. JobsOK'
      BY <2>3, <2>8, <2>9, <2>10, JobStep DEF TypeInv
    <2>12. QED BY <1>2, <2>4, <2>6, <2>11, Frames DEF Claim, TypeInv
  <1>3. CASE Claimed(w)
    <2>1. job[w].pc = "claimed" /\ Src(w) \in Sources /\ job[w].got \in Doc /\ Src(w) = job[w].src
      BY <1>1, <1>3 DEF Claimed, At, Filled, Sourceless, Src
    <2>2. SetStatus(job[w].got, "processing") \in Doc
      BY <2>1 DEF SetStatus, Doc, Statuses, InFlight
    <2>3. row' \in [Sources -> Doc]
      BY <1>3, <2>2 DEF Claimed, TypeInv, StoresOK
    <2>4. StoresOK'
      BY <1>3, <2>3 DEF Claimed, TypeInv, StoresOK
    <2>5. LocksOK'
      BY <1>3 DEF Claimed, TypeInv, LocksOK
    <2> DEFINE j == [job[w] EXCEPT !.pc = job[w].next, !.got = None, !.next = "parsing",
                                   !.redo = FALSE]
    <2>6. job[w].next \in {"reuse", "parsing"}
      BY <1>1 DEF Job
    <2>7. j \in Job
      <3>1. job[w].next \in Pcs
        BY <2>6 DEF Pcs, Busy, Writes
      <3>2. QED BY <1>1, <3>1 DEF Job
    <2>8. j.pc = job[w].next /\ j.src = job[w].src /\ j.chk = job[w].chk
      BY <1>1 DEF Job
    <2>9. wired' = wired
      BY <1>3 DEF Claimed, proc
    <2>10. Filled(j, wired'[w])
      BY <1>1, <2>1, <2>6, <2>8, <2>9 DEF Filled, Wired
    <2>11. job' = [job EXCEPT ![w] = j]
      BY <1>3 DEF Claimed
    <2> HIDE DEF j
    <2>12. JobsOK'
      BY <2>7, <2>9, <2>10, <2>11, JobStep DEF TypeInv
    <2>13. QED BY <1>3, <2>4, <2>5, <2>12, Frames DEF Claimed, TypeInv
  <1>4. QED BY <1>2, <1>3

\* Time, and the administrator.
LEMMA EnvironmentTyped ==
  ASSUME TypeInv, Environment
  PROVE  TypeInv'
  <1>1. job' = job /\ wired' = wired
    BY DEF Environment, Age, LockExpires, SweepLockExpires, SwitchChunker, proc
  <1>2. JobsOK'
    BY <1>1 DEF TypeInv, JobsOK
  <1>3. ASSUME NEW s \in Sources, Age(s)
        PROVE  TypeInv'
    <2>1. row[s] \in Doc
      BY DEF TypeInv, StoresOK
    <2>2. [row[s] EXCEPT !.stale = TRUE] \in Doc
      BY <2>1 DEF Doc
    <2>3. row' = [row EXCEPT ![s] = [row[s] EXCEPT !.stale = TRUE]]
      BY <1>3 DEF Age
    <2>4. StoresOK'
      BY <1>3, <2>2, <2>3 DEF Age, TypeInv, StoresOK
    <2>5. QED BY <1>2, <1>3, <2>4, Frames DEF Age, TypeInv
  <1>4. ASSUME NEW s \in Sources, LockExpires(s)
        PROVE  TypeInv'
    <2>1. LocksOK'
      BY <1>4 DEF LockExpires, TypeInv, LocksOK
    <2>2. QED BY <1>2, <1>4, <2>1, Frames DEF LockExpires, TypeInv
  <1>5. ASSUME SweepLockExpires
        PROVE  TypeInv'
    <2>1. LocksOK'
      BY <1>5 DEF SweepLockExpires, TypeInv, LocksOK
    <2>2. QED BY <1>2, <1>5, <2>1, Frames DEF SweepLockExpires, TypeInv
  <1>6. ASSUME NEW c \in Chunkers, SwitchChunker(c)
        PROVE  TypeInv'
    <2>1. ConfigOK'
      BY <1>6 DEF SwitchChunker, TypeInv, ConfigOK
    <2>2. QED BY <1>2, <1>6, <2>1, Frames DEF SwitchChunker, TypeInv
  <1>7. QED BY <1>3, <1>4, <1>5, <1>6 DEF Environment

LEMMA InitTyped == Init => TypeInv
  <1> SUFFICES ASSUME Init PROVE TypeInv
    OBVIOUS
  <1>1. StoresOK
    <2>1. NoDoc \in Doc
      BY DEF NoDoc, Doc
    <2>2. QED BY <2>1, NoPoints DEF Init, StoresOK
  <1>2. ConfigOK /\ LocksOK /\ HistoryOK
    BY DEF Init, ConfigOK, LocksOK, HistoryOK
  <1>3. JobsOK
    BY IdleIsJob DEF Init, JobsOK
  <1>4. ProcOK
    BY DEF Init, ProcOK, NoBeat, Beat, BeatFilled
  <1>5. QED BY <1>1, <1>2, <1>3, <1>4 DEF TypeInv

LEMMA NextTyped ==
  ASSUME TypeInv, [Next]_vars
  PROVE  TypeInv'
  <1>1. ASSUME NEW w \in Workers, Work(w)
        PROVE  TypeInv'
    BY <1>1, WritersTyped, ReadersTyped, EnterersTyped, FalliblesTyped, StorersTyped,
       EndersTyped, UploadTyped, ClaimTyped DEF Work
  <1>2. ASSUME NEW w \in Workers, Sweep(w) \/ Request(w)
        PROVE  TypeInv'
    BY <1>2, EnterersTyped, BeginnersTyped DEF Sweep, Request
  <1>3. CASE UNCHANGED vars
    <2>1. job' = job /\ wired' = wired
      BY <1>3 DEF vars, proc
    <2>2. JobsOK'
      BY <2>1 DEF TypeInv, JobsOK
    <2>3. QED BY <1>3, <2>2, Frames DEF vars, TypeInv
  <1>4. QED BY <1>1, <1>2, <1>3, HeartbeatTyped, EndersTyped, EnvironmentTyped DEF Next

\* In every reachable state, for any workers and sources, the variables have
\* their types: a row is a document, a batch names a chunker, the collection an
\* embedder.
THEOREM TypeCorrect == Spec => []TypeOK
  <1>1. Spec => []TypeInv
    BY InitTyped, NextTyped, PTL DEF Spec
  <1>2. QED BY <1>1, TypeInvIsStronger, PTL

-----------------------------------------------------------------------------
(***************************************************************************)
(* The safety properties that hold whatever a status document says of      *)
(* phases and completion: one copy of a source's chunks, one holder of a   *)
(* claim, and no sweep over a live upload.                                 *)
(***************************************************************************)

-----------------------------------------------------------------------------
(* One copy. *)

\* The jobs that work on one source from the first step to the last.
Owners == {"ingest", "delete", "forget", "gc"}

\* The places where the points of the source at hand have been deleted.
Emptied == {"downloading", "download", "downloaded", "parse", "store", "add"}

\* Such a job never turns to another source.
OwnTodo ==
  \A w \in Workers :
    /\ job[w].kind \in Owners => \A t \in job[w].todo : t[1] = job[w].src
    /\ job[w].pc = "collect" => job[w].kind \notin Owners

Alone ==
  \A s \in Sources \ overlap : \A v, w \in Workers :
    WorksOn(v, s) /\ WorksOn(w, s) => v = w

\* What is stored, and what jobs hold to store it later, is one batch at most;
\* between a deletion and an addition there is none.
Bounded ==
  \A s \in Sources \ overlap :
    /\ Len(points[s]) <= 1
    /\ \A w \in Workers :
         /\ Len(job[w].had[s]) <= 1
         /\ job[w].src = s => Len(job[w].pts) <= 1
         /\ job[w].src = s /\ job[w].pc \in Emptied => points[s] = <<>>

\* The inductive strengthening of AtMostOneCopy.
CopyInv == OwnTodo /\ Alone /\ Bounded

\* The inductive strengthening of ClaimMutex: who is between the two commands
\* of a claim holds the lock.
LockHeld == \A w \in Workers \ lapsed : At(w, "claimed") => lock[Src(w)] = w

LEMMA CopyInvIsStronger == CopyInv => AtMostOneCopy
  BY DEF CopyInv, Bounded, AtMostOneCopy

-----------------------------------------------------------------------------
(* What a step of a worker may do, as far as CopyInv can tell. *)

OthersStay(w) == \A v \in Workers \ {w} : job'[v] = job[v]

\* w takes no source that somebody else is on, without that being recorded.
TakesFairly(w) ==
  /\ overlap \subseteq overlap'
  /\ \A s \in Sources \ overlap' :
       WorksOn(w, s)' => WorksOn(w, s) \/ \A v \in Workers \ {w} : ~WorksOn(v, s)

KeepsOwn(w) ==
  /\ job'[w].kind \in Owners => \A t \in job'[w].todo : t[1] = job'[w].src
  /\ job'[w].pc = "collect" => job'[w].kind \notin Owners

\* How w changes the points of s: not, by deleting them all, or by adding what
\* it holds after it has deleted them.
ChangesPoints(w, s) ==
  \/ points'[s] = <<>>
  \/ /\ points'[s] = points[s]
     /\ job'[w].src = s /\ job'[w].pc \in Emptied => job[w].src = s /\ job[w].pc \in Emptied
  \/ /\ points'[s] = Added(points[s], job[w].pts)
     /\ job[w].src = s /\ job[w].pc \in {"store", "add"} /\ job'[w].pc \notin Emptied

\* Where the batches come from that w holds after the step.
HoldsBatches(w, s) ==
  /\ job'[w].had[s] \in {job[w].had[s], points[s], <<>>}
  /\ job'[w].src = s =>
       \/ Len(job'[w].pts) <= 1
       \/ job[w].src = s /\ Len(job'[w].pts) = Len(job[w].pts)
       \/ job'[w].pts = job[w].had[s]

Decent(w) ==
  /\ OthersStay(w) /\ TakesFairly(w) /\ KeepsOwn(w)
  /\ \A s \in Sources : ChangesPoints(w, s) /\ HoldsBatches(w, s)

\* A decent step preserves CopyInv.
LEMMA DecentStep ==
  ASSUME TypeInv, CopyInv, NEW w \in Workers, Decent(w)
  PROVE  CopyInv'
  <1>1. OwnTodo'
    BY DEF CopyInv, OwnTodo, Decent, OthersStay, KeepsOwn
  <1>2. \A v \in Workers \ {w}, s \in Sources : WorksOn(v, s)' <=> WorksOn(v, s)
    BY DEF Decent, OthersStay, WorksOn
  <1>3. Alone'
    BY <1>2 DEF CopyInv, Alone, Decent, TakesFairly
  <1>4. ASSUME NEW s \in Sources \ overlap'
        PROVE  /\ Len(points'[s]) <= 1
               /\ \A v \in Workers : job'[v].src = s /\ job'[v].pc \in Emptied => points'[s] = <<>>
    <2>1. s \in Sources \ overlap
      BY DEF Decent, TakesFairly
    <2>2. Len(points[s]) <= 1
      BY <2>1 DEF CopyInv, Bounded
    <2>3. CASE points'[s] = <<>>
      BY <2>3
    <2>4. CASE /\ points'[s] = points[s]
               /\ job'[w].src = s /\ job'[w].pc \in Emptied => job[w].src = s /\ job[w].pc \in Emptied
      BY <2>1, <2>2, <2>4 DEF CopyInv, Bounded, Decent, OthersStay
    <2>5. CASE /\ points'[s] = Added(points[s], job[w].pts)
               /\ job[w].src = s /\ job[w].pc \in {"store", "add"} /\ job'[w].pc \notin Emptied
      <3>1. points[s] = <<>> /\ Len(job[w].pts) <= 1
        BY <2>1, <2>5 DEF CopyInv, Bounded, Emptied
      <3>2. points[s] \in Seq(Batch) /\ job[w].pts \in Seq(Batch)
        BY HeldDoc DEF TypeInv, StoresOK, Job
      <3>3. Len(points'[s]) <= 1
        BY <2>5, <3>1, <3>2, AddedBatches
      <3>4. WorksOn(w, s)
        BY <2>5 DEF WorksOn, Busy
      <3>5. ASSUME NEW v \in Workers \ {w}, job'[v].src = s, job'[v].pc \in Emptied
            PROVE  FALSE
        <4>1. job[v].src = s /\ job[v].pc \in Emptied
          BY <3>5 DEF Decent, OthersStay
        <4>2. WorksOn(v, s)
          BY <4>1 DEF WorksOn, Busy, Emptied, Writes
        <4>3. QED BY <2>1, <3>4, <4>2 DEF CopyInv, Alone
      <3>6. QED BY <2>5, <3>3, <3>5
    <2>6. QED BY <2>3, <2>4, <2>5 DEF Decent, ChangesPoints
  <1>5. ASSUME NEW s \in Sources \ overlap', NEW v \in Workers
        PROVE  /\ Len(job'[v].had[s]) <= 1
               /\ job'[v].src = s => Len(job'[v].pts) <= 1
    <2>1. s \in Sources \ overlap
      BY DEF Decent, TakesFairly
    <2>2. CASE v # w
      BY <2>1, <2>2 DEF CopyInv, Bounded, Decent, OthersStay
    <2>3. CASE v = w
      <3>1. HoldsBatches(w, s)
        BY DEF Decent
      <3>2. /\ Len(points[s]) <= 1 /\ Len(job[w].had[s]) <= 1
            /\ job[w].src = s => Len(job[w].pts) <= 1
        BY <2>1 DEF CopyInv, Bounded
      <3>3. QED BY <2>3, <3>1, <3>2 DEF HoldsBatches
    <2>4. QED BY <2>2, <2>3
  <1>6. Bounded'
    BY <1>4, <1>5 DEF Bounded
  <1>7. QED BY <1>1, <1>3, <1>6 DEF CopyInv

-----------------------------------------------------------------------------
(* Every step of a worker is decent. *)

\* A step that keeps the job at its source, and takes no new place there.
LEMMA MoveDecent ==
  ASSUME TypeInv, CopyInv, NEW w \in Workers, NEW j \in Job,
         job' = [job EXCEPT ![w] = j], overlap' = overlap,
         j.kind = job[w].kind, j.src = job[w].src, j.todo = job[w].todo, j.had = job[w].had,
         Len(j.pts) <= 1 \/ Len(j.pts) = Len(job[w].pts),
         j.pc # "collect",
         j.pc \in Busy => job[w].pc \in Busy,
         \A s \in Sources : points'[s] \in {points[s], <<>>},
         j.pc \in Emptied => job[w].pc \in Emptied \/ points'[job[w].src] = <<>>
  PROVE  Decent(w)
  <1>1. job'[w] = j /\ OthersStay(w)
    BY DEF TypeInv, JobsOK, OthersStay
  <1>2. TakesFairly(w)
    BY <1>1 DEF TakesFairly, WorksOn
  <1>3. KeepsOwn(w)
    BY <1>1 DEF KeepsOwn, CopyInv, OwnTodo
  <1>4. ASSUME NEW s \in Sources PROVE ChangesPoints(w, s) /\ HoldsBatches(w, s)
    <2>1. HoldsBatches(w, s)
      BY <1>1 DEF HoldsBatches
    <2>2. CASE points'[s] = <<>>
      BY <2>1, <2>2 DEF ChangesPoints
    <2>3. CASE points'[s] = points[s] /\ points'[s] # <<>>
      BY <1>1, <2>1, <2>3 DEF ChangesPoints
    <2>4. QED BY <2>2, <2>3
  <1>5. QED BY <1>1, <1>2, <1>3, <1>4 DEF Decent

LEMMA GotoDecent ==
  ASSUME TypeInv, CopyInv, NEW w \in Workers, NEW pc \in Pcs, Goto(w, pc), overlap' = overlap,
         pc # "collect", pc \in Busy => job[w].pc \in Busy,
         \A s \in Sources : points'[s] \in {points[s], <<>>},
         pc \in Emptied => job[w].pc \in Emptied \/ points'[job[w].src] = <<>>
  PROVE  Decent(w)
  <1> DEFINE j == [job[w] EXCEPT !.pc = pc]
  <1>1. job[w] \in Job
    BY HeldDoc DEF TypeInv
  <1>2. /\ j \in Job /\ j.pc = pc /\ j.kind = job[w].kind /\ j.src = job[w].src
        /\ j.todo = job[w].todo /\ j.had = job[w].had /\ j.pts = job[w].pts
    BY <1>1 DEF Job
  <1>3. job' = [job EXCEPT ![w] = j]
    BY DEF Goto
  <1> HIDE DEF j
  <1>4. QED BY <1>2, <1>3, MoveDecent

LEMMA WriteDecent ==
  ASSUME TypeInv, CopyInv, NEW w \in Workers, NEW doc, NEW pc \in Pcs, Write(w, doc, pc),
         overlap' = overlap, points' = points,
         pc # "collect", pc \in Busy => job[w].pc \in Busy,
         pc \in Emptied => job[w].pc \in Emptied
  PROVE  Decent(w)
  <1> DEFINE j == [job[w] EXCEPT !.got = None, !.pc = pc]
  <1>1. job[w] \in Job
    BY HeldDoc DEF TypeInv
  <1>2. /\ j \in Job /\ j.pc = pc /\ j.kind = job[w].kind /\ j.src = job[w].src
        /\ j.todo = job[w].todo /\ j.had = job[w].had /\ j.pts = job[w].pts
    BY <1>1 DEF Job
  <1>3. job' = [job EXCEPT ![w] = j]
    BY DEF Write
  <1> HIDE DEF j
  <1>4. QED BY <1>2, <1>3, MoveDecent

LEMMA WritersDecent ==
  ASSUME TypeInv, CopyInv, NEW w \in Workers,
         \/ Start(w) \/ Processing(w) \/ Abandon(w) \/ Embedding(w) \/ Parsing(w) \/ Downloading(w)
         \/ Downloaded(w) \/ Complete(w) \/ Error(w) \/ Missing(w)
  PROVE  Decent(w)
  <1>1. overlap' = overlap /\ points' = points /\ job[w].pc \in Busy
    BY DEF Start, Processing, Abandon, Embedding, Parsing, Downloading, Downloaded, Complete,
           Error, Missing, OnlyRow, history, At, Busy, Writes
  <1>2. ASSUME NEW doc, NEW pc \in {"save", "scan", "next", "parsing", "embed", "clear", "stop"},
               Write(w, doc, pc)
        PROVE  Decent(w)
    <2>1. pc \in Pcs /\ pc \notin Emptied /\ pc # "collect"
      BY DEF Pcs, Busy, Writes, Emptied
    <2>2. QED BY <1>1, <1>2, <2>1, WriteDecent
  <1>3. ASSUME NEW doc, NEW pc \in {"download", "parse"}, Write(w, doc, pc),
               job[w].pc \in {"downloading", "downloaded"}
        PROVE  Decent(w)
    <2>1. pc \in Pcs /\ pc # "collect" /\ job[w].pc \in Emptied
      BY <1>3 DEF Pcs, Busy, Emptied
    <2>2. QED BY <1>1, <1>3, <2>1, WriteDecent
  <1>4. CASE Start(w) \/ Processing(w) \/ Abandon(w)
    BY <1>2, <1>4 DEF Start, Processing, Abandon
  <1>5. CASE Embedding(w) \/ Parsing(w)
    BY <1>2, <1>5 DEF Embedding, Parsing
  <1>6. CASE Downloading(w) \/ Downloaded(w)
    BY <1>3, <1>6 DEF Downloading, Downloaded, At
  <1>7. CASE Complete(w) \/ Error(w) \/ Missing(w)
    BY <1>2, <1>7 DEF Complete, Error, Missing
  <1>8. QED BY <1>4, <1>5, <1>6, <1>7

\* The steps that only move on, keep the points or delete them.
LEMMA MoversDecent ==
  ASSUME TypeInv, CopyInv, NEW w \in Workers,
         \/ Save(w) \/ ClaimTimeout(w) \/ Reuse(w) \/ Clear(w) \/ Download(w) \/ Remove(w)
         \/ Check(w) \/ Initialize(w) \/ RemoveFile(w) \/ RemovePoints(w)
  PROVE  Decent(w)
  <1>1. overlap' = overlap
    BY DEF Save, ClaimTimeout, Reuse, Clear, Download, Remove, Check, Initialize, RemoveFile,
           RemovePoints, OnlyJob, OnlyPoints, OnlyFaults, history
  <1>2. \A s \in Sources : points'[s] \in {points[s], <<>>}
    BY DEF Save, ClaimTimeout, Reuse, Clear, Download, Remove, Check, Initialize, RemoveFile,
           RemovePoints, OnlyJob, OnlyFaults, stores, TypeInv, StoresOK
  <1>3. ASSUME NEW pc \in {"processing", "abandon", "embedding", "error", "next", "complete"},
               Goto(w, pc), job[w].pc \in Busy
        PROVE  Decent(w)
    <2>1. pc \in Pcs /\ pc \notin Emptied /\ pc # "collect"
      BY DEF Pcs, Busy, Writes, Emptied
    <2>2. QED BY <1>1, <1>2, <1>3, <2>1, GotoDecent
  <1>4. ASSUME NEW pc \in {"stop", "scan", "rmpoints", "delchat", "delrow"}, Goto(w, pc)
        PROVE  Decent(w)
    <2>1. pc \in Pcs /\ pc \notin Emptied /\ pc # "collect" /\ pc \notin Busy
      BY DEF Pcs, Busy, Writes, Emptied
    <2>2. QED BY <1>1, <1>2, <1>4, <2>1, GotoDecent
  <1>5. CASE Save(w) \/ Reuse(w) \/ Check(w)
    BY <1>3, <1>5 DEF Save, Reuse, Check, At, Busy
  <1>6. CASE ClaimTimeout(w) \/ Initialize(w) \/ RemoveFile(w) \/ RemovePoints(w)
    BY <1>4, <1>6 DEF ClaimTimeout, Initialize, RemoveFile, RemovePoints
  <1>7. ASSUME NEW pc \in {"downloading", "parse", "add", "downloaded"}, Goto(w, pc),
               job[w].pc \in {"clear", "remove", "download"},
               job[w].pc = "download" \/ points'[job[w].src] = <<>>
        PROVE  Decent(w)
    <2>1. pc \in Pcs /\ pc # "collect" /\ job[w].pc \in Busy
      BY <1>7 DEF Pcs, Busy, Writes
    <2>2. job[w].pc \in Emptied \/ points'[job[w].src] = <<>>
      BY <1>7 DEF Emptied
    <2>3. QED BY <1>1, <1>2, <1>7, <2>1, <2>2, GotoDecent
  <1>8. CASE Clear(w) \/ Remove(w)
    <2>1. job[w].pc \in {"clear", "remove"} /\ points' = [points EXCEPT ![Src(w)] = <<>>]
      BY <1>8 DEF Clear, Remove, At
    <2>2. job[w].src \in Sources /\ Src(w) = job[w].src
      BY <2>1, HeldDoc DEF TypeInv, Filled, Sourceless, Src
    <2>3. points'[job[w].src] = <<>>
      BY <2>1, <2>2 DEF TypeInv, StoresOK
    <2>4. QED BY <1>7, <1>8, <2>1, <2>3 DEF Clear, Remove
  <1>9. CASE Download(w)
    <2>1. job[w].pc = "download" /\ job[w].pc \in Busy
      BY <1>9 DEF Download, At, Busy
    <2>2. QED BY <1>3, <1>7, <1>9, <2>1 DEF Download
  <1>10. QED BY <1>5, <1>6, <1>8, <1>9

\* The steps that change more fields of the job than its place.
LEMMA WorkersDecent ==
  ASSUME TypeInv, CopyInv, NEW w \in Workers,
         ReadExisting(w) \/ Claimed(w) \/ Parse(w) \/ Embed(w)
  PROVE  Decent(w)
  <1>1. job[w] \in Job /\ Filled(job[w], wired[w])
    BY HeldDoc DEF TypeInv
  <1>2. overlap' = overlap /\ points' = points /\ job[w].pc \in Busy
    BY DEF ReadExisting, Claimed, Parse, Embed, OnlyJob, OnlyFaults, stores, history, At, Busy,
           Writes
  <1>3. CASE ReadExisting(w)
    <2> DEFINE j == [job[w] EXCEPT !.got = row[Src(w)]]
    <2>1. Src(w) \in Sources
      BY <1>1, <1>3 DEF ReadExisting, Filled, Sourceless, Src, Writes
    <2>2. row[Src(w)] \in Doc
      BY <2>1 DEF TypeInv, StoresOK
    <2>3. /\ j \in Job /\ j.pc = job[w].pc /\ j.kind = job[w].kind /\ j.src = job[w].src
          /\ j.todo = job[w].todo /\ j.had = job[w].had /\ j.pts = job[w].pts
      BY <1>1, <2>2 DEF Job
    <2>4. job' = [job EXCEPT ![w] = j] /\ job[w].pc # "collect"
      BY <1>3 DEF ReadExisting, Writes
    <2> HIDE DEF j
    <2>5. QED BY <1>2, <2>3, <2>4, MoveDecent
  <1>4. CASE Claimed(w)
    <2> DEFINE j == [job[w] EXCEPT !.pc = job[w].next, !.got = None, !.next = "parsing",
                                   !.redo = FALSE]
    <2>1. job[w].next \in {"reuse", "parsing"}
      BY <1>1 DEF Job
    <2>2. job[w].next \in Pcs
      BY <2>1 DEF Pcs, Busy, Writes
    <2>3. /\ j \in Job /\ j.pc = job[w].next /\ j.kind = job[w].kind /\ j.src = job[w].src
          /\ j.todo = job[w].todo /\ j.had = job[w].had /\ j.pts = job[w].pts
      BY <1>1, <2>2 DEF Job
    <2>4. job' = [job EXCEPT ![w] = j]
      BY <1>4 DEF Claimed
    <2>5. j.pc # "collect" /\ j.pc \notin Emptied
      BY <2>1, <2>3 DEF Emptied
    <2> HIDE DEF j
    <2>6. QED BY <1>2, <2>3, <2>4, <2>5, MoveDecent
  <1>5. ASSUME NEW pc \in {"store", "remove"}, NEW pts \in Seq(Batch),
               Len(pts) <= 1 \/ Len(pts) = Len(job[w].pts),
               pc = "store" => job[w].pc = "parse",
               job' = [job EXCEPT ![w] = [job[w] EXCEPT !.pc = pc, !.pts = pts]]
        PROVE  Decent(w)
    <2> DEFINE j == [job[w] EXCEPT !.pc = pc, !.pts = pts]
    <2>1. pc \in Pcs
      BY DEF Pcs, Busy
    <2>2. /\ j \in Job /\ j.pc = pc /\ j.kind = job[w].kind /\ j.src = job[w].src
          /\ j.todo = job[w].todo /\ j.had = job[w].had /\ j.pts = pts
      BY <1>1, <2>1 DEF Job
    <2>3. job' = [job EXCEPT ![w] = j]
      BY <1>5
    <2>4. j.pc # "collect" /\ (j.pc \in Emptied => job[w].pc \in Emptied)
      BY <1>5, <2>2 DEF Emptied
    <2> HIDE DEF j
    <2>5. QED BY <1>2, <1>5, <2>2, <2>3, <2>4, MoveDecent
  <1>6. ASSUME Goto(w, "error")
        PROVE  Decent(w)
    <2>1. "error" \in Pcs /\ "error" \notin Emptied
      BY DEF Pcs, Busy, Writes, Emptied
    <2>2. QED BY <1>2, <1>6, <2>1, GotoDecent
  <1>7. CASE Parse(w)
    <2> DEFINE pts == <<[ver |-> job[w].ver, chunker |-> wired[w], embedder |-> None]>>
    <2>1. job[w].pc = "parse"
      BY <1>7 DEF Parse, At
    <2>2. [ver |-> job[w].ver, chunker |-> wired[w], embedder |-> None] \in Batch
      BY <1>1, <2>1 DEF Filled, Wired, Job, Batch
    <2>3. pts \in Seq(Batch) /\ Len(pts) <= 1
      BY <2>2
    <2>4. CASE job' = [job EXCEPT ![w].pc = "store", ![w].pts = pts]
      <3>1. job' = [job EXCEPT ![w] = [job[w] EXCEPT !.pc = "store", !.pts = pts]]
        BY <2>4
      <3> HIDE DEF pts
      <3>2. QED BY <1>5, <2>1, <2>3, <3>1
    <2>5. QED BY <1>6, <1>7, <2>4 DEF Parse
  <1>8. CASE Embed(w)
    <2> DEFINE pts == Embedded(job[w].pts, job[w].emb)
    <2>1. pts \in Seq(Batch) /\ Len(pts) = Len(job[w].pts)
      BY <1>1, EmbeddedBatches DEF Job
    <2>2. CASE job' = [job EXCEPT ![w].pc = "remove", ![w].pts = pts]
      <3>1. job' = [job EXCEPT ![w] = [job[w] EXCEPT !.pc = "remove", !.pts = pts]]
        BY <2>2
      <3> HIDE DEF pts
      <3>2. QED BY <1>5, <2>1, <3>1
    <2>3. QED BY <1>6, <1>8, <2>2 DEF Embed
  <1>9. QED BY <1>3, <1>4, <1>7, <1>8

\* The two additions.
LEMMA AddersDecent ==
  ASSUME TypeInv, CopyInv, NEW w \in Workers, Store(w) \/ Add(w)
  PROVE  Decent(w)
  <1>1. job[w] \in Job /\ Filled(job[w], wired[w])
    BY HeldDoc DEF TypeInv
  <1>2. job[w].pc \in {"store", "add"} /\ overlap' = overlap
    BY DEF Store, Add, At, OnlyPoints, history
  <1>3. Src(w) \in Sources /\ Src(w) = job[w].src /\ job[w].pc \in Busy
    BY <1>1, <1>2 DEF Filled, Sourceless, Src, Busy
  <1>4. ASSUME NEW j \in Job, job' = [job EXCEPT ![w] = j], j.pc \in {"embedding", "check", "error"},
               j.kind = job[w].kind, j.src = job[w].src, j.todo = job[w].todo,
               j.had = job[w].had, Len(j.pts) <= 1 \/ Len(j.pts) = Len(job[w].pts),
               \/ UNCHANGED points
               \/ points' = [points EXCEPT ![Src(w)] = Added(points[Src(w)], job[w].pts)]
        PROVE  Decent(w)
    <2>1. job'[w] = j /\ OthersStay(w)
      BY <1>4 DEF TypeInv, JobsOK, OthersStay
    <2>2. TakesFairly(w)
      BY <1>2, <1>3, <1>4, <2>1 DEF TakesFairly, WorksOn
    <2>3. KeepsOwn(w)
      BY <1>4, <2>1 DEF KeepsOwn, CopyInv, OwnTodo
    <2>4. ASSUME NEW s \in Sources PROVE ChangesPoints(w, s) /\ HoldsBatches(w, s)
      <3>1. HoldsBatches(w, s)
        BY <1>4, <2>1 DEF HoldsBatches
      <3>2. j.pc \notin Emptied
        BY <1>4 DEF Emptied
      <3>3. \/ points'[s] = points[s]
            \/ s = job[w].src /\ points'[s] = Added(points[s], job[w].pts)
        BY <1>3, <1>4 DEF TypeInv, StoresOK
      <3>4. QED BY <1>2, <2>1, <3>1, <3>2, <3>3 DEF ChangesPoints
    <2>5. QED BY <2>1, <2>2, <2>3, <2>4 DEF Decent
  <1>5. ASSUME NEW pc \in {"embedding", "error"}, Goto(w, pc),
               \/ UNCHANGED points
               \/ points' = [points EXCEPT ![Src(w)] = Added(points[Src(w)], job[w].pts)]
        PROVE  Decent(w)
    <2> DEFINE j == [job[w] EXCEPT !.pc = pc]
    <2>1. pc \in Pcs
      BY DEF Pcs, Busy, Writes
    <2>2. /\ j \in Job /\ j.pc = pc /\ j.kind = job[w].kind /\ j.src = job[w].src
          /\ j.todo = job[w].todo /\ j.had = job[w].had /\ j.pts = job[w].pts
      BY <1>1, <2>1 DEF Job
    <2>3. job' = [job EXCEPT ![w] = j]
      BY <1>5 DEF Goto
    <2> HIDE DEF j
    <2>4. QED BY <1>4, <1>5, <2>2, <2>3
  <1>6. CASE Store(w)
    BY <1>5, <1>6 DEF Store
  <1>7. CASE Add(w)
    <2>1. CASE UNCHANGED points /\ Goto(w, "error")
      BY <1>5, <2>1
    <2>2. CASE /\ points' = [points EXCEPT ![Src(w)] = Added(points[Src(w)], job[w].pts)]
               /\ job' = [job EXCEPT ![w].pc = "check", ![w].pts = <<>>]
      <3> DEFINE j == [job[w] EXCEPT !.pc = "check", !.pts = <<>>]
      <3>1. "check" \in Pcs
        BY DEF Pcs, Busy
      <3>2. /\ j \in Job /\ j.pc = "check" /\ j.kind = job[w].kind /\ j.src = job[w].src
            /\ j.todo = job[w].todo /\ j.had = job[w].had /\ j.pts = <<>>
        BY <1>1, <3>1, NoPoints DEF Job
      <3>3. job' = [job EXCEPT ![w] = j]
        BY <2>2
      <3> HIDE DEF j
      <3>4. Len(j.pts) <= 1
        BY <3>2
      <3>5. QED BY <1>4, <2>2, <3>2, <3>3, <3>4
    <2>3. QED BY <1>7, <2>1, <2>2 DEF Add
  <1>8. QED BY <1>6, <1>7

\* A step that turns a job elsewhere and leaves the points alone.
LEMMA TurnDecent ==
  ASSUME TypeInv, CopyInv, NEW w \in Workers, NEW j \in Job, job' = [job EXCEPT ![w] = j],
         points' = points, TakesFairly(w), j.pc \notin Emptied,
         j.kind \in Owners => \A t \in j.todo : t[1] = j.src,
         j.pc = "collect" => j.kind \notin Owners,
         \A s \in Sources : j.had[s] \in {job[w].had[s], points[s], <<>>},
         \/ Len(j.pts) <= 1
         \/ j.src = job[w].src /\ j.pts = job[w].pts
         \/ j.src \in Sources /\ j.pts = job[w].had[j.src]
  PROVE  Decent(w)
  <1>1. job'[w] = j /\ OthersStay(w)
    BY DEF TypeInv, JobsOK, OthersStay
  <1>2. KeepsOwn(w)
    BY <1>1 DEF KeepsOwn
  <1>3. ASSUME NEW s \in Sources PROVE ChangesPoints(w, s) /\ HoldsBatches(w, s)
    <2>1. ChangesPoints(w, s)
      BY <1>1 DEF ChangesPoints
    <2>2. HoldsBatches(w, s)
      BY <1>1 DEF HoldsBatches
    <2>3. QED BY <2>1, <2>2
  <1>4. QED BY <1>1, <1>2, <1>3 DEF Decent

\* Enter records whoever else is on the source.
LEMMA EnterFairly ==
  ASSUME TypeInv, NEW w \in Workers, NEW s \in Sources, NEW j, job' = [job EXCEPT ![w] = j],
         j.src = s, Enter(w, s)
  PROVE  TakesFairly(w)
  <1>1. job'[w] = j
    BY DEF TypeInv, JobsOK
  <1>2. ASSUME NEW x \in Sources \ overlap', WorksOn(w, x)'
        PROVE  \A v \in Workers \ {w} : ~WorksOn(v, x)
    <2>1. x = s
      BY <1>1, <1>2 DEF WorksOn
    <2>2. QED BY <1>2, <2>1 DEF Enter
  <1>3. overlap \subseteq overlap'
    BY DEF Enter
  <1>4. QED BY <1>2, <1>3 DEF TakesFairly

\* A job that does not get busy, and owns nothing new, takes nothing.
LEMMA RestFairly ==
  ASSUME TypeInv, NEW w \in Workers, NEW j, job' = [job EXCEPT ![w] = j], overlap' = overlap,
         j.pc \notin Busy,
         j.kind \in Owners => j.kind = job[w].kind /\ j.src = job[w].src
  PROVE  TakesFairly(w)
  <1>1. job'[w] = j
    BY DEF TypeInv, JobsOK
  <1>2. QED BY <1>1 DEF TakesFairly, WorksOn, Owners

LEMMA EndersDecent ==
  ASSUME TypeInv, CopyInv, NEW w \in Workers,
         \/ Stop(w) \/ DeleteRow(w) \/ DeleteChat(w) \/ Crash(w)
         \/ At(w, "gc") /\ job' = [job EXCEPT ![w] = Idle] /\ OnlyJob
  PROVE  Decent(w)
  <1>1. job' = [job EXCEPT ![w] = Idle] /\ overlap' = overlap /\ points' = points
    BY DEF Stop, DeleteRow, DeleteChat, Crash, OnlyRow, OnlyJob, history, stores
  <1>2. /\ Idle \in Job /\ Idle.pc = "idle" /\ Idle.kind = "none" /\ Idle.pts = <<>>
        /\ \A s \in Sources : Idle.had[s] = <<>>
    BY IdleIsJob DEF Idle
  <1>3. Idle.pc \notin Busy /\ Idle.pc \notin Emptied /\ Idle.kind \notin Owners /\ Len(Idle.pts) <= 1
    BY <1>2 DEF Busy, Writes, Emptied, Owners
  <1>4. TakesFairly(w)
    BY <1>1, <1>3, RestFairly
  <1>5. QED BY <1>1, <1>2, <1>3, <1>4, TurnDecent

\* Every beginning of a job.
LEMMA BeginDecent ==
  ASSUME TypeInv, CopyInv, NEW w \in Workers, NEW kind \in Kinds, NEW pc \in Pcs,
         NEW s \in Sources \cup {None}, Begin(w, kind, pc, s), points' = points,
         pc \notin Emptied, pc = "collect" => kind \notin Owners,
         \/ s \in Sources /\ Enter(w, s)
         \/ overlap' = overlap /\ kind \notin Owners /\ pc \notin Busy
  PROVE  Decent(w)
  <1> DEFINE j == [Idle EXCEPT !.kind = kind, !.pc = pc, !.src = s, !.chk = chunker]
  <1>1. /\ j \in Job /\ j.kind = kind /\ j.pc = pc /\ j.src = s /\ j.todo = {} /\ j.pts = <<>>
        /\ j.had = [x \in Sources |-> <<>>]
    BY IdleIsJob DEF Job, TypeInv, ConfigOK, Idle
  <1>2. job' = [job EXCEPT ![w] = j]
    BY DEF Begin
  <1> HIDE DEF j
  <1>3. TakesFairly(w)
    BY <1>1, <1>2, EnterFairly, RestFairly
  <1>4. Len(j.pts) <= 1
    BY <1>1
  <1>5. QED BY <1>1, <1>2, <1>3, <1>4, TurnDecent

LEMMA RequestDecent ==
  ASSUME TypeInv, CopyInv, NEW w \in Workers, Request(w) \/ Sweep(w)
  PROVE  Decent(w)
  <1>1. ASSUME NEW s \in Sources, StartIngest(w, s)
        PROVE  Decent(w)
    <2> DEFINE ver == IF s \in Urls THEN 0 ELSE uploads + 1
               todo == {<<s, ver>>}
               j == [Idle EXCEPT !.kind = "ingest", !.pc = "start", !.src = s, !.ver = ver,
                                 !.todo = todo, !.chk = chunker]
    <2>1. ver \in Nat /\ todo \in SUBSET (Sources \X Nat) /\ \A t \in todo : t[1] = s
      BY DEF TypeInv, HistoryOK
    <2>2. job' = [job EXCEPT ![w] = j] /\ points' = points /\ Enter(w, s)
      BY <1>1 DEF StartIngest, stores
    <2> HIDE DEF ver, todo
    <2>3. "ingest" \in Kinds /\ "start" \in Pcs /\ "start" \notin Emptied
      BY DEF Kinds, Pcs, Busy, Writes, Emptied
    <2>4. /\ j \in Job /\ j.pc = "start" /\ j.src = s /\ j.todo = todo /\ j.pts = <<>>
          /\ j.had = [x \in Sources |-> <<>>]
      BY <2>1, <2>3, IdleIsJob DEF Job, TypeInv, ConfigOK, Idle
    <2> HIDE DEF j
    <2>5. TakesFairly(w)
      BY <2>2, <2>4, EnterFairly
    <2>6. Len(j.pts) <= 1
      BY <2>4
    <2>7. QED BY <2>1, <2>2, <2>3, <2>4, <2>5, <2>6, TurnDecent
  <1>2. ASSUME NEW s \in Sources, StartSweep(w, s)
        PROVE  Decent(w)
    <2>1. Begin(w, "sweep", "file", s) /\ points' = points /\ overlap' = overlap
      BY <1>2 DEF StartSweep, stores, history
    <2>2. "sweep" \in Kinds \ Owners /\ "file" \in Pcs /\ "file" \notin Busy \cup Emptied
      BY DEF Kinds, Owners, Pcs, Busy, Writes, Emptied
    <2>3. QED BY <2>1, <2>2, BeginDecent
  <1>3. ASSUME NEW e \in Embedders, SwitchEmbedder(w, e)
        PROVE  Decent(w)
    <2>1. Begin(w, "run", "collect", None) /\ points' = points /\ overlap' = overlap
      BY <1>3 DEF SwitchEmbedder, stores, history
    <2>2. "run" \in Kinds \ Owners /\ "collect" \in Pcs /\ "collect" \notin Busy \cup Emptied
      BY DEF Kinds, Owners, Pcs, Busy, Writes, Emptied
    <2>3. QED BY <2>1, <2>2, BeginDecent
  <1>4. ASSUME NEW s \in Sources, NEW kind \in {"delete", "forget", "gc"},
               NEW pc \in {"rmfile", "delrow", "gc"},
               Begin(w, kind, pc, s), Enter(w, s), OnlyOverlap
        PROVE  Decent(w)
    <2>1. kind \in Kinds /\ pc \in Pcs /\ pc \notin Emptied /\ pc # "collect" /\ points' = points
      BY <1>4 DEF Kinds, Pcs, Emptied, OnlyOverlap, stores
    <2>2. QED BY <1>4, <2>1, BeginDecent
  <1>5. ASSUME NEW s \in Sources,
               StartDelete(w, s) \/ StartForget(w, s) \/ StartDismiss(w, s) \/ StartReconcile(w, s)
        PROVE  Decent(w)
    BY <1>4, <1>5 DEF StartDelete, StartForget, StartDismiss, StartReconcile
  <1>6. QED BY <1>1, <1>2, <1>3, <1>5 DEF Request, Sweep

\* The steps that turn a job to its sources.
LEMMA TurnersDecent ==
  ASSUME TypeInv, CopyInv, NEW w \in Workers,
         Scan(w) \/ NextSource(w) \/ Collect(w) \/ Reconcile(w)
  PROVE  Decent(w)
  <1>1. job[w] \in Job /\ Filled(job[w], wired[w])
    BY HeldDoc DEF TypeInv
  <1>2. overlap' = overlap /\ points' = points
    BY DEF Scan, NextSource, Collect, Reconcile, OnlyJob, stores, history
  <1>3. CASE Scan(w)
    <2> DEFINE j == [job[w] EXCEPT !.pc = "next", !.had = points, !.emb = embedder]
    <2>1. "next" \in Pcs /\ "next" \notin Busy /\ "next" \notin Emptied
      BY DEF Pcs, Busy, Writes, Emptied
    <2>2. /\ j \in Job /\ j.pc = "next" /\ j.kind = job[w].kind /\ j.src = job[w].src
          /\ j.todo = job[w].todo /\ j.had = points /\ j.pts = job[w].pts
      BY <1>1, <2>1 DEF Job, TypeInv, StoresOK, ConfigOK
    <2>3. job' = [job EXCEPT ![w] = j]
      BY <1>3 DEF Scan
    <2> HIDE DEF j
    <2>4. TakesFairly(w)
      BY <1>2, <2>1, <2>2, <2>3, RestFairly
    <2>5. j.kind \in Owners => \A t \in j.todo : t[1] = j.src
      BY <2>2 DEF CopyInv, OwnTodo
    <2>6. QED BY <1>2, <2>1, <2>2, <2>3, <2>4, <2>5, TurnDecent
  <1>4. CASE NextSource(w)
    <2>1. CASE Goto(w, "stop")
      <3>1. "stop" \in Pcs /\ "stop" \notin Busy /\ "stop" \notin Emptied
        BY DEF Pcs, Busy, Writes, Emptied
      <3>2. QED BY <1>2, <2>1, <3>1, GotoDecent
    <2>2. ASSUME NEW t \in job[w].todo,
                 job' = [job EXCEPT ![w] =
                           [@ EXCEPT !.todo = job[w].todo \ {t}, !.src = t[1], !.ver = t[2],
                                     !.pts = job[w].had[t[1]], !.had[t[1]] = <<>>,
                                     !.pc = "decide"]]
          PROVE  Decent(w)
      <3> DEFINE todo == job[w].todo \ {t}
                 had == [job[w].had EXCEPT ![t[1]] = <<>>]
                 j == [job[w] EXCEPT !.todo = todo, !.src = t[1], !.ver = t[2],
                                     !.pts = job[w].had[t[1]], !.had = had, !.pc = "decide"]
      <3>1. t[1] \in Sources /\ t[2] \in Nat /\ todo \in SUBSET (Sources \X Nat)
        BY <1>1 DEF Job
      <3>2. job[w].had[t[1]] \in Seq(Batch) /\ had \in [Sources -> Seq(Batch)]
        BY <1>1, <3>1, NoPoints DEF Job
      <3>3. \A s \in Sources : had[s] \in {job[w].had[s], <<>>}
        BY <1>1 DEF Job
      <3>4. "decide" \in Pcs /\ "decide" \notin Busy /\ "decide" \notin Emptied
        BY DEF Pcs, Busy, Writes, Emptied
      <3>5. job' = [job EXCEPT ![w] = j]
        BY <1>1, <2>2 DEF Job
      <3>6. todo \subseteq job[w].todo
        OBVIOUS
      <3> HIDE DEF todo, had
      <3>7. /\ j \in Job /\ j.pc = "decide" /\ j.kind = job[w].kind /\ j.src = t[1]
            /\ j.todo = todo /\ j.had = had /\ j.pts = job[w].had[t[1]]
        BY <1>1, <3>1, <3>2, <3>4 DEF Job
      <3>8. j.kind \in Owners => t[1] = job[w].src /\ \A x \in todo : x[1] = t[1]
        BY <2>2, <3>6, <3>7 DEF CopyInv, OwnTodo
      <3> HIDE DEF j
      <3>9. TakesFairly(w)
        BY <1>2, <3>4, <3>5, <3>7, <3>8, RestFairly
      <3>10. QED BY <1>2, <3>1, <3>3, <3>4, <3>5, <3>7, <3>8, <3>9, TurnDecent
    <2>3. QED BY <1>4, <2>1, <2>2 DEF NextSource
  <1>5. CASE Collect(w)
    <2> DEFINE stored == {s \in Sources : points[s] # <<>> /\ (s \in Urls \/ disk[s] # 0)}
               todo == {<<s, disk[s]>> : s \in stored}
               j == [job[w] EXCEPT !.todo = todo, !.emb = embedder, !.pc = "init"]
    <2>1. todo \in SUBSET (Sources \X Nat)
      BY DEF TypeInv, StoresOK
    <2>2. job' = [job EXCEPT ![w] = j]
      BY <1>5 DEF Collect
    <2> HIDE DEF todo
    <2>3. "init" \in Pcs /\ "init" \notin Busy /\ "init" \notin Emptied
      BY DEF Pcs, Busy, Writes, Emptied
    <2>4. /\ j \in Job /\ j.pc = "init" /\ j.kind = job[w].kind /\ j.src = job[w].src
          /\ j.had = job[w].had /\ j.pts = job[w].pts
      BY <1>1, <2>1, <2>3 DEF Job, TypeInv, ConfigOK
    <2>5. j.kind \notin Owners
      BY <1>5, <2>4 DEF Collect, At, CopyInv, OwnTodo
    <2> HIDE DEF j
    <2>6. TakesFairly(w)
      BY <1>2, <2>2, <2>3, <2>4, RestFairly
    <2>7. QED BY <1>2, <2>2, <2>3, <2>4, <2>5, <2>6, TurnDecent
  <1>6. CASE Reconcile(w)
    <2>1. CASE job' = [job EXCEPT ![w] = Idle]
      BY <1>6, <2>1, EndersDecent DEF Reconcile
    <2>2. CASE job' = [job EXCEPT ![w] = [job[w] EXCEPT !.pc = "delrow"]]
      <3>1. Goto(w, "delrow")
        BY <2>2 DEF Goto
      <3>2. "delrow" \in Pcs /\ "delrow" \notin Busy /\ "delrow" \notin Emptied
        BY DEF Pcs, Busy, Writes, Emptied
      <3>3. QED BY <1>2, <3>1, <3>2, GotoDecent
    <2>3. QED BY <1>6, <2>1, <2>2 DEF Reconcile
  <1>7. QED BY <1>3, <1>4, <1>5, <1>6

\* The steps that may put a second worker on a source.
LEMMA EnterersDecent ==
  ASSUME TypeInv, CopyInv, NEW w \in Workers, Decide(w) \/ Claim(w) \/ SweepFile(w)
  PROVE  Decent(w)
  <1>1. job[w] \in Job /\ Filled(job[w], wired[w])
    BY HeldDoc DEF TypeInv
  <1>2. points' = points /\ Src(w) \in Sources /\ Src(w) = job[w].src
    BY <1>1 DEF Decide, Claim, SweepFile, OnlyOverlap, stores, At, Filled, Sourceless, Src
  <1>3. ASSUME NEW j \in Job, job' = [job EXCEPT ![w] = j], j.kind = job[w].kind,
               j.src = job[w].src, j.had = job[w].had, j.pts \in {job[w].pts, <<>>},
               j.pc \notin Emptied, j.pc # "collect",
               j.todo = job[w].todo \/ \A t \in j.todo : t[1] = j.src, TakesFairly(w)
        PROVE  Decent(w)
    <2>1. j.kind \in Owners => \A t \in j.todo : t[1] = j.src
      BY <1>3 DEF CopyInv, OwnTodo
    <2>2. Len(j.pts) <= 1 \/ j.pts = job[w].pts
      BY <1>3
    <2>3. QED BY <1>2, <1>3, <2>1, <2>2, TurnDecent
  <1>4. ASSUME NEW j \in Job, job' = [job EXCEPT ![w] = j], j.kind = job[w].kind,
               j.src = job[w].src, j.had = job[w].had, j.pts = job[w].pts,
               j.pc \in {"claimed", "missing"}, j.todo = job[w].todo, Enter(w, Src(w))
        PROVE  Decent(w)
    <2>1. j.pc \notin Emptied /\ j.pc # "collect"
      BY <1>4 DEF Emptied
    <2>2. TakesFairly(w)
      BY <1>2, <1>4, EnterFairly
    <2>3. QED BY <1>3, <1>4, <2>1, <2>2
  <1>5. CASE Decide(w)
    <2> DEFINE phase == StartPhase(row[Src(w)], job[w].pts, job[w].chk)
               skip == \/ ChatGone(Src(w)) /\ job[w].kind # "ingest"
                       \/ UpToDate(row[Src(w)], job[w].emb, job[w].chk)
               redo == row[Src(w)].status = "completed"
               pts == IF phase = "reuse" THEN job[w].pts ELSE <<>>
               pc == IF skip THEN "next" ELSE IF row[Src(w)].status = "absent" THEN phase
                                              ELSE "claim"
               j == [job[w] EXCEPT !.next = phase, !.redo = redo, !.pts = pts, !.pc = pc]
    <2>1. phase \in {"reuse", "parsing"} /\ redo \in BOOLEAN
      BY DEF StartPhase
    <2>2. pts \in {job[w].pts, <<>>} /\ pts \in Seq(Batch)
      BY <1>1, NoPoints DEF Job
    <2>3. pc \in {"next", "reuse", "parsing", "claim"}
      BY <2>1
    <2>4. job' = [job EXCEPT ![w] = j]
      BY <1>5 DEF Decide, Src
    <2>5. pc \in Pcs /\ pc \notin Emptied /\ pc # "collect"
      BY <2>3 DEF Pcs, Busy, Writes, Emptied
    <2>6. CASE ~skip /\ row[Src(w)].status = "absent"
      <3>1. Enter(w, Src(w))
        BY <1>5, <2>6 DEF Decide, Src
      <3>2. /\ j \in Job /\ j.pc = pc /\ j.kind = job[w].kind /\ j.src = job[w].src
            /\ j.had = job[w].had /\ j.pts = pts /\ j.todo = job[w].todo
        <4> HIDE DEF phase, redo, pts, pc
        <4>1. QED BY <1>1, <2>1, <2>2, <2>5 DEF Job
      <3> HIDE DEF j, phase, redo, pts, pc
      <3>3. TakesFairly(w)
        BY <1>2, <2>4, <3>1, <3>2, EnterFairly
      <3>4. QED BY <1>3, <2>2, <2>4, <2>5, <3>2, <3>3
    <2>7. CASE ~(~skip /\ row[Src(w)].status = "absent")
      <3>1. overlap' = overlap
        BY <1>5, <2>7 DEF Decide, Src
      <3>2. pc \notin Busy
        BY <2>7 DEF Busy, Writes
      <3>3. /\ j \in Job /\ j.pc = pc /\ j.kind = job[w].kind /\ j.src = job[w].src
            /\ j.had = job[w].had /\ j.pts = pts /\ j.todo = job[w].todo
        <4> HIDE DEF phase, redo, pts, pc
        <4>1. QED BY <1>1, <2>1, <2>2, <2>5 DEF Job
      <3> HIDE DEF j, phase, redo, pts, pc
      <3>4. TakesFairly(w)
        BY <2>4, <3>1, <3>2, <3>3, RestFairly
      <3>5. QED BY <1>3, <2>2, <2>4, <2>5, <3>3, <3>4
    <2>8. QED BY <2>6, <2>7
  <1>6. CASE Claim(w)
    <2> DEFINE may == Claimable(row[Src(w)], job[w].kind = "sweep", job[w].redo)
    <2>1. CASE ~may
      <3>1. "next" \in Pcs /\ "next" \notin Busy /\ "next" \notin Emptied
        BY DEF Pcs, Busy, Writes, Emptied
      <3>2. Goto(w, "next") /\ overlap' = overlap
        BY <1>2, <1>6, <2>1 DEF Claim
      <3>3. QED BY <1>2, <3>1, <3>2, GotoDecent
    <2>2. CASE may
      <3> DEFINE j == [job[w] EXCEPT !.pc = "claimed", !.got = row[Src(w)]]
      <3>1. row[Src(w)] \in Doc
        BY <1>2 DEF TypeInv, StoresOK
      <3>2. "claimed" \in Pcs /\ "claimed" \notin Emptied
        BY DEF Pcs, Busy, Emptied
      <3>3. job' = [job EXCEPT ![w] = j] /\ Enter(w, Src(w))
        BY <1>2, <1>6, <2>2 DEF Claim
      <3>4. /\ j \in Job /\ j.pc = "claimed" /\ j.kind = job[w].kind /\ j.src = job[w].src
            /\ j.had = job[w].had /\ j.pts = job[w].pts /\ j.todo = job[w].todo
        BY <1>1, <3>1, <3>2 DEF Job
      <3> HIDE DEF j
      <3>5. QED BY <1>4, <3>2, <3>3, <3>4
    <2>3. QED BY <2>1, <2>2
  <1>7. CASE SweepFile(w)
    <2>1. CASE /\ job' = [job EXCEPT ![w].todo = {<<Src(w), disk[Src(w)]>>}, ![w].pc = "scan"]
               /\ overlap' = overlap
      <3> DEFINE todo == {<<Src(w), disk[Src(w)]>>}
                 j == [job[w] EXCEPT !.todo = todo, !.pc = "scan"]
      <3>1. todo \in SUBSET (Sources \X Nat) /\ \A t \in todo : t[1] = job[w].src
        BY <1>2 DEF TypeInv, StoresOK
      <3>2. job' = [job EXCEPT ![w] = j]
        BY <2>1
      <3>3. "scan" \in Pcs /\ "scan" \notin Busy /\ "scan" \notin Emptied
        BY DEF Pcs, Busy, Writes, Emptied
      <3> HIDE DEF todo
      <3>4. /\ j \in Job /\ j.pc = "scan" /\ j.kind = job[w].kind /\ j.src = job[w].src
            /\ j.had = job[w].had /\ j.pts = job[w].pts /\ j.todo = todo
        BY <1>1, <3>1, <3>3 DEF Job
      <3> HIDE DEF j
      <3>5. TakesFairly(w)
        BY <2>1, <3>2, <3>3, <3>4, RestFairly
      <3>6. QED BY <1>3, <3>1, <3>2, <3>3, <3>4, <3>5
    <2>2. CASE Goto(w, "missing") /\ Enter(w, Src(w))
      <3> DEFINE j == [job[w] EXCEPT !.pc = "missing"]
      <3>1. job' = [job EXCEPT ![w] = j]
        BY <2>2 DEF Goto
      <3>2. "missing" \in Pcs /\ "missing" \notin Emptied
        BY DEF Pcs, Busy, Writes, Emptied
      <3>3. /\ j \in Job /\ j.pc = "missing" /\ j.kind = job[w].kind /\ j.src = job[w].src
            /\ j.had = job[w].had /\ j.pts = job[w].pts /\ j.todo = job[w].todo
        BY <1>1, <3>2 DEF Job
      <3> HIDE DEF j
      <3>4. QED BY <1>4, <2>2, <3>1, <3>2, <3>3
    <2>3. QED BY <1>7, <2>1, <2>2 DEF SweepFile
  <1>8. QED BY <1>5, <1>6, <1>7

LEMMA WorkDecent ==
  ASSUME TypeInv, CopyInv, NEW w \in Workers, Work(w)
  PROVE  Decent(w)
  BY WritersDecent, MoversDecent, WorkersDecent, AddersDecent, TurnersDecent, EnterersDecent,
     EndersDecent DEF Work

-----------------------------------------------------------------------------
(* The theorems. *)

LEMMA CopyInit == Init => CopyInv
  <1> SUFFICES ASSUME Init PROVE CopyInv
    OBVIOUS
  <1>1. \A w \in Workers : /\ job[w].kind = "none" /\ job[w].pc = "idle" /\ job[w].pts = <<>>
                           /\ job[w].src = None /\ job[w].had = [s \in Sources |-> <<>>]
    BY DEF Init, Idle
  <1>2. OwnTodo
    BY <1>1 DEF OwnTodo, Owners
  <1>3. Alone
    BY <1>1, NoneIsNoActor DEF Alone, WorksOn
  <1>4. Bounded
    BY <1>1 DEF Init, Bounded, Emptied
  <1>5. QED BY <1>2, <1>3, <1>4 DEF CopyInv

LEMMA CopyNext ==
  ASSUME TypeInv, CopyInv, [Next]_vars
  PROVE  CopyInv'
  <1>1. ASSUME NEW w \in Workers, Work(w) \/ Sweep(w) \/ Request(w) \/ Crash(w)
        PROVE  CopyInv'
    BY <1>1, WorkDecent, RequestDecent, EndersDecent, DecentStep
  <1>2. ASSUME UNCHANGED <<job, points, overlap>>
        PROVE  CopyInv'
    BY <1>2 DEF CopyInv, OwnTodo, Alone, Bounded, WorksOn
  <1>3. ASSUME NEW w \in Workers, Heartbeat(w)
        PROVE  CopyInv'
    BY <1>2, <1>3 DEF Heartbeat, BeatGet, BeatRead, BeatStore, stores, history
  <1>4. CASE Environment
    BY <1>2, <1>4 DEF Environment, Age, LockExpires, SweepLockExpires, SwitchChunker, stores,
                      history
  <1>5. CASE UNCHANGED vars
    BY <1>2, <1>5 DEF vars, stores, history
  <1>6. QED BY <1>1, <1>3, <1>4, <1>5 DEF Next

\* Whatever crashes, is retried, uploaded again, removed or re-embedded, for any
\* number of workers, sources and faults: the chunks of a source that two workers
\* were never on at once are in the vector store at most once.
THEOREM OneCopy == Spec => []AtMostOneCopy
  <1>1. Spec => [](TypeInv /\ CopyInv)
    BY InitTyped, NextTyped, CopyInit, CopyNext, PTL DEF Spec
  <1>2. QED BY <1>1, CopyInvIsStronger, PTL

-----------------------------------------------------------------------------
(* Claims. *)

LEMMA LockIsStronger == TypeInv /\ LockHeld => ClaimMutex
  BY DEF LockHeld, ClaimMutex

\* The places of an upload that keeps its row fresh before its heartbeat does.
Early == {"save", "processing"}

Watched == Early \cup {"claimed"}

\* Nothing but these steps brings a job to a place that is watched here, or keeps
\* it there.
LEMMA Arrivals ==
  ASSUME TypeInv, NEW w \in Workers, Work(w) \/ Sweep(w) \/ Request(w) \/ Crash(w),
         ~Claim(w), ~Start(w), ~Save(w), ~ReadExisting(w)
  PROVE  job'[w].pc \notin Watched
  <1>1. job[w] \in Job /\ job \in [Workers -> Job]
    BY HeldDoc DEF TypeInv, JobsOK
  <1>0. ASSUME NEW j, job' = [job EXCEPT ![w] = j], j.pc \notin Watched
        PROVE  job'[w].pc \notin Watched
    BY <1>1, <1>0
  <1>2. ASSUME NEW pc, Goto(w, pc), pc \notin Watched
        PROVE  job'[w].pc \notin Watched
    BY <1>1, <1>2 DEF Goto, Job
  <1>3. ASSUME NEW doc, NEW pc, Write(w, doc, pc), pc \notin Watched
        PROVE  job'[w].pc \notin Watched
    BY <1>1, <1>3 DEF Write, Job
  <1>4. ASSUME job' = [job EXCEPT ![w] = Idle]
        PROVE  job'[w].pc \notin Watched
    BY <1>1, <1>4 DEF Watched, Early, Idle
  <1>5. ASSUME NEW kind, NEW pc, NEW s, Begin(w, kind, pc, s), pc \notin Watched
        PROVE  job'[w].pc \notin Watched
    BY <1>1, <1>5 DEF Watched, Early, Begin, Idle
  <1>6. CASE \/ Processing(w) \/ Abandon(w) \/ Embedding(w) \/ Parsing(w)
             \/ Downloading(w) \/ Downloaded(w) \/ Complete(w) \/ Error(w) \/ Missing(w)
    BY <1>3, <1>6 DEF Watched, Early, Processing, Abandon, Embedding, Parsing, Downloading, Downloaded,
                      Complete, Error, Missing
  <1>7. CASE \/ ClaimTimeout(w) \/ Reuse(w) \/ Clear(w) \/ Download(w) \/ Remove(w)
             \/ Check(w) \/ Initialize(w) \/ RemoveFile(w) \/ RemovePoints(w) \/ Store(w)
    BY <1>2, <1>7 DEF Watched, Early, ClaimTimeout, Reuse, Clear, Download, Remove, Check, Initialize,
                      RemoveFile, RemovePoints, Store
  <1>8. CASE Stop(w) \/ DeleteRow(w) \/ DeleteChat(w) \/ Crash(w)
    BY <1>4, <1>8 DEF Stop, DeleteRow, DeleteChat, Crash
  <1>9. CASE Sweep(w) \/ Request(w)
    <2>1. CASE \E s \in Sources : StartIngest(w, s)
      BY <1>1, <2>1 DEF Watched, Early, StartIngest, Idle
    <2>2. CASE ~\E s \in Sources : StartIngest(w, s)
      BY <1>5, <1>9, <2>2 DEF Watched, Early, Sweep, Request, StartSweep, StartDelete, StartForget, StartDismiss,
                              StartReconcile, SwitchEmbedder
    <2>3. QED BY <2>1, <2>2
  <1>10. CASE Scan(w) \/ Collect(w) \/ NextSource(w)
    <2>1. CASE Scan(w)
      <3> DEFINE j == [job[w] EXCEPT !.pc = "next", !.had = points, !.emb = embedder]
      <3>1. job' = [job EXCEPT ![w] = j]
        BY <2>1 DEF Scan
      <3>2. j.pc = "next"
        BY <1>1 DEF Job
      <3> HIDE DEF j
      <3>3. QED BY <1>0, <3>1, <3>2 DEF Watched, Early
    <2>4. CASE Collect(w)
      BY <1>1, <2>4 DEF Watched, Early, Collect, Job
    <2>2. CASE NextSource(w)
      <3>1. CASE Goto(w, "stop")
        BY <1>2, <3>1 DEF Watched, Early
      <3>2. ASSUME NEW t \in job[w].todo,
                   job' = [job EXCEPT ![w] =
                             [@ EXCEPT !.todo = job[w].todo \ {t}, !.src = t[1], !.ver = t[2],
                                       !.pts = job[w].had[t[1]], !.had[t[1]] = <<>>,
                                       !.pc = "decide"]]
            PROVE  job'[w].pc \notin Watched
        BY <1>1, <3>2 DEF Watched, Early, Job
      <3>3. QED BY <2>2, <3>1, <3>2 DEF NextSource
    <2>3. QED BY <1>10, <2>1, <2>2, <2>4
  <1>11. CASE Decide(w)
    <2>1. job'[w].pc \in {"next", "reuse", "parsing", "claim"}
      BY <1>1, <1>11 DEF Decide, StartPhase, Job
    <2>2. QED BY <2>1 DEF Watched, Early
  <1>12. CASE Claimed(w)
    <2>1. job'[w].pc = job[w].next /\ job[w].next \in {"reuse", "parsing"}
      BY <1>1, <1>12 DEF Claimed, Job
    <2>2. QED BY <2>1 DEF Watched, Early
  <1>13. CASE Parse(w) \/ Embed(w) \/ Add(w) \/ SweepFile(w)
    <2>1. ASSUME NEW pc, NEW f, job' = [job EXCEPT ![w].pc = pc, ![w].pts = f], pc \notin Watched
          PROVE  job'[w].pc \notin Watched
      BY <1>1, <2>1 DEF Job
    <2>2. ASSUME NEW pc, NEW f, job' = [job EXCEPT ![w].todo = f, ![w].pc = pc], pc \notin Watched
          PROVE  job'[w].pc \notin Watched
      BY <1>1, <2>2 DEF Job
    <2>3. \A pc \in {"store", "error", "remove", "check", "scan", "missing"} : pc \notin Watched
      BY DEF Watched, Early
    <2>4. CASE Parse(w) \/ Embed(w)
      BY <1>2, <2>1, <2>3, <2>4 DEF Parse, Embed
    <2>5. CASE Add(w)
      BY <1>2, <2>1, <2>3, <2>5 DEF Add
    <2>6. CASE SweepFile(w)
      BY <1>2, <2>2, <2>3, <2>6 DEF SweepFile
    <2>7. QED BY <1>13, <2>4, <2>5, <2>6
  <1>14. CASE Reconcile(w)
    BY <1>1, <1>4, <1>14 DEF Watched, Early, Reconcile, Job
  <1>15. QED BY <1>6, <1>7, <1>8, <1>9, <1>10, <1>11, <1>12, <1>13, <1>14 DEF Work

LEMMA LockNext ==
  ASSUME TypeInv, CopyInv, LockHeld, [Next]_vars
  PROVE  LockHeld'
  <1>1. ASSUME NEW w \in Workers, Work(w) \/ Sweep(w) \/ Request(w) \/ Crash(w), ~Claim(w),
               ~Claimed(w)
        PROVE  LockHeld'
    <2>1. OthersStay(w)
      BY <1>1, WorkDecent, RequestDecent, EndersDecent DEF Decent
    <2>2. job'[w].pc = "claimed" => job[w].pc = "claimed" /\ job'[w].src = job[w].src
      <3>1. job[w] \in Job /\ job \in [Workers -> Job]
        BY HeldDoc DEF TypeInv, JobsOK
      <3>2. CASE Start(w) \/ Save(w) \/ ReadExisting(w)
        BY <3>1, <3>2 DEF Start, Save, ReadExisting, Write, Goto, Job
      <3>3. QED BY <1>1, <3>2, Arrivals DEF Watched
    <2>3. lock' = lock /\ (lapsed' = lapsed \/ (Crash(w) /\ lapsed' = lapsed \ {w}))
      <3>1. CASE Work(w)
        BY <1>1, <3>1 DEF Work, ReadExisting, Start, Save, Processing, Scan, NextSource, Decide,
             ClaimTimeout, Reuse, Abandon, Embedding, Parsing, Clear, Downloading, Download,
             Downloaded, Parse, Store, Embed, Remove, Add, Check, Complete, Error, Stop, SweepFile,
             Missing, Collect, Initialize, RemoveFile, RemovePoints, DeleteRow, DeleteChat,
             Reconcile, OnlyJob, OnlyRow, OnlyPoints, OnlyFaults, OnlyOverlap, locks
      <3>2. CASE Sweep(w) \/ Request(w) \/ Crash(w)
        BY <3>2 DEF Sweep, Request, Crash, StartSweep, StartIngest, StartDelete, StartForget,
             StartDismiss, StartReconcile, SwitchEmbedder, OnlyOverlap, locks
      <3>3. QED BY <1>1, <3>1, <3>2
    <2>4. Crash(w) => job'[w].pc # "claimed"
      BY DEF Crash, Idle, TypeInv, JobsOK
    <2>5. ASSUME NEW v \in Workers \ lapsed', job'[v].pc = "claimed"
          PROVE  lock'[job'[v].src] = v
      <3>1. CASE v = w
        <4>1. v \notin lapsed
          BY <2>3, <2>4, <2>5, <3>1
        <4>2. QED BY <2>2, <2>3, <2>5, <3>1, <4>1 DEF LockHeld, At, Src
      <3>2. CASE v # w
        <4>1. v \notin lapsed /\ job'[v] = job[v]
          BY <2>1, <2>3, <2>5, <3>2 DEF OthersStay
        <4>2. QED BY <2>3, <2>5, <4>1 DEF LockHeld, At, Src
      <3>3. QED BY <3>1, <3>2
    <2>6. QED BY <2>5 DEF LockHeld, At, Src
  <1>2. ASSUME NEW w \in Workers, Claim(w)
        PROVE  LockHeld'
    <2>1. OthersStay(w)
      BY <1>2, WorkDecent DEF Decent, Work
    <2>2. /\ job[w] \in Job /\ Src(w) \in Sources /\ lock[Src(w)] = None
          /\ row[Src(w)] \in Doc
      BY <1>2, HeldDoc DEF Claim, At, Filled, Sourceless, Src, TypeInv, StoresOK
    <2>0. lapsed' = lapsed
      BY <1>2 DEF Claim
    <2>3. ASSUME NEW v \in Workers \ (lapsed \cup {w}), job'[v].pc = "claimed"
          PROVE  lock'[job'[v].src] = v
      <3>1. lock[job[v].src] = v /\ job'[v].src = job[v].src
        BY <2>1, <2>3 DEF LockHeld, OthersStay, At, Src
      <3>2. job[v].src # Src(w)
        BY <2>2, <3>1, NoneIsNoActor
      <3>3. job[v].src \in Sources
        <4>1. job[v].pc = "claimed" /\ Filled(job[v], wired[v])
          BY <2>1, <2>3, HeldDoc DEF OthersStay, TypeInv
        <4>2. QED BY <4>1 DEF Filled, Sourceless
      <3>4. lock' = lock \/ lock' = [lock EXCEPT ![Src(w)] = w]
        BY <1>2 DEF Claim, Src
      <3>5. QED BY <3>1, <3>2, <3>3, <3>4 DEF TypeInv, LocksOK
    <2>4. job'[w].pc = "claimed" => lock'[job'[w].src] = w
      <3> DEFINE may == Claimable(row[Src(w)], job[w].kind = "sweep", job[w].redo)
      <3>1. CASE ~may
        <4>1. Goto(w, "next")
          BY <1>2, <3>1 DEF Claim, Src
        <4>2. job'[w].pc = "next"
          BY <2>2, <4>1 DEF Goto, Job, TypeInv, JobsOK
        <4>3. QED BY <4>2
      <3>2. CASE may
        <4>1. /\ lock' = [lock EXCEPT ![Src(w)] = w]
              /\ job' = [job EXCEPT ![w].pc = "claimed", ![w].got = row[Src(w)]]
          BY <1>2, <3>2 DEF Claim, Src
        <4>2. job'[w].src = Src(w)
          BY <2>2, <4>1 DEF Job, TypeInv, JobsOK, Src
        <4>3. QED BY <2>2, <4>1, <4>2 DEF TypeInv, LocksOK
      <3>3. QED BY <3>1, <3>2
    <2>5. QED BY <2>0, <2>3, <2>4 DEF LockHeld, At, Src
  <1>3. ASSUME NEW w \in Workers, Claimed(w)
        PROVE  LockHeld'
    <2>1. OthersStay(w)
      BY <1>3, WorkDecent DEF Decent, Work
    <2>2. /\ lapsed' = lapsed \ {w}
          /\ lock' = IF lock[Src(w)] = w THEN [lock EXCEPT ![Src(w)] = None] ELSE lock
      BY <1>3 DEF Claimed
    <2>3. job'[w].pc # "claimed"
      <3>1. job[w] \in Job /\ job \in [Workers -> Job]
        BY HeldDoc DEF TypeInv, JobsOK
      <3>2. QED BY <1>3, <3>1 DEF Claimed, Job
    <2>4. ASSUME NEW v \in Workers \ (lapsed \cup {w}), job'[v].pc = "claimed"
          PROVE  lock'[job'[v].src] = v
      <3>1. lock[job[v].src] = v /\ job'[v].src = job[v].src
        BY <2>1, <2>4 DEF LockHeld, OthersStay, At, Src
      <3>2. QED BY <2>2, <3>1 DEF TypeInv, LocksOK
    <2>5. QED BY <2>2, <2>3, <2>4 DEF LockHeld, At, Src
  <1>4. ASSUME NEW s \in Sources, LockExpires(s)
        PROVE  LockHeld'
    BY <1>4 DEF LockExpires, LockHeld, At, Src, TypeInv, LocksOK
  <1>5. ASSUME UNCHANGED <<job, lock, lapsed>>
        PROVE  LockHeld'
    BY <1>5 DEF LockHeld, At, Src
  <1>6. ASSUME NEW w \in Workers, Heartbeat(w)
        PROVE  LockHeld'
    BY <1>5, <1>6 DEF Heartbeat, BeatGet, BeatRead, BeatStore, locks
  <1>7. CASE Environment
    BY <1>4, <1>5, <1>7 DEF Environment, Age, SweepLockExpires, SwitchChunker, locks
  <1>8. CASE UNCHANGED vars
    BY <1>5, <1>8 DEF vars, locks
  <1>9. QED BY <1>1, <1>2, <1>3, <1>6, <1>7, <1>8 DEF Next

\* For any number of workers, two workers are never between the two commands of a
\* claim of one source, claim_source_for_resume, unless the lock ran out under one of
\* them, which it may at any time.
THEOREM ClaimsExclude == Spec => []ClaimMutex
  <1>1. Init => LockHeld
    BY DEF Init, Idle, LockHeld, At
  <1>2. Spec => [](TypeInv /\ CopyInv /\ LockHeld)
    BY <1>1, InitTyped, NextTyped, CopyInit, CopyNext, LockNext, PTL DEF Spec
  <1>3. QED BY <1>2, LockIsStronger, PTL

-----------------------------------------------------------------------------
(* The sweep and the live uploads. *)

\* A row that is kept fresh is not stale: the strengthening of
\* SweepSparesLiveUploads.
Fresh == \A s \in Sources : KeptFresh(s) => ~row[s].stale

\* Whatever is stored in a row is fresh.
LEMMA WrittenFresh ==
  ASSUME TypeInv, NEW w \in Workers, Work(w) \/ Sweep(w) \/ Request(w) \/ Heartbeat(w) \/ Crash(w)
  PROVE  \A s \in Sources : row'[s] = row[s] \/ ~row'[s].stale
  <1>1. ASSUME NEW x, NEW doc \in Doc, ~doc.stale, row' = [row EXCEPT ![x] = doc]
        PROVE  \A s \in Sources : row'[s] = row[s] \/ ~row'[s].stale
    BY <1>1 DEF TypeInv, StoresOK
  <1>2. \A doc \in Doc, status \in Statuses :
          SetStatus(doc, status) \in Doc /\ ~SetStatus(doc, status).stale
    BY DEF Doc, SetStatus
  <1>3. \A doc \in Doc, status \in Statuses, phase \in Phases \cup {"none"} :
          SetPhase(doc, status, phase) \in Doc /\ ~SetPhase(doc, status, phase).stale
    BY <1>2 DEF SetPhase, Doc
  <1>4. /\ {"uploaded", "processing", "completed", "downloading", "downloaded", "error"} \subseteq Statuses
        /\ {"downloading", "embedding", "parsing_chunking"} \subseteq Phases
    BY DEF Statuses, InFlight, Phases
  <1>5. \A doc \in Doc, e \in Embedders \cup {None} :
          SetEmbedding(doc, e) \in Doc /\ ~SetEmbedding(doc, e).stale
    <2> TAKE doc \in Doc, e \in Embedders \cup {None}
    <2>1. LET d == SetPhase(doc, "processing", "embedding") IN d \in Doc /\ ~d.stale
      BY <1>3, <1>4
    <2>2. QED BY <2>1 DEF SetEmbedding, Doc
  <1>6. \A doc \in Doc, c \in Chunkers \cup {None} :
          SetParsing(doc, c) \in Doc /\ ~SetParsing(doc, c).stale
    <2> TAKE doc \in Doc, c \in Chunkers \cup {None}
    <2>1. LET d == SetPhase(doc, "processing", "parsing_chunking") IN d \in Doc /\ ~d.stale
      BY <1>3, <1>4
    <2>2. QED BY <2>1 DEF SetParsing, Doc
  <1>7. /\ job[w].got # None => job[w].got \in Doc
        /\ job[w].emb \in Embedders \cup {None} /\ job[w].chk \in Chunkers \cup {None}
        /\ Filled(job[w], wired[w]) /\ BeatFilled(beat[w])
    BY HeldDoc DEF TypeInv, ProcOK
  <1>8. CASE Start(w) \/ Abandon(w) \/ Error(w) \/ Missing(w)
    <2>1. job[w].got \in Doc
      BY <1>7, <1>8 DEF Start, Abandon, Error, Missing, Write
    <2>2. PICK status \in {"uploaded", "completed", "error"} :
            row' = [row EXCEPT ![Src(w)] = SetStatus(job[w].got, status)]
      BY <1>8 DEF Start, Abandon, Error, Missing, Write
    <2>3. QED BY <1>1, <1>2, <1>4, <2>1, <2>2
  <1>9. CASE Downloading(w) \/ Downloaded(w) \/ Complete(w)
    <2>1. job[w].got \in Doc
      BY <1>7, <1>9 DEF Downloading, Downloaded, Complete, Write
    <2>2. PICK status \in {"downloading", "downloaded", "completed"}, phase \in {"downloading", "none"} :
            row' = [row EXCEPT ![Src(w)] = SetPhase(job[w].got, status, phase)]
      BY <1>9 DEF Downloading, Downloaded, Complete, Write, SetCompleted
    <2>3. QED BY <1>1, <1>3, <1>4, <2>1, <2>2
  <1>10. CASE Embedding(w)
    <2>1. job[w].got \in Doc /\ row' = [row EXCEPT ![Src(w)] = SetEmbedding(job[w].got, job[w].emb)]
      BY <1>7, <1>10 DEF Embedding, Write
    <2>2. QED BY <1>1, <1>5, <1>7, <2>1
  <1>11. CASE Parsing(w) \/ Processing(w)
    <2>1. job[w].got \in Doc /\ row' = [row EXCEPT ![Src(w)] = SetParsing(job[w].got, job[w].chk)]
      BY <1>7, <1>11 DEF Parsing, Processing, Write
    <2>2. QED BY <1>1, <1>6, <1>7, <2>1
  <1>12. CASE Claimed(w)
    <2>1. job[w].got \in Doc /\ row' = [row EXCEPT ![Src(w)] = SetStatus(job[w].got, "processing")]
      BY <1>7, <1>12 DEF Claimed, At, Filled
    <2>2. QED BY <1>1, <1>2, <1>4, <2>1
  <1>13. CASE BeatStore(w)
    <2>1. /\ beat[w].got \in Doc
          /\ row' = [row EXCEPT ![beat[w].src] = SetStatus(beat[w].got, "processing")]
      BY <1>7, <1>13 DEF BeatStore, BeatFilled
    <2>2. QED BY <1>1, <1>2, <1>4, <2>1
  <1>14. CASE DeleteRow(w)
    <2>1. NoDoc \in Doc /\ ~NoDoc.stale
      BY DEF NoDoc, Doc
    <2>2. QED BY <1>1, <1>14, <2>1 DEF DeleteRow
  <1>15. CASE Sweep(w) \/ Request(w) \/ Crash(w) \/ BeatGet(w) \/ BeatRead(w)
    <2>1. row' = row
      BY <1>15 DEF Sweep, Request, Crash, BeatGet, BeatRead, StartSweep, StartIngest, StartDelete,
           StartForget, StartDismiss, StartReconcile, SwitchEmbedder, OnlyOverlap, stores
    <2>2. QED BY <2>1
  <1>16. CASE \/ ReadExisting(w) \/ Save(w) \/ Scan(w) \/ NextSource(w) \/ Decide(w) \/ Claim(w)
              \/ ClaimTimeout(w) \/ Reuse(w) \/ Clear(w) \/ Download(w) \/ Parse(w) \/ Store(w)
              \/ Embed(w) \/ Remove(w) \/ Add(w) \/ Check(w) \/ Stop(w) \/ SweepFile(w)
              \/ Collect(w) \/ Initialize(w) \/ RemoveFile(w) \/ RemovePoints(w) \/ DeleteChat(w)
              \/ Reconcile(w)
    <2>1. row' = row
      BY <1>16 DEF ReadExisting, Save, Scan, NextSource, Decide, Claim, ClaimTimeout, Reuse, Clear,
           Download, Parse, Store, Embed, Remove, Add, Check, Stop, SweepFile, Collect, Initialize,
           RemoveFile, RemovePoints, DeleteChat, Reconcile, OnlyJob, OnlyPoints, OnlyFaults,
           OnlyOverlap, stores
    <2>2. QED BY <2>1
  <1>17. QED BY <1>8, <1>9, <1>10, <1>11, <1>12, <1>13, <1>14, <1>15, <1>16 DEF Work, Heartbeat

\* Only fresh rows get an upload to keep them fresh, at the start of the upload
\* and at the start of its heartbeat.
LEMMA KeptArrives ==
  ASSUME TypeInv, NEW w \in Workers, Work(w) \/ Sweep(w) \/ Request(w) \/ Heartbeat(w) \/ Crash(w),
         NEW s \in Sources
  PROVE  /\ job'[w].src = s /\ job'[w].pc \in Early =>
              (job[w].src = s /\ job[w].pc \in Early) \/ ~row'[s].stale
         /\ beat'[w].at # "off" /\ beat'[w].src = s =>
              (beat[w].at # "off" /\ beat[w].src = s) \/ ~row'[s].stale
  <1>1. /\ job[w] \in Job /\ job \in [Workers -> Job]
        /\ beat[w] \in Beat /\ beat \in [Workers -> Beat]
    BY HeldDoc DEF TypeInv, JobsOK, ProcOK
  <1>2. ASSUME Start(w) \/ Processing(w)
        PROVE  ~row'[Src(w)].stale
    <2>1. job[w].got \in Doc /\ job[w].chk \in Chunkers \cup {None} /\ Src(w) \in Sources
      BY <1>2, HeldDoc DEF Start, Processing, At, Filled, Sourceless, Src, Write, TypeInv
    <2>2. CASE Start(w)
      <3>1. row' = [row EXCEPT ![Src(w)] = SetStatus(job[w].got, "uploaded")]
        BY <2>2 DEF Start, Write
      <3>2. ~SetStatus(job[w].got, "uploaded").stale
        BY <2>1 DEF SetStatus, Doc
      <3>3. QED BY <2>1, <3>1, <3>2 DEF TypeInv, StoresOK
    <2>3. CASE Processing(w)
      <3>1. row' = [row EXCEPT ![Src(w)] = SetParsing(job[w].got, job[w].chk)]
        BY <2>3 DEF Processing, Write
      <3>2. ~SetParsing(job[w].got, job[w].chk).stale
        BY <2>1 DEF SetParsing, SetPhase, SetStatus, Doc
      <3>3. QED BY <2>1, <3>1, <3>2 DEF TypeInv, StoresOK
    <2>4. QED BY <1>2, <2>2, <2>3
  <1>3. job'[w].src = s /\ job'[w].pc \in Early =>
          (job[w].src = s /\ job[w].pc \in Early) \/ ~row'[s].stale
    <2>1. CASE Start(w)
      <3>1. job'[w].src = Src(w)
        BY <1>1, <2>1 DEF Start, Write, Job, Src
      <3>2. QED BY <1>2, <2>1, <3>1
    <2>2. CASE Save(w) \/ ReadExisting(w)
      <3>1. job'[w].src = job[w].src
        BY <1>1, <2>2 DEF Save, ReadExisting, Goto, Job
      <3>2. job'[w].pc \in Early => job[w].pc \in Early
        BY <1>1, <2>2 DEF Save, ReadExisting, At, Job, Early
      <3>3. QED BY <3>1, <3>2
    <2>3. CASE Claim(w)
      <3>1. job'[w].pc \in {"claimed", "next"}
        BY <1>1, <2>3 DEF Claim, Goto, Job
      <3>2. QED BY <3>1 DEF Early
    <2>4. CASE Heartbeat(w)
      BY <2>4 DEF Heartbeat, BeatGet, BeatRead, BeatStore
    <2>5. QED BY <2>1, <2>2, <2>3, <2>4, Arrivals DEF Watched
  <1>4. beat'[w].at # "off" /\ beat'[w].src = s =>
          (beat[w].at # "off" /\ beat[w].src = s) \/ ~row'[s].stale
    <2>1. CASE Processing(w)
      <3>1. beat'[w].src = Src(w)
        BY <1>1, <2>1 DEF Processing, NoBeat
      <3>2. QED BY <1>2, <2>1, <3>1
    <2>2. CASE Stop(w) \/ Crash(w)
      BY <1>1, <2>2 DEF Stop, Crash, NoBeat
    <2>3. CASE Heartbeat(w)
      BY <1>1, <2>3 DEF Heartbeat, BeatGet, BeatRead, BeatStore, NoBeat, Beat
    <2>4. CASE beat' = beat
      BY <2>4
    <2>5. ASSUME Sweep(w) \/ Request(w)
          PROVE  beat' = beat
      BY <2>5 DEF Sweep, Request, StartSweep, StartIngest, StartDelete, StartForget,
           StartDismiss, StartReconcile, SwitchEmbedder, OnlyOverlap, proc
    <2>6. ASSUME Work(w), ~Processing(w), ~Stop(w)
          PROVE  beat' = beat
      BY <2>6 DEF Work, ReadExisting, Start, Save, Scan, NextSource, Decide, Claim, Claimed,
           ClaimTimeout, Reuse, Abandon, Embedding, Parsing, Clear, Downloading, Download,
           Downloaded, Parse, Store, Embed, Remove, Add, Check, Complete, Error, SweepFile,
           Missing, Collect, Initialize, RemoveFile, RemovePoints, DeleteRow, DeleteChat,
           Reconcile, OnlyJob, OnlyRow, OnlyPoints, OnlyFaults, OnlyOverlap, proc
    <2>7. QED BY <2>1, <2>2, <2>3, <2>4, <2>5, <2>6
  <1>5. QED BY <1>3, <1>4

LEMMA OthersBeat ==
  ASSUME TypeInv, NEW w \in Workers, Work(w) \/ Sweep(w) \/ Request(w) \/ Heartbeat(w) \/ Crash(w)
  PROVE  \A v \in Workers \ {w} : beat'[v] = beat[v]
  <1>1. beat \in [Workers -> Beat]
    BY DEF TypeInv, ProcOK
  <1>2. CASE Processing(w) \/ Stop(w) \/ Crash(w) \/ Heartbeat(w)
    BY <1>1, <1>2 DEF Processing, Stop, Crash, Heartbeat, BeatGet, BeatRead, BeatStore
  <1>3. CASE Sweep(w) \/ Request(w)
    BY <1>3 DEF Sweep, Request, StartSweep, StartIngest, StartDelete, StartForget,
         StartDismiss, StartReconcile, SwitchEmbedder, OnlyOverlap, proc
  <1>4. CASE Work(w) /\ ~Processing(w) /\ ~Stop(w)
    BY <1>4 DEF Work, ReadExisting, Start, Save, Scan, NextSource, Decide, Claim, Claimed,
         ClaimTimeout, Reuse, Abandon, Embedding, Parsing, Clear, Downloading, Download,
         Downloaded, Parse, Store, Embed, Remove, Add, Check, Complete, Error, SweepFile,
         Missing, Collect, Initialize, RemoveFile, RemovePoints, DeleteRow, DeleteChat,
         Reconcile, OnlyJob, OnlyRow, OnlyPoints, OnlyFaults, OnlyOverlap, proc
  <1>5. QED BY <1>2, <1>3, <1>4

LEMMA FreshNext ==
  ASSUME TypeInv, CopyInv, Fresh, [Next]_vars
  PROVE  Fresh'
  <1>1. ASSUME NEW w \in Workers,
               Work(w) \/ Sweep(w) \/ Request(w) \/ Heartbeat(w) \/ Crash(w)
        PROVE  Fresh'
    <2>1. \A v \in Workers \ {w} : job'[v] = job[v]
      <3>1. CASE Heartbeat(w)
        BY <3>1 DEF Heartbeat, BeatGet, BeatRead, BeatStore
      <3>2. QED BY <1>1, <3>1, WorkDecent, RequestDecent, EndersDecent DEF Decent, OthersStay
    <2>2. \A v \in Workers \ {w} : beat'[v] = beat[v]
      BY <1>1, OthersBeat
    <2>3. ASSUME NEW s \in Sources, KeptFresh(s)'
          PROVE  ~row'[s].stale
      <3>1. KeptFresh(s) \/ ~row'[s].stale
        BY <1>1, <2>1, <2>2, <2>3, KeptArrives DEF KeptFresh, Early
      <3>2. row'[s] = row[s] \/ ~row'[s].stale
        BY <1>1, WrittenFresh
      <3>3. QED BY <3>1, <3>2 DEF Fresh
    <2>4. QED BY <2>3 DEF Fresh
  <1>2. ASSUME NEW s \in Sources, Age(s)
        PROVE  Fresh'
    <2>1. \A t \in Sources : KeptFresh(t)' <=> KeptFresh(t)
      BY <1>2 DEF Age, KeptFresh, proc
    <2>2. \A t \in Sources \ {s} : row'[t] = row[t]
      BY <1>2 DEF Age, TypeInv, StoresOK
    <2>3. QED BY <1>2, <2>1, <2>2 DEF Fresh, Age
  <1>3. ASSUME UNCHANGED <<job, beat, row>>
        PROVE  Fresh'
    BY <1>3 DEF Fresh, KeptFresh
  <1>4. CASE Environment
    BY <1>2, <1>3, <1>4 DEF Environment, LockExpires, SweepLockExpires, SwitchChunker, stores, proc
  <1>5. CASE UNCHANGED vars
    BY <1>3, <1>5 DEF vars, stores, proc
  <1>6. QED BY <1>1, <1>4, <1>5 DEF Next

\* For any number of workers and sources, and whatever expires, crashes or is
\* retried: the recovery sweep never claims the row of an upload that is alive.
THEOREM SweepSpares == Spec => SweepSparesLiveUploads
  <1> DEFINE Spares ==
        \A w \in Workers :
          /\ job[w].kind = "sweep" /\ At(w, "claim") /\ job'[w].pc = "claimed"
          /\ row[Src(w)].status # "completed"
          => ~KeptFresh(Src(w))
  <1>1. Init => Fresh
    BY DEF Init, Idle, NoBeat, Fresh, KeptFresh
  <1>2. ASSUME TypeInv, CopyInv, Fresh, [Next]_vars
        PROVE  Spares
    <2>1. SUFFICES ASSUME NEW w \in Workers, job[w].kind = "sweep", At(w, "claim"),
                          job'[w].pc = "claimed", row[Src(w)].status # "completed"
                   PROVE  ~KeptFresh(Src(w))
      OBVIOUS
    <2>2. job[w].pc = "claim" /\ Src(w) \in Sources
      BY <1>2, <2>1, HeldDoc DEF At, Filled, Sourceless, Src, TypeInv
    <2>3. Claim(w)
      <3>1. job'[w] # job[w]
        BY <2>1, <2>2
      <3>2. PICK v \in Workers : Work(v) \/ Sweep(v) \/ Request(v) \/ Crash(v)
        BY <1>2, <3>1 DEF Next, Heartbeat, BeatGet, BeatRead, BeatStore, Environment, Age,
             LockExpires, SweepLockExpires, SwitchChunker, vars
      <3>3. v = w
        BY <1>2, <3>1, <3>2, WorkDecent, RequestDecent, EndersDecent DEF Decent, OthersStay
      <3>4. ~Start(w) /\ ~Save(w) /\ ~ReadExisting(w)
        BY <2>2 DEF Start, Save, ReadExisting, At, Writes
      <3>5. QED BY <1>2, <2>1, <3>2, <3>3, <3>4, Arrivals DEF Watched
    <2>4. Claimable(row[Src(w)], TRUE, job[w].redo)
      <3>1. CASE ~Claimable(row[Src(w)], job[w].kind = "sweep", job[w].redo)
        <4>1. Goto(w, "next")
          BY <2>3, <3>1 DEF Claim, Src
        <4>2. QED BY <1>2, <2>1, <4>1, HeldDoc DEF Goto, Job, TypeInv, JobsOK
      <3>2. QED BY <2>1, <3>1 DEF Claimable
    <2>5. QED BY <1>2, <2>1, <2>2, <2>4 DEF Claimable, Fresh
  <1>3. Spec => [](TypeInv /\ CopyInv /\ Fresh)
    BY <1>1, InitTyped, NextTyped, CopyInit, CopyNext, FreshNext, PTL DEF Spec
  <1>4. TypeInv /\ CopyInv /\ Fresh /\ [Next]_vars => [Spares]_vars
    BY <1>2
  <1>5. QED BY <1>3, <1>4, PTL DEF Spec, SweepSparesLiveUploads
=============================================================================
