--------------------------- MODULE Completed_proofs ---------------------------
(***************************************************************************)
(* A COMPLETED row stands for vectors in the store, for any sources,       *)
(* workers, faults and removals: while the configuration of the agent      *)
(* stays, and across a change of its embedder.                             *)
(***************************************************************************)
EXTENDS EfficientIngestion_proofs

-----------------------------------------------------------------------------
(* What holds of a job, whatever the configuration. *)

\* Where the row of the source at hand has been taken back from COMPLETED.
Underway == Emptied \cup {"save", "reuse", "clear", "embedding", "embed", "remove"}

\* The removals of a file or a conversation.
Removing == {"rmfile", "rmpoints", "delchat"}

\* What holds of the source s at hand while nobody else is on it.
AtHand(j, s) ==
  /\ j.pc \in Underway => row[s].status # "completed"
  /\ j.pc = "embed" => j.pts # <<>>
  /\ j.pc \in {"remove", "add"} => Len(j.pts) = 1 /\ j.pts[1].embedder = j.emb
  /\ j.pc = "abandon" => ChatGone(s)
  /\ j.pc = "rmpoints" => disk[s] = 0

\* The kinds of jobs that come to a place; a removal is one of a file.
Orderly(j) ==
  /\ j.pc \in Removing => j.kind \in {"delete", "forget"} /\ j.src \notin Urls
  /\ j.pc = "delrow" => j.kind \in {"delete", "gc"}
  /\ j.pc = "gc" => j.kind = "gc"
  /\ j.pc = "idle" => j.kind = "none"
  /\ j.pc \in {"start", "save", "processing"} => j.kind = "ingest"

Tended(w) ==
  Orderly(job[w]) /\ (job[w].src \in Sources \ overlap => AtHand(job[w], job[w].src))

Calm == \A w \in Workers : Tended(w)

\* From the scan on, a pass has its embedder.
Resolved ==
  {"next", "decide", "claim", "claimed", "reuse", "abandon", "embedding", "parsing", "clear",
   "downloading", "download", "downloaded", "parse", "store", "embed", "remove", "add", "check",
   "complete", "error"}

Resolves == \A w \in Workers : job[w].pc \in Resolved => job[w].emb \in Embedders

-----------------------------------------------------------------------------
(* A step of a worker, as far as Calm can tell. *)

\* Only the source that w is on changes.
KeepsOthers(w) ==
  /\ chats' \subseteq chats
  /\ \A s \in Sources : WorksOn(w, s) \/ (row'[s] = row[s] /\ disk'[s] = disk[s])

\* Whatever AtHand says of a source makes its worker be on it.
LEMMA HandsOn ==
  ASSUME NEW w \in Workers, NEW s \in Sources, job[w].src = s, Orderly(job[w]), ~WorksOn(w, s)
  PROVE  job[w].pc \notin Underway \cup {"abandon", "rmpoints"}
  BY DEF Orderly, WorksOn, Underway, Emptied, Removing, Busy, Writes

LEMMA Keeps ==
  ASSUME TypeInv, CopyInv, Calm, NEW w \in Workers, Decent(w), KeepsOthers(w), Tended(w)'
  PROVE  Calm'
  <1>1. overlap \subseteq overlap' /\ OthersStay(w)
    BY DEF Decent, TakesFairly
  <1>2. \A s \in Sources : ChatGone(s) => ChatGone(s)'
    BY DEF KeepsOthers, ChatGone
  <1>3. ASSUME NEW v \in Workers \ {w} PROVE Tended(v)'
    <2>1. job'[v] = job[v] /\ Tended(v)
      BY <1>1 DEF OthersStay, Calm
    <2>2. ASSUME job[v].src \in Sources \ overlap' PROVE AtHand(job[v], job[v].src)'
      <3> DEFINE s == job[v].src
      <3>1. s \in Sources \ overlap /\ AtHand(job[v], s) /\ Orderly(job[v])
        BY <1>1, <2>1, <2>2 DEF Tended
      <3>2. CASE WorksOn(v, s)
        <4>1. ~WorksOn(w, s)
          BY <3>1, <3>2 DEF CopyInv, Alone
        <4>2. row'[s] = row[s] /\ disk'[s] = disk[s]
          BY <3>1, <4>1 DEF KeepsOthers
        <4>3. QED BY <1>2, <2>1, <3>1, <4>2 DEF AtHand
      <3>3. CASE ~WorksOn(v, s)
        <4>1. job[v].pc \notin Underway \cup {"abandon", "rmpoints"}
          BY <3>1, <3>3, HandsOn
        <4>2. job[v].pc \notin {"embed", "remove", "add"}
          BY <4>1 DEF Underway, Emptied
        <4>3. QED BY <2>1, <4>1, <4>2 DEF AtHand
      <3>4. QED BY <3>2, <3>3
    <2>3. QED BY <2>1, <2>2 DEF Tended
  <1>4. QED BY <1>3 DEF Calm

\* A step that changes points only, or no store at all.
LEMMA PointsKeep ==
  ASSUME TypeInv, CopyInv, Calm, NEW w \in Workers, Decent(w), UNCHANGED <<row, disk, chats>>, Tended(w)'
  PROVE  Calm'
  <1>1. KeepsOthers(w)
    BY DEF KeepsOthers
  <1>2. QED BY <1>1, Keeps

LEMMA QuietKeeps ==
  ASSUME TypeInv, CopyInv, Calm, NEW w \in Workers, Decent(w), UNCHANGED stores, Tended(w)'
  PROVE  Calm'
  BY PointsKeep DEF stores

\* The places Calm says nothing of.
Watchful ==
  Underway \cup Removing \cup {"abandon", "gc", "delrow", "idle", "start", "processing"}

LEMMA Elsewhere ==
  ASSUME NEW w \in Workers, job'[w].pc \notin Watchful
  PROVE  Tended(w)'
  BY DEF Tended, Orderly, AtHand, Watchful, Underway, Emptied, Removing

\* The fields of a job that has moved on.
LEMMA Moved ==
  ASSUME TypeInv, NEW w \in Workers, NEW pc, Goto(w, pc)
  PROVE  /\ job'[w].pc = pc /\ job'[w].kind = job[w].kind /\ job'[w].src = job[w].src
         /\ job'[w].pts = job[w].pts /\ job'[w].emb = job[w].emb /\ job'[w].got = job[w].got
  BY HeldDoc DEF TypeInv, JobsOK, Goto, Job

LEMMA Wrote ==
  ASSUME TypeInv, NEW w \in Workers, NEW doc, NEW pc, Write(w, doc, pc)
  PROVE  /\ job'[w].pc = pc /\ job'[w].kind = job[w].kind /\ job'[w].src = job[w].src
         /\ job'[w].pts = job[w].pts /\ job'[w].emb = job[w].emb /\ job'[w].got = None
  BY HeldDoc DEF TypeInv, JobsOK, Write, Job

LEMMA Idles ==
  ASSUME TypeInv, NEW w \in Workers, job' = [job EXCEPT ![w] = Idle]
  PROVE  Tended(w)'
  <1>1. job'[w] = Idle
    BY DEF TypeInv, JobsOK
  <1>2. job'[w].pc = "idle" /\ job'[w].kind = "none"
    BY <1>1 DEF Idle
  <1>3. QED BY <1>2 DEF Tended, Orderly, AtHand, Underway, Emptied, Removing

-----------------------------------------------------------------------------
(* The steps that leave the stores alone. *)

LEMMA ReadExistingCalm ==
  ASSUME TypeInv, CopyInv, Calm, NEW w \in Workers, ReadExisting(w)
  PROVE  Calm'
  <1>1. Decent(w) /\ UNCHANGED stores /\ overlap' = overlap
    BY WorkDecent DEF Work, ReadExisting, OnlyJob, history
  <1>2. /\ job'[w].pc = job[w].pc /\ job'[w].kind = job[w].kind /\ job'[w].src = job[w].src
        /\ job'[w].pts = job[w].pts /\ job'[w].emb = job[w].emb
    BY HeldDoc DEF TypeInv, JobsOK, ReadExisting, Job
  <1>3. Tended(w)
    BY DEF Calm
  <1>4. Tended(w)'
    BY <1>1, <1>2, <1>3 DEF Tended, Orderly, AtHand, ChatGone, stores
  <1>5. QED BY <1>1, <1>4, QuietKeeps

LEMMA EndersCalm ==
  ASSUME TypeInv, CopyInv, Calm, NEW w \in Workers, Stop(w) \/ Crash(w)
  PROVE  Calm'
  <1>1. Decent(w)
    BY EndersDecent
  <1>2. UNCHANGED stores /\ job' = [job EXCEPT ![w] = Idle]
    BY DEF Stop, Crash
  <1>3. QED BY <1>1, <1>2, Idles, QuietKeeps

LEMMA ScanCalm ==
  ASSUME TypeInv, CopyInv, Calm, NEW w \in Workers,
         Scan(w) \/ NextSource(w) \/ ClaimTimeout(w) \/ SweepFile(w) \/ Claim(w)
  PROVE  Calm'
  <1>1. Decent(w)
    BY WorkDecent DEF Work
  <1>2. UNCHANGED stores
    BY DEF Scan, NextSource, ClaimTimeout, SweepFile, Claim, OnlyJob, OnlyOverlap
  <1>3. job'[w].kind = job[w].kind /\ job'[w].pc \in {"next", "stop", "decide", "scan", "missing", "claimed"}
    <2>1. job[w] \in Job /\ job \in [Workers -> Job]
      BY HeldDoc DEF TypeInv, JobsOK
    <2>2. CASE Scan(w) BY <2>1, <2>2 DEF Scan, Job
    <2>3. CASE NextSource(w)
      <3>1. CASE Goto(w, "stop")
        BY <3>1, Moved
      <3>2. ASSUME NEW t \in job[w].todo,
                   job' = [job EXCEPT ![w] =
                             [@ EXCEPT !.todo = job[w].todo \ {t}, !.src = t[1], !.ver = t[2],
                                       !.pts = job[w].had[t[1]], !.had[t[1]] = <<>>,
                                       !.pc = "decide"]]
            PROVE  job'[w].kind = job[w].kind /\ job'[w].pc = "decide"
        <4> DEFINE j == [job[w] EXCEPT !.todo = job[w].todo \ {t}, !.src = t[1], !.ver = t[2],
                                       !.pts = job[w].had[t[1]], !.had[t[1]] = <<>>,
                                       !.pc = "decide"]
        <4>1. j.kind = job[w].kind /\ j.pc = "decide"
          BY <2>1 DEF Job
        <4>2. job' = [job EXCEPT ![w] = j]
          BY <3>2
        <4> HIDE DEF j
        <4>3. job'[w] = j
          BY <2>1, <4>2
        <4>4. QED BY <4>1, <4>3
      <3>3. QED BY <2>3, <3>1, <3>2 DEF NextSource
    <2>4. CASE ClaimTimeout(w) BY <2>4, Moved DEF ClaimTimeout
    <2>5. CASE SweepFile(w) BY <2>1, <2>5, Moved DEF SweepFile, Job
    <2>6. CASE Claim(w) BY <2>1, <2>6, Moved DEF Claim, Job
    <2>7. QED BY <2>2, <2>3, <2>4, <2>5, <2>6
  <1>4. Tended(w)'
    BY <1>3, Elsewhere DEF Watchful, Underway, Emptied, Removing
  <1>5. QED BY <1>1, <1>2, <1>4, QuietKeeps

\* A job that begins the reuse without a claim has found no row.
LEMMA DecideCalm ==
  ASSUME TypeInv, CopyInv, Calm, NEW w \in Workers, Decide(w)
  PROVE  Calm'
  <1>1. Decent(w) /\ UNCHANGED stores
    BY WorkDecent DEF Work, Decide, OnlyOverlap
  <1>2. job[w] \in Job /\ job \in [Workers -> Job]
    BY HeldDoc DEF TypeInv, JobsOK
  <1>3. /\ job'[w].kind = job[w].kind /\ job'[w].src = job[w].src
        /\ job'[w].pc \in {"next", "claim", "parsing", "reuse"}
        /\ job'[w].pc = "reuse" => row[job[w].src].status = "absent"
    BY <1>2 DEF Decide, StartPhase, Job
  <1>4. CASE job'[w].pc # "reuse"
    <2>1. Tended(w)'
      BY <1>3, <1>4, Elsewhere DEF Watchful, Underway, Emptied, Removing
    <2>2. QED BY <1>1, <2>1, QuietKeeps
  <1>5. CASE job'[w].pc = "reuse"
    <2>1. row'[job'[w].src].status # "completed"
      BY <1>1, <1>3, <1>5 DEF stores
    <2>2. Tended(w)'
      BY <1>3, <1>5, <2>1 DEF Tended, Orderly, AtHand, Removing
    <2>3. QED BY <1>1, <2>2, QuietKeeps
  <1>6. QED BY <1>4, <1>5

LEMMA DownloadCalm ==
  ASSUME TypeInv, CopyInv, Calm, NEW w \in Workers, Download(w) \/ Parse(w)
  PROVE  Calm'
  <1>1. Decent(w) /\ UNCHANGED stores /\ overlap' = overlap
    BY WorkDecent DEF Work, Download, Parse, OnlyFaults
  <1>2. job[w] \in Job /\ job \in [Workers -> Job]
    BY HeldDoc DEF TypeInv, JobsOK
  <1>3. /\ job'[w].kind = job[w].kind /\ job'[w].src = job[w].src
        /\ job'[w].pc \in {"downloaded", "store", "error"}
        /\ job[w].pc \in {"download", "parse"}
    <2>1. CASE Download(w) BY <2>1, Moved DEF Download, At
    <2>2. CASE Parse(w) BY <1>2, <2>2, Moved DEF Parse, At, Job
    <2>3. QED BY <2>1, <2>2
  <1>4. Tended(w)
    BY DEF Calm
  <1>5. job[w].src \in Sources \ overlap => row[job[w].src].status # "completed"
    BY <1>3, <1>4 DEF Tended, AtHand, Underway, Emptied
  <1>6. Tended(w)'
    BY <1>1, <1>3, <1>4, <1>5 DEF Tended, Orderly, AtHand, Removing, stores
  <1>7. QED BY <1>1, <1>6, QuietKeeps

LEMMA OneBatch ==
  ASSUME NEW b \in Seq(Batch), Len(b) <= 1, b # <<>>
  PROVE  Len(b) = 1 /\ DOMAIN b = 1..1 /\ b[1] \in Batch
  <1>1. Len(b) \in Nat /\ Len(b) # 0
    OBVIOUS
  <1>2. Len(b) = 1
    BY <1>1
  <1>3. QED BY <1>2

LEMMA AddedToNone ==
  ASSUME NEW new \in Seq(Batch), Len(new) = 1
  PROVE  Added(<<>>, new) = new
  <1> DEFINE all == <<>> \o new
  <1>1. all = new
    OBVIOUS
  <1>2. MaxCopies \in Nat /\ MaxCopies >= 2
    BY BoundsAssumption
  <1> HIDE DEF all
  <1>3. ~(Len(all) > MaxCopies)
    BY <1>1, <1>2
  <1>4. Added(<<>>, new) = IF Len(all) > MaxCopies THEN SubSeq(all, 1, MaxCopies) ELSE all
    BY DEF Added, all
  <1>5. QED BY <1>1, <1>3, <1>4

\* What is embedded is one batch, with vectors of the embedder of the pass.
LEMMA EmbedCalm ==
  ASSUME TypeInv, CopyInv, Calm, NEW w \in Workers, Embed(w), Resolves
  PROVE  Calm'
  <1>1. Decent(w) /\ UNCHANGED stores /\ overlap' = overlap
    BY WorkDecent DEF Work, Embed, OnlyFaults
  <1>2. job[w] \in Job /\ job \in [Workers -> Job]
    BY HeldDoc DEF TypeInv, JobsOK
  <1>3. Tended(w) /\ job[w].pc = "embed" /\ job[w].pts \in Seq(Batch)
    BY <1>2 DEF Calm, Embed, At, Job
  <1>4. CASE Goto(w, "error")
    <2>1. Tended(w)'
      BY <1>3, <1>4, Moved, Elsewhere DEF Tended, Orderly, Watchful, Underway, Emptied, Removing
    <2>2. QED BY <1>1, <2>1, QuietKeeps
  <1>5. CASE ~Goto(w, "error")
    <2> DEFINE pts == Embedded(job[w].pts, job[w].emb)
    <2>1. /\ job'[w].kind = job[w].kind /\ job'[w].src = job[w].src /\ job'[w].pc = "remove"
          /\ job'[w].pts = pts /\ job'[w].emb = job[w].emb
      BY <1>2, <1>5 DEF Embed, Job
    <2>2. ASSUME job[w].src \in Sources \ overlap PROVE Len(pts) = 1 /\ pts[1].embedder = job[w].emb
      <3>1. Len(job[w].pts) <= 1 /\ job[w].pts # <<>>
        BY <1>3, <2>2 DEF Tended, AtHand, CopyInv, Bounded
      <3>2. Len(job[w].pts) = 1 /\ DOMAIN job[w].pts = 1..1 /\ job[w].pts[1] \in Batch
        BY <1>3, <3>1, OneBatch
      <3>3. job[w].emb \in Embedders
        BY <1>3 DEF Resolves, Resolved
      <3>4. Len(pts) = 1
        BY <1>3, <3>2, <3>3, EmbeddedBatches
      <3>5. pts[1].embedder = job[w].emb
        BY <3>2 DEF Embedded, Batch
      <3>6. QED BY <3>4, <3>5
    <2>3. job[w].src \in Sources \ overlap => row[job[w].src].status # "completed"
      BY <1>3 DEF Tended, AtHand, Underway
    <2> HIDE DEF pts
    <2>4. Tended(w)'
      BY <1>1, <1>3, <2>1, <2>2, <2>3 DEF Tended, Orderly, AtHand, Removing, stores
    <2>5. QED BY <1>1, <2>4, QuietKeeps
  <1>6. QED BY <1>4, <1>5

LEMMA CheckCalm ==
  ASSUME TypeInv, CopyInv, Calm, NEW w \in Workers, Check(w)
  PROVE  Calm'
  <1>1. Decent(w) /\ UNCHANGED stores
    BY WorkDecent DEF Work, Check, OnlyJob
  <1>2. job'[w].pc \in {"next", "complete"}
    BY Moved DEF Check
  <1>3. Tended(w)'
    BY <1>2, Elsewhere DEF Watchful, Underway, Emptied, Removing
  <1>4. QED BY <1>1, <1>3, QuietKeeps

LEMMA ReconcileCalm ==
  ASSUME TypeInv, CopyInv, Calm, NEW w \in Workers, Reconcile(w)
  PROVE  Calm'
  <1>1. Decent(w) /\ UNCHANGED stores /\ overlap' = overlap
    BY WorkDecent DEF Work, Reconcile, OnlyJob, history
  <1>2. job[w] \in Job /\ job \in [Workers -> Job]
    BY HeldDoc DEF TypeInv, JobsOK
  <1>3. CASE job' = [job EXCEPT ![w] = Idle]
    BY <1>1, <1>3, Idles, QuietKeeps
  <1>4. CASE job' = [job EXCEPT ![w] = [@ EXCEPT !.pc = "delrow"]]
    <2>1. job'[w].kind = "gc" /\ job'[w].pc = "delrow"
      BY <1>2, <1>4 DEF Job, Reconcile, At, Calm, Tended, Orderly
    <2>2. Tended(w)'
      BY <2>1 DEF Tended, Orderly, AtHand, Removing, Underway, Emptied
    <2>3. QED BY <1>1, <2>2, QuietKeeps
  <1>5. QED BY <1>3, <1>4 DEF Reconcile

\* What begins leaves the stores alone.
LEMMA RequestCalm ==
  ASSUME TypeInv, CopyInv, Calm, NEW w \in Workers, Request(w) \/ Sweep(w)
  PROVE  Calm'
  <1>1. Decent(w)
    BY RequestDecent
  <1>2. UNCHANGED stores
    BY DEF Request, Sweep, StartIngest, StartDelete, StartForget, StartDismiss, StartReconcile,
           StartSweep, SwitchEmbedder, OnlyOverlap
  <1>3. job \in [Workers -> Job]
    BY DEF TypeInv, JobsOK
  <1>4. ASSUME NEW kind, NEW pc, NEW s, Begin(w, kind, pc, s)
        PROVE  job'[w].kind = kind /\ job'[w].pc = pc /\ job'[w].src = s
    BY <1>3, <1>4 DEF Begin, Idle
  <1>5. CASE \E s \in Sources : StartIngest(w, s)
    <2>1. job'[w].kind = "ingest" /\ job'[w].pc = "start"
      BY <1>3, <1>5 DEF StartIngest, Idle
    <2>2. Tended(w)'
      BY <2>1 DEF Tended, Orderly, AtHand, Removing, Underway, Emptied
    <2>3. QED BY <1>1, <1>2, <2>2, QuietKeeps
  <1>6. CASE \/ \E s \in Sources : StartSweep(w, s)
             \/ \E e \in Embedders : SwitchEmbedder(w, e)
    <2>1. job'[w].pc \in {"file", "collect"}
      BY <1>4, <1>6 DEF StartSweep, SwitchEmbedder
    <2>2. QED BY <1>1, <1>2, <2>1, Elsewhere, QuietKeeps DEF Watchful, Underway, Emptied, Removing
  <1>7. CASE \E s \in Sources : \/ StartDelete(w, s) \/ StartForget(w, s)
                                \/ StartDismiss(w, s) \/ StartReconcile(w, s)
    <2>1. \/ /\ job'[w].kind \in {"delete", "forget"} /\ job'[w].pc = "rmfile"
             /\ job'[w].src \notin Urls
          \/ job'[w].kind = "gc" /\ job'[w].pc \in {"gc", "delrow"}
      BY <1>4, <1>7, SourcesAssumption
      DEF StartDelete, StartForget, StartDismiss, StartReconcile, TypeInv, StoresOK
    <2>2. Tended(w)'
      BY <2>1 DEF Tended, Orderly, AtHand, Removing, Underway, Emptied
    <2>3. QED BY <1>1, <1>2, <2>2, QuietKeeps
  <1>8. QED BY <1>5, <1>6, <1>7 DEF Request, Sweep

-----------------------------------------------------------------------------
(* The steps that store a status document. *)

\* A document that is not completed.
LEMMA StatusCalm ==
  ASSUME TypeInv, CopyInv, Calm, NEW w \in Workers, Decent(w), NEW doc,
         row' = [row EXCEPT ![Src(w)] = doc], doc.status # "completed",
         UNCHANGED <<disk, chats, overlap>>,
         Src(w) \in Sources, WorksOn(w, Src(w)),
         job'[w].kind = job[w].kind, job'[w].src = job[w].src,
         job'[w].pc \in Underway \/ job'[w].pc \notin Watchful,
         job'[w].pc \notin {"remove", "add"}, job'[w].pc = "save" => job[w].kind = "ingest",
         job'[w].pc = "embed" => job'[w].pts # <<>>
  PROVE  Calm'
  <1>1. /\ row'[Src(w)] = doc
        /\ \A s \in Sources \ {Src(w)} : row'[s] = row[s]
    BY DEF TypeInv, StoresOK
  <1>2. KeepsOthers(w)
    BY <1>1 DEF KeepsOthers
  <1>3. Tended(w)'
    <2>1. Orderly(job[w]) /\ job'[w].src = Src(w)
      BY DEF Calm, Tended, Src
    <2>2. job'[w].pc \notin Removing \cup {"gc", "delrow", "idle", "start", "processing", "abandon"}
      BY DEF Watchful, Underway, Emptied, Removing
    <2>3. Orderly(job'[w])
      BY <2>1, <2>2 DEF Orderly
    <2>4. row'[job'[w].src].status # "completed"
      BY <1>1, <2>1
    <2>5. job'[w].pc # "rmpoints"
      BY <2>2 DEF Removing
    <2>6. QED BY <2>2, <2>3, <2>4, <2>5 DEF Tended, Orderly, AtHand
  <1>4. QED BY <1>2, <1>3, Keeps

LEMMA WritersCalm ==
  ASSUME TypeInv, CopyInv, Calm, NEW w \in Workers,
         \/ Start(w) \/ Processing(w) \/ Embedding(w) \/ Parsing(w) \/ Downloading(w)
         \/ Downloaded(w) \/ Error(w) \/ Missing(w)
  PROVE  Calm'
  <1>1. Decent(w)
    BY WorkDecent DEF Work
  <1>2. /\ UNCHANGED <<disk, points, chats, overlap>>
        /\ job[w].pc \in Busy /\ job[w].got # None
    BY DEF Start, Processing, Embedding, Parsing, Downloading, Downloaded, Error, Missing, OnlyRow,
           history, Write, At, Busy, Writes
  <1>3. Src(w) \in Sources /\ WorksOn(w, Src(w)) /\ job[w].got \in Doc
    BY <1>2, HeldDoc DEF TypeInv, Filled, Sourceless, Src, WorksOn, Busy, Writes
  <1>4. ASSUME NEW doc, NEW pc \in {"save", "scan", "parsing", "embed", "clear", "download", "parse",
                                   "next", "stop"},
               Write(w, doc, pc), doc.status # "completed", pc = "embed" => job[w].pts # <<>>,
               pc = "save" => job[w].pc = "start"
        PROVE  Calm'
    <2>1. row' = [row EXCEPT ![Src(w)] = doc]
      BY <1>4 DEF Write
    <2>2. /\ job'[w].pc = pc /\ job'[w].kind = job[w].kind /\ job'[w].src = job[w].src
          /\ job'[w].pts = job[w].pts
      BY <1>4, Wrote
    <2>3. /\ pc \in Underway \/ pc \notin Watchful
          /\ pc \notin {"remove", "add"}
      BY <1>4 DEF Watchful, Underway, Emptied, Removing
    <2>4. pc = "save" => job[w].kind = "ingest"
      BY <1>4 DEF Calm, Tended, Orderly
    <2>5. QED BY <1>1, <1>2, <1>3, <1>4, <2>1, <2>2, <2>3, <2>4, StatusCalm
  <1>5. ASSUME NEW status \in InFlight \cup {"error"}, NEW phase
        PROVE  /\ SetStatus(job[w].got, status).status # "completed"
               /\ SetPhase(job[w].got, status, phase).status # "completed"
    BY <1>3 DEF SetStatus, SetPhase, Doc, InFlight
  <1>6. /\ SetParsing(job[w].got, job[w].chk).status # "completed"
        /\ SetEmbedding(job[w].got, job[w].emb).status # "completed"
    BY <1>3 DEF SetParsing, SetEmbedding, SetStatus, SetPhase, Doc
  <1>7. CASE Start(w) \/ Error(w) \/ Missing(w)
    BY <1>4, <1>5, <1>7 DEF Start, Error, Missing, InFlight, At
  <1>8. CASE Downloading(w) \/ Downloaded(w)
    BY <1>4, <1>5, <1>8 DEF Downloading, Downloaded, InFlight
  <1>9. CASE Processing(w) \/ Parsing(w) \/ Embedding(w)
    BY <1>4, <1>6, <1>9 DEF Processing, Parsing, Embedding
  <1>10. QED BY <1>7, <1>8, <1>9

LEMMA ClaimedCalm ==
  ASSUME TypeInv, CopyInv, Calm, NEW w \in Workers, Claimed(w)
  PROVE  Calm'
  <1>1. Decent(w) /\ UNCHANGED <<disk, points, chats, overlap>>
    BY WorkDecent DEF Work, Claimed, history
  <1>2. job[w].pc = "claimed" /\ job[w] \in Job /\ job \in [Workers -> Job] /\ Filled(job[w], wired[w])
    BY HeldDoc DEF TypeInv, JobsOK, Claimed, At
  <1>3. Src(w) \in Sources /\ WorksOn(w, Src(w)) /\ job[w].got \in Doc
    BY <1>2 DEF Filled, Sourceless, Src, WorksOn, Busy
  <1>4. /\ job'[w].kind = job[w].kind /\ job'[w].src = job[w].src
        /\ job'[w].pc \in {"reuse", "parsing"}
    BY <1>2 DEF Claimed, Job
  <1>5. SetStatus(job[w].got, "processing").status # "completed"
    BY <1>3 DEF SetStatus, Doc
  <1>6. /\ job'[w].pc \in Underway \/ job'[w].pc \notin Watchful
        /\ job'[w].pc \notin {"remove", "add", "embed", "save"}
    BY <1>4 DEF Watchful, Underway, Emptied, Removing
  <1>7. row' = [row EXCEPT ![Src(w)] = SetStatus(job[w].got, "processing")]
    BY DEF Claimed
  <1>8. QED BY <1>1, <1>3, <1>4, <1>5, <1>6, <1>7, StatusCalm

LEMMA DeleteRowCalm ==
  ASSUME TypeInv, CopyInv, Calm, NEW w \in Workers, DeleteRow(w)
  PROVE  Calm'
  <1>1. Decent(w)
    BY EndersDecent
  <1>2. /\ row' = [row EXCEPT ![Src(w)] = NoDoc] /\ job' = [job EXCEPT ![w] = Idle]
        /\ UNCHANGED <<disk, points, chats, overlap>> /\ job[w].pc = "delrow"
    BY DEF DeleteRow, OnlyRow, history, At
  <1>3. Src(w) \in Sources
    BY <1>2, HeldDoc DEF TypeInv, Filled, Sourceless, Src
  <1>4. WorksOn(w, Src(w))
    BY <1>2 DEF Calm, Tended, Orderly, WorksOn, Src
  <1>5. Tended(w)'
    BY <1>2, Idles
  <1>6. /\ row'[Src(w)].status = "absent"
        /\ \A s \in Sources \ {Src(w)} : row'[s] = row[s]
    BY <1>2, <1>3 DEF TypeInv, StoresOK, NoDoc
  <1>7. KeepsOthers(w)
    BY <1>2, <1>4, <1>6 DEF KeepsOthers
  <1>8. QED BY <1>1, <1>5, <1>7, Keeps

LEMMA CompletersCalm ==
  ASSUME TypeInv, CopyInv, Calm, NEW w \in Workers, Complete(w) \/ Abandon(w)
  PROVE  Calm'
  <1>1. Decent(w)
    BY WorkDecent DEF Work
  <1>2. /\ UNCHANGED <<disk, points, chats, overlap>>
        /\ job[w].pc \in {"complete", "abandon"}
        /\ \E doc : Write(w, doc, "next")
    BY DEF Complete, Abandon, OnlyRow, history, At
  <1>3. PICK doc : Write(w, doc, "next")
    BY <1>2
  <1>4. Src(w) \in Sources /\ WorksOn(w, Src(w))
    BY <1>2, HeldDoc DEF TypeInv, Filled, Sourceless, Src, WorksOn, Busy, Writes
  <1>5. \A s \in Sources \ {Src(w)} : row'[s] = row[s]
    BY <1>3 DEF Write, TypeInv, StoresOK
  <1>6. KeepsOthers(w)
    BY <1>2, <1>4, <1>5 DEF KeepsOthers
  <1>7. Tended(w)'
    <2>1. job'[w].pc = "next"
      BY <1>3, Wrote
    <2>2. QED BY <2>1, Elsewhere DEF Watchful, Underway, Emptied, Removing
  <1>8. QED BY <1>1, <1>6, <1>7, Keeps

-----------------------------------------------------------------------------
(* The steps that change the points, the file or the conversation. *)

LEMMA ClearersCalm ==
  ASSUME TypeInv, CopyInv, Calm, NEW w \in Workers, Clear(w) \/ Store(w) \/ Remove(w)
  PROVE  Calm'
  <1>1. Decent(w)
    BY WorkDecent DEF Work
  <1>2. /\ UNCHANGED <<row, disk, chats, overlap>>
        /\ job[w].pc \in {"clear", "store", "remove"}
        /\ \E pc \in {"downloading", "parse", "embedding", "add"} :
             /\ Goto(w, pc)
             /\ pc = "add" => job[w].pc = "remove"
    BY DEF Clear, Store, Remove, OnlyPoints, history, At
  <1>3. PICK pc \in {"downloading", "parse", "embedding", "add"} :
          Goto(w, pc) /\ (pc = "add" => job[w].pc = "remove")
    BY <1>2
  <1>4. /\ job'[w].pc = pc /\ job'[w].kind = job[w].kind /\ job'[w].src = job[w].src
        /\ job'[w].pts = job[w].pts /\ job'[w].emb = job[w].emb
    BY <1>3, Moved
  <1>5. Tended(w) /\ job[w].pc \in Underway
    BY <1>2 DEF Calm, Underway, Emptied
  <1>6. Tended(w)'
    <2>1. Orderly(job[w])'
      BY <1>4, <1>5 DEF Tended, Orderly, Removing
    <2>2. ASSUME job'[w].src \in Sources \ overlap' PROVE AtHand(job[w], job[w].src)'
      <3>1. row[job[w].src].status # "completed" /\ job[w].src \in Sources \ overlap
        BY <1>2, <1>4, <1>5, <2>2 DEF Tended, AtHand
      <3>2. pc = "add" => Len(job[w].pts) = 1 /\ job[w].pts[1].embedder = job[w].emb
        BY <1>3, <1>5, <3>1 DEF Tended, AtHand
      <3>3. QED BY <1>2, <1>4, <3>1, <3>2 DEF AtHand
    <2>3. QED BY <2>1, <2>2 DEF Tended
  <1>7. QED BY <1>1, <1>2, <1>6, PointsKeep

LEMMA AddCalm ==
  ASSUME TypeInv, CopyInv, Calm, NEW w \in Workers, Add(w)
  PROVE  Calm'
  <1>1. Decent(w) /\ UNCHANGED <<row, disk, chats>>
    BY WorkDecent DEF Work, Add, OnlyPoints
  <1>2. job'[w].pc \in {"check", "error"}
    BY HeldDoc, Moved DEF Add, TypeInv, JobsOK, Job
  <1>3. Tended(w)'
    BY <1>2, Elsewhere DEF Watchful, Underway, Emptied, Removing
  <1>4. QED BY <1>1, <1>3, PointsKeep

LEMMA InitializeCalm ==
  ASSUME TypeInv, CopyInv, Calm, NEW w \in Workers, Initialize(w) \/ Collect(w)
  PROVE  Calm'
  <1>1. Decent(w) /\ UNCHANGED <<row, disk, chats>>
    BY WorkDecent DEF Work, Initialize, Collect, OnlyJob, stores
  <1>2. job'[w].pc \in {"scan", "init"}
    <2>1. CASE Initialize(w)
      BY <2>1, Moved DEF Initialize
    <2>2. CASE Collect(w)
      BY <2>2, HeldDoc DEF Collect, TypeInv, JobsOK, Job
    <2>3. QED BY <2>1, <2>2
  <1>3. Tended(w)'
    BY <1>2, Elsewhere DEF Watchful, Underway, Emptied, Removing
  <1>4. QED BY <1>1, <1>3, PointsKeep

LEMMA ReuseCalm ==
  ASSUME TypeInv, CopyInv, Calm, NEW w \in Workers, Reuse(w)
  PROVE  Calm'
  <1>1. Decent(w)
    BY WorkDecent DEF Work
  <1>2. job[w].pc = "reuse" /\ UNCHANGED <<row, disk, chats, overlap>>
    BY DEF Reuse, OnlyPoints, history, At
  <1>3. Tended(w) /\ job[w].pc \in Underway
    BY <1>2 DEF Calm, Underway
  <1>4. ASSUME NEW pc \in {"abandon", "embedding"}, Goto(w, pc), pc = "abandon" => ChatGone(Src(w))
        PROVE  Tended(w)'
    <2>1. job'[w].pc = pc /\ job'[w].kind = job[w].kind /\ job'[w].src = job[w].src
      BY <1>4, Moved
    <2>2. Orderly(job[w])'
      BY <1>3, <2>1 DEF Tended, Orderly, Removing
    <2>3. ASSUME job[w].src \in Sources \ overlap PROVE AtHand(job[w], job[w].src)'
      <3>1. row[job[w].src].status # "completed"
        BY <1>3, <2>3 DEF Tended, AtHand
      <3>2. QED BY <1>2, <1>4, <2>1, <3>1 DEF AtHand, ChatGone, Src
    <2>4. QED BY <1>2, <2>1, <2>2, <2>3 DEF Tended
  <1>5. Tended(w)'
    BY <1>4 DEF Reuse
  <1>6. QED BY <1>1, <1>2, <1>5, PointsKeep

LEMMA SaveCalm ==
  ASSUME TypeInv, CopyInv, Calm, NEW w \in Workers, Save(w)
  PROVE  Calm'
  <1>1. Decent(w)
    BY WorkDecent DEF Work
  <1>2. /\ job[w].pc = "save" /\ Goto(w, "processing")
        /\ UNCHANGED <<row, points, chats, overlap>>
        /\ disk' = disk \/ disk' = [disk EXCEPT ![Src(w)] = job[w].ver]
    BY DEF Save, At
  <1>3. Src(w) \in Sources /\ WorksOn(w, Src(w))
    BY <1>2, HeldDoc DEF TypeInv, Filled, Sourceless, Src, WorksOn, Busy
  <1>4. KeepsOthers(w)
    BY <1>2, <1>3 DEF KeepsOthers, TypeInv, StoresOK
  <1>5. Tended(w)'
    <2>1. job'[w].pc = "processing" /\ job'[w].kind = job[w].kind /\ job[w].kind = "ingest"
      BY <1>2, Moved DEF Calm, Tended, Orderly
    <2>2. QED BY <2>1 DEF Tended, Orderly, AtHand, Underway, Emptied, Removing
  <1>6. QED BY <1>1, <1>4, <1>5, Keeps

\* The file goes before the points, the conversation after them.
LEMMA RemovalsCalm ==
  ASSUME TypeInv, CopyInv, Calm, NEW w \in Workers,
         RemoveFile(w) \/ RemovePoints(w) \/ DeleteChat(w)
  PROVE  Calm'
  <1>1. Decent(w)
    BY WorkDecent DEF Work
  <1>2. Orderly(job[w]) /\ job[w].pc \in Removing /\ overlap' = overlap /\ row' = row
    BY DEF Calm, Tended, RemoveFile, RemovePoints, DeleteChat, At, Removing, OnlyPoints, history
  <1>3. Src(w) \in Sources /\ WorksOn(w, Src(w)) /\ Src(w) = job[w].src /\ Src(w) \notin Urls
    BY <1>2, HeldDoc DEF TypeInv, Filled, Sourceless, Src, WorksOn, Orderly, Removing
  <1>4. CASE RemoveFile(w)
    <2>1. /\ disk' = [disk EXCEPT ![Src(w)] = 0] /\ UNCHANGED <<points, chats>>
          /\ Goto(w, "rmpoints")
      BY <1>4 DEF RemoveFile
    <2>2. disk'[Src(w)] = 0
      BY <1>3, <2>1 DEF TypeInv, StoresOK
    <2>3. KeepsOthers(w)
      BY <1>2, <1>3, <2>1 DEF KeepsOthers, TypeInv, StoresOK
    <2>4. Tended(w)'
      <3>1. job'[w].pc = "rmpoints" /\ job'[w].kind = job[w].kind /\ job'[w].src = Src(w)
        BY <1>3, <2>1, Moved
      <3>2. QED BY <1>2, <1>3, <2>2, <3>1 DEF Tended, Orderly, AtHand, Removing, Underway, Emptied
    <2>5. QED BY <1>1, <2>3, <2>4, Keeps
  <1>5. CASE RemovePoints(w)
    <2>1. /\ points' = [points EXCEPT ![Src(w)] = <<>>] /\ UNCHANGED <<disk, chats>>
          /\ Goto(w, IF job[w].kind = "forget" THEN "delchat" ELSE "delrow")
          /\ job[w].pc = "rmpoints"
      BY <1>5 DEF RemovePoints, OnlyPoints, At
    <2>2. KeepsOthers(w)
      BY <1>2, <1>3, <2>1 DEF KeepsOthers, TypeInv, StoresOK
    <2>3. Tended(w)'
      <3>1. /\ job'[w].pc \in {"delchat", "delrow"} /\ job'[w].kind = job[w].kind
            /\ job'[w].src = Src(w)
            /\ job[w].kind = "forget" => job'[w].pc = "delchat"
        BY <1>3, <2>1, Moved
      <3>2. job[w].kind \in {"delete", "forget"}
        BY <1>2 DEF Orderly
      <3>3. QED BY <1>2, <1>3, <3>1, <3>2 DEF Tended, Orderly, AtHand, Removing, Underway, Emptied
    <2>4. QED BY <1>1, <2>2, <2>3, Keeps
  <1>6. CASE DeleteChat(w)
    <2>1. /\ chats' = chats \ {Src(w)} /\ job' = [job EXCEPT ![w] = Idle]
          /\ UNCHANGED <<disk, points>>
      BY <1>6 DEF DeleteChat
    <2>2. KeepsOthers(w)
      BY <1>2, <2>1 DEF KeepsOthers
    <2>3. Tended(w)'
      BY <2>1, Idles
    <2>4. QED BY <1>1, <2>2, <2>3, Keeps
  <1>7. QED BY <1>4, <1>5, <1>6

\* The rows change, if at all, in their age or to PROCESSING.
LEMMA OutsideCalm ==
  ASSUME TypeInv, Calm, UNCHANGED <<disk, chats, job, overlap>>,
         \A s \in Sources : row'[s].status \in {row[s].status, "processing"}
  PROVE  Calm'
  <1>1. \A s \in Sources : row'[s].status = "completed" => row[s].status = "completed"
    OBVIOUS
  <1>2. ASSUME NEW w \in Workers PROVE Tended(w)'
    <2>1. Tended(w)
      BY DEF Calm
    <2>2. QED BY <1>1, <2>1 DEF Tended, Orderly, AtHand, ChatGone
  <1>3. QED BY <1>2 DEF Calm

LEMMA WorkCalm ==
  ASSUME TypeInv, CopyInv, Calm, Resolves, NEW w \in Workers, Work(w)
  PROVE  Calm'
  <1>1. CASE \/ ReadExisting(w) \/ Stop(w) \/ Scan(w) \/ NextSource(w) \/ ClaimTimeout(w)
             \/ SweepFile(w) \/ Claim(w) \/ Decide(w) \/ Download(w) \/ Parse(w) \/ Embed(w)
             \/ Check(w) \/ Reconcile(w)
    BY <1>1, ReadExistingCalm, EndersCalm, ScanCalm, DecideCalm, DownloadCalm, EmbedCalm, CheckCalm,
       ReconcileCalm
  <1>2. CASE \/ Start(w) \/ Processing(w) \/ Embedding(w) \/ Parsing(w) \/ Downloading(w)
             \/ Downloaded(w) \/ Error(w) \/ Missing(w) \/ Claimed(w) \/ DeleteRow(w)
             \/ Complete(w) \/ Abandon(w)
    BY <1>2, WritersCalm, ClaimedCalm, DeleteRowCalm, CompletersCalm
  <1>3. CASE \/ Clear(w) \/ Store(w) \/ Remove(w) \/ Add(w) \/ Reuse(w) \/ Save(w) \/ RemoveFile(w)
             \/ RemovePoints(w) \/ DeleteChat(w) \/ Collect(w) \/ Initialize(w)
    BY <1>3, ClearersCalm, AddCalm, ReuseCalm, SaveCalm, RemovalsCalm, InitializeCalm
  <1>4. QED BY <1>1, <1>2, <1>3 DEF Work

\* The embedder is resolved by Scan and kept until the next one.
LEMMA ResolvesNext ==
  ASSUME TypeInv, Resolves, NEW w \in Workers, Work(w) \/ Sweep(w) \/ Request(w) \/ Crash(w)
  PROVE  job'[w].pc \in Resolved => job'[w].emb \in Embedders
  <1>1. job[w] \in Job /\ job \in [Workers -> Job]
    BY HeldDoc DEF TypeInv, JobsOK
  <1>2. ASSUME NEW pc, Goto(w, pc)
        PROVE  job'[w].pc = pc /\ job'[w].emb = job[w].emb
    BY <1>1, <1>2 DEF Goto, Job
  <1>3. ASSUME NEW doc, NEW pc, Write(w, doc, pc)
        PROVE  job'[w].pc = pc /\ job'[w].emb = job[w].emb
    BY <1>1, <1>3 DEF Write, Job
  <1>4. ASSUME job' = [job EXCEPT ![w] = Idle]
        PROVE  job'[w].pc \notin Resolved
    BY <1>1, <1>4 DEF Idle, Resolved
  <1>5. ASSUME NEW kind, NEW pc, NEW s, Begin(w, kind, pc, s)
        PROVE  job'[w].pc = pc
    BY <1>1, <1>5 DEF Begin, Idle
  <1>6. CASE \/ Abandon(w) \/ Embedding(w) \/ Parsing(w) \/ Downloading(w) \/ Downloaded(w)
             \/ Complete(w) \/ Error(w)
    <2>1. job[w].pc \in Resolved /\ \E doc, pc : Write(w, doc, pc)
      BY <1>6 DEF Abandon, Embedding, Parsing, Downloading, Downloaded, Complete, Error, At, Resolved
    <2>2. QED BY <1>3, <2>1 DEF Resolves
  <1>7. CASE \/ ClaimTimeout(w) \/ Reuse(w) \/ Clear(w) \/ Download(w) \/ Remove(w) \/ Check(w) \/ Store(w)
    <2>1. job[w].pc \in Resolved /\ \E pc : Goto(w, pc)
      BY <1>7 DEF ClaimTimeout, Reuse, Clear, Download, Remove, Check, Store, At, Resolved
    <2>2. QED BY <1>2, <2>1 DEF Resolves
  <1>8. CASE Start(w) \/ Processing(w) \/ Missing(w)
    <2>1. job'[w].pc \in {"save", "scan", "stop"}
      BY <1>3, <1>8 DEF Start, Processing, Missing
    <2>2. QED BY <2>1 DEF Resolved
  <1>9. CASE Save(w) \/ Initialize(w) \/ RemoveFile(w) \/ RemovePoints(w)
    <2>1. job'[w].pc \in {"processing", "scan", "rmpoints", "delchat", "delrow"}
      BY <1>2, <1>9 DEF Save, Initialize, RemoveFile, RemovePoints
    <2>2. QED BY <2>1 DEF Resolved
  <1>10. CASE Stop(w) \/ DeleteRow(w) \/ DeleteChat(w) \/ Crash(w)
    BY <1>4, <1>10 DEF Stop, DeleteRow, DeleteChat, Crash
  <1>11. CASE Sweep(w) \/ Request(w)
    <2>1. CASE \E s \in Sources : StartIngest(w, s)
      BY <1>1, <2>1 DEF StartIngest, Idle, Resolved
    <2>2. CASE ~\E s \in Sources : StartIngest(w, s)
      <3>1. job'[w].pc \in {"file", "rmfile", "delrow", "gc", "collect"}
        BY <1>5, <1>11, <2>2 DEF Sweep, Request, StartSweep, StartDelete, StartForget, StartDismiss,
                                 StartReconcile, SwitchEmbedder
      <3>2. QED BY <3>1 DEF Resolved
    <2>3. QED BY <2>1, <2>2
  <1>12. CASE ReadExisting(w)
    <2>1. job'[w].pc = job[w].pc /\ job'[w].emb = job[w].emb
      BY <1>1, <1>12 DEF ReadExisting, Job
    <2>2. QED BY <2>1 DEF Resolves
  <1>13. CASE Scan(w)
    BY <1>1, <1>13 DEF Scan, Job, TypeInv, ConfigOK
  <1>14. CASE NextSource(w)
    <2>1. job[w].pc \in Resolved
      BY <1>14 DEF NextSource, At, Resolved
    <2>2. CASE Goto(w, "stop")
      BY <1>2, <2>1, <2>2 DEF Resolves
    <2>3. ASSUME NEW t \in job[w].todo,
                 job' = [job EXCEPT ![w] =
                           [@ EXCEPT !.todo = job[w].todo \ {t}, !.src = t[1], !.ver = t[2],
                                     !.pts = job[w].had[t[1]], !.had[t[1]] = <<>>,
                                     !.pc = "decide"]]
          PROVE  job'[w].emb \in Embedders
      <3> DEFINE j == [job[w] EXCEPT !.todo = job[w].todo \ {t}, !.src = t[1], !.ver = t[2],
                                     !.pts = job[w].had[t[1]], !.had[t[1]] = <<>>,
                                     !.pc = "decide"]
      <3>1. j.emb = job[w].emb
        BY <1>1 DEF Job
      <3>2. job' = [job EXCEPT ![w] = j]
        BY <2>3
      <3> HIDE DEF j
      <3>3. job'[w] = j
        BY <1>1, <3>2
      <3>4. QED BY <2>1, <3>1, <3>3 DEF Resolves
    <2>4. QED BY <1>14, <2>2, <2>3 DEF NextSource
  <1>15. CASE Decide(w)
    <2>1. job[w].pc \in Resolved /\ job'[w].emb = job[w].emb
      BY <1>1, <1>15 DEF Decide, At, Resolved, Job
    <2>2. QED BY <2>1 DEF Resolves
  <1>16. CASE Claim(w) \/ Claimed(w) \/ Parse(w) \/ Embed(w) \/ Add(w)
    <2>1. job[w].pc \in Resolved
      BY <1>16 DEF Claim, Claimed, Parse, Embed, Add, At, Resolved
    <2>2. CASE \E pc : Goto(w, pc)
      BY <1>2, <2>1, <2>2 DEF Resolves
    <2>3. CASE ~\E pc : Goto(w, pc)
      <3>1. job'[w].emb = job[w].emb
        BY <1>1, <1>16, <2>3 DEF Claim, Claimed, Parse, Embed, Add, Job
      <3>2. QED BY <2>1, <3>1 DEF Resolves
    <2>4. QED BY <2>2, <2>3
  <1>17. CASE SweepFile(w)
    <2>1. job'[w].pc \in {"scan", "missing"}
      BY <1>1, <1>2, <1>17 DEF SweepFile, Job
    <2>2. QED BY <2>1 DEF Resolved
  <1>18. CASE Collect(w)
    <2>1. job'[w].pc = "init"
      BY <1>1, <1>18 DEF Collect, Job
    <2>2. QED BY <2>1 DEF Resolved
  <1>19. CASE Reconcile(w)
    <2>1. CASE job' = [job EXCEPT ![w] = Idle]
      BY <1>4, <2>1
    <2>2. CASE job' = [job EXCEPT ![w] = [@ EXCEPT !.pc = "delrow"]]
      BY <1>1, <2>2 DEF Job, Resolved
    <2>3. QED BY <1>19, <2>1, <2>2 DEF Reconcile
  <1>20. QED
    BY <1>6, <1>7, <1>8, <1>9, <1>10, <1>11, <1>12, <1>13, <1>14, <1>15, <1>16, <1>17, <1>18, <1>19
    DEF Work

-----------------------------------------------------------------------------
(* What a step changes. *)

\* The steps of a worker's job.
Steps(w) == Work(w) \/ Sweep(w) \/ Request(w) \/ Crash(w)

\* Where the vectors of the source at hand are made and stored.
Vectoring == {"embed", "remove", "add", "check", "complete"}

\* A job that stays at its source.
Onward(w) ==
  /\ job'[w].kind = job[w].kind /\ job'[w].src = job[w].src
  /\ job'[w].emb \in {job[w].emb, embedder}
  /\ job'[w].got \in {None, job[w].got} \/ (job[w].src \in Sources /\ job'[w].got = row[job[w].src])
  /\ job'[w].pc \notin {"collect", "idle"}
  /\ job'[w].pc = "init" => Collect(w) /\ job'[w].emb = embedder
  /\ job'[w].pc \in Vectoring =>
       job'[w].emb = job[w].emb /\ (job[w].pc \in Vectoring \/ Embedding(w))

\* A job that turns to its next source.
Turns(w) ==
  /\ NextSource(w)
  /\ job'[w].kind = job[w].kind /\ job'[w].emb = job[w].emb /\ job'[w].got = job[w].got
  /\ job'[w].kind = "ingest" => job'[w].src = job[w].src
  /\ job'[w].pc = "decide"

Ends(w) == job' = [job EXCEPT ![w] = Idle]

LEMMA GotoOnward ==
  ASSUME TypeInv, NEW w \in Workers, NEW pc, Goto(w, pc), pc \notin Vectoring \cup {"collect", "idle", "init"}
  PROVE  Onward(w)
  BY Moved DEF Onward

LEMMA WriteOnward ==
  ASSUME TypeInv, NEW w \in Workers, NEW doc, NEW pc, Write(w, doc, pc),
         pc \notin {"collect", "idle", "init"}, pc \in Vectoring => Embedding(w)
  PROVE  Onward(w)
  BY Wrote DEF Onward

LEMMA WritersOnward ==
  ASSUME TypeInv, NEW w \in Workers,
         \/ Start(w) \/ Processing(w) \/ Abandon(w) \/ Embedding(w) \/ Parsing(w) \/ Downloading(w)
         \/ Downloaded(w) \/ Complete(w) \/ Error(w) \/ Missing(w)
  PROVE  Onward(w)
  <1>1. CASE Embedding(w)
    BY <1>1, WriteOnward DEF Embedding, Vectoring
  <1>2. CASE ~Embedding(w)
    <2>1. \E doc : \E pc \in {"save", "scan", "next", "clear", "download", "parse", "stop"} : Write(w, doc, pc)
      BY <1>2 DEF Start, Processing, Abandon, Parsing, Downloading, Downloaded, Complete, Error, Missing
    <2>2. QED BY <2>1, WriteOnward DEF Vectoring
  <1>3. QED BY <1>1, <1>2

LEMMA GoersOnward ==
  ASSUME TypeInv, NEW w \in Workers,
         \/ Save(w) \/ ClaimTimeout(w) \/ Reuse(w) \/ Clear(w) \/ Download(w) \/ Store(w)
         \/ Initialize(w) \/ RemoveFile(w) \/ RemovePoints(w) \/ Remove(w) \/ Check(w)
  PROVE  Onward(w)
  <1>1. CASE Remove(w) \/ Check(w)
    <2>1. /\ job[w].pc \in {"remove", "check"}
          /\ \E pc \in {"add", "next", "complete"} : Goto(w, pc)
      BY <1>1 DEF Remove, Check, At
    <2>2. QED BY <2>1, Moved DEF Onward, Vectoring
  <1>2. CASE ~(Remove(w) \/ Check(w))
    <2>1. \E pc \in {"processing", "stop", "abandon", "embedding", "downloading", "parse", "downloaded",
                     "error", "scan", "rmpoints", "delchat", "delrow"} : Goto(w, pc)
      BY <1>2 DEF Save, ClaimTimeout, Reuse, Clear, Download, Store, Initialize, RemoveFile, RemovePoints
    <2>2. QED BY <2>1, GotoOnward DEF Vectoring
  <1>3. QED BY <1>1, <1>2

LEMMA OthersOnward ==
  ASSUME TypeInv, NEW w \in Workers,
         \/ ReadExisting(w) \/ Scan(w) \/ Decide(w) \/ Claim(w) \/ Claimed(w) \/ Parse(w)
         \/ Embed(w) \/ Add(w) \/ SweepFile(w) \/ Collect(w)
  PROVE  Onward(w)
  <1>1. job[w] \in Job /\ job \in [Workers -> Job]
    BY HeldDoc DEF TypeInv, JobsOK
  <1>2. CASE ReadExisting(w)
    <2>1. /\ job'[w].pc = job[w].pc /\ job'[w].emb = job[w].emb /\ job'[w].got = row[job[w].src]
          /\ job'[w].kind = job[w].kind /\ job'[w].src = job[w].src /\ job[w].pc \in Writes
      BY <1>1, <1>2 DEF ReadExisting, Src, Job
    <2>2. job[w].src \in Sources
      BY <2>1, HeldDoc DEF TypeInv, Filled, Sourceless, Writes
    <2>3. QED BY <2>1, <2>2 DEF Onward, Writes
  <1>3. CASE Scan(w)
    BY <1>1, <1>3 DEF Scan, Onward, Job, Vectoring
  <1>4. CASE Decide(w)
    <2>1. /\ job'[w].emb = job[w].emb /\ job'[w].got = job[w].got
          /\ job'[w].kind = job[w].kind /\ job'[w].src = job[w].src
          /\ job'[w].pc \in {"next", "reuse", "parsing", "claim"}
      BY <1>1, <1>4 DEF Decide, StartPhase, Job
    <2>2. QED BY <2>1 DEF Onward, Vectoring
  <1>5. CASE Claim(w)
    <2>1. CASE Goto(w, "next")
      BY <2>1, GotoOnward DEF Vectoring
    <2>2. CASE ~Goto(w, "next")
      <3>1. /\ job'[w].emb = job[w].emb /\ job'[w].got = row[job[w].src]
            /\ job'[w].kind = job[w].kind /\ job'[w].src = job[w].src /\ job'[w].pc = "claimed"
            /\ job[w].pc = "claim"
        BY <1>1, <1>5, <2>2 DEF Claim, At, Job
      <3>2. job[w].src \in Sources
        BY <3>1, HeldDoc DEF TypeInv, Filled, Sourceless
      <3>3. QED BY <3>1, <3>2 DEF Onward, Vectoring
    <2>3. QED BY <2>1, <2>2
  <1>6. CASE Claimed(w)
    <2>1. /\ job'[w].emb = job[w].emb /\ job'[w].got = None
          /\ job'[w].kind = job[w].kind /\ job'[w].src = job[w].src /\ job'[w].pc \in {"reuse", "parsing"}
      BY <1>1, <1>6 DEF Claimed, Job
    <2>2. QED BY <2>1 DEF Onward, Vectoring
  <1>7. CASE Parse(w)
    <2>1. CASE Goto(w, "error")
      BY <2>1, GotoOnward DEF Vectoring
    <2>2. CASE ~Goto(w, "error")
      <3>1. /\ job'[w].emb = job[w].emb /\ job'[w].got = job[w].got
            /\ job'[w].kind = job[w].kind /\ job'[w].src = job[w].src /\ job'[w].pc = "store"
        BY <1>1, <1>7, <2>2 DEF Parse, Job
      <3>2. QED BY <3>1 DEF Onward, Vectoring
    <2>3. QED BY <2>1, <2>2
  <1>8. CASE Embed(w) \/ Add(w)
    <2>1. CASE Goto(w, "error")
      BY <2>1, GotoOnward DEF Vectoring
    <2>2. CASE ~Goto(w, "error")
      <3>1. /\ job'[w].emb = job[w].emb /\ job'[w].got = job[w].got /\ job[w].pc \in {"embed", "add"}
            /\ job'[w].kind = job[w].kind /\ job'[w].src = job[w].src /\ job'[w].pc \in {"remove", "check"}
        BY <1>1, <1>8, <2>2 DEF Embed, Add, At, Job
      <3>2. QED BY <3>1 DEF Onward, Vectoring
    <2>3. QED BY <2>1, <2>2
  <1>9. CASE SweepFile(w)
    <2>1. CASE Goto(w, "missing")
      BY <2>1, GotoOnward DEF Vectoring
    <2>2. CASE ~Goto(w, "missing")
      <3>1. /\ job'[w].emb = job[w].emb /\ job'[w].got = job[w].got
            /\ job'[w].kind = job[w].kind /\ job'[w].src = job[w].src /\ job'[w].pc = "scan"
        BY <1>1, <1>9, <2>2 DEF SweepFile, Job
      <3>2. QED BY <3>1 DEF Onward, Vectoring
    <2>3. QED BY <2>1, <2>2
  <1>10. CASE Collect(w)
    <2>1. /\ job'[w].emb = embedder /\ job'[w].got = job[w].got
          /\ job'[w].kind = job[w].kind /\ job'[w].src = job[w].src /\ job'[w].pc = "init"
      BY <1>1, <1>10 DEF Collect, Job
    <2>2. QED BY <1>10, <2>1 DEF Onward, Vectoring
  <1>11. QED BY <1>2, <1>3, <1>4, <1>5, <1>6, <1>7, <1>8, <1>9, <1>10

LEMMA TurnsOn ==
  ASSUME TypeInv, CopyInv, NEW w \in Workers, NextSource(w)
  PROVE  Onward(w) \/ Turns(w)
  <1>1. job[w] \in Job /\ job \in [Workers -> Job]
    BY HeldDoc DEF TypeInv, JobsOK
  <1>2. CASE Goto(w, "stop")
    BY <1>2, GotoOnward DEF Vectoring
  <1>3. ASSUME NEW t \in job[w].todo,
               job' = [job EXCEPT ![w] =
                         [@ EXCEPT !.todo = job[w].todo \ {t}, !.src = t[1], !.ver = t[2],
                                   !.pts = job[w].had[t[1]], !.had[t[1]] = <<>>,
                                   !.pc = "decide"]]
        PROVE  Turns(w)
    <2> DEFINE j == [job[w] EXCEPT !.todo = job[w].todo \ {t}, !.src = t[1], !.ver = t[2],
                                   !.pts = job[w].had[t[1]], !.had[t[1]] = <<>>,
                                   !.pc = "decide"]
    <2>1. /\ j.emb = job[w].emb /\ j.got = job[w].got /\ j.kind = job[w].kind /\ j.src = t[1]
          /\ j.pc = "decide"
      BY <1>1 DEF Job
    <2>2. job' = [job EXCEPT ![w] = j]
      BY <1>3
    <2> HIDE DEF j
    <2>3. job'[w] = j
      BY <1>1, <2>2
    <2>4. job[w].kind = "ingest" => t[1] = job[w].src
      BY <1>3 DEF CopyInv, OwnTodo, Owners
    <2>5. QED BY <2>1, <2>3, <2>4 DEF Turns
  <1>4. QED BY <1>2, <1>3 DEF NextSource

LEMMA WorkOn ==
  ASSUME TypeInv, CopyInv, NEW w \in Workers, Work(w)
  PROVE  \/ Onward(w) \/ Turns(w)
         \/ Ends(w) /\ (Stop(w) \/ DeleteRow(w) \/ DeleteChat(w) \/ Reconcile(w))
  <1>1. CASE Stop(w) \/ DeleteRow(w) \/ DeleteChat(w)
    BY <1>1 DEF Stop, DeleteRow, DeleteChat, Ends
  <1>2. CASE Reconcile(w)
    <2>1. CASE job' = [job EXCEPT ![w] = Idle]
      BY <1>2, <2>1 DEF Ends
    <2>2. CASE job' = [job EXCEPT ![w] = [@ EXCEPT !.pc = "delrow"]]
      <3>1. Goto(w, "delrow")
        BY <2>2 DEF Goto
      <3>2. QED BY <3>1, GotoOnward DEF Vectoring
    <2>3. QED BY <1>2, <2>1, <2>2 DEF Reconcile
  <1>3. CASE NextSource(w)
    BY <1>3, TurnsOn
  <1>4. CASE ~(Stop(w) \/ DeleteRow(w) \/ DeleteChat(w) \/ Reconcile(w) \/ NextSource(w))
    BY <1>4, WritersOnward, GoersOnward, OthersOnward DEF Work
  <1>5. QED BY <1>1, <1>2, <1>3, <1>4

\* Who changes the points of a source.
LEMMA PointsChange ==
  ASSUME TypeInv, NEW w \in Workers, Steps(w), NEW s \in Sources, points'[s] # points[s]
  PROVE  \/ Initialize(w)
         \/ s = job[w].src /\ UNCHANGED <<row, disk>> /\ job[w].pc \in Underway \cup {"rmpoints"}
  <1>1. points' # points
    OBVIOUS
  <1>2. \/ Clear(w) \/ Store(w) \/ Remove(w) \/ Add(w) \/ Reuse(w) \/ RemovePoints(w) \/ Initialize(w)
    <2>1. ASSUME Sweep(w) \/ Request(w) \/ Crash(w) PROVE FALSE
      BY <1>1, <2>1
      DEF Sweep, Request, Crash, StartSweep, StartIngest, StartDelete, StartForget, StartDismiss,
          StartReconcile, SwitchEmbedder, OnlyOverlap, stores
    <2>2. ASSUME \/ ReadExisting(w) \/ Start(w) \/ Save(w) \/ Processing(w)
                 \/ Scan(w) \/ NextSource(w) \/ Decide(w) \/ Claim(w) \/ Claimed(w) \/ ClaimTimeout(w)
                 \/ Abandon(w) \/ Embedding(w) \/ Parsing(w)
          PROVE  FALSE
      BY <1>1, <2>2
      DEF ReadExisting, Start, Save, Processing, Scan, NextSource, Decide, Claim, Claimed, ClaimTimeout,
          Abandon, Embedding, Parsing, OnlyJob, OnlyRow, OnlyOverlap, stores
    <2>3. ASSUME \/ Downloading(w) \/ Download(w) \/ Downloaded(w) \/ Parse(w)
                 \/ Embed(w) \/ Check(w) \/ Complete(w) \/ Error(w) \/ Stop(w)
                 \/ SweepFile(w) \/ Missing(w) \/ Collect(w)
                 \/ RemoveFile(w) \/ DeleteRow(w) \/ DeleteChat(w) \/ Reconcile(w)
          PROVE  FALSE
      BY <1>1, <2>3
      DEF Downloading, Download, Downloaded, Parse, Embed, Check, Complete, Error, Stop, SweepFile, Missing,
          Collect, RemoveFile, DeleteRow, DeleteChat, Reconcile, OnlyJob, OnlyRow, OnlyOverlap, OnlyFaults,
          stores
    <2>4. QED BY <2>1, <2>2, <2>3 DEF Steps, Work
  <1>3. ASSUME ~Initialize(w)
        PROVE  UNCHANGED <<row, disk>> /\ job[w].pc \in Underway \cup {"rmpoints"}
    BY <1>2, <1>3
    DEF Clear, Store, Remove, Add, Reuse, RemovePoints, OnlyPoints, At, Underway, Emptied
  <1>4. ASSUME ~Initialize(w)
        PROVE  \E new : points' = [points EXCEPT ![Src(w)] = new]
    BY <1>1, <1>2, <1>4 DEF Clear, Store, Remove, Add, Reuse, RemovePoints
  <1>5. ASSUME ~Initialize(w) PROVE s = job[w].src
    BY <1>4, <1>5 DEF TypeInv, StoresOK, Src
  <1>6. QED BY <1>3, <1>5

\* Who changes the row of a source, and what it then says of the embedder.
RowSays(w, s) ==
  \/ row'[s].embedder = None
  \/ job[w].got \in Doc /\ row'[s].embedder = job[w].got.embedder
  \/ Embedding(w) /\ row'[s].embedder = job[w].emb

LEMMA RowChange ==
  ASSUME TypeInv, Calm, NEW w \in Workers, Steps(w), NEW s \in Sources, row'[s] # row[s]
  PROVE  /\ s = job[w].src /\ WorksOn(w, s) /\ UNCHANGED <<points, disk, chats, collection, embedder>>
         /\ RowSays(w, s)
         /\ row'[s].status = "completed" =>
              Abandon(w) \/ (Complete(w) /\ job[w].got \in Doc /\ row'[s].embedder = job[w].got.embedder)
  <1>1. row' # row
    OBVIOUS
  <1>2. \/ Start(w) \/ Processing(w) \/ Claimed(w) \/ Abandon(w) \/ Embedding(w) \/ Parsing(w)
        \/ Downloading(w) \/ Downloaded(w) \/ Complete(w) \/ Error(w) \/ Missing(w) \/ DeleteRow(w)
    <2>1. ASSUME Sweep(w) \/ Request(w) \/ Crash(w) PROVE FALSE
      BY <1>1, <2>1
      DEF Sweep, Request, Crash, StartSweep, StartIngest, StartDelete, StartForget, StartDismiss,
          StartReconcile, SwitchEmbedder, OnlyOverlap, stores
    <2>2. ASSUME \/ ReadExisting(w) \/ Save(w) \/ Scan(w) \/ NextSource(w) \/ Decide(w) \/ Claim(w)
                 \/ ClaimTimeout(w) \/ Reuse(w) \/ Clear(w) \/ Download(w) \/ Parse(w) \/ Store(w)
          PROVE  FALSE
      BY <1>1, <2>2
      DEF ReadExisting, Save, Scan, NextSource, Decide, Claim, ClaimTimeout, Reuse, Clear, Download, Parse,
          Store, OnlyJob, OnlyPoints, OnlyFaults, OnlyOverlap, stores
    <2>3. ASSUME \/ Embed(w) \/ Remove(w) \/ Add(w) \/ Check(w) \/ Stop(w) \/ SweepFile(w)
                 \/ Collect(w) \/ Initialize(w) \/ RemoveFile(w) \/ RemovePoints(w)
                 \/ DeleteChat(w) \/ Reconcile(w)
          PROVE  FALSE
      BY <1>1, <2>3
      DEF Embed, Remove, Add, Check, Stop, SweepFile, Collect, Initialize, RemoveFile, RemovePoints,
          DeleteChat, Reconcile, OnlyJob, OnlyPoints, OnlyFaults, OnlyOverlap, stores
    <2>4. QED BY <2>1, <2>2, <2>3 DEF Steps, Work
  <1>3. UNCHANGED <<points, disk, chats, collection, embedder>>
    BY <1>2 DEF Start, Processing, Claimed, Abandon, Embedding, Parsing, Downloading, Downloaded, Complete,
                Error, Missing, DeleteRow, OnlyRow, config
  <1>4. Src(w) = job[w].src /\ (job[w].got # None => job[w].got \in Doc) /\ Orderly(job[w])
    BY HeldDoc DEF Src, TypeInv, Calm, Tended
  <1>5. CASE DeleteRow(w)
    <2>1. row' = [row EXCEPT ![Src(w)] = NoDoc] /\ job[w].pc = "delrow"
      BY <1>5 DEF DeleteRow, At
    <2>2. s = Src(w) /\ row'[s] = NoDoc
      BY <2>1 DEF TypeInv, StoresOK
    <2>3. WorksOn(w, s)
      BY <1>4, <2>1, <2>2 DEF WorksOn, Orderly
    <2>4. QED BY <1>3, <1>4, <2>2, <2>3 DEF NoDoc, RowSays
  <1>6. CASE ~DeleteRow(w)
    <2>1. job[w].pc \in Writes \cup {"claimed"} /\ job[w].got \in Doc
      <3>1. CASE Claimed(w)
        BY <3>1, HeldDoc DEF Claimed, At, TypeInv, Filled
      <3>2. CASE ~Claimed(w)
        <4>1. job[w].pc \in Writes /\ job[w].got # None
          BY <1>2, <1>6, <3>2 DEF Start, Processing, Abandon, Embedding, Parsing, Downloading,
             Downloaded, Complete, Error, Missing, Write, At, Writes
        <4>2. QED BY <1>4, <4>1
      <3>3. QED BY <3>1, <3>2
    <2>2. job[w].got \in Doc
      BY <2>1
    <2>3. \E doc : row' = [row EXCEPT ![Src(w)] = doc]
      BY <1>2, <1>6 DEF Start, Processing, Claimed, Abandon, Embedding, Parsing, Downloading,
         Downloaded, Complete, Error, Missing, Write
    <2>4. s = Src(w) /\ WorksOn(w, s)
      BY <1>4, <2>1, <2>3 DEF TypeInv, StoresOK, WorksOn, Busy
    <2>5. ASSUME NEW doc, row' = [row EXCEPT ![Src(w)] = doc] PROVE row'[s] = doc
      BY <2>4, <2>5 DEF TypeInv, StoresOK
    <2> DEFINE got == job[w].got
    <2>6. /\ \A st : SetStatus(got, st).embedder = got.embedder /\ SetStatus(got, st).status = st
          /\ \A st : \A ph : SetPhase(got, st, ph).embedder = got.embedder /\ SetPhase(got, st, ph).status = st
          /\ SetParsing(got, job[w].chk).embedder = got.embedder
          /\ SetParsing(got, job[w].chk).status = "processing"
          /\ SetCompleted(got).embedder = got.embedder
          /\ SetEmbedding(got, job[w].emb).embedder = job[w].emb
          /\ SetEmbedding(got, job[w].emb).status = "processing"
      BY <2>2 DEF SetStatus, SetPhase, SetParsing, SetCompleted, SetEmbedding, Doc
    <2>7. CASE Embedding(w)
      <3>1. row'[s] = SetEmbedding(got, job[w].emb)
        BY <2>5, <2>7 DEF Embedding, Write
      <3>2. QED BY <1>3, <1>4, <2>4, <2>6, <2>7, <3>1 DEF RowSays
    <2>8. CASE Complete(w)
      <3>1. row'[s] = SetCompleted(got)
        BY <2>5, <2>8 DEF Complete, Write
      <3>2. QED BY <1>3, <1>4, <2>2, <2>4, <2>6, <2>8, <3>1 DEF RowSays
    <2>9. CASE Processing(w) \/ Parsing(w)
      <3>1. row'[s] = SetParsing(got, job[w].chk)
        BY <2>5, <2>9 DEF Processing, Parsing, Write
      <3>2. QED BY <1>3, <1>4, <2>2, <2>4, <2>6, <3>1 DEF RowSays
    <2>10. CASE Downloading(w) \/ Downloaded(w)
      <3>1. \E st \in {"downloading", "downloaded"} : \E ph : row'[s] = SetPhase(got, st, ph)
        BY <2>5, <2>10 DEF Downloading, Downloaded, Write
      <3>2. QED BY <1>3, <1>4, <2>2, <2>4, <2>6, <3>1 DEF RowSays
    <2>11. CASE Start(w) \/ Claimed(w) \/ Error(w) \/ Missing(w)
      <3>1. \E st \in {"uploaded", "processing", "error"} : row'[s] = SetStatus(got, st)
        BY <2>5, <2>11 DEF Start, Claimed, Error, Missing, Write
      <3>2. QED BY <1>3, <1>4, <2>2, <2>4, <2>6, <3>1 DEF RowSays
    <2>12. CASE Abandon(w)
      <3>1. row'[s] = SetStatus(got, "completed")
        BY <2>5, <2>12 DEF Abandon, Write
      <3>2. QED BY <1>3, <1>4, <2>2, <2>4, <2>6, <2>12, <3>1 DEF RowSays
    <2>13. QED BY <1>2, <1>6, <2>7, <2>8, <2>9, <2>10, <2>11, <2>12
  <1>7. QED BY <1>5, <1>6


\* Only the two switches change the configuration.
LEMMA WorkKeepsConfig ==
  ASSUME NEW w \in Workers, Steps(w), ~\E e \in Embedders : SwitchEmbedder(w, e)
  PROVE  UNCHANGED <<embedder, switches>>
  <1>1. CASE \/ ReadExisting(w) \/ Start(w) \/ Save(w) \/ Processing(w)
             \/ Scan(w) \/ NextSource(w) \/ Decide(w) \/ Claim(w) \/ Claimed(w) \/ ClaimTimeout(w)
             \/ Reuse(w) \/ Abandon(w) \/ Embedding(w) \/ Parsing(w) \/ Clear(w)
    BY <1>1 DEF ReadExisting, Start, Save, Processing, Scan, NextSource, Decide, Claim, Claimed,
                ClaimTimeout, Reuse, Abandon, Embedding, Parsing, Clear, OnlyJob, OnlyRow, OnlyPoints,
                OnlyOverlap, config
  <1>2. CASE \/ Downloading(w) \/ Download(w) \/ Downloaded(w) \/ Parse(w) \/ Store(w)
             \/ Embed(w) \/ Remove(w) \/ Add(w) \/ Check(w) \/ Complete(w) \/ Error(w) \/ Stop(w)
    BY <1>2 DEF Downloading, Download, Downloaded, Parse, Store, Embed, Remove, Add, Check, Complete,
                Error, Stop, OnlyJob, OnlyRow, OnlyPoints, OnlyFaults, config
  <1>3. CASE \/ SweepFile(w) \/ Missing(w) \/ Collect(w) \/ Initialize(w)
             \/ RemoveFile(w) \/ RemovePoints(w) \/ DeleteRow(w) \/ DeleteChat(w) \/ Reconcile(w)
    BY <1>3 DEF SweepFile, Missing, Collect, Initialize, RemoveFile, RemovePoints, DeleteRow,
                DeleteChat, Reconcile, OnlyJob, OnlyRow, OnlyPoints, OnlyOverlap, config
  <1>4. CASE Sweep(w) \/ Crash(w)
    BY <1>4 DEF Sweep, StartSweep, Crash, config
  <1>5. CASE Request(w)
    BY <1>5 DEF Request, StartIngest, StartDelete, StartForget, StartDismiss, StartReconcile,
                OnlyOverlap, config
  <1>6. QED BY <1>1, <1>2, <1>3, <1>4, <1>5 DEF Steps, Work

\* Only the making of a collection changes it; nobody makes a conversation.
LEMMA CollectionChange ==
  ASSUME NEW w \in Workers, Steps(w)
  PROVE  /\ collection' # collection => Initialize(w)
         /\ Initialize(w) =>
              IF collection = job[w].emb THEN UNCHANGED <<points, collection>>
              ELSE points' = [s \in Sources |-> <<>>] /\ collection' = job[w].emb
         /\ chats' \subseteq chats
  <1>1. CASE \/ ReadExisting(w) \/ Start(w) \/ Save(w) \/ Processing(w)
             \/ Scan(w) \/ NextSource(w) \/ Decide(w) \/ Claim(w) \/ Claimed(w) \/ ClaimTimeout(w)
             \/ Reuse(w) \/ Abandon(w) \/ Embedding(w) \/ Parsing(w) \/ Clear(w)
    <2>1. UNCHANGED <<collection, chats>>
      BY <1>1 DEF ReadExisting, Start, Save, Processing, Scan, NextSource, Decide, Claim, Claimed,
                  ClaimTimeout, Reuse, Abandon, Embedding, Parsing, Clear, OnlyJob, OnlyRow, OnlyPoints,
                  OnlyOverlap, stores
    <2>2. QED BY <2>1 DEF Initialize
  <1>2. CASE \/ Downloading(w) \/ Download(w) \/ Downloaded(w) \/ Parse(w) \/ Store(w)
             \/ Embed(w) \/ Remove(w) \/ Add(w) \/ Check(w) \/ Complete(w) \/ Error(w) \/ Stop(w)
             \/ SweepFile(w) \/ Missing(w) \/ Collect(w)
             \/ RemoveFile(w) \/ RemovePoints(w) \/ DeleteRow(w) \/ DeleteChat(w) \/ Reconcile(w)
    <2>1. collection' = collection /\ chats' \subseteq chats
      BY <1>2 DEF Downloading, Download, Downloaded, Parse, Store, Embed, Remove, Add, Check, Complete,
                  Error, Stop, SweepFile, Missing, Collect, RemoveFile, RemovePoints, DeleteRow,
                  DeleteChat, Reconcile, OnlyJob, OnlyRow, OnlyPoints, OnlyFaults, OnlyOverlap, stores
    <2>2. QED BY <2>1 DEF Initialize
  <1>3. CASE Sweep(w) \/ Request(w) \/ Crash(w)
    <2>1. UNCHANGED <<collection, chats>>
      BY <1>3 DEF Sweep, StartSweep, Crash, Request, StartIngest, StartDelete, StartForget, StartDismiss,
                  StartReconcile, SwitchEmbedder, OnlyOverlap, stores
    <2>2. QED BY <2>1 DEF Initialize
  <1>4. CASE Initialize(w)
    BY <1>4 DEF Initialize
  <1>5. QED BY <1>1, <1>2, <1>3, <1>4 DEF Steps, Work

\* Who changes the file of a source.
LEMMA DiskChange ==
  ASSUME TypeInv, NEW w \in Workers, Steps(w), NEW s \in Sources, disk'[s] # disk[s]
  PROVE  disk'[s] = 0 \/ (s = job[w].src /\ job[w].pc = "save" /\ UNCHANGED <<row, points>>)
  <1>1. disk' # disk
    OBVIOUS
  <1>2. Save(w) \/ RemoveFile(w)
    <2>1. ASSUME \/ ReadExisting(w) \/ Start(w) \/ Processing(w)
                 \/ Scan(w) \/ NextSource(w) \/ Decide(w) \/ Claim(w) \/ Claimed(w) \/ ClaimTimeout(w)
                 \/ Reuse(w) \/ Abandon(w) \/ Embedding(w) \/ Parsing(w) \/ Clear(w)
          PROVE FALSE
      BY <1>1, <2>1
      DEF ReadExisting, Start, Processing, Scan, NextSource, Decide, Claim, Claimed,
          ClaimTimeout, Reuse, Abandon, Embedding, Parsing, Clear, OnlyJob, OnlyRow, OnlyPoints,
          OnlyOverlap, stores
    <2>2. ASSUME \/ Downloading(w) \/ Download(w) \/ Downloaded(w) \/ Parse(w) \/ Store(w)
                 \/ Embed(w) \/ Remove(w) \/ Add(w) \/ Check(w) \/ Complete(w) \/ Error(w) \/ Stop(w)
                 \/ SweepFile(w) \/ Missing(w) \/ Collect(w) \/ Initialize(w)
                 \/ RemovePoints(w) \/ DeleteRow(w) \/ DeleteChat(w) \/ Reconcile(w)
          PROVE FALSE
      BY <1>1, <2>2
      DEF Downloading, Download, Downloaded, Parse, Store, Embed, Remove, Add, Check, Complete,
          Error, Stop, SweepFile, Missing, Collect, Initialize, RemovePoints, DeleteRow,
          DeleteChat, Reconcile, OnlyJob, OnlyRow, OnlyPoints, OnlyFaults, OnlyOverlap, stores
    <2>3. ASSUME Sweep(w) \/ Request(w) \/ Crash(w) PROVE FALSE
      BY <1>1, <2>3
      DEF Sweep, StartSweep, Crash, Request, StartIngest, StartDelete, StartForget, StartDismiss,
          StartReconcile, SwitchEmbedder, OnlyOverlap, stores
    <2>4. QED BY <2>1, <2>2, <2>3 DEF Steps, Work
  <1>3. CASE Save(w)
    <2>1. disk' = [disk EXCEPT ![Src(w)] = job[w].ver] /\ job[w].pc = "save" /\ UNCHANGED <<row, points>>
      BY <1>1, <1>3 DEF Save, At
    <2>2. s = Src(w)
      BY <2>1 DEF TypeInv, StoresOK
    <2>3. QED BY <2>1, <2>2 DEF Src
  <1>4. CASE RemoveFile(w)
    BY <1>4 DEF RemoveFile, TypeInv, StoresOK
  <1>5. QED BY <1>2, <1>3, <1>4

\* A job that begins.
Begins(w) ==
  /\ job[w].pc = "idle" /\ job'[w].emb = None /\ job'[w].got = None
  /\ job'[w].pc \in {"start", "file", "rmfile", "delrow", "gc", "collect"}
  /\ job'[w].pc = "collect" => \E e \in Embedders : SwitchEmbedder(w, e)
  /\ UNCHANGED <<stores, beat>>

LEMMA RequestBegins ==
  ASSUME TypeInv, NEW w \in Workers, Sweep(w) \/ Request(w)
  PROVE  Begins(w)
  <1>1. job \in [Workers -> Job]
    BY DEF TypeInv, JobsOK
  <1>2. ASSUME NEW kind, NEW pc, NEW s, Begin(w, kind, pc, s)
        PROVE  /\ job[w].pc = "idle" /\ job'[w].emb = None /\ job'[w].got = None
               /\ job'[w].pc = pc
    BY <1>1, <1>2 DEF Begin, At, Idle
  <1>3. UNCHANGED <<stores, beat>>
    BY DEF Sweep, StartSweep, Request, StartIngest, StartDelete, StartForget, StartDismiss,
           StartReconcile, SwitchEmbedder, OnlyOverlap, proc
  <1>4. CASE \E s \in Sources : StartIngest(w, s)
    <2>1. /\ job[w].pc = "idle" /\ job'[w].emb = None /\ job'[w].got = None
          /\ job'[w].pc = "start"
      BY <1>1, <1>4 DEF StartIngest, At, Idle
    <2>2. QED BY <1>3, <2>1 DEF Begins
  <1>5. CASE \E e \in Embedders : SwitchEmbedder(w, e)
    <2>1. Begin(w, "run", "collect", None)
      BY <1>5 DEF SwitchEmbedder
    <2>2. QED BY <1>2, <1>3, <1>5, <2>1 DEF Begins
  <1>6. CASE \E s \in Sources : \/ StartSweep(w, s) \/ StartDelete(w, s) \/ StartForget(w, s)
                                \/ StartDismiss(w, s) \/ StartReconcile(w, s)
    <2>1. \E kind, s : \E pc \in {"file", "rmfile", "delrow", "gc"} : Begin(w, kind, pc, s)
      BY <1>6 DEF StartSweep, StartDelete, StartForget, StartDismiss, StartReconcile
    <2>2. QED BY <1>2, <1>3, <2>1 DEF Begins
  <1>7. QED BY <1>4, <1>5, <1>6 DEF Sweep, Request

\* How the job of a worker goes on.
LEMMA StepsOn ==
  ASSUME TypeInv, CopyInv, NEW w \in Workers, Steps(w)
  PROVE  \/ Onward(w) \/ Turns(w) \/ Begins(w)
         \/ Ends(w) /\ (Stop(w) \/ DeleteRow(w) \/ DeleteChat(w) \/ Reconcile(w) \/ Crash(w))
  <1>1. CASE Work(w)
    BY <1>1, WorkOn
  <1>2. CASE Sweep(w) \/ Request(w)
    BY <1>2, RequestBegins
  <1>3. CASE Crash(w)
    BY <1>3 DEF Crash, Ends
  <1>4. QED BY <1>1, <1>2, <1>3 DEF Steps

LEMMA EndsIdle ==
  ASSUME TypeInv, NEW w \in Workers, Ends(w)
  PROVE  /\ job'[w].pc = "idle" /\ job'[w].kind = "none"
         /\ job'[w].emb = None /\ job'[w].got = None
  <1>1. job'[w] = Idle
    BY DEF Ends, TypeInv, JobsOK
  <1>2. QED BY <1>1 DEF Idle

\* What a step of its job does to the heartbeat of a worker.
LEMMA BeatChange ==
  ASSUME TypeInv, NEW w \in Workers, Steps(w)
  PROVE  /\ \A v \in Workers \ {w} : beat'[v] = beat[v]
         /\ beat'[w].got \in {None, beat[w].got}
         /\ \/ Processing(w) /\ beat'[w].src = job[w].src
            \/ (Stop(w) \/ Crash(w)) /\ beat'[w].at = "off"
            \/ ~(Stop(w) \/ Crash(w)) /\ beat'[w] = beat[w]
  <1>1. beat \in [Workers -> Beat]
    BY DEF TypeInv, ProcOK
  <1>2. CASE Processing(w)
    <2> DEFINE b == [NoBeat EXCEPT !.at = "asleep", !.src = Src(w)]
    <2>1. b.got = None /\ b.src = job[w].src
      BY DEF NoBeat, Src
    <2>2. beat' = [beat EXCEPT ![w] = b]
      BY <1>2 DEF Processing
    <2> HIDE DEF b
    <2>3. QED BY <1>1, <1>2, <2>1, <2>2
  <1>3. CASE Stop(w) \/ Crash(w)
    <2>1. beat' = [beat EXCEPT ![w] = NoBeat]
      BY <1>3 DEF Stop, Crash
    <2>2. NoBeat.at = "off" /\ NoBeat.got = None
      BY DEF NoBeat
    <2>3. QED BY <1>1, <1>3, <2>1, <2>2
  <1>4. CASE ~(Processing(w) \/ Stop(w) \/ Crash(w))
    <2>1. CASE \/ ReadExisting(w) \/ Start(w) \/ Save(w)
               \/ Scan(w) \/ NextSource(w) \/ Decide(w) \/ Claim(w) \/ Claimed(w) \/ ClaimTimeout(w)
               \/ Reuse(w) \/ Abandon(w) \/ Embedding(w) \/ Parsing(w) \/ Clear(w)
      <3>1. beat' = beat
        BY <2>1 DEF ReadExisting, Start, Save, Scan, NextSource, Decide, Claim, Claimed,
                    ClaimTimeout, Reuse, Abandon, Embedding, Parsing, Clear, OnlyJob, OnlyRow, OnlyPoints,
                    OnlyOverlap, proc
      <3>2. QED BY <1>4, <3>1
    <2>2. CASE \/ Downloading(w) \/ Download(w) \/ Downloaded(w) \/ Parse(w) \/ Store(w)
               \/ Embed(w) \/ Remove(w) \/ Add(w) \/ Check(w) \/ Complete(w) \/ Error(w)
               \/ SweepFile(w) \/ Missing(w) \/ Collect(w) \/ Initialize(w) \/ RemoveFile(w)
               \/ RemovePoints(w) \/ DeleteRow(w) \/ DeleteChat(w) \/ Reconcile(w)
      <3>1. beat' = beat
        BY <2>2 DEF Downloading, Download, Downloaded, Parse, Store, Embed, Remove, Add, Check, Complete,
                    Error, SweepFile, Missing, Collect, Initialize, RemoveFile, RemovePoints, DeleteRow,
                    DeleteChat, Reconcile, OnlyJob, OnlyRow, OnlyPoints, OnlyFaults, OnlyOverlap, proc
      <3>2. QED BY <1>4, <3>1
    <2>3. CASE Sweep(w) \/ Request(w)
      BY <1>4, <2>3, RequestBegins DEF Begins
    <2>4. QED BY <1>4, <2>1, <2>2, <2>3 DEF Steps, Work
  <1>5. QED BY <1>2, <1>3, <1>4

LEMMA StepsDecent ==
  ASSUME TypeInv, CopyInv, NEW w \in Workers, Steps(w)
  PROVE  Decent(w) /\ OthersStay(w) /\ overlap \subseteq overlap'
  <1>1. Decent(w)
    BY WorkDecent, RequestDecent, EndersDecent DEF Steps
  <1>2. QED BY <1>1 DEF Decent, TakesFairly

\* A heartbeat runs beside the upload that spawned it, on the same source.
BeatOwn ==
  \A w \in Workers : beat[w].at # "off" => job[w].kind = "ingest" /\ job[w].src = beat[w].src

LEMMA BeatOwnStep ==
  ASSUME TypeInv, CopyInv, Calm, BeatOwn, NEW w \in Workers, Steps(w)
  PROVE  BeatOwn'
  <1>1. \A v \in Workers \ {w} : beat'[v] = beat[v] /\ job'[v] = job[v]
    BY BeatChange, StepsDecent DEF OthersStay
  <1>2. Orderly(job[w])
    BY DEF Calm, Tended
  <1>3. ASSUME beat'[w].at # "off" PROVE job'[w].kind = "ingest" /\ job'[w].src = beat'[w].src
    <2>1. CASE Processing(w) /\ beat'[w].src = job[w].src
      <3>1. job[w].pc = "processing" /\ \E doc : Write(w, doc, "scan")
        BY <2>1 DEF Processing, At
      <3>2. job'[w].kind = job[w].kind /\ job'[w].src = job[w].src
        BY <3>1, Wrote
      <3>3. QED BY <1>2, <2>1, <3>1, <3>2 DEF Orderly
    <2>2. CASE ~(Stop(w) \/ Crash(w)) /\ beat'[w] = beat[w]
      <3>1. job[w].kind = "ingest" /\ job[w].src = beat'[w].src
        BY <1>3, <2>2 DEF BeatOwn
      <3>2. CASE Onward(w) \/ Turns(w)
        BY <3>1, <3>2 DEF Onward, Turns
      <3>3. CASE Begins(w)
        BY <1>2, <3>1, <3>3 DEF Begins, Orderly
      <3>4. CASE DeleteRow(w) \/ DeleteChat(w) \/ Reconcile(w)
        BY <1>2, <3>1, <3>4 DEF DeleteRow, DeleteChat, Reconcile, At, Orderly, Removing
      <3>5. QED BY <2>2, <3>2, <3>3, <3>4, StepsOn
    <2>3. QED BY <1>3, <2>1, <2>2, BeatChange
  <1>4. QED BY <1>1, <1>3 DEF BeatOwn

-----------------------------------------------------------------------------
(* What a step does to the points a row stands for. *)

\* Nobody else changes the row or, but for a new collection, the points of a
\* source that somebody works on.
LEMMA Undisturbed ==
  ASSUME TypeInv, CopyInv, Calm, NEW w \in Workers, Steps(w),
         NEW v \in Workers \ {w}, NEW s \in Sources \ overlap', WorksOn(v, s)
  PROVE  /\ row'[s] = row[s]
         /\ points'[s] = points[s] \/ Initialize(w)
  <1>1. s \in Sources \ overlap
    BY StepsDecent
  <1>2. ~WorksOn(w, s)
    BY <1>1 DEF CopyInv, Alone
  <1>3. row'[s] = row[s]
    BY <1>2, RowChange
  <1>4. ASSUME points'[s] # points[s] PROVE Initialize(w)
    <2>1. Orderly(job[w])
      BY DEF Calm, Tended
    <2>2. ~(s = job[w].src /\ job[w].pc \in Underway \cup {"rmpoints"})
      BY <1>2, <2>1, HandsOn
    <2>3. QED BY <1>4, <2>2, PointsChange
  <1>5. QED BY <1>3, <1>4

\* The places that several steps lead to, or none that matters.
Plain ==
  {"idle", "start", "save", "processing", "scan", "next", "claimed", "reuse", "abandon", "embedding",
   "embed", "parsing", "clear", "downloading", "download", "downloaded", "parse", "store", "remove",
   "add", "error", "rmfile", "rmpoints", "delchat", "delrow", "gc", "collect", "init"}

\* Which steps lead to the other places.
LEMMA LeadsTo ==
  ASSUME TypeInv, CopyInv, NEW w \in Workers, Steps(w), NEW pc, job'[w].pc = pc
  PROVE  \/ pc \in Plain
         \/ ReadExisting(w) /\ pc = job[w].pc
         \/ NextSource(w) /\ pc \in {"decide", "stop"}
         \/ (ClaimTimeout(w) \/ Missing(w)) /\ pc = "stop"
         \/ SweepFile(w) /\ pc = "missing"
         \/ Decide(w) /\ pc = "claim"
         \/ Add(w) /\ pc = "check"
         \/ Check(w) /\ pc = "complete"
         \/ Sweep(w) /\ pc = "file"
  <1>1. ASSUME NEW doc, NEW p, Write(w, doc, p) PROVE pc = p
    BY <1>1, Wrote
  <1>2. ASSUME NEW p, Goto(w, p) PROVE pc = p
    BY <1>2, Moved
  <1>3. job[w] \in Job /\ job \in [Workers -> Job]
    BY HeldDoc DEF TypeInv, JobsOK
  <1>4. CASE \/ Start(w) \/ Processing(w) \/ Abandon(w) \/ Embedding(w) \/ Parsing(w) \/ Downloading(w)
             \/ Downloaded(w) \/ Complete(w) \/ Error(w) \/ Missing(w)
    BY <1>1, <1>4 DEF Start, Processing, Abandon, Embedding, Parsing, Downloading, Downloaded, Complete,
                      Error, Missing, Plain
  <1>5. CASE \/ Save(w) \/ ClaimTimeout(w) \/ Reuse(w) \/ Clear(w) \/ Download(w) \/ Store(w)
             \/ Initialize(w) \/ RemoveFile(w) \/ RemovePoints(w) \/ Remove(w) \/ Check(w)
    BY <1>2, <1>5 DEF Save, ClaimTimeout, Reuse, Clear, Download, Store, Initialize, RemoveFile,
                      RemovePoints, Remove, Check, Plain
  <1>6. CASE Scan(w) \/ Decide(w) \/ Claim(w)
    <2>1. Claim(w) => pc \in {"next", "claimed"}
      BY <1>2, <1>3 DEF Claim, Job
    <2>2. Scan(w) => pc = "next"
      BY <1>3 DEF Scan, Job
    <2>3. Decide(w) => pc \in {"next", "reuse", "parsing", "claim"}
      <3>1. \A doc, had, chk : StartPhase(doc, had, chk) \in {"reuse", "parsing"}
        BY DEF StartPhase
      <3>2. QED BY <1>3, <3>1, SMTT(20) DEF Decide, Job
    <2>4. QED BY <1>6, <2>1, <2>2, <2>3 DEF Plain
  <1>7. CASE Claimed(w) \/ Collect(w) \/ ReadExisting(w)
    <2>1. Claimed(w) => pc \in {"reuse", "parsing"}
      BY <1>3 DEF Claimed, Job
    <2>2. Collect(w) => pc = "init"
      <3>1. ASSUME Collect(w)
            PROVE  \E todo : job' = [job EXCEPT ![w].todo = todo, ![w].emb = embedder, ![w].pc = "init"]
        BY <3>1 DEF Collect
      <3>2. ASSUME NEW todo, job' = [job EXCEPT ![w].todo = todo, ![w].emb = embedder, ![w].pc = "init"]
            PROVE  pc = "init"
        <4> DEFINE j == [[job[w] EXCEPT !.todo = todo] EXCEPT !.emb = embedder]
        <4>1. j.pc = job[w].pc /\ j = [j EXCEPT !.pc = job[w].pc]
          BY <1>3 DEF Job
        <4>2. job'[w] = [j EXCEPT !.pc = "init"]
          BY <1>3, <3>2
        <4> HIDE DEF j
        <4>3. [j EXCEPT !.pc = "init"].pc = "init"
          BY <4>1
        <4>4. QED BY <4>2, <4>3
      <3>3. QED BY <3>1, <3>2
    <2>3. ReadExisting(w) => pc = job[w].pc
      BY <1>3 DEF ReadExisting, Job
    <2>4. QED BY <1>7, <2>1, <2>2, <2>3 DEF Plain
  <1>8. CASE Parse(w) \/ Embed(w) \/ SweepFile(w) \/ Add(w)
    <2>1. Parse(w) => pc \in {"store", "error"}
      BY <1>2, <1>3 DEF Parse, Job
    <2>2. Embed(w) => pc \in {"remove", "error"}
      BY <1>2, <1>3 DEF Embed, Job
    <2>3. SweepFile(w) => pc \in {"scan", "missing"}
      BY <1>2, <1>3 DEF SweepFile, Job
    <2>4. Add(w) => pc \in {"check", "error"}
      BY <1>2, <1>3 DEF Add, Job
    <2>5. QED BY <1>8, <2>1, <2>2, <2>3, <2>4 DEF Plain
  <1>9. CASE NextSource(w)
    <2>1. CASE Turns(w)
      BY <1>9, <2>1 DEF Turns
    <2>2. CASE Goto(w, "stop")
      BY <1>2, <1>9, <2>2
    <2>3. ASSUME NEW t \in job[w].todo,
                 job' = [job EXCEPT ![w] =
                           [@ EXCEPT !.todo = job[w].todo \ {t}, !.src = t[1], !.ver = t[2],
                                     !.pts = job[w].had[t[1]], !.had[t[1]] = <<>>,
                                     !.pc = "decide"]]
          PROVE  pc = "decide"
      <3> DEFINE j == [job[w] EXCEPT !.todo = job[w].todo \ {t}, !.src = t[1], !.ver = t[2],
                                     !.pts = job[w].had[t[1]], !.had[t[1]] = <<>>,
                                     !.pc = "decide"]
      <3>1. j.pc = "decide"
        BY <1>3 DEF Job
      <3>2. job' = [job EXCEPT ![w] = j]
        BY <2>3
      <3> HIDE DEF j
      <3>3. job'[w] = j
        BY <1>3, <3>2
      <3>4. QED BY <3>1, <3>3
    <2>4. QED BY <1>9, <2>2, <2>3 DEF NextSource
  <1>10. CASE Ends(w)
    BY <1>10, EndsIdle DEF Plain
  <1>11. CASE Stop(w) \/ DeleteRow(w) \/ DeleteChat(w) \/ Crash(w)
    BY <1>10, <1>11 DEF Stop, DeleteRow, DeleteChat, Crash, Ends
  <1>12. CASE Reconcile(w)
    <2>1. CASE job' = [job EXCEPT ![w] = Idle]
      BY <1>10, <2>1 DEF Ends
    <2>2. CASE job' = [job EXCEPT ![w] = [@ EXCEPT !.pc = "delrow"]]
      BY <1>2, <2>2 DEF Goto, Plain
    <2>3. QED BY <1>12, <2>1, <2>2 DEF Reconcile
  <1>13. CASE Sweep(w) \/ Request(w)
    <2>1. CASE Sweep(w)
      <3>1. \E s : Begin(w, "sweep", "file", s)
        BY <2>1 DEF Sweep, StartSweep
      <3>2. job'[w].pc = "file"
        BY <1>3, <3>1 DEF Begin, Idle
      <3>3. QED BY <2>1, <3>2
    <2>2. CASE \E s \in Sources : StartIngest(w, s)
      BY <1>3, <2>2 DEF StartIngest, Idle, Plain
    <2>3. CASE Request(w) /\ ~\E s \in Sources : StartIngest(w, s)
      <3>1. \E kind, s : \E p \in {"rmfile", "delrow", "gc", "collect"} : Begin(w, kind, p, s)
        BY <2>3 DEF Request, StartDelete, StartForget, StartDismiss, StartReconcile, SwitchEmbedder
      <3>2. job'[w].pc \in {"rmfile", "delrow", "gc", "collect"}
        BY <1>3, <3>1 DEF Begin, Idle
      <3>3. QED BY <3>2 DEF Plain
    <2>4. QED BY <1>13, <2>1, <2>2, <2>3
  <1>14. QED
    BY <1>4, <1>5, <1>6, <1>7, <1>8, <1>9, <1>11, <1>12, <1>13 DEF Steps, Work

LEMMA EndSteps ==
  ASSUME TypeInv, CopyInv, NEW w \in Workers, Steps(w), job'[w].pc \in {"check", "complete"}
  PROVE  ReadExisting(w) \/ Check(w) \/ Add(w)
  BY LeadsTo DEF Plain

\* At the end of a pass over a source its vectors are those the pass has added.
LEMMA EndChange ==
  ASSUME TypeInv, CopyInv, Calm, NEW w \in Workers, Steps(w), job'[w].pc \in {"check", "complete"}
  PROVE  /\ job'[w].src = job[w].src /\ job'[w].emb = job[w].emb
         /\ collection' = collection
         /\ \/ job[w].pc \in {"check", "complete"} /\ points' = points
            \/ /\ job[w].pc = "add" /\ Dim[job[w].emb] = Dim[collection]
               /\ job[w].src \in Sources \ overlap' =>
                    /\ Len(points'[job[w].src]) = 1
                    /\ points'[job[w].src][1].embedder = job[w].emb
  <1>1. job[w] \in Job /\ job \in [Workers -> Job]
    BY HeldDoc DEF TypeInv, JobsOK
  <1>2. CASE ReadExisting(w)
    BY <1>1, <1>2 DEF ReadExisting, OnlyJob, stores, Job
  <1>3. CASE Check(w)
    BY <1>3, Moved DEF Check, OnlyJob, stores, At
  <1>4. CASE Add(w)
    <2>1. job[w].pc = "add" /\ UNCHANGED <<collection, overlap>>
      BY <1>4 DEF Add, At, OnlyPoints, history
    <2>2. CASE Dim[job[w].emb] # Dim[collection]
      BY <1>4, <2>2, Moved DEF Add
    <2>3. CASE Dim[job[w].emb] = Dim[collection]
      <3>1. job'[w].src = job[w].src /\ job'[w].emb = job[w].emb
        BY <1>1, <1>4, <2>3 DEF Add, Job
      <3>2. ASSUME job[w].src \in Sources \ overlap'
            PROVE  /\ Len(points'[job[w].src]) = 1
                   /\ points'[job[w].src][1].embedder = job[w].emb
        <4>1. Len(job[w].pts) = 1 /\ job[w].pts[1].embedder = job[w].emb
          BY <2>1, <3>2 DEF Calm, Tended, AtHand
        <4>2. points[job[w].src] = <<>>
          BY <2>1, <3>2 DEF CopyInv, Bounded, Emptied
        <4>3. job[w].pts \in Seq(Batch)
          BY <1>1 DEF Job
        <4>4. points'[job[w].src] = Added(<<>>, job[w].pts)
          BY <1>4, <2>3, <3>2, <4>2 DEF Add, Src, TypeInv, StoresOK
        <4>5. QED BY <4>1, <4>3, <4>4, AddedToNone
      <3>3. QED BY <2>1, <2>3, <3>1, <3>2
    <2>4. QED BY <2>2, <2>3
  <1>5. QED BY <1>2, <1>3, <1>4, EndSteps

\* Where a COMPLETED row and its file come from.
LEMMA StaysCompleted ==
  ASSUME TypeInv, CopyInv, Calm, NEW w \in Workers, Steps(w), NEW s \in Sources \ overlap',
         row'[s].status = "completed", s \in Urls \/ disk'[s] # 0, ~ChatGone(s)'
  PROVE  \/ /\ Complete(w) /\ s = job[w].src /\ job[w].got \in Doc
            /\ row'[s].embedder = job[w].got.embedder
            /\ UNCHANGED <<points, collection, embedder>>
         \/ /\ row[s].status = "completed" /\ row'[s].embedder = row[s].embedder
            /\ s \in Urls \/ disk[s] # 0
            /\ ~ChatGone(s)
            /\ points'[s] = points[s] \/ Initialize(w)
  <1>1. s \in Sources \ overlap
    BY StepsDecent
  <1>2. ~ChatGone(s)
    BY CollectionChange DEF ChatGone
  <1>3. s = job[w].src => AtHand(job[w], s)
    BY <1>1 DEF Calm, Tended
  <1>4. CASE row'[s] # row[s]
    <2>1. CASE Abandon(w)
      BY <1>2, <1>3, <1>4, <2>1, RowChange DEF Abandon, At, AtHand
    <2>2. CASE ~Abandon(w)
      BY <1>4, <2>2, RowChange
    <2>3. QED BY <2>1, <2>2
  <1>5. CASE row'[s] = row[s]
    <2>1. ~(s = job[w].src /\ job[w].pc \in Underway)
      BY <1>3, <1>5 DEF AtHand
    <2>2. s \in Urls \/ disk[s] # 0
      <3>1. CASE disk'[s] = disk[s]
        BY <3>1
      <3>2. CASE disk'[s] # disk[s]
        <4>1. s \in Urls
          BY <2>1, <3>2, DiskChange DEF Underway
        <4>2. QED BY <4>1
      <3>3. QED BY <3>1, <3>2
    <2>3. ASSUME points'[s] # points[s] PROVE Initialize(w)
      <3>1. ASSUME s = job[w].src, job[w].pc = "rmpoints" PROVE FALSE
        <4>1. disk[s] = 0
          BY <1>3, <3>1 DEF AtHand
        <4>2. s \notin Urls
          BY <3>1 DEF Calm, Tended, Orderly, Removing
        <4>3. QED BY <2>2, <4>1, <4>2
      <3>2. QED BY <2>1, <2>3, <3>1, PointsChange
    <2>4. QED BY <1>2, <1>5, <2>2, <2>3
  <1>6. QED BY <1>4, <1>5

-----------------------------------------------------------------------------
(* One embedder: what holds until it is changed. *)

\* A document, where there is one, that names no embedder but the active one.
Ours(d) == d # None => d.embedder \in {None, embedder}

Pristine ==
  /\ collection = embedder
  /\ \A s \in Sources : row[s].embedder \in {None, embedder}
  /\ \A w \in Workers :
       /\ job[w].pc \notin {"collect", "init"} /\ job[w].emb \in {None, embedder}
       /\ Ours(job[w].got) /\ Ours(beat[w].got)

\* A COMPLETED row stands for vectors of its source.
Backed(s) ==
  row[s].status = "completed" /\ (s \in Urls \/ disk[s] # 0) /\ ~ChatGone(s) => Stored(s)

\* The inductive strengthening of CompletedIsStored, next to what Calm says.
Firm ==
  switches = 0 =>
    /\ Pristine
    /\ \A s \in Sources \ overlap : Backed(s)
    /\ \A w \in Workers :
         job[w].pc \in {"check", "complete"} /\ job[w].src \in Sources \ overlap => Stored(job[w].src)

LEMMA PristineStep ==
  ASSUME TypeInv, CopyInv, Calm, Pristine, NEW w \in Workers, Steps(w),
         ~\E e \in Embedders : SwitchEmbedder(w, e)
  PROVE  Pristine' /\ ~Initialize(w)
  <1>1. embedder' = embedder
    BY WorkKeepsConfig
  <1>2. ~Initialize(w) /\ ~Collect(w)
    BY DEF Pristine, Initialize, Collect, At
  <1>3. collection' = embedder'
    BY <1>1, <1>2, CollectionChange DEF Pristine
  <1>4. ASSUME NEW s \in Sources PROVE row'[s].embedder \in {None, embedder}
    <2>1. CASE row'[s] = row[s]
      BY <2>1 DEF Pristine
    <2>2. CASE row'[s] # row[s]
      <3>1. RowSays(w, s)
        BY <2>2, RowChange
      <3>2. job[w].got \in Doc => job[w].got.embedder \in {None, embedder}
        BY NoneIsNoDoc DEF Pristine, Ours
      <3>3. job[w].emb \in {None, embedder}
        BY DEF Pristine
      <3>4. QED BY <3>1, <3>2, <3>3 DEF RowSays
    <2>3. QED BY <2>1, <2>2
  <1>5. ASSUME NEW v \in Workers \ {w}
        PROVE  /\ job'[v].pc \notin {"collect", "init"} /\ job'[v].emb \in {None, embedder}
               /\ job'[v].got # None => job'[v].got.embedder \in {None, embedder}
               /\ beat'[v].got # None => beat'[v].got.embedder \in {None, embedder}
    <2>1. job'[v] = job[v] /\ beat'[v] = beat[v]
      BY StepsDecent, BeatChange DEF OthersStay
    <2>2. QED BY <2>1 DEF Pristine, Ours
  <1>6. beat'[w].got # None => beat'[w].got.embedder \in {None, embedder}
    BY BeatChange DEF Pristine, Ours
  <1>7. /\ job'[w].pc \notin {"collect", "init"} /\ job'[w].emb \in {None, embedder}
        /\ job'[w].got # None => job'[w].got.embedder \in {None, embedder}
    <2>1. CASE Onward(w)
      <3>1. job'[w].pc \notin {"collect", "init"} /\ job'[w].emb \in {None, embedder}
        BY <1>2, <2>1 DEF Onward, Pristine
      <3>2. CASE job'[w].got \in {None, job[w].got}
        BY <3>1, <3>2 DEF Pristine, Ours
      <3>3. CASE job[w].src \in Sources /\ job'[w].got = row[job[w].src]
        BY <3>1, <3>3 DEF Pristine
      <3>4. QED BY <2>1, <3>1, <3>2, <3>3 DEF Onward
    <2>2. CASE Turns(w)
      BY <2>2 DEF Turns, Pristine, Ours
    <2>3. CASE Begins(w)
      BY <2>3 DEF Begins
    <2>4. CASE Ends(w)
      BY <2>4, EndsIdle
    <2>5. QED BY <2>1, <2>2, <2>3, <2>4, StepsOn
  <1>8. QED BY <1>1, <1>2, <1>3, <1>4, <1>5, <1>6, <1>7 DEF Pristine, Ours

LEMMA FirmStep ==
  ASSUME TypeInv, TypeInv', CopyInv, Calm, Resolves, Firm, switches = 0, NEW w \in Workers, Steps(w),
         ~\E e \in Embedders : SwitchEmbedder(w, e)
  PROVE  Firm'
  <1>1. Pristine
    BY DEF Firm
  <1>2. Pristine' /\ ~Initialize(w)
    BY <1>1, PristineStep
  <1>3. ASSUME NEW v \in Workers, NEW s, job'[v].src = s, job'[v].pc \in {"check", "complete"},
               s \in Sources \ overlap'
        PROVE  Stored(s)'
    <2>1. s \in Sources \ overlap
      BY <1>3, StepsDecent
    <2>2. CASE v = w
      <3>1. CASE job[w].pc \in {"check", "complete"} /\ points' = points
        <4>1. Stored(s)
          BY <1>3, <2>1, <2>2, <3>1, EndChange DEF Firm
        <4>2. QED BY <3>1, <4>1 DEF Stored
      <3>2. CASE ~(job[w].pc \in {"check", "complete"} /\ points' = points)
        <4>1. /\ job[w].pc = "add" /\ job[w].src = s
              /\ Len(points'[s]) = 1 /\ points'[s][1].embedder = job[w].emb
          BY <1>3, <2>2, <3>2, EndChange
        <4>2. job[w].emb # None
          BY <4>1, NoneAssumption DEF Resolves, Resolved
        <4>3. QED BY <4>1, <4>2 DEF Stored
      <3>3. QED BY <3>1, <3>2
    <2>3. CASE v # w
      <3>1. job'[v] = job[v]
        BY <2>3, StepsDecent DEF OthersStay
      <3>2. WorksOn(v, s)
        BY <1>3, <3>1 DEF WorksOn, Busy, Writes
      <3>3. points'[s] = points[s]
        BY <1>2, <1>3, <2>3, <3>2, Undisturbed
      <3>4. Stored(s)
        BY <1>3, <2>1, <3>1 DEF Firm
      <3>5. QED BY <3>3, <3>4 DEF Stored
    <2>4. QED BY <2>2, <2>3
  <1>4. ASSUME NEW s \in Sources \ overlap', row'[s].status = "completed", s \in Urls \/ disk'[s] # 0,
               ~ChatGone(s)'
        PROVE  Stored(s)'
    <2>1. s \in Sources \ overlap
      BY StepsDecent
    <2>2. CASE Complete(w) /\ s = job[w].src /\ points' = points
      <3>1. job[w].pc = "complete"
        BY <2>2 DEF Complete, At
      <3>2. Stored(s)
        BY <2>1, <2>2, <3>1 DEF Firm
      <3>3. QED BY <2>2, <3>2 DEF Stored
    <2>3. CASE /\ row[s].status = "completed"
               /\ s \in Urls \/ disk[s] # 0
               /\ ~ChatGone(s) /\ points'[s] = points[s]
      <3>1. Stored(s)
        BY <2>1, <2>3 DEF Firm, Backed
      <3>2. QED BY <2>3, <3>1 DEF Stored
    <2>4. QED BY <1>2, <1>4, <2>2, <2>3, StaysCompleted
  <1>5. QED BY <1>2, <1>3, <1>4 DEF Firm, Backed

-----------------------------------------------------------------------------
(* What the heartbeats, time and the chunker do. *)

Outside ==
  /\ UNCHANGED <<disk, points, collection, chats, embedder, job, overlap>>
  /\ \A s \in Sources :
       /\ row'[s].status \in {row[s].status, "processing"}
       /\ \/ row'[s].embedder = row[s].embedder
          \/ /\ row'[s].status = "processing"
             /\ \E u \in Workers : /\ beat[u].at # "off" /\ beat[u].src = s /\ beat[u].got \in Doc
                                   /\ row'[s].embedder = beat[u].got.embedder
  /\ \A u \in Workers :
       /\ beat'[u].at # "off" => beat[u].at # "off" /\ beat'[u].src = beat[u].src
       /\ \/ beat'[u].got \in {None, beat[u].got}
          \/ beat[u].at # "off" /\ beat[u].src \in Sources /\ beat'[u].got = row[beat[u].src]

LEMMA HeartbeatOutside ==
  ASSUME TypeInv, NEW w \in Workers, Heartbeat(w)
  PROVE  Outside
  <1>1. /\ beat \in [Workers -> Beat] /\ beat[w].at # "off" /\ beat[w].src \in Sources
        /\ beat[w] \in Beat
    BY DEF TypeInv, ProcOK, BeatFilled, Heartbeat, BeatGet, BeatRead, BeatStore
  <1>2. ASSUME NEW b, beat' = [beat EXCEPT ![w] = b]
        PROVE  beat'[w] = b /\ \A u \in Workers \ {w} : beat'[u] = beat[u]
    BY <1>1, <1>2
  <1>3. UNCHANGED <<disk, points, collection, chats, embedder, job, overlap>>
    BY DEF Heartbeat, BeatGet, BeatRead, BeatStore, stores, config, history
  <1>4. CASE BeatGet(w)
    <2> DEFINE b == [beat[w] EXCEPT !.at = "due"]
    <2>1. b.got = beat[w].got /\ b.src = beat[w].src
      BY <1>1 DEF Beat
    <2>2. beat' = [beat EXCEPT ![w] = IF row[beat[w].src].status = "processing" THEN b ELSE NoBeat]
      BY <1>4 DEF BeatGet
    <2> HIDE DEF b
    <2>3. beat'[w] \in {b, NoBeat} /\ \A u \in Workers \ {w} : beat'[u] = beat[u]
      BY <1>1, <2>2
    <2>4. row' = row
      BY <1>4 DEF BeatGet, stores
    <2>5. NoBeat.at = "off" /\ NoBeat.got = None
      BY DEF NoBeat
    <2>6. \A u \in Workers :
            /\ beat'[u].at # "off" => beat[u].at # "off" /\ beat'[u].src = beat[u].src
            /\ beat'[u].got \in {None, beat[u].got}
      BY <1>1, <2>1, <2>3, <2>5
    <2>7. QED BY <1>3, <2>4, <2>6 DEF Outside
  <1>5. CASE BeatRead(w)
    <2> DEFINE b == [[beat[w] EXCEPT !.at = "merge"] EXCEPT !.got = row[beat[w].src]]
    <2>1. b.got = row[beat[w].src] /\ b.src = beat[w].src
      BY <1>1 DEF Beat
    <2>2. beat' = [beat EXCEPT ![w] = b]
      BY <1>1, <1>5 DEF BeatRead
    <2> HIDE DEF b
    <2>3. beat'[w] = b /\ \A u \in Workers \ {w} : beat'[u] = beat[u]
      BY <1>2, <2>2
    <2>4. row' = row
      BY <1>5 DEF BeatRead, stores
    <2>5. QED BY <1>1, <1>3, <2>1, <2>3, <2>4 DEF Outside
  <1>6. CASE BeatStore(w)
    <2> DEFINE b == [[beat[w] EXCEPT !.at = "asleep"] EXCEPT !.got = None]
               doc == SetStatus(beat[w].got, "processing")
    <2>1. b.got = None /\ b.src = beat[w].src
      BY <1>1 DEF Beat
    <2>2. beat' = [beat EXCEPT ![w] = b]
      BY <1>1, <1>6 DEF BeatStore
    <2>3. beat[w].got \in Doc
      BY <1>6 DEF BeatStore, TypeInv, ProcOK, BeatFilled
    <2>4. doc.status = "processing" /\ doc.embedder = beat[w].got.embedder
      BY <2>3 DEF SetStatus, Doc
    <2>5. row' = [row EXCEPT ![beat[w].src] = doc]
      BY <1>6 DEF BeatStore
    <2> HIDE DEF b, doc
    <2>6. beat'[w] = b /\ \A u \in Workers \ {w} : beat'[u] = beat[u]
      BY <1>2, <2>2
    <2>7. row'[beat[w].src] = doc /\ \A s \in Sources \ {beat[w].src} : row'[s] = row[s]
      BY <1>1, <2>5 DEF TypeInv, StoresOK
    <2>8. \A u \in Workers :
            /\ beat'[u].at # "off" => beat[u].at # "off" /\ beat'[u].src = beat[u].src
            /\ beat'[u].got \in {None, beat[u].got}
      BY <1>1, <2>1, <2>6
    <2>9. QED BY <1>1, <1>3, <2>3, <2>4, <2>7, <2>8 DEF Outside
  <1>7. QED BY <1>4, <1>5, <1>6 DEF Heartbeat

LEMMA EnvironmentOutside ==
  ASSUME TypeInv, Environment \/ UNCHANGED vars
  PROVE  Outside
  <1>1. UNCHANGED <<disk, points, collection, chats, embedder, job, overlap, beat>>
    BY DEF Environment, Age, LockExpires, SweepLockExpires, SwitchChunker, vars, stores, config, proc, history
  <1>2. \A s \in Sources : row'[s].status = row[s].status /\ row'[s].embedder = row[s].embedder
    <2>1. CASE row' = row
      BY <2>1
    <2>2. CASE row' # row
      <3>1. PICK x \in Sources : Age(x)
        BY <2>2 DEF Environment, LockExpires, SweepLockExpires, SwitchChunker, vars, stores
      <3> DEFINE doc == [row[x] EXCEPT !.stale = TRUE]
      <3>2. row[x] \in Doc /\ row' = [row EXCEPT ![x] = doc]
        BY <3>1 DEF Age, TypeInv, StoresOK
      <3>3. doc.status = row[x].status /\ doc.embedder = row[x].embedder
        BY <3>2 DEF Doc
      <3> HIDE DEF doc
      <3>4. QED BY <3>2, <3>3 DEF TypeInv, StoresOK
    <2>3. QED BY <2>1, <2>2
  <1>3. QED BY <1>1, <1>2 DEF Outside

LEMMA OutsideSettles ==
  ASSUME TypeInv, Calm, BeatOwn, Outside
  PROVE  Calm' /\ BeatOwn'
  <1>1. Calm'
    BY OutsideCalm DEF Outside
  <1>2. BeatOwn'
    BY DEF BeatOwn, Outside
  <1>3. QED BY <1>1, <1>2

LEMMA OutsideFirm ==
  ASSUME TypeInv, Firm, Outside, switches' = 0 => switches = 0
  PROVE  Firm'
  <1> SUFFICES ASSUME switches' = 0 PROVE Firm'
    BY DEF Firm
  <1>1. switches = 0 /\ Pristine
    BY DEF Firm
  <1>2. Pristine'
    <2>1. ASSUME NEW s \in Sources PROVE row'[s].embedder \in {None, embedder}
      <3>1. CASE row'[s].embedder = row[s].embedder
        BY <1>1, <3>1 DEF Pristine
      <3>2. ASSUME NEW u \in Workers, beat[u].got \in Doc, row'[s].embedder = beat[u].got.embedder
            PROVE  row'[s].embedder \in {None, embedder}
        BY <1>1, <3>2, NoneIsNoDoc DEF Pristine, Ours
      <3>3. QED BY <3>1, <3>2 DEF Outside
    <2>2. ASSUME NEW u \in Workers, beat'[u].got # None PROVE beat'[u].got.embedder \in {None, embedder}
      <3>1. CASE beat'[u].got \in {None, beat[u].got}
        BY <1>1, <2>2, <3>1 DEF Pristine, Ours
      <3>2. CASE beat[u].src \in Sources /\ beat'[u].got = row[beat[u].src]
        BY <1>1, <3>2 DEF Pristine
      <3>3. QED BY <3>1, <3>2 DEF Outside
    <2>3. UNCHANGED <<collection, embedder, job>>
      BY DEF Outside
    <2>4. QED BY <1>1, <2>1, <2>2, <2>3 DEF Pristine, Ours
  <1>3. ASSUME NEW s \in Sources \ overlap' PROVE Backed(s)'
    <2>1. s \in Sources \ overlap /\ Backed(s) /\ UNCHANGED <<disk, points, chats>>
      BY <1>1 DEF Firm, Outside
    <2>2. row'[s].status = "completed" => row[s].status = "completed"
      BY DEF Outside
    <2>3. QED BY <2>1, <2>2 DEF Backed, Stored, ChatGone
  <1>4. UNCHANGED <<points, job, overlap>>
    BY DEF Outside
  <1>5. QED BY <1>1, <1>2, <1>3, <1>4 DEF Firm, Stored

-----------------------------------------------------------------------------
(* Two embedders of different sizes: what holds across a re-embed pass. *)

\* A document, where there is one, that does not name the active embedder.
Other(d) == d # None => d.embedder # embedder

\* A job that has embedded, or will embed, with another embedder than the active one.
Late(j) == (j.kind = "ingest" \/ j.pc \in Vectoring) /\ j.emb # None /\ j.emb # embedder

\* What a late job finds, has read or will find does not name the active embedder.
Lagging(w) ==
  job[w].src \in Sources \ overlap /\ Late(job[w]) =>
    /\ row[job[w].src].embedder # embedder
    /\ Other(job[w].got)
    /\ job[w].kind = "ingest" => Other(beat[w].got)

Embeds(s) == Len(points[s]) = 1 /\ points[s][1].embedder = collection

\* At the end of a pass over a source its vectors are in a collection of its
\* embedder, or the collection has been dropped; in the collection of an embedder
\* that is no longer active, only what that one has embedded comes to an end.
Ending(w) ==
  job[w].pc \in {"check", "complete"} =>
    /\ embedder # collection => job[w].emb = collection
    /\ job[w].src \in Sources \ overlap /\ job[w].emb = collection => Embeds(job[w].src)

\* A COMPLETED row that names the embedder of the collection is backed there; until
\* the collection is the active embedder's, no COMPLETED row names that one.
Named(s) ==
  row[s].status = "completed" /\ (s \in Urls \/ disk[s] # 0) /\ ~ChatGone(s) =>
    /\ row[s].embedder = collection => Embeds(s)
    /\ embedder # collection => row[s].embedder # embedder

Latest == \A w \in Workers : job[w].pc = "init" => job[w].emb = embedder

\* The inductive strengthening of CompletedIsEmbedded, next to what Calm and
\* Firm say.
Across ==
  /\ switches <= MaxSwitches
  /\ Latest
  /\ \A w \in Workers : Lagging(w) /\ Ending(w)
  /\ \A s \in Sources \ overlap : Named(s)

\* The vector sizes tell the embedders apart.
Sized == \A e, f \in Embedders : Dim[e] = Dim[f] => e = f

\* A late job has its source for itself.
LEMMA LateWorks ==
  ASSUME NEW w \in Workers, Late(job[w])
  PROVE  WorksOn(w, job[w].src)
  BY DEF Late, WorksOn, Vectoring, Busy, Writes

LEMMA LaggingOwn ==
  ASSUME TypeInv, CopyInv, Calm, NEW w \in Workers, Lagging(w), Steps(w), embedder' = embedder
  PROVE  Lagging(w)'
  <1> SUFFICES ASSUME job'[w].src \in Sources \ overlap', Late(job[w])'
               PROVE  /\ row'[job'[w].src].embedder # embedder
                      /\ job'[w].got # None => job'[w].got.embedder # embedder
                      /\ job'[w].kind = "ingest" /\ beat'[w].got # None => beat'[w].got.embedder # embedder
    BY DEF Lagging, Other
  <1>1. /\ job'[w].kind = "ingest" \/ job'[w].pc \in Vectoring
        /\ job'[w].emb # None /\ job'[w].emb # embedder
    BY DEF Late
  <1>2. overlap \subseteq overlap'
    BY StepsDecent
  <1>3. beat'[w].got \in {None, beat[w].got}
    BY BeatChange
  <1>4. embedder \in Embedders /\ None \notin Embedders
    BY NoneAssumption DEF TypeInv, ConfigOK
  <1>5. CASE Onward(w)
    <2>1. job'[w].kind = job[w].kind /\ job'[w].src = job[w].src /\ job'[w].emb = job[w].emb
      BY <1>1, <1>5 DEF Onward
    <2>2. CASE Late(job[w])
      <3>1. /\ row[job[w].src].embedder # embedder
            /\ job[w].got # None => job[w].got.embedder # embedder
            /\ job[w].kind = "ingest" /\ beat[w].got # None => beat[w].got.embedder # embedder
        BY <1>2, <2>1, <2>2 DEF Lagging, Other
      <3>2. row'[job[w].src].embedder # embedder
        <4>1. CASE row'[job[w].src] = row[job[w].src]
          BY <3>1, <4>1
        <4>2. CASE row'[job[w].src] # row[job[w].src]
          <5>1. RowSays(w, job[w].src)
            BY <2>1, <4>2, RowChange
          <5>2. job[w].got \in Doc => job[w].got.embedder # embedder
            BY <3>1, NoneIsNoDoc
          <5>3. QED BY <1>1, <1>4, <2>1, <5>1, <5>2 DEF RowSays
        <4>3. QED BY <4>1, <4>2
      <3>3. job'[w].got # None => job'[w].got.embedder # embedder
        BY <1>5, <3>1 DEF Onward
      <3>4. QED BY <1>3, <2>1, <3>1, <3>2, <3>3
    <2>3. CASE ~Late(job[w])
      <3>1. job[w].kind # "ingest" /\ Embedding(w)
        BY <1>1, <1>5, <2>1, <2>3 DEF Late, Onward
      <3>2. job[w].got \in Doc /\ \E pc : Write(w, SetEmbedding(job[w].got, job[w].emb), pc)
        BY <3>1, HeldDoc DEF Embedding, Write, TypeInv
      <3>3. row' = [row EXCEPT ![job[w].src] = SetEmbedding(job[w].got, job[w].emb)]
        BY <3>2 DEF Write, Src
      <3>4. row'[job[w].src] = SetEmbedding(job[w].got, job[w].emb)
        BY <2>1, <3>3 DEF TypeInv, StoresOK
      <3>5. SetEmbedding(job[w].got, job[w].emb).embedder = job[w].emb
        BY <3>2 DEF SetEmbedding, SetPhase, SetStatus, Doc
      <3>6. job'[w].got = None
        BY <3>2, Wrote
      <3>7. QED BY <1>1, <2>1, <3>1, <3>4, <3>5, <3>6
    <2>4. QED BY <2>2, <2>3
  <1>6. CASE Turns(w)
    <2>1. /\ job'[w].kind = "ingest" /\ job'[w].src = job[w].src /\ job'[w].got = job[w].got
          /\ row' = row /\ Late(job[w])
      BY <1>1, <1>6 DEF Turns, Vectoring, Late, NextSource, OnlyJob, stores
    <2>2. QED BY <1>2, <1>3, <1>6, <2>1 DEF Lagging, Other, Turns
  <1>7. CASE Begins(w)
    BY <1>1, <1>7 DEF Begins
  <1>8. CASE Ends(w)
    BY <1>1, <1>8, EndsIdle
  <1>9. QED BY <1>5, <1>6, <1>7, <1>8, StepsOn

LEMMA LaggingOthers ==
  ASSUME TypeInv, CopyInv, Calm, NEW w \in Workers, Steps(w), embedder' = embedder,
         NEW v \in Workers \ {w}, Lagging(v)
  PROVE  Lagging(v)'
  <1>1. job'[v] = job[v] /\ beat'[v] = beat[v] /\ overlap \subseteq overlap'
    BY StepsDecent, BeatChange DEF OthersStay
  <1>2. ASSUME job[v].src \in Sources \ overlap', Late(job[v])
        PROVE  row'[job[v].src] = row[job[v].src]
    <2>1. WorksOn(v, job[v].src)
      BY <1>2, LateWorks
    <2>2. QED BY <1>2, <2>1, Undisturbed
  <1>3. QED BY <1>1, <1>2 DEF Lagging, Late, Other

LEMMA EndingOwn ==
  ASSUME TypeInv, CopyInv, Calm, Resolves, Sized, NEW w \in Workers, Ending(w), Steps(w),
         embedder' = embedder
  PROVE  Ending(w)'
  <1> SUFFICES ASSUME job'[w].pc \in {"check", "complete"}
               PROVE  /\ embedder # collection' => job'[w].emb = collection'
                      /\ job'[w].src \in Sources \ overlap' /\ job'[w].emb = collection' =>
                           /\ Len(points'[job'[w].src]) = 1
                           /\ points'[job'[w].src][1].embedder = collection'
    BY DEF Ending, Embeds
  <1>1. job'[w].src = job[w].src /\ job'[w].emb = job[w].emb /\ collection' = collection
    BY EndChange
  <1>2. CASE job[w].pc \in {"check", "complete"} /\ points' = points
    BY <1>1, <1>2, StepsDecent DEF Ending, Embeds
  <1>3. CASE ~(job[w].pc \in {"check", "complete"} /\ points' = points)
    <2>1. /\ job[w].pc = "add" /\ Dim[job[w].emb] = Dim[collection]
          /\ job[w].src \in Sources \ overlap' =>
               /\ Len(points'[job[w].src]) = 1
               /\ points'[job[w].src][1].embedder = job[w].emb
      BY <1>3, EndChange
    <2>2. job[w].emb \in Embedders /\ collection \in Embedders
      BY <2>1 DEF Resolves, Resolved, TypeInv, StoresOK
    <2>3. job[w].emb = collection
      BY <2>1, <2>2 DEF Sized
    <2>4. QED BY <1>1, <2>1, <2>3
  <1>4. QED BY <1>2, <1>3

\* The collection is made for the active embedder.
LEMMA Remade ==
  ASSUME Latest, NEW w \in Workers, Steps(w)
  PROVE  \/ collection' = collection /\ (Initialize(w) => points' = points)
         \/ collection' = embedder /\ collection # embedder
  <1>1. Initialize(w) => job[w].emb = embedder
    BY DEF Latest, Initialize, At
  <1>2. QED BY <1>1, CollectionChange

LEMMA EndingOthers ==
  ASSUME TypeInv, CopyInv, Calm, Latest, NEW w \in Workers, Steps(w), embedder' = embedder,
         NEW v \in Workers \ {w}, Ending(v)
  PROVE  Ending(v)'
  <1>1. job'[v] = job[v] /\ overlap \subseteq overlap'
    BY StepsDecent DEF OthersStay
  <1> SUFFICES ASSUME job[v].pc \in {"check", "complete"}
               PROVE  /\ embedder # collection' => job[v].emb = collection'
                      /\ job[v].src \in Sources \ overlap' /\ job[v].emb = collection' =>
                           /\ Len(points'[job[v].src]) = 1
                           /\ points'[job[v].src][1].embedder = collection'
    BY <1>1 DEF Ending, Embeds
  <1>2. CASE collection' = collection /\ (Initialize(w) => points' = points)
    <2>1. WorksOn(v, job[v].src)
      BY DEF WorksOn, Busy, Writes
    <2>2. job[v].src \in Sources \ overlap' => points'[job[v].src] = points[job[v].src]
      BY <1>2, <2>1, Undisturbed
    <2>3. QED BY <1>1, <1>2, <2>2 DEF Ending, Embeds
  <1>3. CASE collection' = embedder /\ collection # embedder
    <2>1. job[v].emb = collection
      BY <1>3 DEF Ending
    <2>2. QED BY <1>3, <2>1
  <1>4. QED BY <1>2, <1>3, Remade

LEMMA NamedStep ==
  ASSUME TypeInv, CopyInv, Calm, Resolves, Latest, NEW w \in Workers, Lagging(w), Ending(w), Steps(w),
         embedder' = embedder, NEW s \in Sources \ overlap', Named(s)
  PROVE  Named(s)'
  <1> SUFFICES ASSUME row'[s].status = "completed", s \in Urls \/ disk'[s] # 0, ~ChatGone(s)'
               PROVE  /\ row'[s].embedder = collection' =>
                           Len(points'[s]) = 1 /\ points'[s][1].embedder = collection'
                      /\ embedder # collection' => row'[s].embedder # embedder
    BY DEF Named, Embeds
  <1>1. s \in Sources \ overlap
    BY StepsDecent
  <1>2. CASE /\ Complete(w) /\ s = job[w].src /\ job[w].got \in Doc
             /\ row'[s].embedder = job[w].got.embedder
             /\ UNCHANGED <<points, collection, embedder>>
    <2>1. job[w].pc = "complete"
      BY <1>2 DEF Complete, At
    <2>2. job[w].emb \in Embedders
      BY <2>1 DEF Resolves, Resolved
    <2>3. job[w].emb # embedder => job[w].got.embedder # embedder
      <3>1. job[w].emb # embedder => Late(job[w])
        BY <2>1, <2>2, NoneAssumption DEF Late, Vectoring
      <3>2. QED BY <1>1, <1>2, <3>1, NoneIsNoDoc DEF Lagging, Other
    <2>4. /\ embedder # collection => job[w].emb = collection
          /\ job[w].emb = collection => Len(points[s]) = 1 /\ points[s][1].embedder = collection
      BY <1>1, <1>2, <2>1 DEF Ending, Embeds
    <2>5. QED BY <1>2, <2>3, <2>4
  <1>3. CASE /\ row[s].status = "completed" /\ row'[s].embedder = row[s].embedder
             /\ s \in Urls \/ disk[s] # 0
             /\ ~ChatGone(s)
             /\ points'[s] = points[s] \/ Initialize(w)
    <2>1. /\ row[s].embedder = collection => Len(points[s]) = 1 /\ points[s][1].embedder = collection
          /\ embedder # collection => row[s].embedder # embedder
      BY <1>3 DEF Named, Embeds
    <2>2. QED BY <1>3, <2>1, Remade
  <1>4. QED BY <1>2, <1>3, StaysCompleted

LEMMA LatestStep ==
  ASSUME TypeInv, CopyInv, Latest, NEW w \in Workers, Steps(w), embedder' = embedder
  PROVE  Latest'
  <1>1. job'[w].pc = "init" => job'[w].emb = embedder
    <2>1. CASE Onward(w)
      BY <2>1 DEF Onward
    <2>2. CASE Turns(w) \/ Begins(w)
      BY <2>2 DEF Turns, Begins
    <2>3. CASE Ends(w)
      BY <2>3, EndsIdle
    <2>4. QED BY <2>1, <2>2, <2>3, StepsOn
  <1>2. QED BY <1>1, StepsDecent DEF Latest, OthersStay

LEMMA AcrossStep ==
  ASSUME TypeInv, CopyInv, Calm, Resolves, Sized, Across, NEW w \in Workers, Steps(w),
         ~\E e \in Embedders : SwitchEmbedder(w, e)
  PROVE  Across'
  <1>1. switches' = switches /\ embedder' = embedder
    BY WorkKeepsConfig
  <1>2. Latest'
    BY <1>1, LatestStep DEF Across
  <1>3. ASSUME NEW v \in Workers PROVE Lagging(v)' /\ Ending(v)'
    <2>1. CASE v = w
      BY <1>1, <2>1, LaggingOwn, EndingOwn DEF Across
    <2>2. CASE v # w
      BY <1>1, <2>2, LaggingOthers, EndingOthers DEF Across
    <2>3. QED BY <2>1, <2>2
  <1>4. ASSUME NEW s \in Sources \ overlap' PROVE Named(s)'
    <2>1. Named(s)
      BY StepsDecent DEF Across
    <2>2. QED BY <1>1, <2>1, NamedStep DEF Across
  <1>5. QED BY <1>1, <1>2, <1>3, <1>4 DEF Across

\* The first change of the embedder finds one embedder everywhere.
LEMMA SwitchAcross ==
  ASSUME TypeInv, TypeInv', CopyInv, Calm, Resolves, Firm, Across, MaxSwitches <= 1,
         NEW w \in Workers, NEW e \in Embedders, SwitchEmbedder(w, e)
  PROVE  Across'
  <1>1. /\ switches < MaxSwitches /\ switches' = switches + 1 /\ embedder' = e /\ e # embedder
        /\ UNCHANGED <<row, disk, points, collection, chats, beat, overlap>>
    BY DEF SwitchEmbedder, stores, proc, history
  <1>2. switches = 0 /\ switches' <= MaxSwitches
    BY <1>1, BoundsAssumption DEF TypeInv, ConfigOK
  <1>3. Pristine
    BY <1>2 DEF Firm
  <1>4. embedder \in Embedders /\ None \notin Embedders
    BY NoneAssumption DEF TypeInv, ConfigOK
  <1>5. Begins(w) /\ job'[w].pc = "collect"
    <2>1. Begin(w, "run", "collect", None)
      BY DEF SwitchEmbedder
    <2>2. job'[w].pc = "collect"
      BY <2>1 DEF Begin, Idle, TypeInv, JobsOK
    <2>3. QED BY <2>2, RequestBegins DEF Request
  <1>6. OthersStay(w)
    BY StepsDecent DEF Steps, Request
  <1>7. Latest'
    BY <1>3, <1>5, <1>6 DEF Latest, Pristine, OthersStay
  <1>8. ASSUME NEW v \in Workers PROVE Lagging(v)'
    <2>1. CASE v = w
      BY <1>5, <2>1 DEF Begins, Lagging, Late
    <2>2. CASE v # w
      <3>1. job'[v] = job[v]
        BY <1>6, <2>2 DEF OthersStay
      <3>2. \A s \in Sources : row'[s].embedder # embedder'
        BY <1>1, <1>3, <1>4 DEF Pristine
      <3>3. /\ job'[v].got # None => job'[v].got.embedder # embedder'
            /\ beat'[v].got # None => beat'[v].got.embedder # embedder'
        BY <1>1, <1>3, <1>4, <3>1 DEF Pristine, Ours
      <3>4. QED BY <3>2, <3>3 DEF Lagging, Other
    <2>3. QED BY <2>1, <2>2
  <1>9. ASSUME NEW v \in Workers PROVE Ending(v)'
    <2>1. CASE v = w
      BY <1>5, <2>1 DEF Ending
    <2>2. CASE v # w
      <3>1. job'[v] = job[v]
        BY <1>6, <2>2 DEF OthersStay
      <3>2. job[v].pc \in {"check", "complete"} => job[v].emb = collection
        BY <1>3, NoneAssumption DEF Resolves, Resolved, Pristine
      <3>3. QED BY <1>1, <3>1, <3>2 DEF Ending, Embeds, Across
    <2>3. QED BY <2>1, <2>2
  <1>10. ASSUME NEW s \in Sources \ overlap' PROVE Named(s)'
    <2>1. Named(s) /\ row[s].embedder \in {None, embedder}
      BY <1>1, <1>3 DEF Across, Pristine
    <2>2. QED BY <1>1, <1>4, <2>1 DEF Named, Embeds, ChatGone
  <1>11. QED BY <1>2, <1>7, <1>8, <1>9, <1>10 DEF Across

LEMMA OutsideAcross ==
  ASSUME TypeInv, CopyInv, BeatOwn, Across, Outside, switches' <= MaxSwitches
  PROVE  Across'
  <1>1. UNCHANGED <<disk, points, collection, chats, embedder, job, overlap>>
    BY DEF Outside
  <1>2. Latest'
    BY <1>1 DEF Latest, Across
  <1>3. ASSUME NEW v \in Workers PROVE Ending(v)'
    BY <1>1 DEF Ending, Embeds, Across
  <1>4. ASSUME NEW s \in Sources \ overlap' PROVE Named(s)'
    <2>1. Named(s)
      BY <1>1 DEF Across
    <2>2. row'[s].status = "completed" => row[s].status = "completed" /\ row'[s].embedder = row[s].embedder
      BY DEF Outside
    <2>3. QED BY <1>1, <2>1, <2>2 DEF Named, Embeds, ChatGone
  <1>5. ASSUME NEW v \in Workers PROVE Lagging(v)'
    <2> DEFINE s == job[v].src
    <2> SUFFICES ASSUME s \in Sources \ overlap, Late(job[v])
                 PROVE  /\ row'[s].embedder # embedder
                        /\ job[v].kind = "ingest" /\ beat'[v].got # None =>
                             beat'[v].got.embedder # embedder
      BY <1>1 DEF Lagging, Late, Other, Across
    <2>1. /\ row[s].embedder # embedder
          /\ job[v].kind = "ingest" /\ beat[v].got # None => beat[v].got.embedder # embedder
      BY DEF Lagging, Other, Across
    <2>2. row'[s].embedder # embedder
      <3>1. CASE row'[s].embedder = row[s].embedder
        BY <2>1, <3>1
      <3>2. ASSUME NEW u \in Workers, beat[u].at # "off", beat[u].src = s, beat[u].got \in Doc,
                   row'[s].embedder = beat[u].got.embedder
            PROVE  row'[s].embedder # embedder
        <4>1. job[u].kind = "ingest" /\ WorksOn(u, s)
          BY <3>2 DEF BeatOwn, WorksOn
        <4>2. u = v
          BY <4>1, LateWorks DEF CopyInv, Alone
        <4>3. QED BY <2>1, <3>2, <4>1, <4>2, NoneIsNoDoc
      <3>3. QED BY <3>1, <3>2 DEF Outside
    <2>3. ASSUME job[v].kind = "ingest", beat'[v].got # None
          PROVE  beat'[v].got.embedder # embedder
      <3>1. CASE beat'[v].got \in {None, beat[v].got}
        BY <2>1, <2>3, <3>1
      <3>2. CASE beat[v].at # "off" /\ beat'[v].got = row[beat[v].src]
        BY <2>1, <3>2 DEF BeatOwn
      <3>3. QED BY <3>1, <3>2 DEF Outside
    <2>4. QED BY <2>2, <2>3
  <1>6. QED BY <1>2, <1>3, <1>4, <1>5 DEF Across

-----------------------------------------------------------------------------
(* One worker: what a re-embed pass leaves behind. *)

Sure(s) == row[s].status = "completed" /\ (s \in Urls \/ disk[s] # 0) /\ ~ChatGone(s)

Todo(w) == {t[1] : t \in job[w].todo}

\* The pass will still replace, or is about to replace, the COMPLETED row of s.
Due(w, s) ==
  /\ job[w].kind = "run"
  /\ s \in Todo(w) \/ (job[w].src = s /\ job[w].pc \in {"decide", "claim", "claimed"})

\* A COMPLETED row is backed, or due and recognisably of another embedder.
Kept(w, s) == Sure(s) => Stored(s) \/ (Due(w, s) /\ row[s].embedder # embedder)

\* Nobody else holds a claim.
Unlocked(w) ==
  \A s \in Sources : lock[s] # None => lock[s] = w /\ job[w].pc = "claimed" /\ job[w].src = s

\* A job of the only worker works with the active embedder.
Current(w) == job[w].emb \in {None, embedder}

SweepsFile(w) == job[w].pc \in {"file", "missing"} => job[w].kind = "sweep"

Ended(w) ==
  job[w].pc \in {"check", "complete"} /\ job[w].src \in Sources \ overlap => Stored(job[w].src)

\* A pass stops when everything is done, and claims what the decision saw completed.
Finishes(w) ==
  job[w].kind = "run" =>
    /\ job[w].pc = "stop" => job[w].todo = {}
    /\ job[w].pc = "claim" /\ row[job[w].src].status = "completed" => job[w].redo

\* Before the collection is dropped, every COMPLETED row is backed, then listed.
Listed(w) ==
  /\ job[w].pc \in {"collect", "init"} =>
       job[w].kind = "run" /\ \A s \in Sources : row[s].embedder # embedder
  /\ job[w].pc = "collect" => \A s \in Sources \ overlap : Backed(s)
  /\ job[w].pc = "init" => \A s \in Sources \ overlap : Sure(s) => s \in Todo(w)

Passing(w) ==
  /\ Unlocked(w) /\ Current(w) /\ SweepsFile(w) /\ Ended(w) /\ Finishes(w) /\ Listed(w)
  /\ \A s \in Sources \ overlap : Kept(w, s)

\* The steps that can only be taken at one place.
LEMMA TakenAt ==
  ASSUME NEW w \in Workers, Steps(w)
  PROVE  /\ job[w].pc = "decide" => Decide(w) \/ Crash(w)
         /\ job[w].pc = "claim" => Claim(w) \/ ClaimTimeout(w) \/ Crash(w)
         /\ job[w].pc = "claimed" => Claimed(w) \/ Crash(w)
  <1>1. ASSUME \/ ReadExisting(w) \/ Start(w) \/ Save(w) \/ Processing(w)
               \/ Scan(w) \/ NextSource(w) \/ Reuse(w) \/ Abandon(w) \/ Embedding(w) \/ Parsing(w)
               \/ Clear(w) \/ Downloading(w) \/ Download(w) \/ Downloaded(w) \/ Parse(w) \/ Store(w)
        PROVE  job[w].pc \notin {"decide", "claim", "claimed"}
    BY <1>1 DEF ReadExisting, Start, Save, Processing, Scan, NextSource, Reuse, Abandon, Embedding,
                Parsing, Clear, Downloading, Download, Downloaded, Parse, Store, At, Writes
  <1>2. ASSUME \/ Embed(w) \/ Remove(w) \/ Add(w) \/ Check(w) \/ Complete(w) \/ Error(w) \/ Stop(w)
               \/ SweepFile(w) \/ Missing(w) \/ Collect(w) \/ Initialize(w)
               \/ RemoveFile(w) \/ RemovePoints(w) \/ DeleteRow(w) \/ DeleteChat(w) \/ Reconcile(w)
        PROVE  job[w].pc \notin {"decide", "claim", "claimed"}
    BY <1>2 DEF Embed, Remove, Add, Check, Complete, Error, Stop, SweepFile, Missing, Collect,
                Initialize, RemoveFile, RemovePoints, DeleteRow, DeleteChat, Reconcile, At
  <1>3. ASSUME Sweep(w) \/ Request(w)
        PROVE  job[w].pc \notin {"decide", "claim", "claimed"}
    BY <1>3 DEF Sweep, StartSweep, Request, StartIngest, StartDelete, StartForget, StartDismiss,
                StartReconcile, SwitchEmbedder, Begin, At
  <1>4. /\ Decide(w) => job[w].pc = "decide"
        /\ Claim(w) \/ ClaimTimeout(w) => job[w].pc = "claim"
        /\ Claimed(w) => job[w].pc = "claimed"
    BY DEF Decide, Claim, ClaimTimeout, Claimed, At
  <1>5. QED BY <1>1, <1>2, <1>3, <1>4 DEF Steps, Work

\* Who changes a lock or counts a failure.
LEMMA LockChange ==
  ASSUME NEW w \in Workers, Steps(w)
  PROVE  /\ lock' = lock \/ Claim(w) \/ Claimed(w)
         /\ faults' = faults \/ faults' = faults + 1
         /\ Crash(w) => faults' = faults + 1
  <1>1. CASE \/ ReadExisting(w) \/ Start(w) \/ Save(w) \/ Processing(w)
             \/ Scan(w) \/ NextSource(w) \/ Decide(w) \/ ClaimTimeout(w)
             \/ Reuse(w) \/ Abandon(w) \/ Embedding(w) \/ Parsing(w) \/ Clear(w)
    <2>1. lock' = lock /\ (faults' = faults \/ faults' = faults + 1)
      BY <1>1 DEF ReadExisting, Start, Save, Processing, Scan, NextSource, Decide, ClaimTimeout, Reuse,
                  Abandon, Embedding, Parsing, Clear, OnlyJob, OnlyRow, OnlyPoints, OnlyOverlap, locks,
                  history, Fail
    <2>2. QED BY <2>1 DEF Crash, Fail
  <1>2. CASE \/ Downloading(w) \/ Download(w) \/ Downloaded(w) \/ Parse(w) \/ Store(w)
             \/ Embed(w) \/ Remove(w) \/ Add(w) \/ Check(w) \/ Complete(w) \/ Error(w) \/ Stop(w)
    <2>1. lock' = lock /\ (faults' = faults \/ faults' = faults + 1)
      BY <1>2 DEF Downloading, Download, Downloaded, Parse, Store, Embed, Remove, Add, Check, Complete,
                  Error, Stop, OnlyJob, OnlyRow, OnlyPoints, OnlyFaults, locks, history, Fail
    <2>2. QED BY <2>1 DEF Crash, Fail
  <1>3. CASE \/ SweepFile(w) \/ Missing(w) \/ Collect(w) \/ Initialize(w)
             \/ RemoveFile(w) \/ RemovePoints(w) \/ DeleteRow(w) \/ DeleteChat(w) \/ Reconcile(w)
    <2>1. lock' = lock /\ faults' = faults
      BY <1>3 DEF SweepFile, Missing, Collect, Initialize, RemoveFile, RemovePoints, DeleteRow,
                  DeleteChat, Reconcile, OnlyJob, OnlyRow, OnlyPoints, OnlyOverlap, locks, history
    <2>2. QED BY <2>1 DEF Crash, Fail
  <1>4. CASE Sweep(w) \/ Request(w)
    <2>1. lock' = lock /\ faults' = faults
      BY <1>4 DEF Sweep, StartSweep, Request, StartIngest, StartDelete, StartForget, StartDismiss,
                  StartReconcile, SwitchEmbedder, OnlyOverlap, locks, history
    <2>2. QED BY <2>1 DEF Crash, Fail
  <1>5. CASE Claim(w) \/ Claimed(w)
    <2>1. faults' = faults
      BY <1>5 DEF Claim, Claimed, history
    <2>2. QED BY <1>5, <2>1 DEF Crash, Fail
  <1>6. CASE Crash(w)
    BY <1>6 DEF Crash, Fail, locks
  <1>7. QED BY <1>1, <1>2, <1>3, <1>4, <1>5, <1>6 DEF Steps, Work

\* A pass keeps its list, but for the source it turns to.
LEMMA TodoKept ==
  ASSUME TypeInv, Calm, NEW w \in Workers, Steps(w), job[w].kind = "run", SweepsFile(w),
         ~Collect(w), ~NextSource(w), ~Stop(w), ~Crash(w)
  PROVE  job'[w].todo = job[w].todo /\ job'[w].kind = "run"
  <1>1. job[w] \in Job /\ job \in [Workers -> Job] /\ Orderly(job[w])
    BY HeldDoc DEF TypeInv, JobsOK, Calm, Tended
  <1>2. ASSUME NEW pc, Goto(w, pc) PROVE job'[w].todo = job[w].todo /\ job'[w].kind = "run"
    BY <1>1, <1>2 DEF Goto, Job
  <1>3. ASSUME NEW doc, NEW pc, Write(w, doc, pc)
        PROVE  job'[w].todo = job[w].todo /\ job'[w].kind = "run"
    BY <1>1, <1>3 DEF Write, Job
  <1>4. CASE \/ Start(w) \/ Processing(w) \/ Abandon(w) \/ Embedding(w) \/ Parsing(w) \/ Downloading(w)
             \/ Downloaded(w) \/ Complete(w) \/ Error(w) \/ Missing(w)
    <2>1. \E doc, pc : Write(w, doc, pc)
      BY <1>4 DEF Start, Processing, Abandon, Embedding, Parsing, Downloading, Downloaded, Complete,
                  Error, Missing
    <2>2. QED BY <1>3, <2>1
  <1>5. CASE \/ Save(w) \/ ClaimTimeout(w) \/ Reuse(w) \/ Clear(w) \/ Download(w) \/ Store(w)
             \/ Initialize(w) \/ RemoveFile(w) \/ RemovePoints(w) \/ Remove(w) \/ Check(w)
    <2>1. \E pc : Goto(w, pc)
      BY <1>5 DEF Save, ClaimTimeout, Reuse, Clear, Download, Store, Initialize, RemoveFile,
                  RemovePoints, Remove, Check
    <2>2. QED BY <1>2, <2>1
  <1>6. CASE ReadExisting(w) \/ Scan(w)
    BY <1>1, <1>6 DEF ReadExisting, Scan, Job
  <1>7. CASE Decide(w)
    BY <1>1, <1>7 DEF Decide, Job
  <1>8. CASE Claim(w) \/ Claimed(w)
    BY <1>1, <1>2, <1>8 DEF Claim, Claimed, Job
  <1>9. CASE Parse(w) \/ Embed(w) \/ Add(w)
    BY <1>1, <1>2, <1>9 DEF Parse, Embed, Add, Job
  <1>10. CASE SweepFile(w)
    BY <1>10 DEF SweepFile, At, SweepsFile
  <1>11. CASE DeleteRow(w) \/ DeleteChat(w) \/ Reconcile(w)
    BY <1>1, <1>11 DEF DeleteRow, DeleteChat, Reconcile, At, Orderly, Removing
  <1>12. CASE Sweep(w) \/ Request(w)
    BY <1>1, <1>12, RequestBegins DEF Begins, Orderly
  <1>13. QED
    BY <1>4, <1>5, <1>6, <1>7, <1>8, <1>9, <1>10, <1>11, <1>12 DEF Steps, Work

\* What the pass still has to replace stays due until its row is taken back.
LEMMA DueStays ==
  ASSUME TypeInv, CopyInv, Calm, Resolves, NEW w \in Workers, Passing(w), Steps(w), ~Crash(w), ~Collect(w),
         NEW s \in Sources, Sure(s), Due(w, s), row[s].embedder # embedder, row'[s].status = "completed"
  PROVE  Due(w, s)'
  <1>1. job[w].kind = "run" /\ SweepsFile(w) /\ Unlocked(w) /\ Finishes(w) /\ Current(w)
    BY DEF Due, Passing
  <1>2. job[w] \in Job /\ job \in [Workers -> Job]
    BY HeldDoc DEF TypeInv, JobsOK
  <1>3. CASE s \in Todo(w)
    <2>1. CASE NextSource(w)
      <3>1. job[w].todo # {}
        BY <1>3 DEF Todo
      <3>2. PICK t \in job[w].todo :
               job' = [job EXCEPT ![w] =
                         [@ EXCEPT !.todo = job[w].todo \ {t}, !.src = t[1], !.ver = t[2],
                                   !.pts = job[w].had[t[1]], !.had[t[1]] = <<>>,
                                   !.pc = "decide"]]
        BY <2>1, <3>1 DEF NextSource
      <3> DEFINE j == [job[w] EXCEPT !.todo = job[w].todo \ {t}, !.src = t[1], !.ver = t[2],
                                     !.pts = job[w].had[t[1]], !.had[t[1]] = <<>>,
                                     !.pc = "decide"]
      <3>3. /\ j.todo = job[w].todo \ {t} /\ j.src = t[1] /\ j.pc = "decide"
            /\ j.kind = job[w].kind
        BY <1>2 DEF Job
      <3>4. job' = [job EXCEPT ![w] = j]
        BY <3>2
      <3> HIDE DEF j
      <3>5. job'[w] = j
        BY <1>2, <3>4
      <3>6. CASE s = t[1]
        BY <1>1, <3>3, <3>5, <3>6 DEF Due
      <3>7. CASE s # t[1]
        <4>1. s \in {u[1] : u \in job[w].todo \ {t}}
          BY <1>3, <3>7 DEF Todo
        <4>2. QED BY <1>1, <3>3, <3>5, <4>1 DEF Due, Todo
      <3>8. QED BY <3>6, <3>7
    <2>2. CASE Stop(w)
      BY <1>1, <1>3, <2>2 DEF Stop, At, Finishes, Todo
    <2>3. CASE ~NextSource(w) /\ ~Stop(w)
      <3>1. job'[w].todo = job[w].todo /\ job'[w].kind = "run"
        BY <1>1, <2>3, TodoKept
      <3>2. QED BY <1>3, <3>1 DEF Due, Todo
    <2>4. QED BY <2>1, <2>2, <2>3
  <1>4. CASE job[w].src = s /\ job[w].pc = "decide"
    <2>1. Decide(w)
      BY <1>4, TakenAt
    <2>2. job[w].emb = embedder
      BY <1>1, <1>4, NoneAssumption DEF Current, Resolves, Resolved
    <2>3. ~UpToDate(row[s], job[w].emb, job[w].chk) /\ ~ChatGone(s) /\ row[s].status # "absent"
      BY <2>2 DEF UpToDate, Sure
    <2>4. job'[w].pc = "claim" /\ job'[w].src = s /\ job'[w].kind = "run"
      BY <1>1, <1>2, <1>4, <2>1, <2>3 DEF Decide, Job
    <2>5. QED BY <2>4 DEF Due
  <1>5. CASE job[w].src = s /\ job[w].pc = "claim"
    <2>1. ~ClaimTimeout(w)
      BY <1>1, <1>5 DEF ClaimTimeout, Unlocked, Src
    <2>2. Claim(w)
      BY <1>5, <2>1, TakenAt
    <2>3. Claimable(row[s], job[w].kind = "sweep", job[w].redo)
      BY <1>1, <1>5 DEF Claimable, Finishes, Sure
    <2>4. job' = [job EXCEPT ![w].pc = "claimed", ![w].got = row[s]]
      BY <1>5, <2>2, <2>3 DEF Claim
    <2>5. job'[w].pc = "claimed" /\ job'[w].src = s /\ job'[w].kind = "run"
      BY <1>1, <1>2, <1>5, <2>4 DEF Job
    <2>6. QED BY <2>5 DEF Due
  <1>6. CASE job[w].src = s /\ job[w].pc = "claimed"
    <2>1. Claimed(w)
      BY <1>6, TakenAt
    <2>2. job[w].got \in Doc
      BY <1>6, HeldDoc DEF TypeInv, Filled
    <2>3. SetStatus(job[w].got, "processing").status = "processing"
      BY <2>2 DEF SetStatus, Doc
    <2>4. row' = [row EXCEPT ![s] = SetStatus(job[w].got, "processing")]
      BY <1>6, <2>1 DEF Claimed, Src
    <2>5. row'[s] = SetStatus(job[w].got, "processing")
      BY <2>4 DEF TypeInv, StoresOK
    <2>6. QED BY <2>3, <2>5
  <1>7. QED BY <1>3, <1>4, <1>5, <1>6 DEF Due

LEMMA KeptStep ==
  ASSUME TypeInv, CopyInv, Calm, Resolves, NEW w \in Workers, Passing(w), Steps(w), ~Crash(w),
         embedder' = embedder, NEW s \in Sources \ overlap'
  PROVE  Kept(w, s)'
  <1> SUFFICES ASSUME row'[s].status = "completed", s \in Urls \/ disk'[s] # 0, ~ChatGone(s)'
               PROVE  Stored(s)' \/ (Due(w, s)' /\ row'[s].embedder # embedder)
    BY DEF Kept, Sure
  <1>1. s \in Sources \ overlap
    BY StepsDecent
  <1>2. Ended(w) /\ Listed(w) /\ Kept(w, s)
    BY <1>1 DEF Passing
  <1>3. CASE Complete(w) /\ s = job[w].src /\ points' = points
    <2>1. Stored(s)
      BY <1>1, <1>2, <1>3 DEF Ended, Complete, At
    <2>2. QED BY <1>3, <2>1 DEF Stored
  <1>4. CASE /\ Sure(s) /\ row'[s].embedder = row[s].embedder
             /\ points'[s] = points[s] \/ Initialize(w)
    <2>1. CASE Initialize(w)
      <3>1. job[w].pc = "init" /\ s \in Todo(w) /\ job[w].kind = "run" /\ row[s].embedder # embedder
        BY <1>1, <1>2, <1>4, <2>1 DEF Initialize, At, Listed
      <3>2. ~Collect(w) /\ ~NextSource(w) /\ ~Stop(w)
        BY <3>1 DEF Collect, NextSource, Stop, At
      <3>3. job'[w].todo = job[w].todo /\ job'[w].kind = "run"
        BY <3>1, <3>2, TodoKept DEF Passing
      <3>4. QED BY <1>4, <3>1, <3>3 DEF Due, Todo
    <2>2. CASE ~Initialize(w) /\ Stored(s)
      BY <1>4, <2>2 DEF Stored
    <2>3. CASE ~Initialize(w) /\ ~Stored(s)
      <3>1. Due(w, s) /\ row[s].embedder # embedder
        BY <1>2, <1>4, <2>3 DEF Kept
      <3>2. ~Collect(w)
        BY <1>1, <1>2, <1>4, <2>3 DEF Collect, At, Listed, Backed, Sure
      <3>3. Due(w, s)'
        BY <1>4, <3>1, <3>2, DueStays
      <3>4. QED BY <1>4, <3>1, <3>3
    <2>4. QED BY <2>1, <2>2, <2>3
  <1>5. QED BY <1>3, <1>4, StaysCompleted DEF Sure

LEMMA UnlockedStep ==
  ASSUME TypeInv, CopyInv, NEW w \in Workers, Unlocked(w), Steps(w), ~Crash(w)
  PROVE  Unlocked(w)'
  <1>1. lock \in [Sources -> Workers \cup {None}] /\ job[w] \in Job /\ job \in [Workers -> Job]
    BY HeldDoc DEF TypeInv, LocksOK, JobsOK
  <1>2. CASE Claimed(w)
    <2>1. /\ job[w].pc = "claimed"
          /\ lock' = IF lock[job[w].src] = w THEN [lock EXCEPT ![job[w].src] = None] ELSE lock
      BY <1>2 DEF Claimed, At, Src
    <2>2. \A s \in Sources : lock'[s] = None
      <3> SUFFICES ASSUME NEW s \in Sources PROVE lock'[s] = None
        OBVIOUS
      <3>1. CASE lock[s] = None
        BY <1>1, <2>1, <3>1
      <3>2. CASE lock[s] # None
        <4>1. lock[s] = w /\ job[w].src = s
          BY <3>2 DEF Unlocked
        <4>2. QED BY <1>1, <2>1, <4>1
      <3>3. QED BY <3>1, <3>2
    <2>3. QED BY <2>2 DEF Unlocked
  <1>3. CASE ~Claimed(w)
    <2>1. \A s \in Sources : lock[s] = None
      BY <1>3, TakenAt DEF Unlocked
    <2>2. CASE lock' = lock
      BY <2>1, <2>2 DEF Unlocked
    <2>3. CASE lock' # lock
      <3>1. Claim(w)
        BY <1>3, <2>3, LockChange
      <3>2. /\ lock' = [lock EXCEPT ![job[w].src] = w]
            /\ job' = [job EXCEPT ![w].pc = "claimed", ![w].got = row[job[w].src]]
        BY <2>3, <3>1 DEF Claim
      <3>3. job'[w].pc = "claimed" /\ job'[w].src = job[w].src
        BY <1>1, <3>2 DEF Job
      <3>4. \A s \in Sources : lock'[s] # None => s = job[w].src /\ lock'[s] = w
        BY <1>1, <2>1, <3>2
      <3>5. QED BY <3>3, <3>4 DEF Unlocked
    <2>4. QED BY <2>2, <2>3
  <1>4. QED BY <1>2, <1>3

LEMMA PlacesStep ==
  ASSUME TypeInv, CopyInv, Calm, NEW w \in Workers, Passing(w), Steps(w), ~Crash(w),
         ~\E e \in Embedders : SwitchEmbedder(w, e)
  PROVE  Current(w)' /\ SweepsFile(w)' /\ Finishes(w)' /\ Listed(w)'
  <1>1. /\ embedder' = embedder /\ Unlocked(w) /\ Current(w) /\ SweepsFile(w) /\ Finishes(w) /\ Listed(w)
        /\ job[w] \in Job /\ job \in [Workers -> Job]
    BY WorkKeepsConfig, HeldDoc DEF Passing, TypeInv, JobsOK
  <1>2. Current(w)'
    <2>1. job'[w].emb \in {None, job[w].emb, embedder}
      BY StepsOn, EndsIdle DEF Onward, Turns, Begins
    <2>2. QED BY <1>1, <2>1 DEF Current
  <1>3. SweepsFile(w)'
    <2>1. CASE job'[w].pc = "file"
      <3>1. Sweep(w)
        BY <2>1, LeadsTo DEF Plain, ReadExisting, Writes
      <3>2. \E s : Begin(w, "sweep", "file", s)
        BY <3>1 DEF Sweep, StartSweep
      <3>3. job'[w].kind = "sweep"
        BY <1>1, <3>2 DEF Begin, Idle
      <3>4. QED BY <3>3 DEF SweepsFile
    <2>2. CASE job'[w].pc = "missing"
      <3>1. (ReadExisting(w) /\ job[w].pc = "missing") \/ SweepFile(w)
        BY <2>2, LeadsTo DEF Plain
      <3>2. job[w].kind = "sweep"
        BY <1>1, <3>1 DEF SweepFile, At, SweepsFile
      <3>3. Onward(w)
        BY <3>1, OthersOnward
      <3>4. QED BY <3>2, <3>3 DEF Onward, SweepsFile
    <2>3. QED BY <2>1, <2>2 DEF SweepsFile
  <1>4. Finishes(w)'
    <2>1. ASSUME job'[w].kind = "run", job'[w].pc = "stop" PROVE job'[w].todo = {}
      <3>1. NextSource(w) \/ ClaimTimeout(w) \/ Missing(w)
        BY <2>1, LeadsTo DEF Plain, ReadExisting, Writes
      <3>2. CASE NextSource(w)
        <4>1. ~Turns(w)
          BY <2>1 DEF Turns
        <4>2. job[w].todo = {} /\ Goto(w, "stop")
          <5>1. ASSUME NEW t \in job[w].todo,
                       job' = [job EXCEPT ![w] =
                                 [@ EXCEPT !.todo = job[w].todo \ {t}, !.src = t[1], !.ver = t[2],
                                           !.pts = job[w].had[t[1]], !.had[t[1]] = <<>>,
                                           !.pc = "decide"]]
                PROVE  FALSE
            <6> DEFINE j == [job[w] EXCEPT !.todo = job[w].todo \ {t}, !.src = t[1], !.ver = t[2],
                                           !.pts = job[w].had[t[1]], !.had[t[1]] = <<>>,
                                           !.pc = "decide"]
            <6>1. j.pc = "decide"
              BY <1>1 DEF Job
            <6>2. job' = [job EXCEPT ![w] = j]
              BY <5>1
            <6> HIDE DEF j
            <6>3. job'[w] = j
              BY <1>1, <6>2
            <6>4. QED BY <2>1, <6>1, <6>3
          <5>2. QED BY <3>2, <5>1 DEF NextSource
        <4>3. QED BY <1>1, <4>2 DEF Goto, Job
      <3>3. CASE ClaimTimeout(w)
        <4>1. /\ job[w].pc = "claim" /\ lock[job[w].src] # None
              /\ job[w].src \in Sources
          BY <3>3, HeldDoc DEF ClaimTimeout, At, Src, TypeInv, Filled, Sourceless
        <4>2. QED BY <1>1, <4>1 DEF Unlocked
      <3>4. CASE Missing(w)
        <4>1. job[w].kind = "sweep" /\ Onward(w)
          BY <1>1, <3>4, WritersOnward DEF Missing, At, SweepsFile
        <4>2. QED BY <2>1, <4>1 DEF Onward
      <3>5. QED BY <3>1, <3>2, <3>3, <3>4
    <2>2. ASSUME job'[w].pc = "claim", row'[job'[w].src].status = "completed" PROVE job'[w].redo
      <3>1. Decide(w)
        BY <2>2, LeadsTo DEF Plain, ReadExisting, Writes
      <3>2. row' = row
        BY <3>1 DEF Decide, OnlyOverlap, stores
      <3>3. job'[w].src = job[w].src /\ job'[w].redo = (row[job[w].src].status = "completed")
        BY <1>1, <3>1 DEF Decide, Job
      <3>4. QED BY <2>2, <3>2, <3>3
    <2>3. QED BY <2>1, <2>2 DEF Finishes
  <1>5. Listed(w)'
    <2>1. job'[w].pc # "collect"
      BY StepsOn, EndsIdle DEF Onward, Turns, Begins
    <2>2. ASSUME job'[w].pc = "init"
          PROVE  /\ job'[w].kind = "run"
                 /\ \A s \in Sources : row'[s].embedder # embedder
                 /\ \A s \in Sources \ overlap' : Sure(s)' => s \in {t[1] : t \in job'[w].todo}
      <3>1. Collect(w)
        BY <2>2, StepsOn, EndsIdle DEF Onward, Turns, Begins
      <3>2. UNCHANGED <<row, disk, points, chats, overlap>> /\ job[w].pc = "collect"
        BY <3>1 DEF Collect, At, OnlyJob, stores, history
      <3> DEFINE todo == {<<s, disk[s]>> : s \in {x \in Sources : points[x] # <<>> /\ (x \in Urls \/ disk[x] # 0)}}
      <3>3. job' = [job EXCEPT ![w].todo = todo, ![w].emb = embedder, ![w].pc = "init"]
        BY <3>1 DEF Collect
      <3>4. \A s \in Sources : points[s] # <<>> /\ (s \in Urls \/ disk[s] # 0) => s \in {t[1] : t \in todo}
        <4> TAKE s \in Sources
        <4> HAVE points[s] # <<>> /\ (s \in Urls \/ disk[s] # 0)
        <4>1. <<s, disk[s]>> \in todo
          OBVIOUS
        <4>2. <<s, disk[s]>>[1] = s
          OBVIOUS
        <4> HIDE DEF todo
        <4>3. QED BY <4>1, <4>2
      <3> HIDE DEF todo
      <3>5. job'[w].todo = todo /\ job'[w].kind = job[w].kind
        BY <1>1, <3>3 DEF Job
      <3>6. job[w].kind = "run" /\ \A s \in Sources : row[s].embedder # embedder
        BY <1>1, <3>2 DEF Listed
      <3>7. ASSUME NEW s \in Sources \ overlap', Sure(s)' PROVE s \in {t[1] : t \in job'[w].todo}
        <4>1. Sure(s)
          BY <3>2, <3>7 DEF Sure, ChatGone
        <4>2. Stored(s)
          BY <1>1, <3>2, <4>1 DEF Listed, Backed, Sure
        <4>3. points[s] # <<>>
          <5>1. Len(points[s]) = 1
            BY <4>2 DEF Stored
          <5>2. QED BY <5>1
        <4>4. QED BY <3>4, <3>5, <4>1, <4>3 DEF Sure
      <3>8. QED BY <3>2, <3>5, <3>6, <3>7
    <2>3. QED BY <1>1, <2>1, <2>2 DEF Listed, Todo
  <1>6. QED BY <1>2, <1>3, <1>4, <1>5

LEMMA EndedStep ==
  ASSUME TypeInv, CopyInv, Calm, Resolves, NEW w \in Workers, Ended(w), Steps(w)
  PROVE  Ended(w)'
  <1> SUFFICES ASSUME job'[w].pc \in {"check", "complete"}, job'[w].src \in Sources \ overlap'
               PROVE  Len(points'[job'[w].src]) = 1 /\ points'[job'[w].src][1].embedder # None
    BY DEF Ended, Stored
  <1>1. CASE job[w].pc \in {"check", "complete"} /\ points' = points
    BY <1>1, EndChange, StepsDecent DEF Ended, Stored
  <1>2. CASE ~(job[w].pc \in {"check", "complete"} /\ points' = points)
    <2>1. /\ job[w].pc = "add" /\ job'[w].src = job[w].src
          /\ Len(points'[job[w].src]) = 1 /\ points'[job[w].src][1].embedder = job[w].emb
      BY <1>2, EndChange
    <2>2. QED BY <2>1, NoneAssumption DEF Resolves, Resolved
  <1>3. QED BY <1>1, <1>2

LEMMA PassingStep ==
  ASSUME TypeInv, CopyInv, Calm, Resolves, NEW w \in Workers, Passing(w), Steps(w), ~Crash(w),
         ~\E e \in Embedders : SwitchEmbedder(w, e)
  PROVE  Passing(w)'
  <1>1. Unlocked(w) /\ Ended(w) /\ embedder' = embedder
    BY WorkKeepsConfig DEF Passing
  <1>2. Unlocked(w)' /\ Ended(w)'
    BY <1>1, UnlockedStep, EndedStep
  <1>3. Current(w)' /\ SweepsFile(w)' /\ Finishes(w)' /\ Listed(w)'
    BY PlacesStep
  <1>4. \A s \in Sources \ overlap' : Kept(w, s)'
    BY <1>1, KeptStep
  <1>5. QED BY <1>2, <1>3, <1>4 DEF Passing

LEMMA SwitchPassing ==
  ASSUME TypeInv, CopyInv, Firm, switches = 0, NEW w \in Workers, Passing(w),
         NEW e \in Embedders, SwitchEmbedder(w, e)
  PROVE  Passing(w)'
  <1>1. /\ embedder' = e /\ e # embedder /\ Begin(w, "run", "collect", None)
        /\ UNCHANGED <<row, disk, points, collection, chats, lock, overlap>>
    BY DEF SwitchEmbedder, stores, locks, history
  <1>2. /\ job[w].pc = "idle" /\ job'[w].kind = "run" /\ job'[w].pc = "collect"
        /\ job'[w].emb = None
    BY <1>1 DEF Begin, At, Idle, TypeInv, JobsOK
  <1>3. Unlocked(w)'
    BY <1>1, <1>2 DEF Passing, Unlocked
  <1>4. Current(w)' /\ SweepsFile(w)' /\ Ended(w)' /\ Finishes(w)'
    BY <1>2 DEF Current, SweepsFile, Ended, Finishes
  <1>5. \A s \in Sources \ overlap' : Backed(s)'
    BY <1>1 DEF Firm, Backed, Stored, ChatGone
  <1>6. \A s \in Sources : row'[s].embedder # embedder'
    BY <1>1, NoneAssumption DEF Firm, Pristine
  <1>7. Listed(w)'
    BY <1>2, <1>5, <1>6 DEF Listed
  <1>8. \A s \in Sources \ overlap' : Kept(w, s)'
    BY <1>5 DEF Kept, Backed, Sure
  <1>9. QED BY <1>3, <1>4, <1>7, <1>8 DEF Passing

LEMMA OutsidePassing ==
  ASSUME TypeInv, BeatOwn, NEW w \in Workers, Workers = {w}, Passing(w), Outside,
         \A s \in Sources : lock'[s] \in {lock[s], None}
  PROVE  Passing(w)'
  <1>1. UNCHANGED <<disk, points, collection, chats, embedder, job, overlap>>
    BY DEF Outside
  <1>2. \A s \in Sources :
          /\ row'[s].status = "completed" => row[s].status = "completed"
          /\ row'[s].status = "completed" => row'[s].embedder = row[s].embedder
    BY DEF Outside
  <1>3. Unlocked(w)' /\ Current(w)' /\ SweepsFile(w)' /\ Ended(w)'
    BY <1>1 DEF Passing, Unlocked, Current, SweepsFile, Ended, Stored
  <1>4. Finishes(w)'
    <2>1. job[w].pc = "claim" => job[w].src \in Sources
      BY HeldDoc DEF TypeInv, Filled, Sourceless
    <2>2. QED BY <1>1, <1>2, <2>1 DEF Passing, Finishes
  <1>5. Listed(w)'
    <2>1. ASSUME job[w].kind = "run", NEW s \in Sources, row[s].embedder # embedder
          PROVE  row'[s].embedder # embedder
      BY <2>1 DEF Outside, BeatOwn
    <2>2. \A s \in Sources \ overlap' : (Backed(s) => Backed(s)') /\ (Sure(s)' => Sure(s))
      BY <1>1, <1>2 DEF Backed, Sure, Stored, ChatGone
    <2>3. QED BY <1>1, <2>1, <2>2 DEF Passing, Listed, Todo
  <1>6. \A s \in Sources \ overlap' : Kept(w, s)'
    <2> TAKE s \in Sources \ overlap'
    <2>1. Kept(w, s) /\ (Sure(s)' => Sure(s) /\ row'[s].embedder = row[s].embedder)
      BY <1>1, <1>2 DEF Passing, Sure, ChatGone
    <2>2. QED BY <1>1, <2>1 DEF Kept, Stored, Due, Todo
  <1>7. QED BY <1>3, <1>4, <1>5, <1>6 DEF Passing

-----------------------------------------------------------------------------
(* The theorems. *)

\* The inductive strengthening of CompletedIsStored.
CompletedInv == TypeInv /\ CopyInv /\ Calm /\ Resolves /\ BeatOwn /\ Firm

LEMMA CompletedInit == Init => CompletedInv /\ Across
  <1> SUFFICES ASSUME Init PROVE CompletedInv /\ Across
    OBVIOUS
  <1>1. TypeInv /\ CopyInv
    BY InitTyped, CopyInit
  <1>2. \A w \in Workers : /\ job[w].pc = "idle" /\ job[w].kind = "none" /\ job[w].emb = None
                           /\ job[w].got = None /\ beat[w].at = "off" /\ beat[w].got = None
    BY DEF Init, Idle, NoBeat
  <1>3. \A s \in Sources : row[s].status = "absent" /\ row[s].embedder = None
    BY DEF Init, NoDoc
  <1>4. collection = embedder /\ switches = 0
    BY DEF Init
  <1>5. Resolves /\ BeatOwn /\ Latest
    BY <1>2 DEF Resolves, Resolved, BeatOwn, Latest
  <1>6. Calm
    BY <1>2 DEF Calm, Tended, Orderly, AtHand, Removing, Underway, Emptied
  <1>7. Firm
    BY <1>2, <1>3, <1>4 DEF Firm, Pristine, Ours, Backed
  <1>8. Across
    BY <1>2, <1>3, <1>4, <1>5, BoundsAssumption DEF Across, Lagging, Late, Ending, Named, Vectoring
  <1>9. QED BY <1>1, <1>5, <1>6, <1>7, <1>8 DEF CompletedInv

LEMMA StepsComplete ==
  ASSUME CompletedInv, TypeInv', CopyInv', NEW w \in Workers, Steps(w)
  PROVE  CompletedInv'
  <1>1. TypeInv /\ CopyInv /\ Calm /\ Resolves /\ BeatOwn /\ Firm
    BY DEF CompletedInv
  <1>2. Calm'
    BY <1>1, WorkCalm, RequestCalm, EndersCalm DEF Steps
  <1>3. Resolves'
    <2>1. job'[w].pc \in Resolved => job'[w].emb \in Embedders
      BY <1>1, ResolvesNext DEF Steps
    <2>2. QED BY <1>1, <2>1, StepsDecent DEF OthersStay, Resolves
  <1>4. BeatOwn'
    BY <1>1, BeatOwnStep
  <1>5. Firm'
    <2>1. CASE \E e \in Embedders : SwitchEmbedder(w, e)
      <3>1. switches' # 0
        BY <1>1, <2>1 DEF SwitchEmbedder, TypeInv, ConfigOK
      <3>2. QED BY <3>1 DEF Firm
    <2>2. CASE ~\E e \in Embedders : SwitchEmbedder(w, e)
      <3>1. CASE switches = 0
        BY <1>1, <2>2, <3>1, FirmStep
      <3>2. CASE switches # 0
        <4>1. switches' # 0
          BY <2>2, <3>2, WorkKeepsConfig
        <4>2. QED BY <4>1 DEF Firm
      <3>3. QED BY <3>1, <3>2
    <2>3. QED BY <2>1, <2>2
  <1>6. QED BY <1>2, <1>3, <1>4, <1>5 DEF CompletedInv

\* The steps that are not of a job.
LEMMA OutsideNext ==
  ASSUME TypeInv, [Next]_vars, ~\E w \in Workers : Steps(w)
  PROVE  Outside /\ (switches' = switches \/ (switches < MaxSwitches /\ switches' = switches + 1))
  <1>1. CASE \E w \in Workers : Heartbeat(w)
    BY <1>1, HeartbeatOutside DEF Heartbeat, BeatGet, BeatRead, BeatStore, config
  <1>2. CASE Environment \/ UNCHANGED vars
    BY <1>2, EnvironmentOutside
    DEF Environment, Age, LockExpires, SweepLockExpires, SwitchChunker, vars, config
  <1>3. QED BY <1>1, <1>2 DEF Next, Steps

LEMMA CompletedNext == CompletedInv /\ [Next]_vars => CompletedInv'
  <1> SUFFICES ASSUME CompletedInv, [Next]_vars PROVE CompletedInv'
    OBVIOUS
  <1>1. TypeInv /\ TypeInv' /\ CopyInv /\ CopyInv'
    BY NextTyped, CopyNext DEF CompletedInv
  <1>2. CASE \E w \in Workers : Steps(w)
    BY <1>1, <1>2, StepsComplete
  <1>3. CASE ~\E w \in Workers : Steps(w)
    <2>1. Outside /\ (switches' = switches \/ (switches < MaxSwitches /\ switches' = switches + 1))
      BY <1>1, <1>3, OutsideNext
    <2>2. switches' = 0 => switches = 0
      BY <1>1, <2>1 DEF TypeInv, ConfigOK
    <2>3. Calm' /\ BeatOwn' /\ Firm'
      BY <1>1, <2>1, <2>2, OutsideSettles, OutsideFirm DEF CompletedInv
    <2>4. Resolves'
      BY <2>1 DEF Outside, Resolves, CompletedInv
    <2>5. QED BY <1>1, <2>3, <2>4 DEF CompletedInv
  <1>4. QED BY <1>2, <1>3

\* While the configuration stays, a COMPLETED row of a source whose file and
\* conversation are there stands for vectors in the store, unless two workers
\* were on the source at once; whatever crashes, fails, is retried or removed, for
\* any number of sources and workers (after_rabbithole_stored_documents).
THEOREM CompletedStands == Spec => []CompletedIsStored
  <1>1. Spec => []CompletedInv
    BY CompletedInit, CompletedNext, PTL DEF Spec
  <1>2. CompletedInv => CompletedIsStored
    BY DEF CompletedInv, Firm, Backed, CompletedIsStored
  <1>3. QED BY <1>1, <1>2, PTL

LEMMA AcrossNext ==
  ASSUME MaxSwitches <= 1, Sized
  PROVE  CompletedInv /\ Across /\ [Next]_vars => Across'
  <1> SUFFICES ASSUME CompletedInv, Across, [Next]_vars PROVE Across'
    OBVIOUS
  <1>1. /\ TypeInv /\ TypeInv' /\ CopyInv /\ CopyInv' /\ Calm /\ Resolves /\ BeatOwn /\ Firm
    BY NextTyped, CopyNext DEF CompletedInv
  <1>2. ASSUME NEW w \in Workers, Steps(w) PROVE Across'
    <2>1. CASE \E e \in Embedders : SwitchEmbedder(w, e)
      BY <1>1, <2>1, SwitchAcross
    <2>2. CASE ~\E e \in Embedders : SwitchEmbedder(w, e)
      BY <1>1, <1>2, <2>2, AcrossStep
    <2>3. QED BY <2>1, <2>2
  <1>3. CASE ~\E w \in Workers : Steps(w)
    <2>1. Outside /\ (switches' = switches \/ (switches < MaxSwitches /\ switches' = switches + 1))
      BY <1>1, <1>3, OutsideNext
    <2>2. switches' <= MaxSwitches
      BY <1>1, <2>1, BoundsAssumption DEF TypeInv, ConfigOK, Across
    <2>3. QED BY <1>1, <2>1, <2>2, OutsideAcross
  <1>4. QED BY <1>2, <1>3

\* Across one change of the configuration, a COMPLETED row that names the embedder
\* of the collection stands for vectors of that embedder in that collection,
\* whatever uploads, sweeps and passes were under way when the embedder changed,
\* for any number of sources, workers and embedders, as long as no two embedders
\* make vectors of one size (the collection refuses the others).
THEOREM CompletedEmbedded ==
  ASSUME MaxSwitches <= 1, \A e, f \in Embedders : Dim[e] = Dim[f] => e = f
  PROVE  Spec => []CompletedIsEmbedded
  <1>1. Sized
    BY DEF Sized
  <1>2. Init => CompletedInv /\ Across
    BY CompletedInit
  <1>3. CompletedInv /\ Across /\ [Next]_vars => CompletedInv' /\ Across'
    BY <1>1, CompletedNext, AcrossNext
  <1>4. CompletedInv /\ Across => CompletedIsEmbedded
    <2> SUFFICES ASSUME CompletedInv, Across, NEW s \in Sources \ overlap,
                        row[s].status = "completed", row[s].embedder = collection,
                        s \in Urls \/ disk[s] # 0, ~ChatGone(s)
                 PROVE  Stored(s) /\ points[s][1].embedder = collection
      BY DEF CompletedIsEmbedded
    <2>1. Len(points[s]) = 1 /\ points[s][1].embedder = collection
      BY DEF Across, Named, Embeds
    <2>2. collection # None
      BY NoneAssumption DEF CompletedInv, TypeInv, StoresOK
    <2>3. QED BY <2>1, <2>2 DEF Stored
  <1>5. QED BY <1>2, <1>3, <1>4, PTL DEF Spec

LEMMA PassingInit ==
  ASSUME Init, NEW w \in Workers
  PROVE  Passing(w)
  <1>1. /\ job[w].pc = "idle" /\ job[w].kind = "none" /\ job[w].emb = None
        /\ \A s \in Sources : row[s].status = "absent" /\ lock[s] = None
    BY DEF Init, Idle, NoDoc
  <1>2. QED
    BY <1>1 DEF Passing, Unlocked, Current, SweepsFile, Ended, Finishes, Listed, Kept, Sure

\* The bound on the changes is kept.
Within == switches <= MaxSwitches

LEMMA PassingNext ==
  ASSUME NEW w \in Workers, Workers = {w}, MaxSwitches <= 1
  PROVE  CompletedInv /\ Within /\ (faults = 0 => Passing(w)) /\ [Next]_vars
           => Within' /\ (faults' = 0 => Passing(w)')
  <1> SUFFICES ASSUME CompletedInv, Within, faults = 0 => Passing(w), [Next]_vars
               PROVE  Within' /\ (faults' = 0 => Passing(w)')
    OBVIOUS
  <1>1. TypeInv /\ CopyInv /\ Calm /\ Resolves /\ BeatOwn /\ Firm
    BY DEF CompletedInv
  <1>2. switches \in Nat /\ faults \in Nat /\ MaxSwitches \in Nat
    BY <1>1, BoundsAssumption DEF TypeInv, ConfigOK, HistoryOK
  <1>3. CASE Steps(w)
    <2>1. CASE \E e \in Embedders : SwitchEmbedder(w, e)
      <3>1. switches < MaxSwitches /\ switches' = switches + 1 /\ faults' = faults
        BY <2>1 DEF SwitchEmbedder, history
      <3>2. switches = 0 /\ Within'
        BY <1>2, <3>1 DEF Within
      <3>3. QED BY <1>1, <2>1, <3>1, <3>2, SwitchPassing
    <2>2. CASE ~\E e \in Embedders : SwitchEmbedder(w, e)
      <3>1. Within'
        BY <1>3, <2>2, WorkKeepsConfig DEF Within
      <3>2. faults' = 0 => faults = 0 /\ ~Crash(w)
        BY <1>2, <1>3, LockChange
      <3>3. QED BY <1>1, <1>3, <2>2, <3>1, <3>2, PassingStep
    <2>3. QED BY <2>1, <2>2
  <1>4. CASE ~Steps(w)
    <2>1. Outside /\ (switches' = switches \/ (switches < MaxSwitches /\ switches' = switches + 1))
      BY <1>1, <1>4, OutsideNext
    <2>2. Within'
      BY <1>2, <2>1 DEF Within
    <2>3. faults' = faults /\ \A s \in Sources : lock'[s] \in {lock[s], None}
      <3>1. CASE Heartbeat(w) \/ UNCHANGED vars
        BY <3>1 DEF Heartbeat, BeatGet, BeatRead, BeatStore, vars, locks, history
      <3>2. CASE Environment
        BY <1>1, <3>2 DEF Environment, Age, LockExpires, SweepLockExpires, SwitchChunker, locks, history,
                          TypeInv, LocksOK
      <3>3. QED BY <1>4, <3>1, <3>2 DEF Next, Steps
    <2>4. QED BY <1>1, <2>1, <2>2, <2>3, OutsidePassing
  <1>5. QED BY <1>3, <1>4

\* Where one worker takes one job after the other and nothing fails, a re-embed
\* pass leaves no COMPLETED row without vectors: what it lists covers every row
\* that the drop of the collection empties, and it is through with the list when
\* it stops; for any sources, uploads, removals and heartbeats, and one change of
\* the configuration.
THEOREM PassCompletes ==
  ASSUME NEW w \in Workers, Workers = {w}, MaxSwitches <= 1
  PROVE  Spec => []CompletedAfterPass
  <1> DEFINE Inv == CompletedInv /\ Within /\ (faults = 0 => Passing(w))
  <1>1. Init => Inv
    <2> SUFFICES ASSUME Init PROVE Inv
      OBVIOUS
    <2>1. CompletedInv /\ Within
      BY CompletedInit DEF Across, Within
    <2>2. QED BY <2>1, PassingInit
  <1>2. Inv /\ [Next]_vars => Inv'
    BY CompletedNext, PassingNext
  <1>3. Inv => CompletedAfterPass
    BY DEF CompletedAfterPass, Passing, Kept, Sure, Due
  <1>4. QED BY <1>1, <1>2, <1>3, PTL DEF Spec
=============================================================================
