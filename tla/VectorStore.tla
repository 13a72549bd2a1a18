----------------------------- MODULE VectorStore -----------------------------
(***************************************************************************)
(* The vector store as the QdrantHandler and the memory endpoints use it.  *)
(* Collections are shared by the agents: a point belongs to the agent of   *)
(* its tenant_id.  A collection carries the size of its vectors and an     *)
(* alias that names its embedder.  Every request is a sequence of calls to *)
(* the store, and requests of several processes interleave at each call;   *)
(* a process may die between two of them.  Qdrant itself is external.      *)
(***************************************************************************)
EXTENDS Naturals, Sequences, SequencesExt, FiniteSets, FiniteSetsExt

CONSTANTS NoOne,
          Tenants,        \* agents
          Callers,        \* requests under way at a time
          Names,          \* the collections of the handler, a sequence
          Extra,          \* collections created by request
          Ids,            \* bound: the ids of points, 1..n, in the store's order
          Models,         \* embedders
          SizeOf,         \* the size of an embedder's vectors
          Page,           \* points per page of a walk
          Snapshots,      \* the values of save_memory_snapshots
          MaxCalls,       \* bound: requests
          MaxAgain,       \* bound: initialisations beyond those, begun alone
          MaxSelections,  \* bound: changes of the selected embedder
          MaxBreaks       \* bound: crashes and refused aliases

ASSUME VectorAssumption ==
    /\ SizeOf \in [Models -> Nat] /\ NoOne \notin Models
    /\ Page \in Nat \ {0} /\ Ids \subseteq Nat \ {0} /\ IsFiniteSet(Ids) /\ Snapshots \subseteq BOOLEAN
    /\ Names \in Seq(Range(Names)) \ {<<>>} /\ IsInjective(Names)

Colls == Range(Names) \union Extra
Missing == [size |-> 0, aliases |-> {}, gen |-> 0, there |-> FALSE, mixed |-> FALSE]

VARIABLES
    colls,     \* the collections; mixed (history): crossed initialisations have
               \* each set an alias on it since it was created
    memories,  \* the points
    calls,     \* per caller: the request
    selected,  \* the selected embedder
    ready,     \* history: the embedder of the last initialisation, if it ended
               \* well and no other one crossed it
    past,      \* history: the ids used, imported from a file, deleted so far
    bounds     \* started requests, selections, breaks; whether dumps are saved

vsVars == <<colls, memories, calls, selected, ready, past, bounds>>

Quiet == [op |-> "none", agent |-> NoOne, coll |-> NoOne, id |-> 0, by |-> NoOne,
          pc |-> "idle", step |-> 1, seen |-> <<>>, start |-> {}]
AtPc(t, op, pc) == calls[t].op = op /\ calls[t].pc = pc
To(t, pc) == calls' = [calls EXCEPT ![t].pc = pc]
Done(t) == calls' = [calls EXCEPT ![t] = Quiet]
Mine(a, c) == {p \in memories : p.coll = c /\ p.tenant = a}
IdsOf(S) == {p.id : p \in S}
Initialising == {t \in Callers : calls[t].op \in {"init", "create"}}

Loses(S) ==
    /\ memories' = memories \ S
    /\ past' = [past EXCEPT !.gone = @ \union IdsOf(S)]

Begin(t, call) ==
    /\ calls[t] = Quiet
    /\ \/ bounds.calls < MaxCalls
       \/ /\ call.op = "init" /\ \A u \in Callers : calls[u] = Quiet
          /\ bounds.calls < MaxCalls + MaxAgain
    /\ bounds' = [bounds EXCEPT !.calls = @ + 1]
    /\ calls' = [calls EXCEPT ![t] = call]

-----------------------------------------------------------------------------
(* initialize: collection after collection, checked, dropped, created.     *)

\* The embedder is read by the request that initialises.
StartInit(t, a) ==
    /\ Begin(t, [Quiet EXCEPT !.op = "init", !.agent = a, !.by = selected, !.pc = "exists",
                              !.coll = Names[1]])
    /\ ready' = [by |-> NoOne, crossed |-> Initialising # {}]
    /\ UNCHANGED <<colls, memories, selected, past>>

\* The next collection, or the end.
Advance(t) ==
    IF calls[t].op = "init" /\ calls[t].step < Len(Names)
    THEN /\ calls' = [calls EXCEPT ![t].step = @ + 1, ![t].pc = "exists",
                                   ![t].coll = Names[calls[t].step + 1]]
         /\ UNCHANGED ready
    ELSE /\ Done(t)
         /\ ready' = IF calls[t].op = "init" /\ ~ready.crossed
                     THEN [ready EXCEPT !.by = calls[t].by] ELSE ready

Exists(t) ==
    /\ AtPc(t, "init", "exists")
    /\ To(t, IF colls[calls[t].coll].there THEN "same"
             ELSE IF bounds.dumps THEN "dump" ELSE "create")
    /\ UNCHANGED <<colls, memories, selected, ready, past, bounds>>

\* Mutant of Same: only the sizes are compared.
SizeSame(c, e, first) == colls[c].size = SizeOf[e]

\* Same size, and the first of the aliases is the embedder's.
Same(c, e, first) == colls[c].size = SizeOf[e] /\ first = e

\* A collection that is gone by now raises.  Which of several aliases comes
\* first is the store's choice.
Compare(t) ==
    /\ AtPc(t, "init", "same")
    /\ LET c == colls[calls[t].coll] IN
       \/ ~c.there /\ Done(t) /\ UNCHANGED ready
       \/ /\ c.there
          /\ \E first \in IF c.aliases = {} THEN {NoOne} ELSE c.aliases :
               IF Same(calls[t].coll, calls[t].by, first) THEN Advance(t)
               ELSE To(t, IF bounds.dumps THEN "dump" ELSE "drop") /\ UNCHANGED ready
    /\ UNCHANGED <<colls, memories, selected, past, bounds>>

\* A snapshot needs the collection and its first alias.
Dump(t) ==
    /\ AtPc(t, "init", "dump")
    /\ IF colls[calls[t].coll].aliases = {} THEN Done(t) ELSE To(t, "drop")
    /\ UNCHANGED <<colls, memories, selected, ready, past, bounds>>

DropColl(c) ==
    /\ colls' = [colls EXCEPT ![c] = [Missing EXCEPT !.gen = colls[c].gen]]
    /\ Loses({p \in memories : p.coll = c})

Drop(t) ==
    /\ AtPc(t, "init", "drop")
    /\ DropColl(calls[t].coll)
    /\ To(t, "create")
    /\ UNCHANGED <<selected, ready, bounds>>

\* The store refuses to create a collection that exists.
Create(t) ==
    /\ calls[t].pc = "create"
    /\ LET c == calls[t].coll IN
       IF colls[c].there THEN Done(t) /\ UNCHANGED colls
       ELSE /\ colls' = [colls EXCEPT ![c] = [size |-> SizeOf[calls[t].by], aliases |-> {},
                                              gen |-> colls[c].gen + 1, there |-> TRUE,
                                              mixed |-> FALSE]]
            /\ To(t, "alias")
    /\ UNCHANGED <<memories, selected, ready, past, bounds>>

\* An alias that cannot be set takes the collection with it.
Alias(t) ==
    /\ calls[t].pc = "alias"
    /\ LET c == calls[t].coll IN
       \/ /\ colls[c].there
          /\ colls' = [colls EXCEPT
                         ![c].aliases = @ \union {calls[t].by},
                         ![c].mixed = @ \/ (ready.crossed /\ colls[c].aliases # {})]
          /\ Advance(t)
          /\ UNCHANGED bounds
       \/ /\ ~colls[c].there
          /\ To(t, "undo")
          /\ UNCHANGED <<colls, ready, bounds>>
       \/ /\ bounds.breaks < MaxBreaks
          /\ bounds' = [bounds EXCEPT !.breaks = @ + 1]
          /\ To(t, "undo")
          /\ UNCHANGED <<colls, ready>>
    /\ UNCHANGED <<memories, selected, past>>

Undo(t) ==
    /\ calls[t].pc = "undo"
    /\ DropColl(calls[t].coll)
    /\ Done(t)
    /\ UNCHANGED <<selected, ready, bounds>>

\* create_single_collection: only a collection that is not there is created.
StartCreate(t, a, c) ==
    /\ ~colls[c].there
    /\ Begin(t, [Quiet EXCEPT !.op = "create", !.agent = a, !.by = selected, !.coll = c,
                              !.pc = "create"])
    /\ ready' = [ready EXCEPT !.crossed = Initialising # {}]
    /\ UNCHANGED <<colls, memories, selected, past>>

-----------------------------------------------------------------------------
(* Points. *)

\* A point is upserted by its id; a vector of another size is refused.
\* late: the vector was embedded for another embedder than the collection's.
Upsert(t, id) ==
    LET r == calls[t]  c == colls[r.coll] IN
    IF c.there /\ c.size = SizeOf[r.by]
    THEN memories' = {p \in memories : <<p.coll, p.id>> # <<r.coll, id>>} \union
                     {[coll |-> r.coll, id |-> id, tenant |-> r.agent, by |-> r.by,
                       late |-> r.by \notin c.aliases]}
    ELSE UNCHANGED memories

\* The id of a new point is drawn at random: no point has it.
StartAdd(t, a, c, id) ==
    /\ id \notin past.used /\ past' = [past EXCEPT !.used = @ \union {id}]
    /\ Begin(t, [Quiet EXCEPT !.op = "add", !.agent = a, !.coll = c, !.id = id,
                              !.by = selected, !.pc = "upsert"])
    /\ UNCHANGED <<colls, memories, selected, ready>>

\* ingest_memory: the ids are those of the file, whoever has them.
StartImport(t, a, id) ==
    /\ Begin(t, [Quiet EXCEPT !.op = "import", !.agent = a, !.coll = Names[1], !.id = id,
                              !.by = selected, !.pc = "upsert"])
    /\ past' = [past EXCEPT !.used = @ \union {id}, !.imported = @ \union {id}]
    /\ UNCHANGED <<colls, memories, selected, ready>>

\* Mutant of Verify: the tenant is not part of the filter.
VerifyId(a, c, id) == \E p \in memories : p.coll = c /\ p.id = id

\* retrieve_tenant_points: the point is one of the agent's.
Verify(a, c, id) == id \in IdsOf(Mine(a, c))

StartEdit(t, a, c, id) ==
    /\ Verify(a, c, id)
    /\ Begin(t, [Quiet EXCEPT !.op = "edit", !.agent = a, !.coll = c, !.id = id,
                              !.by = selected, !.pc = "upsert"])
    /\ UNCHANGED <<colls, memories, selected, ready, past>>

PutPoint(t) ==
    /\ calls[t].pc = "upsert"
    /\ Upsert(t, calls[t].id)
    /\ Done(t)
    /\ UNCHANGED <<colls, selected, ready, past, bounds>>

StartDelete(t, a, c, id) ==
    /\ Verify(a, c, id)
    /\ Begin(t, [Quiet EXCEPT !.op = "delete", !.agent = a, !.coll = c, !.id = id,
                              !.pc = "delete"])
    /\ UNCHANGED <<colls, memories, selected, ready, past>>

\* The deletion names the id only.
DeletePoint(t) ==
    /\ AtPc(t, "delete", "delete")
    /\ Loses({p \in memories : p.coll = calls[t].coll /\ p.id = calls[t].id})
    /\ Done(t)
    /\ UNCHANGED <<colls, selected, ready, bounds>>

\* delete_tenant_points, with or without metadata: those of them it selects.
Purge(a, c, S) ==
    /\ bounds.calls < MaxCalls
    /\ bounds' = [bounds EXCEPT !.calls = @ + 1]
    /\ S \subseteq Mine(a, c) /\ S # {}
    /\ Loses(S)
    /\ UNCHANGED <<colls, calls, selected, ready>>

-----------------------------------------------------------------------------
(* A walk over the pages of an agent's points, by the client or the handler. *)

StartWalk(t, a, c) ==
    /\ Begin(t, [Quiet EXCEPT !.op = "walk", !.agent = a, !.coll = c, !.pc = "page",
                              !.start = IdsOf(Mine(a, c))])
    /\ UNCHANGED <<colls, memories, selected, ready, past>>

\* The offset is the first id of the next page, 0 for none.
Sorted(S) ==
    CHOOSE ids \in [1..Cardinality(S) -> S] :
      Range(ids) = S /\ \A i, j \in DOMAIN ids : i < j => ids[i] < ids[j]

\* Mutant of Offset: the last id of the page.
LastOfPage(ids) == IF Len(ids) > Page THEN ids[Page] ELSE 0

Offset(ids) == IF Len(ids) > Page THEN ids[Page + 1] ELSE 0

NextPage(t) ==
    /\ AtPc(t, "walk", "page")
    /\ LET r == calls[t]
           ids == Sorted({i \in IdsOf(Mine(r.agent, r.coll)) : i >= r.id})
           next == Offset(ids) IN
       calls' = [calls EXCEPT
                   ![t].seen = @ \o SubSeq(ids, 1, Min({Page, Len(ids)})),
                   ![t].id = next, ![t].pc = IF next = 0 THEN "walked" ELSE "page"]
    /\ UNCHANGED <<colls, memories, selected, ready, past, bounds>>

EndWalk(t) ==
    /\ AtPc(t, "walk", "walked")
    /\ Done(t)
    /\ UNCHANGED <<colls, memories, selected, ready, past, bounds>>

-----------------------------------------------------------------------------
SelectEmbedder(e) ==
    /\ e # selected /\ bounds.selections < MaxSelections
    /\ bounds' = [bounds EXCEPT !.selections = @ + 1]
    /\ selected' = e
    /\ UNCHANGED <<colls, memories, calls, ready, past>>

Die(t) ==
    /\ calls[t] # Quiet /\ bounds.breaks < MaxBreaks
    /\ bounds' = [bounds EXCEPT !.breaks = @ + 1]
    /\ Done(t)
    /\ UNCHANGED <<colls, memories, selected, ready, past>>

\* A store of one embedder with some points.
vsInit ==
    /\ selected \in Models
    /\ colls = [c \in Colls |-> IF c \in Range(Names)
                  THEN [size |-> SizeOf[selected], aliases |-> {selected}, gen |-> 1,
                        there |-> TRUE, mixed |-> FALSE]
                  ELSE Missing]
    /\ \E owner \in [Ids -> Tenants \union {NoOne}] :
         memories = {[coll |-> Names[1], id |-> i, tenant |-> owner[i], by |-> selected,
                      late |-> FALSE] : i \in {j \in Ids : owner[j] # NoOne}}
    /\ calls = [t \in Callers |-> Quiet]
    /\ ready = [by |-> selected, crossed |-> FALSE]
    /\ past = [used |-> IdsOf(memories), imported |-> {}, gone |-> {}]
    /\ \E d \in Snapshots : bounds = [calls |-> 0, selections |-> 0, breaks |-> 0, dumps |-> d]

vsCall(t) ==
    \/ \E a \in Tenants : StartInit(t, a)
    \/ \E a \in Tenants, c \in Colls : StartCreate(t, a, c)
    \/ \E a \in Tenants, id \in Ids : StartImport(t, a, id)
    \/ \E a \in Tenants, c \in Colls :
         \/ StartWalk(t, a, c)
         \/ \E id \in Ids :
              StartAdd(t, a, c, id) \/ StartEdit(t, a, c, id) \/ StartDelete(t, a, c, id)
    \/ Exists(t) \/ Compare(t) \/ Dump(t) \/ Drop(t) \/ Create(t) \/ Alias(t) \/ Undo(t)
    \/ PutPoint(t) \/ DeletePoint(t) \/ NextPage(t) \/ EndWalk(t) \/ Die(t)

vsNext ==
    \/ \E t \in Callers : vsCall(t)
    \/ \E e \in Models : SelectEmbedder(e)
    \/ \E a \in Tenants, c \in Colls, S \in SUBSET memories : Purge(a, c, S)

vsSpec == vsInit /\ [][vsNext]_vsVars

-----------------------------------------------------------------------------
(* Properties. *)

\* A point vanishes or changes only by a request of its own agent or with its
\* whole collection; an import may take over the points whose ids it names.
TenantsApart ==
    [][\A p \in memories \ memories' :
         \/ p.id \in past.imported
         \/ colls'[p.coll] # colls[p.coll]
         \/ \E t \in Callers : calls[t].agent = p.tenant /\ calls[t] # calls'[t]
         \/ calls' = calls /\ \A q \in memories \ memories' : q.tenant = p.tenant]_vsVars

\* A walk over the pages yields no id twice and misses no point that was there
\* from its start to its end.
WalkComplete ==
    \A t \in Callers : AtPc(t, "walk", "walked") =>
      LET r == calls[t] IN
      /\ Cardinality(Range(r.seen)) = Len(r.seen)
      /\ r.start \ (past.imported \union past.gone) \subseteq Range(r.seen)

\* After an initialisation that no other one crossed, whatever crashes came
\* before it, every collection is there with its embedder's size and alias.  It
\* has no other alias, and no vector that was made for another one of its
\* embedders, unless initialisations that crossed each other before have left two
\* aliases on it: only the first is looked at, so the collection may be kept.
Ready ==
    ready.by # NoOne /\ Initialising = {} =>
      \A c \in Range(Names) :
        /\ colls[c].there /\ colls[c].size = SizeOf[ready.by] /\ ready.by \in colls[c].aliases
        /\ \/ colls[c].mixed
           \/ /\ colls[c].aliases = {ready.by}
              /\ \A p \in memories : p.coll = c /\ ~p.late => p.by = ready.by

\* No collection holds vectors of an embedder that is not its own.  The code does
\* not keep it (README, section 5), and no run has it.
OneEmbedder == \A p \in memories : ~p.late
=============================================================================
