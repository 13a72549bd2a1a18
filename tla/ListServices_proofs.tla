-------------------------- MODULE ListServices_proofs --------------------------
(***************************************************************************)
(* What is proved of the services that walk, filter, add up, cut and pass  *)
(* on lists: they share no state, and each section is about one of them,   *)
(* for every value of its constants.                                       *)
(***************************************************************************)
EXTENDS VectorStore, Webhooks, Analytics, Endpoints, Splitting, Delivery, Lists_proofs

(***************************************************************************)
(* Agents do not touch each other's points, and an initialisation that no  *)
(* other one crossed leaves every collection ready.                        *)
(***************************************************************************)
\* A collection has one alias, unless crossed initialisations have each set one.
vsColl ==
    {k \in [size : Nat, aliases : SUBSET Models, gen : Nat, there : BOOLEAN, mixed : BOOLEAN] :
       k.mixed \/ \A x, y \in k.aliases : x = y}
\* A call has the fields of Quiet.
vsFields == {"op", "agent", "coll", "id", "by", "pc", "step", "seen", "start"}
vsRecord(r) == r = [f \in vsFields |-> r[f]]
vsPlaced(r) ==
    /\ vsRecord(r)
    /\ r.op \in {"none", "init", "create", "add", "import", "edit", "delete", "walk"}
    /\ r.op = "none" => r.pc = "idle"
    /\ r.op = "init" => /\ r.pc \in {"exists", "same", "dump", "drop", "create", "alias", "undo"}
                        /\ r.step \in 1..Len(Names) /\ r.coll = Names[r.step]
    /\ r.op = "create" => r.pc \in {"create", "alias", "undo"}
    /\ r.op \in {"init", "create"} => r.coll \in Colls /\ r.by \in Models
    /\ r.op \in {"add", "import", "edit"} => r.pc = "upsert" /\ r.coll \in Colls
    /\ r.op = "delete" => r.pc = "delete" /\ r.coll \in Colls
    /\ r.op = "walk" => r.pc \in {"page", "walked"}

vsShapes ==
    /\ colls \in [Colls -> vsColl] /\ selected \in Models
    /\ past = [used |-> past.used, imported |-> past.imported, gone |-> past.gone]
    /\ ready = [by |-> ready.by, crossed |-> ready.crossed] /\ ready.crossed \in BOOLEAN
    /\ DOMAIN calls = Callers /\ calls = [t \in Callers |-> calls[t]]
    /\ \A t \in Callers : vsPlaced(calls[t])

\* Points lie in collections that are there; those that are not late came when the
\* alias of their embedder was set.
vsLying == \A p \in memories : /\ p.coll \in Colls /\ colls[p.coll].there
                               /\ p.late \/ p.by \in colls[p.coll].aliases

\* The agent has points of this id, or a request for one under way.
vsHas(a, i) ==
    \/ \E p \in memories : p.id = i /\ p.tenant = a
    \/ \E t \in Callers : calls[t].pc \in {"upsert", "delete"} /\ calls[t].id = i /\ calls[t].agent = a
vsOwned ==
    /\ \A p \in memories : p.id \in past.used /\ p.tenant \in Tenants
    /\ \A t \in Callers : calls[t].pc \in {"upsert", "delete"} =>
         calls[t].id \in past.used /\ calls[t].agent \in Tenants
    /\ \A i \in past.used \ past.imported, a, b \in Tenants : vsHas(a, i) /\ vsHas(b, i) => a = b

\* What has been initialised.
vsFits(k, e) ==
    k.there /\ k.size = SizeOf[e] /\ e \in k.aliases /\ (k.mixed \/ k.aliases = {e})
vsAlone ==
    ~ready.crossed =>
      /\ \A t, u \in Initialising : t = u
      /\ \A t \in Initialising :
           /\ calls[t].op = "init" =>
                \A j \in 1..(calls[t].step - 1) : vsFits(colls[Names[j]], calls[t].by)
           /\ calls[t].pc = "alias" =>
                LET k == colls[calls[t].coll] IN
                k.there /\ k.size = SizeOf[calls[t].by] /\ k.aliases = {}
vsReady ==
    ready.by # NoOne =>
      /\ \A c \in Range(Names) : vsFits(colls[c], ready.by)
      /\ \A t \in Initialising : calls[t].op = "create" /\ calls[t].coll \notin Range(Names)

PointsInv == vsShapes /\ vsLying /\ vsOwned /\ vsAlone /\ vsReady

-----------------------------------------------------------------------------
(* What a request becomes. *)

vsAt(r, pc) == [r EXCEPT !.pc = pc]

vsBecomes(t, r) ==
    /\ DOMAIN calls' = Callers /\ calls' = [u \in Callers |-> calls'[u]]
    /\ calls'[t] = r /\ \A u \in Callers : u # t => calls'[u] = calls[u]
    /\ \A u \in Callers : vsPlaced(calls'[u])

LEMMA vsSet ==
  ASSUME vsShapes, NEW t \in Callers, NEW r, vsPlaced(r), calls' = [calls EXCEPT ![t] = r]
  PROVE  vsBecomes(t, r)
  BY DEF vsShapes, vsBecomes

LEMMA vsQuiet == vsPlaced(Quiet) /\ Quiet.op = "none" /\ Quiet.pc = "idle"
  BY DEF Quiet, vsPlaced, vsRecord, vsFields

\* What stays when nothing but the places of requests changes.
LEMMA vsKeeps ==
  ASSUME PointsInv
  PROVE  /\ colls \in [Colls -> vsColl] /\ past = [used |-> past.used, imported |-> past.imported, gone |-> past.gone]
         /\ ready = [by |-> ready.by, crossed |-> ready.crossed] /\ vsShapes /\ selected \in Models
         /\ \A t \in Callers : vsPlaced(calls[t]) /\ vsRecord(calls[t])
  BY DEF PointsInv, vsShapes, vsPlaced

LEMMA vsDone ==
  ASSUME vsShapes, NEW t \in Callers, Done(t)
  PROVE  vsBecomes(t, Quiet)
  BY vsSet, vsQuiet DEF Done

LEMMA vsTo ==
  ASSUME vsShapes, NEW t \in Callers, NEW pc, To(t, pc), vsPlaced(vsAt(calls[t], pc))
  PROVE  vsBecomes(t, vsAt(calls[t], pc))
  <1>1. calls' = [calls EXCEPT ![t] = vsAt(calls[t], pc)]
    BY DEF To, vsShapes, vsAt
  <1>2. QED BY <1>1, vsSet

\* The fields of a request that goes to another place.
LEMMA vsSame ==
  ASSUME NEW r, NEW pc, vsRecord(r)
  PROVE  /\ vsAt(r, pc).op = r.op /\ vsAt(r, pc).coll = r.coll /\ vsAt(r, pc).by = r.by
         /\ vsAt(r, pc).step = r.step /\ vsAt(r, pc).pc = pc /\ vsAt(r, pc).agent = r.agent
         /\ vsAt(r, pc).id = r.id /\ vsRecord(vsAt(r, pc))
  BY DEF vsAt, vsRecord, vsFields

-----------------------------------------------------------------------------
(* The parts of the invariant over steps. *)

\* Steps that take points away and begin no request that touches one.
LEMMA vsFewer ==
  ASSUME vsOwned, NEW t \in Callers, memories' \subseteq memories,
         past'.used = past.used, past'.imported = past.imported,
         \A u \in Callers : u # t => calls'[u] = calls[u],
         calls'[t] = calls[t] \/ calls'[t].pc \notin {"upsert", "delete"}
  PROVE  vsOwned'
  <1>1. \A a, i : vsHas(a, i)' => vsHas(a, i)
    BY DEF vsHas
  <1>2. QED BY <1>1 DEF vsOwned

\* A request for a point of an id that its agent has, or nobody, or everybody.
LEMMA vsTouches ==
  ASSUME vsOwned, NEW t \in Callers, NEW r, memories' = memories,
         past.used \subseteq past'.used, past.imported \subseteq past'.imported,
         r.id \in past'.used, past'.used \subseteq past.used \union {r.id},
         \A u \in Callers : u # t => calls'[u] = calls[u], calls'[t] = r,
         \/ r.id \notin past.used
         \/ r.id \in past'.imported
         \/ vsHas(r.agent, r.id),
         r.agent \in Tenants
  PROVE  vsOwned'
  <1>1. ASSUME NEW a, NEW i, vsHas(a, i)' PROVE vsHas(a, i) \/ (a = r.agent /\ i = r.id)
    BY <1>1 DEF vsHas
  <1>2. \A a : r.id \notin past.used => ~vsHas(a, r.id)
    BY DEF vsOwned, vsHas
  <1>3. ASSUME NEW i \in past'.used \ past'.imported, NEW a \in Tenants, NEW b \in Tenants,
               vsHas(a, i)', vsHas(b, i)'
        PROVE  a = b
    <2>1. CASE i # r.id
      BY <1>1, <1>3, <2>1 DEF vsOwned
    <2>2. CASE i = r.id
      BY <1>1, <1>2, <1>3, <2>2 DEF vsOwned
    <2>3. QED BY <2>1, <2>2
  <1>4. QED BY <1>3 DEF vsOwned

\* Steps of which no initialisation takes notice.
LEMMA vsApart ==
  ASSUME vsAlone, vsReady, NEW t \in Callers, UNCHANGED <<colls, ready>>,
         \A u \in Callers : u # t => calls'[u] = calls[u],
         calls'[t] = calls[t] \/ calls'[t].op \notin {"init", "create"}
  PROVE  vsAlone' /\ vsReady'
  <1>1. \A u \in Initialising' : u \in Initialising /\ calls'[u] = calls[u]
    BY DEF Initialising
  <1>2. vsAlone'
    BY <1>1 DEF vsAlone
  <1>3. vsReady'
    BY <1>1 DEF vsReady
  <1>4. QED BY <1>2, <1>3

\* Steps that change neither the collections nor the points.
LEMMA vsStill ==
  ASSUME PointsInv, NEW t \in Callers, NEW r, vsBecomes(t, r), UNCHANGED <<colls, memories, ready>>,
         selected' \in Models, past' = past, r.pc \notin {"upsert", "delete"} \/ r = calls[t],
         r.op \notin {"init", "create"} \/ r = calls[t]
  PROVE  PointsInv'
  <1>1. vsShapes'
    BY DEF PointsInv, vsShapes, vsBecomes
  <1>2. vsLying'
    BY DEF PointsInv, vsLying
  <1>3. vsOwned'
    BY vsFewer DEF PointsInv, vsBecomes
  <1>4. vsAlone' /\ vsReady'
    BY vsApart DEF PointsInv, vsBecomes
  <1>5. QED BY <1>1, <1>2, <1>3, <1>4 DEF PointsInv

-----------------------------------------------------------------------------
(* The initialisation. *)

vsInits == {"exists", "same", "dump", "drop", "create", "alias", "undo"}

LEMMA vsWhere ==
  ASSUME PointsInv, NEW t \in Callers, calls[t].pc \in vsInits
  PROVE  /\ calls[t].op \in {"init", "create"} /\ t \in Initialising
         /\ calls[t].coll \in Colls /\ calls[t].by \in Models
         /\ calls[t].op = "init" => /\ calls[t].step \in 1..Len(Names)
                                    /\ calls[t].coll = Names[calls[t].step]
                                    /\ ready.by = NoOne
         /\ calls[t].op = "create" => /\ calls[t].pc \in {"create", "alias", "undo"}
                                      /\ ready.by = NoOne \/ calls[t].coll \notin Range(Names)
  <1>1. vsPlaced(calls[t])
    BY DEF PointsInv, vsShapes
  <1>2. calls[t].op \in {"init", "create"}
    BY <1>1 DEF vsPlaced, vsInits
  <1>3. t \in Initialising
    BY <1>2 DEF Initialising
  <1>4. ready.by # NoOne => calls[t].op = "create" /\ calls[t].coll \notin Range(Names)
    BY <1>3 DEF PointsInv, vsReady
  <1>5. QED BY <1>1, <1>2, <1>3, <1>4 DEF vsPlaced

\* The sequence of the names.
LEMMA vsNames ==
  /\ Len(Names) \in Nat \ {0} /\ DOMAIN Names = 1..Len(Names)
  /\ \A j \in 1..Len(Names) : Names[j] \in Range(Names) /\ Names[j] \in Colls
  /\ \A i, j \in 1..Len(Names) : Names[i] = Names[j] => i = j
  /\ \A c \in Range(Names) : \E j \in 1..Len(Names) : c = Names[j]
  <1>1. Names \in Seq(Range(Names)) /\ Names # <<>> /\ IsInjective(Names)
    BY VectorAssumption
  <1>2. Len(Names) \in Nat \ {0} /\ DOMAIN Names = 1..Len(Names)
    BY <1>1
  <1>3. QED BY <1>1, <1>2 DEF Range, IsInjective, Colls

\* A step of an initialisation that stays with its collection, which alone changes.
LEMMA vsGoes ==
  ASSUME PointsInv, NEW t \in Callers, calls[t].pc \in vsInits, NEW pc \in vsInits,
         vsBecomes(t, vsAt(calls[t], pc)), ready' = ready,
         \A c \in Colls : c # calls[t].coll => colls'[c] = colls[c],
         pc = "alias" => LET k == colls'[calls[t].coll] IN
                         k.there /\ k.size = SizeOf[calls[t].by] /\ k.aliases = {}
  PROVE  vsAlone' /\ vsReady'
  <1> DEFINE r == calls[t]
  <1>1. /\ r.op \in {"init", "create"} /\ t \in Initialising /\ r.coll \in Colls
        /\ r.op = "init" => r.step \in 1..Len(Names) /\ r.coll = Names[r.step] /\ ready.by = NoOne
        /\ r.op = "create" => ready.by = NoOne \/ r.coll \notin Range(Names)
    BY vsWhere
  <1>2. /\ calls'[t].op = r.op /\ calls'[t].coll = r.coll /\ calls'[t].by = r.by
        /\ calls'[t].step = r.step /\ calls'[t].pc = pc
        /\ \A u \in Callers : u # t => calls'[u] = calls[u]
    BY vsKeeps, vsSame DEF vsBecomes
  <1>3. Initialising' = Initialising
    BY <1>2 DEF Initialising
  <1>4. ASSUME ~ready.crossed PROVE vsAlone'
    <2>1. \A u \in Initialising : u = t
      BY <1>1, <1>4 DEF PointsInv, vsAlone
    <2>2. ASSUME r.op = "init", NEW j \in 1..(r.step - 1) PROVE vsFits(colls'[Names[j]], r.by)
      <3>1. vsFits(colls[Names[j]], r.by)
        BY <1>1, <1>4, <2>2 DEF PointsInv, vsAlone
      <3>2. r.step \in Nat /\ j \in 1..Len(Names) /\ j # r.step
        BY <1>1, <2>2, vsNames
      <3>3. Names[j] # r.coll /\ Names[j] \in Colls
        BY <1>1, <2>2, <3>2, vsNames
      <3>4. colls'[Names[j]] = colls[Names[j]]
        BY <3>3
      <3>5. QED BY <3>1, <3>4, <1>2 DEF vsFits
    <2>3. QED BY <1>2, <1>3, <2>1, <2>2 DEF vsAlone, vsFits
  <1>5. vsAlone'
    BY <1>4 DEF vsAlone
  <1>6. vsReady'
    <2>1. SUFFICES ASSUME ready.by # NoOne PROVE vsReady'
      BY DEF vsReady
    <2>2. r.op = "create" /\ r.coll \notin Range(Names)
      BY <1>1, <2>1
    <2>3. \A c \in Range(Names) : vsFits(colls[c], ready.by)
      BY <2>1 DEF PointsInv, vsReady
    <2>4. \A c \in Range(Names) : colls'[c] = colls[c]
      BY <2>2 DEF Colls
    <2>5. \A c \in Range(Names) : vsFits(colls'[c], ready.by)
      BY <2>3, <2>4 DEF vsFits
    <2>6. \A u \in Initialising : calls'[u].op = "create" /\ calls'[u].coll \notin Range(Names)
      BY <1>2, <2>1, <2>2 DEF PointsInv, vsReady, Initialising
    <2>7. QED BY <1>3, <2>5, <2>6 DEF vsReady
  <1>7. QED BY <1>5, <1>6

\* One that ends without success.
LEMMA vsEnds ==
  ASSUME PointsInv, NEW t \in Callers, calls[t].pc \in vsInits,
         vsBecomes(t, Quiet), ready' = ready,
         \A c \in Colls : c # calls[t].coll => colls'[c] = colls[c]
  PROVE  vsAlone' /\ vsReady'
  <1>1. /\ t \in Initialising
        /\ ready.by # NoOne => calls[t].coll \notin Range(Names)
    BY vsWhere
  <1>2. Initialising' = Initialising \ {t} /\ \A u \in Initialising' : calls'[u] = calls[u]
    BY vsQuiet DEF Initialising, vsBecomes
  <1>3. vsAlone'
    BY <1>1, <1>2 DEF PointsInv, vsAlone
  <1>4. ASSUME ready.by # NoOne, NEW c \in Range(Names) PROVE vsFits(colls'[c], ready.by)
    <2>1. vsFits(colls[c], ready.by) /\ colls'[c] = colls[c]
      BY <1>1, <1>4 DEF PointsInv, vsReady, Colls
    <2>2. QED BY <2>1 DEF vsFits
  <1>5. vsReady'
    BY <1>2, <1>4 DEF PointsInv, vsReady
  <1>6. QED BY <1>3, <1>5

\* One that is done with its collection.
LEMMA vsAdvances ==
  ASSUME PointsInv, NEW t \in Callers, calls[t].pc \in vsInits, Advance(t),
         \A c \in Colls : c # calls[t].coll => colls'[c] = colls[c],
         calls[t].op = "init" /\ ~ready.crossed => vsFits(colls'[calls[t].coll], calls[t].by)
  PROVE  /\ vsAlone' /\ vsReady'
         /\ \E r : vsBecomes(t, r) /\ r.pc \notin {"upsert", "delete"}
         /\ ready' = [by |-> ready'.by, crossed |-> ready.crossed] /\ ready'.crossed = ready.crossed
  <1> DEFINE s == calls[t]
  <1>1. /\ s.op \in {"init", "create"} /\ t \in Initialising /\ s.coll \in Colls /\ s.by \in Models
        /\ s.op = "init" => s.step \in 1..Len(Names) /\ s.coll = Names[s.step] /\ ready.by = NoOne
    BY vsWhere
  <1>2. /\ vsPlaced(s) /\ vsShapes
        /\ ready = [by |-> ready.by, crossed |-> ready.crossed]
    BY DEF PointsInv, vsShapes
  <1>3. ASSUME s.op = "init", ~ready.crossed, NEW j \in 1..s.step PROVE vsFits(colls'[Names[j]], s.by)
    <2>1. CASE j = s.step
      BY <1>1, <1>3, <2>1
    <2>2. CASE j # s.step
      <3>1. s.step \in Nat /\ j \in 1..(s.step - 1) /\ j \in 1..Len(Names)
        BY <1>1, <1>3, <2>2, vsNames
      <3>2. vsFits(colls[Names[j]], s.by)
        BY <1>1, <1>3, <3>1 DEF PointsInv, vsAlone
      <3>3. Names[j] # s.coll /\ Names[j] \in Colls
        BY <1>1, <1>3, <2>2, <3>1, vsNames
      <3>4. colls'[Names[j]] = colls[Names[j]]
        BY <3>3
      <3>5. QED BY <3>2, <3>4 DEF vsFits
    <2>3. QED BY <2>1, <2>2
  <1>4. CASE s.op = "init" /\ s.step < Len(Names)
    <2> DEFINE r == [s EXCEPT !.step = s.step + 1, !.pc = "exists", !.coll = Names[s.step + 1]]
    <2>1. s.step + 1 \in 1..Len(Names) /\ s.step \in Nat
      BY <1>1, <1>4, vsNames
    <2>2. /\ r.op = "init" /\ r.pc = "exists" /\ r.step = s.step + 1 /\ r.by = s.by
          /\ r.coll = Names[s.step + 1] /\ vsRecord(r)
      BY <1>2, <1>4 DEF vsPlaced, vsRecord, vsFields
    <2>4. calls' = [calls EXCEPT ![t] = r]
      BY <1>2, <1>4 DEF Advance, vsShapes
    <2>5. ready' = ready /\ r.op = "init" /\ r.pc = "exists" /\ r.step = s.step + 1 /\ r.by = s.by
      BY <1>4, <2>2 DEF Advance
    <2> HIDE DEF r
    <2>3. vsPlaced(r)
      BY <1>1, <2>1, <2>2, vsNames DEF vsPlaced
    <2>6. vsBecomes(t, r)
      BY <1>2, <2>3, <2>4, vsSet
    <2>7. calls'[t] = r /\ \A u \in Callers : u # t => calls'[u] = calls[u]
      BY <2>6 DEF vsBecomes
    <2>8. Initialising' = Initialising
      BY <1>1, <2>5, <2>7 DEF Initialising
    <2>9. vsAlone'
      <3>1. SUFFICES ASSUME ~ready.crossed PROVE vsAlone'
        BY <2>5 DEF vsAlone
      <3>2. \A u \in Initialising : u = t
        BY <1>1, <3>1 DEF PointsInv, vsAlone
      <3>3. \A j \in 1..(r.step - 1) : vsFits(colls'[Names[j]], r.by)
        BY <1>3, <1>4, <2>1, <2>5, <3>1
      <3>4. QED BY <2>5, <2>7, <2>8, <3>2, <3>3 DEF vsAlone, vsFits
    <2>10. vsReady'
      BY <1>1, <1>4, <2>5 DEF vsReady
    <2>11. QED BY <1>2, <2>5, <2>6, <2>9, <2>10
  <1>5. CASE ~(s.op = "init" /\ s.step < Len(Names))
    <2>1. vsBecomes(t, Quiet)
      BY <1>2, <1>5, vsDone DEF Advance
    <2>2. Initialising' = Initialising \ {t}
      BY <2>1, vsQuiet DEF Initialising, vsBecomes
    <2>3. CASE s.op = "init" /\ ~ready.crossed
      <3>1. ready' = [ready EXCEPT !.by = s.by]
        BY <1>5, <2>3 DEF Advance
      <3>2. ready'.by = s.by /\ ready'.crossed = ready.crossed /\ ready' = [by |-> s.by, crossed |-> ready.crossed]
        BY <1>2, <3>1
      <3>3. Initialising' = {}
        BY <1>1, <2>2, <2>3 DEF PointsInv, vsAlone
      <3>4. s.step = Len(Names)
        BY <1>1, <1>5, <2>3, vsNames
      <3>5. \A c \in Range(Names) : vsFits(colls'[c], s.by)
        BY <1>3, <2>3, <3>4, vsNames
      <3>6. vsReady'
        BY <3>2, <3>3, <3>5 DEF vsReady, vsFits
      <3>7. vsAlone'
        BY <3>3 DEF vsAlone
      <3>8. QED BY <2>1, <3>2, <3>6, <3>7, vsQuiet
    <2>4. CASE ~(s.op = "init" /\ ~ready.crossed)
      <3>1. ready' = ready
        BY <1>5, <2>4 DEF Advance
      <3>2. vsAlone' /\ vsReady'
        BY <2>1, <3>1, vsEnds
      <3>3. QED BY <1>2, <2>1, <3>1, <3>2, vsQuiet
    <2>5. QED BY <2>3, <2>4
  <1>6. QED BY <1>4, <1>5

\* The points when collections change: those of a collection that changes are gone,
\* or it has got another alias.
LEMMA vsLies ==
  ASSUME PointsInv, memories' \subseteq memories, NEW c \in Colls, colls' \in [Colls -> vsColl],
         \A d \in Colls : d # c => colls'[d] = colls[d],
         \/ \A p \in memories' : p.coll # c
         \/ colls'[c].there /\ colls[c].aliases \subseteq colls'[c].aliases
         \/ ~colls[c].there
  PROVE  vsLying'
  <1>1. \A p \in memories : /\ p.coll \in Colls /\ colls[p.coll].there
                            /\ p.late \/ p.by \in colls[p.coll].aliases
    BY DEF PointsInv, vsLying
  <1>2. ASSUME NEW p \in memories'
        PROVE  p.coll \in Colls /\ colls'[p.coll].there /\ (p.late \/ p.by \in colls'[p.coll].aliases)
    <2>1. CASE p.coll # c
      BY <1>1, <1>2, <2>1
    <2>2. CASE p.coll = c
      BY <1>1, <1>2, <2>2
    <2>3. QED BY <2>1, <2>2
  <1>3. QED BY <1>2 DEF vsLying

\* A step of an initialisation or a creation, put together.
LEMMA vsRuns ==
  ASSUME PointsInv, NEW t \in Callers, NEW r, vsBecomes(t, r), r.pc \notin {"upsert", "delete"},
         memories' \subseteq memories, NEW c \in Colls, colls' \in [Colls -> vsColl],
         \A d \in Colls : d # c => colls'[d] = colls[d],
         \/ \A p \in memories' : p.coll # c
         \/ colls'[c].there /\ colls[c].aliases \subseteq colls'[c].aliases
         \/ ~colls[c].there,
         past' = [used |-> past.used, imported |-> past.imported, gone |-> past'.gone],
         ready' = [by |-> ready'.by, crossed |-> ready'.crossed], ready'.crossed = ready.crossed,
         selected' = selected, vsAlone', vsReady'
  PROVE  PointsInv'
  <1>1. vsShapes'
    BY DEF PointsInv, vsShapes, vsBecomes
  <1>2. vsLying'
    BY vsLies
  <1>3. vsOwned'
    BY vsFewer DEF PointsInv, vsBecomes
  <1>4. QED BY <1>1, <1>2, <1>3 DEF PointsInv

LEMMA vsPlaces ==
  ASSUME PointsInv, NEW t \in Callers, calls[t].op = "init", calls[t].pc \in vsInits, NEW pc \in vsInits, To(t, pc),
         UNCHANGED <<colls, memories, ready, past, selected>>, pc # "alias"
  PROVE  PointsInv'
  <1>1. vsPlaced(vsAt(calls[t], pc))
    BY vsKeeps, vsSame DEF vsPlaced, vsInits
  <1>2. vsBecomes(t, vsAt(calls[t], pc))
    BY <1>1, vsKeeps, vsTo
  <1>3. vsAlone' /\ vsReady'
    BY <1>2, vsGoes
  <1>4. vsAt(calls[t], pc).pc \notin {"upsert", "delete"}
    BY vsKeeps, vsSame DEF vsInits
  <1>5. calls[t].coll \in Colls
    BY vsWhere
  <1> DEFINE r == vsAt(calls[t], pc)
             c == calls[t].coll
  <1>6. \/ \A p \in memories' : p.coll # c
        \/ colls'[c].there /\ colls[c].aliases \subseteq colls'[c].aliases
        \/ ~colls[c].there
    OBVIOUS
  <1> HIDE DEF r, c
  <1>7. QED BY <1>2, <1>3, <1>4, <1>5, <1>6, vsKeeps, vsRuns DEF r, c

LEMMA vsStops ==
  ASSUME PointsInv, NEW t \in Callers, calls[t].pc \in vsInits, Done(t),
         UNCHANGED <<colls, memories, ready, past, selected>>
  PROVE  PointsInv'
  <1>1. vsBecomes(t, Quiet)
    BY vsKeeps, vsDone
  <1>2. vsAlone' /\ vsReady'
    BY <1>1, vsEnds
  <1>3. calls[t].coll \in Colls
    BY vsWhere
  <1>4. QED BY <1>1, <1>2, <1>3, vsKeeps, vsRuns, vsQuiet

LEMMA vsDropped ==
  ASSUME PointsInv, NEW c \in Colls, DropColl(c)
  PROVE  /\ colls' \in [Colls -> vsColl] /\ \A d \in Colls : d # c => colls'[d] = colls[d]
         /\ ~colls'[c].there
         /\ memories' \subseteq memories /\ \A p \in memories' : p.coll # c
         /\ \A p \in memories \ memories' : p.coll = c
         /\ past' = [used |-> past.used, imported |-> past.imported, gone |-> past'.gone]
  BY vsKeeps DEF DropColl, Loses, vsColl, Missing

LEMMA vsDrops ==
  ASSUME PointsInv, NEW t \in Callers, Drop(t) \/ Undo(t)
  PROVE  PointsInv'
  <1>1. calls[t].pc \in vsInits /\ (Drop(t) => calls[t].op = "init")
    BY DEF Drop, Undo, AtPc, vsInits
  <1>2. calls[t].coll \in Colls
    BY <1>1, vsWhere
  <1>3. DropColl(calls[t].coll) /\ ready' = ready /\ selected' = selected
    BY DEF Drop, Undo
  <1> DEFINE c == calls[t].coll
  <1>4. /\ colls' \in [Colls -> vsColl] /\ \A d \in Colls : d # c => colls'[d] = colls[d]
        /\ memories' \subseteq memories /\ \A p \in memories' : p.coll # c
        /\ past' = [used |-> past.used, imported |-> past.imported, gone |-> past'.gone]
    BY <1>2, <1>3, vsDropped
  <1>5. CASE Drop(t)
    <2> DEFINE r == vsAt(calls[t], "create")
    <2>1. vsPlaced(r) /\ r.pc = "create"
      BY <1>1, <1>5, vsKeeps, vsSame DEF vsPlaced
    <2>2. To(t, "create")
      BY <1>5 DEF Drop
    <2>3. vsBecomes(t, r)
      BY <2>1, <2>2, vsKeeps, vsTo
    <2>4. vsAlone' /\ vsReady'
      BY <1>1, <1>3, <1>4, <2>3, vsGoes DEF vsInits
    <2> HIDE DEF r, c
    <2>5. QED BY <1>2, <1>3, <1>4, <2>1, <2>3, <2>4, vsKeeps, vsRuns DEF c
  <1>6. CASE Undo(t)
    <2>1. vsBecomes(t, Quiet)
      BY <1>6, vsKeeps, vsDone DEF Undo
    <2>2. vsAlone' /\ vsReady'
      BY <1>1, <1>3, <1>4, <2>1, vsEnds
    <2> HIDE DEF c
    <2>3. QED BY <1>2, <1>3, <1>4, <2>1, <2>2, vsKeeps, vsQuiet, vsRuns DEF c
  <1>7. QED BY <1>5, <1>6

LEMMA vsCreates ==
  ASSUME PointsInv, NEW t \in Callers, Create(t)
  PROVE  PointsInv'
  <1> DEFINE c == calls[t].coll
  <1>1. /\ calls[t].pc \in vsInits /\ calls[t].pc = "create"
        /\ UNCHANGED <<memories, selected, ready, past>>
    BY DEF Create, vsInits
  <1>2. c \in Colls /\ calls[t].by \in Models /\ calls[t].op \in {"init", "create"}
    BY <1>1, vsWhere
  <1>3. CASE colls[c].there
    BY <1>1, <1>3, vsStops DEF Create
  <1>4. CASE ~colls[c].there
    <2> DEFINE r == vsAt(calls[t], "alias")
    <2>1. vsPlaced(r) /\ r.pc = "alias"
      BY <1>1, <1>2, vsKeeps, vsSame DEF vsPlaced
    <2>2. To(t, "alias")
      BY <1>4 DEF Create
    <2>3. vsBecomes(t, r)
      BY <2>1, <2>2, vsKeeps, vsTo
    <2> DEFINE k == [size |-> SizeOf[calls[t].by], aliases |-> {}, gen |-> colls[c].gen + 1, there |-> TRUE,
                     mixed |-> FALSE]
    <2>7. k \in vsColl /\ k.there /\ k.size = SizeOf[calls[t].by] /\ k.aliases = {}
      BY <1>2, vsKeeps, VectorAssumption DEF vsColl
    <2>8. colls' = [colls EXCEPT ![c] = k]
      BY <1>4 DEF Create
    <2> HIDE DEF k
    <2>4. /\ colls' \in [Colls -> vsColl] /\ \A d \in Colls : d # c => colls'[d] = colls[d]
          /\ colls'[c].there /\ colls'[c].size = SizeOf[calls[t].by] /\ colls'[c].aliases = {}
      BY <1>2, <2>7, <2>8, vsKeeps
    <2>5. vsAlone' /\ vsReady'
      BY <1>1, <2>3, <2>4, vsGoes DEF vsInits
    <2> HIDE DEF r, c
    <2>6. QED BY <1>1, <1>2, <1>4, <2>1, <2>3, <2>4, <2>5, vsKeeps, vsRuns
  <1>5. QED BY <1>3, <1>4

\* A collection with other aliases.
vsRenamed(K, A, m) ==
    [K EXCEPT !.aliases = A, !.mixed = m] =
      [size |-> K.size, aliases |-> A, gen |-> K.gen, there |-> K.there, mixed |-> m]

LEMMA vsNamed ==
  ASSUME NEW K, NEW A, NEW m,
         K = [size |-> K.size, aliases |-> K.aliases, gen |-> K.gen, there |-> K.there,
              mixed |-> K.mixed]
  PROVE  vsRenamed(K, A, m)
  <1> DEFINE F == {"size", "aliases", "gen", "there", "mixed"}
             L == [K EXCEPT !.aliases = A, !.mixed = m]
  <1>1. DOMAIN L = F /\ L = [f \in F |-> L[f]]
    OBVIOUS
  <1>2. L.size = K.size /\ L.aliases = A /\ L.gen = K.gen /\ L.there = K.there /\ L.mixed = m
    OBVIOUS
  <1> HIDE DEF L
  <1>3. L = [size |-> K.size, aliases |-> A, gen |-> K.gen, there |-> K.there, mixed |-> m]
    BY <1>1, <1>2
  <1>4. QED BY <1>3 DEF L, vsRenamed

LEMMA vsAliases ==
  ASSUME PointsInv, NEW t \in Callers, Alias(t)
  PROVE  PointsInv'
  <1> DEFINE c == calls[t].coll
  <1>1. calls[t].pc \in vsInits /\ calls[t].pc = "alias" /\ UNCHANGED <<memories, selected, past>>
    BY DEF Alias, vsInits
  <1>2. /\ c \in Colls /\ calls[t].by \in Models /\ calls[t].op \in {"init", "create"}
        /\ t \in Initialising
    BY <1>1, vsWhere
  <1> DEFINE m == colls[c].mixed \/ (ready.crossed /\ colls[c].aliases # {})
  <1>3. ASSUME colls[c].there, Advance(t),
               colls' = [colls EXCEPT ![c].aliases = @ \union {calls[t].by}, ![c].mixed = m]
        PROVE  PointsInv'
    <2>0. ~ready.crossed => colls[c].aliases = {}
      BY <1>1, <1>2 DEF PointsInv, vsAlone
    <2> DEFINE k == [size |-> colls[c].size, aliases |-> colls[c].aliases \union {calls[t].by},
                     gen |-> colls[c].gen, there |-> colls[c].there, mixed |-> m]
    <2>7. colls[c] \in vsColl /\ ready.crossed \in BOOLEAN
      BY <1>2, vsKeeps DEF vsShapes
    <2>8. k \in vsColl
      BY <1>2, <2>0, <2>7 DEF vsColl
    <2>9. colls' = [colls EXCEPT ![c] = k]
      <3>1. colls[c] = [size |-> colls[c].size, aliases |-> colls[c].aliases, gen |-> colls[c].gen,
                        there |-> colls[c].there, mixed |-> colls[c].mixed]
        BY <2>7 DEF vsColl
      <3>2. [colls[c] EXCEPT !.aliases = @ \union {calls[t].by}, !.mixed = m] = k
        <4>1. vsRenamed(colls[c], colls[c].aliases \union {calls[t].by}, m)
          BY <3>1, vsNamed
        <4>2. QED BY <4>1 DEF vsRenamed
      <3> HIDE DEF k, m
      <3>3. colls' = [colls EXCEPT ![c] =
                        [colls[c] EXCEPT !.aliases = @ \union {calls[t].by}, !.mixed = m]]
        BY <1>2, <1>3, vsKeeps
      <3>4. QED BY <3>2, <3>3
    <2>10. k.there = colls[c].there /\ k.size = colls[c].size /\ k.mixed = m
           /\ k.aliases = colls[c].aliases \union {calls[t].by}
      OBVIOUS
    <2> HIDE DEF k, m
    <2>1. /\ colls' \in [Colls -> vsColl] /\ \A d \in Colls : d # c => colls'[d] = colls[d]
          /\ colls'[c].there /\ colls'[c].size = colls[c].size
          /\ colls'[c].aliases = colls[c].aliases \union {calls[t].by}
      BY <1>2, <1>3, <2>8, <2>9, <2>10, vsKeeps
    <2>2. calls[t].op = "init" /\ ~ready.crossed => vsFits(colls'[calls[t].coll], calls[t].by)
      BY <1>1, <1>2, <2>1 DEF PointsInv, vsAlone, vsFits
    <2>3. /\ vsAlone' /\ vsReady'
          /\ \E r : vsBecomes(t, r) /\ r.pc \notin {"upsert", "delete"}
          /\ ready' = [by |-> ready'.by, crossed |-> ready.crossed] /\ ready'.crossed = ready.crossed
      BY <1>1, <1>3, <2>1, <2>2, vsAdvances
    <2>4. PICK r : vsBecomes(t, r) /\ r.pc \notin {"upsert", "delete"}
      BY <2>3
    <2> HIDE DEF c
    <2>5. QED BY <1>1, <1>2, <2>1, <2>3, <2>4, vsKeeps, vsRuns
  <1>4. ASSUME To(t, "undo"), UNCHANGED <<colls, ready>> PROVE PointsInv'
    <2> DEFINE r == vsAt(calls[t], "undo")
    <2>1. vsPlaced(r) /\ r.pc = "undo"
      BY <1>1, <1>2, vsKeeps, vsSame DEF vsPlaced
    <2>2. vsBecomes(t, r)
      BY <1>4, <2>1, vsKeeps, vsTo
    <2>3. vsAlone' /\ vsReady'
      BY <1>1, <1>4, <2>2, vsGoes DEF vsInits
    <2>4. \/ \A p \in memories' : p.coll # c
          \/ colls'[c].there /\ colls[c].aliases \subseteq colls'[c].aliases
          \/ ~colls[c].there
      BY <1>4
    <2> HIDE DEF r, c
    <2>5. QED BY <1>1, <1>2, <1>4, <2>1, <2>2, <2>3, <2>4, vsKeeps, vsRuns
  <1>5. QED BY <1>3, <1>4 DEF Alias

LEMMA vsCompares ==
  ASSUME PointsInv, NEW t \in Callers, Exists(t) \/ Compare(t) \/ Dump(t)
  PROVE  PointsInv'
  <1> DEFINE c == calls[t].coll
  <1>1. /\ calls[t].pc \in vsInits /\ calls[t].op = "init"
        /\ UNCHANGED <<colls, memories, selected, past>>
    BY DEF Exists, Compare, Dump, AtPc, vsInits
  <1>2. ASSUME Advance(t), NEW first \in IF colls[c].aliases = {} THEN {NoOne} ELSE colls[c].aliases,
               Same(c, calls[t].by, first), colls[c].there
        PROVE  PointsInv'
    <2>1. vsFits(colls'[calls[t].coll], calls[t].by)
      <3>1. c \in Colls /\ calls[t].by \in Models
        BY <1>1, vsWhere
      <3>2. colls[c] \in vsColl
        BY <3>1, vsKeeps
      <3>3. first = calls[t].by /\ calls[t].by \in colls[c].aliases
        BY <1>2, <3>1, VectorAssumption DEF Same
      <3>4. QED BY <1>1, <1>2, <3>2, <3>3 DEF Same, vsFits, vsColl
    <2>2. /\ vsAlone' /\ vsReady'
          /\ \E r : vsBecomes(t, r) /\ r.pc \notin {"upsert", "delete"}
          /\ ready' = [by |-> ready'.by, crossed |-> ready.crossed] /\ ready'.crossed = ready.crossed
      BY <1>1, <1>2, <2>1, vsAdvances
    <2>3. PICK r : vsBecomes(t, r) /\ r.pc \notin {"upsert", "delete"}
      BY <2>2
    <2>4. c \in Colls
      BY <1>1, vsWhere
    <2>5. colls'[c].there /\ colls[c].aliases \subseteq colls'[c].aliases
      BY <1>1, <1>2
    <2> HIDE DEF c
    <2>6. QED BY <1>1, <2>2, <2>3, <2>4, <2>5, vsKeeps, vsRuns
  <1>3. ASSUME NEW pc \in {"same", "dump", "drop", "create"}, To(t, pc), ready' = ready PROVE PointsInv'
    BY <1>1, <1>3, vsPlaces DEF vsInits
  <1>4. ASSUME Done(t), ready' = ready PROVE PointsInv'
    BY <1>1, <1>4, vsStops
  <1>5. CASE Exists(t)
    BY <1>3, <1>5 DEF Exists
  <1>6. CASE Compare(t)
    <2>1. CASE ~colls[c].there
      BY <1>4, <1>6, <2>1 DEF Compare
    <2>2. CASE colls[c].there
      <3>1. PICK first \in IF colls[c].aliases = {} THEN {NoOne} ELSE colls[c].aliases :
              IF Same(c, calls[t].by, first) THEN Advance(t)
              ELSE To(t, IF bounds.dumps THEN "dump" ELSE "drop") /\ UNCHANGED ready
        BY <1>6, <2>2 DEF Compare
      <3>2. CASE Same(c, calls[t].by, first)
        BY <1>2, <2>2, <3>1, <3>2
      <3>3. CASE ~Same(c, calls[t].by, first)
        BY <1>3, <3>1, <3>3
      <3>4. QED BY <3>2, <3>3
    <2>3. QED BY <2>1, <2>2
  <1>7. CASE Dump(t)
    BY <1>3, <1>4, <1>7 DEF Dump
  <1>8. QED BY <1>5, <1>6, <1>7

-----------------------------------------------------------------------------
(* Requests begin. *)

LEMMA vsBegins ==
  ASSUME vsShapes, NEW t \in Callers, NEW r, vsPlaced(r), Begin(t, r)
  PROVE  vsBecomes(t, r) /\ calls[t] = Quiet
  BY vsSet DEF Begin

LEMMA vsStartInit ==
  ASSUME PointsInv, NEW t \in Callers, NEW a \in Tenants, StartInit(t, a)
  PROVE  PointsInv'
  <1> DEFINE r == [Quiet EXCEPT !.op = "init", !.agent = a, !.by = selected, !.pc = "exists", !.coll = Names[1]]
  <1>1. 1 \in 1..Len(Names) /\ Names[1] \in Colls
    BY vsNames
  <1>2. /\ vsPlaced(r) /\ r.op = "init" /\ r.pc = "exists" /\ r.by = selected /\ r.coll = Names[1]
        /\ r.step = 1
    BY <1>1, vsKeeps DEF vsPlaced, vsRecord, vsFields, Quiet
  <1>3. Begin(t, r) /\ UNCHANGED <<colls, memories, selected, past>>
    BY DEF StartInit
  <1>4. /\ ready'.by = NoOne /\ ready'.crossed = (Initialising # {}) /\ ready'.crossed \in BOOLEAN
        /\ ready' = [by |-> ready'.by, crossed |-> ready'.crossed]
    BY DEF StartInit
  <1> HIDE DEF r
  <1>5. vsBecomes(t, r) /\ calls[t] = Quiet
    BY <1>2, <1>3, vsKeeps, vsBegins
  <1>6. vsShapes'
    BY <1>3, <1>4, <1>5, vsKeeps DEF vsShapes, vsBecomes
  <1>7. vsLying'
    BY <1>3 DEF PointsInv, vsLying
  <1>8. vsOwned'
    BY <1>2, <1>3, <1>5, vsFewer DEF PointsInv, vsBecomes
  <1>9. ASSUME ~ready'.crossed PROVE Initialising' = {t}
    BY <1>2, <1>4, <1>5, <1>9 DEF Initialising, vsBecomes
  <1>10. vsAlone'
    BY <1>2, <1>5, <1>9 DEF vsAlone, vsBecomes
  <1>11. vsReady'
    BY <1>4 DEF vsReady
  <1>12. QED BY <1>6, <1>7, <1>8, <1>10, <1>11 DEF PointsInv

LEMMA vsStartCreate ==
  ASSUME PointsInv, NEW t \in Callers, NEW a \in Tenants, NEW c \in Colls, StartCreate(t, a, c)
  PROVE  PointsInv'
  <1> DEFINE r == [Quiet EXCEPT !.op = "create", !.agent = a, !.by = selected, !.coll = c, !.pc = "create"]
  <1>1. vsPlaced(r) /\ r.op = "create" /\ r.pc = "create" /\ r.coll = c
    BY vsKeeps DEF vsPlaced, vsRecord, vsFields, Quiet
  <1>2. Begin(t, r) /\ UNCHANGED <<colls, memories, selected, past>> /\ ~colls[c].there
    BY DEF StartCreate
  <1>3. /\ ready'.by = ready.by /\ ready'.crossed = (Initialising # {}) /\ ready'.crossed \in BOOLEAN
        /\ ready' = [by |-> ready'.by, crossed |-> ready'.crossed]
    BY vsKeeps DEF StartCreate
  <1> HIDE DEF r
  <1>4. vsBecomes(t, r) /\ calls[t] = Quiet
    BY <1>1, <1>2, vsKeeps, vsBegins
  <1>5. vsShapes'
    BY <1>2, <1>3, <1>4, vsKeeps DEF vsShapes, vsBecomes
  <1>6. vsLying'
    BY <1>2 DEF PointsInv, vsLying
  <1>7. vsOwned'
    BY <1>1, <1>2, <1>4, vsFewer DEF PointsInv, vsBecomes
  <1>8. ASSUME ~ready'.crossed PROVE Initialising' = {t}
    BY <1>1, <1>3, <1>4, <1>8 DEF Initialising, vsBecomes
  <1>9. vsAlone'
    BY <1>1, <1>4, <1>8 DEF vsAlone, vsBecomes
  <1>10. vsReady'
    <2>1. SUFFICES ASSUME ready.by # NoOne PROVE vsReady'
      BY <1>3 DEF vsReady
    <2>2. c \notin Range(Names)
      BY <1>2, <2>1 DEF PointsInv, vsReady, vsFits
    <2>3. \A u \in Initialising' : calls'[u].op = "create" /\ calls'[u].coll \notin Range(Names)
      BY <1>1, <1>4, <2>1, <2>2 DEF PointsInv, vsReady, Initialising, vsBecomes
    <2>4. QED BY <1>2, <1>3, <2>1, <2>3 DEF PointsInv, vsReady
  <1>11. QED BY <1>5, <1>6, <1>7, <1>9, <1>10 DEF PointsInv

\* A request that touches a point begins.
LEMMA vsReaches ==
  ASSUME PointsInv, NEW t \in Callers, NEW r, vsPlaced(r), Begin(t, r),
         r.op \notin {"init", "create"}, r.agent \in Tenants,
         UNCHANGED <<colls, memories, selected, ready>>,
         past' = [used |-> past'.used, imported |-> past'.imported, gone |-> past'.gone],
         past.used \subseteq past'.used, past.imported \subseteq past'.imported,
         r.id \in past'.used, past'.used \subseteq past.used \union {r.id},
         \/ r.id \notin past.used
         \/ r.id \in past'.imported
         \/ vsHas(r.agent, r.id)
  PROVE  PointsInv'
  <1>1. vsBecomes(t, r)
    BY vsKeeps, vsBegins
  <1>2. vsShapes'
    BY <1>1, vsKeeps DEF vsShapes, vsBecomes
  <1>3. vsLying'
    BY DEF PointsInv, vsLying
  <1>4. vsOwned'
    BY <1>1, vsTouches DEF PointsInv, vsBecomes
  <1>5. vsAlone' /\ vsReady'
    BY <1>1, vsApart DEF PointsInv, vsBecomes
  <1>6. QED BY <1>2, <1>3, <1>4, <1>5 DEF PointsInv

LEMMA vsStarts ==
  ASSUME PointsInv, NEW t \in Callers, NEW a \in Tenants, NEW c \in Colls, NEW id \in Ids,
         StartAdd(t, a, c, id) \/ StartEdit(t, a, c, id) \/ StartDelete(t, a, c, id)
         \/ StartImport(t, a, id)
  PROVE  PointsInv'
  <1>1. past = [used |-> past.used, imported |-> past.imported, gone |-> past.gone]
    BY vsKeeps
  <1>2. \A p \in memories : p.id \in past.used
    BY DEF PointsInv, vsOwned
  <1>3. CASE StartAdd(t, a, c, id)
    <2> DEFINE r == [Quiet EXCEPT !.op = "add", !.agent = a, !.coll = c, !.id = id, !.by = selected, !.pc = "upsert"]
    <2>1. vsPlaced(r) /\ r.op = "add" /\ r.id = id /\ r.agent = a
      BY DEF vsPlaced, vsRecord, vsFields, Quiet
    <2>2. Begin(t, r) /\ UNCHANGED <<colls, memories, selected, ready>>
      BY <1>3 DEF StartAdd
    <2>3. /\ past' = [used |-> past'.used, imported |-> past'.imported, gone |-> past'.gone]
          /\ past'.used = past.used \union {id} /\ past'.imported = past.imported /\ id \notin past.used
      BY <1>1, <1>3 DEF StartAdd
    <2> HIDE DEF r
    <2>4. QED BY <2>1, <2>2, <2>3, vsReaches
  <1>4. CASE StartImport(t, a, id)
    <2> DEFINE r == [Quiet EXCEPT !.op = "import", !.agent = a, !.coll = Names[1], !.id = id, !.by = selected, !.pc = "upsert"]
    <2>5. Names[1] \in Colls
      BY vsNames
    <2>1. vsPlaced(r) /\ r.op = "import" /\ r.id = id /\ r.agent = a
      BY <2>5 DEF vsPlaced, vsRecord, vsFields, Quiet
    <2>2. Begin(t, r) /\ UNCHANGED <<colls, memories, selected, ready>>
      BY <1>4 DEF StartImport
    <2>3. /\ past' = [used |-> past'.used, imported |-> past'.imported, gone |-> past'.gone]
          /\ past'.used = past.used \union {id} /\ past'.imported = past.imported \union {id}
      BY <1>1, <1>4 DEF StartImport
    <2> HIDE DEF r
    <2>4. QED BY <2>1, <2>2, <2>3, vsReaches
  <1>5. ASSUME StartEdit(t, a, c, id) \/ StartDelete(t, a, c, id)
        PROVE  vsHas(a, id) /\ id \in past.used
    <2>1. PICK p \in memories : p.id = id /\ p.tenant = a
      BY <1>5 DEF StartEdit, StartDelete, Verify, Mine, IdsOf
    <2>2. QED BY <1>2, <2>1 DEF vsHas
  <1>6. CASE StartEdit(t, a, c, id)
    <2> DEFINE r == [Quiet EXCEPT !.op = "edit", !.agent = a, !.coll = c, !.id = id, !.by = selected, !.pc = "upsert"]
    <2>1. vsPlaced(r) /\ r.op = "edit" /\ r.id = id /\ r.agent = a
      BY DEF vsPlaced, vsRecord, vsFields, Quiet
    <2>2. Begin(t, r) /\ UNCHANGED <<colls, memories, selected, ready, past>>
      BY <1>6 DEF StartEdit
    <2> HIDE DEF r
    <2>3. QED BY <1>1, <1>5, <1>6, <2>1, <2>2, vsReaches
  <1>7. CASE StartDelete(t, a, c, id)
    <2> DEFINE r == [Quiet EXCEPT !.op = "delete", !.agent = a, !.coll = c, !.id = id, !.pc = "delete"]
    <2>1. vsPlaced(r) /\ r.op = "delete" /\ r.id = id /\ r.agent = a
      BY DEF vsPlaced, vsRecord, vsFields, Quiet
    <2>2. Begin(t, r) /\ UNCHANGED <<colls, memories, selected, ready, past>>
      BY <1>7 DEF StartDelete
    <2> HIDE DEF r
    <2>3. QED BY <1>1, <1>5, <1>7, <2>1, <2>2, vsReaches
  <1>8. QED BY <1>3, <1>4, <1>6, <1>7

-----------------------------------------------------------------------------
(* Points come and go; walks. *)

LEMMA vsPuts ==
  ASSUME PointsInv, NEW t \in Callers, PutPoint(t)
  PROVE  PointsInv'
  <1> DEFINE r == calls[t]
             k == colls[r.coll]
             n == [coll |-> r.coll, id |-> r.id, tenant |-> r.agent, by |-> r.by,
                   late |-> r.by \notin k.aliases]
  <1>1. r.pc = "upsert" /\ Upsert(t, r.id) /\ Done(t) /\ UNCHANGED <<colls, selected, ready, past>>
    BY DEF PutPoint
  <1>2. r.op \in {"add", "import", "edit"} /\ r.coll \in Colls
    BY <1>1, vsKeeps DEF vsPlaced
  <1>3. vsBecomes(t, Quiet)
    BY <1>1, vsKeeps, vsDone
  <1>4. vsShapes'
    BY <1>1, <1>3, vsKeeps DEF vsShapes, vsBecomes
  <1>5. vsAlone' /\ vsReady'
    BY <1>1, <1>3, vsApart, vsQuiet DEF PointsInv, vsBecomes
  <1>6. \A p \in memories' : p \in memories \/ (p = n /\ k.there)
    BY <1>1 DEF Upsert
  <1>7. /\ n.coll = r.coll /\ n.id = r.id /\ n.tenant = r.agent /\ n.by = r.by
        /\ n.late \/ r.by \in k.aliases
    OBVIOUS
  <1> HIDE DEF n
  <1>8. vsLying'
    BY <1>1, <1>2, <1>6, <1>7 DEF PointsInv, vsLying
  <1>9. \A a, i : vsHas(a, i)' => vsHas(a, i)
    BY <1>1, <1>3, <1>6, <1>7, vsQuiet DEF vsHas, vsBecomes
  <1>10. vsOwned'
    BY <1>1, <1>3, <1>6, <1>7, <1>9, vsQuiet DEF PointsInv, vsOwned, vsBecomes
  <1>11. QED BY <1>4, <1>5, <1>8, <1>10 DEF PointsInv

\* Points that go, by a deletion or a purge.
LEMMA vsGone ==
  ASSUME PointsInv, NEW S, Loses(S), NEW t \in Callers,
         UNCHANGED <<colls, selected, ready>>, (Done(t) /\ calls[t].pc = "delete") \/ calls' = calls
  PROVE  PointsInv'
  <1>1. /\ memories' \subseteq memories
        /\ past' = [used |-> past.used, imported |-> past.imported, gone |-> past'.gone]
    BY vsKeeps DEF Loses
  <1>2. vsBecomes(t, Quiet) \/ calls' = calls
    BY vsKeeps, vsDone
  <1>3. vsShapes'
    BY <1>1, <1>2, vsKeeps DEF vsShapes, vsBecomes
  <1>4. vsLying'
    BY <1>1 DEF PointsInv, vsLying
  <1>5. vsOwned'
    BY <1>1, <1>2, vsFewer, vsQuiet DEF PointsInv, vsBecomes
  <1>6. vsAlone' /\ vsReady'
    BY <1>2, vsApart, vsQuiet DEF PointsInv, vsBecomes
  <1>7. QED BY <1>3, <1>4, <1>5, <1>6 DEF PointsInv

LEMMA vsWalks ==
  ASSUME PointsInv, NEW t \in Callers,
         \/ \E a \in Tenants, c \in Colls : StartWalk(t, a, c)
         \/ NextPage(t) \/ EndWalk(t)
  PROVE  PointsInv'
  <1>1. past' = past /\ UNCHANGED <<colls, memories, selected, ready>>
    BY DEF StartWalk, NextPage, EndWalk
  <1>2. ASSUME NEW a \in Tenants, NEW c \in Colls, StartWalk(t, a, c) PROVE PointsInv'
    <2> DEFINE r == [Quiet EXCEPT !.op = "walk", !.agent = a, !.coll = c, !.pc = "page",
                              !.start = IdsOf(Mine(a, c))]
    <2>1. vsPlaced(r) /\ r.op = "walk" /\ r.pc = "page"
      BY DEF vsPlaced, vsRecord, vsFields, Quiet
    <2>2. Begin(t, r)
      BY <1>2 DEF StartWalk
    <2> HIDE DEF r
    <2>3. vsBecomes(t, r)
      BY <2>1, <2>2, vsKeeps, vsBegins
    <2>4. QED BY <1>1, <2>1, <2>3, vsKeeps, vsStill
  <1>3. CASE EndWalk(t)
    <2>1. vsBecomes(t, Quiet)
      BY <1>3, vsKeeps, vsDone DEF EndWalk
    <2>2. QED BY <1>1, <2>1, vsKeeps, vsQuiet, vsStill
  <1>4. CASE NextPage(t)
    <2> DEFINE ids == Sorted({j \in IdsOf(Mine(calls[t].agent, calls[t].coll)) : j >= calls[t].id})
               s == calls[t].seen \o SubSeq(ids, 1, Min({Page, Len(ids)}))
               i == Offset(ids)
               pc == IF i = 0 THEN "walked" ELSE "page"
    <2>1. calls' = [calls EXCEPT ![t].seen = s, ![t].id = i, ![t].pc = pc]
      BY <1>4 DEF NextPage
    <2>3. pc \in {"page", "walked"}
      OBVIOUS
    <2> HIDE DEF ids, s, i, pc
    <2> DEFINE c == calls[t]
               r == [c EXCEPT !.seen = s, !.id = i, !.pc = pc]
    <2>2. c.op = "walk" /\ vsPlaced(c)
      BY <1>4, vsKeeps DEF NextPage, AtPc
    <2>4. calls' = [calls EXCEPT ![t] = r]
      BY <2>1, vsKeeps DEF vsShapes
    <2>5. vsPlaced(r) /\ r.op = "walk" /\ r.pc \in {"page", "walked"}
      BY <2>2, <2>3 DEF vsPlaced, vsRecord, vsFields
    <2> HIDE DEF r
    <2>6. vsBecomes(t, r)
      BY <2>4, <2>5, vsKeeps, vsSet
    <2>7. QED BY <1>1, <2>5, <2>6, vsKeeps, vsStill
  <1>5. QED BY <1>2, <1>3, <1>4

LEMMA vsDies ==
  ASSUME PointsInv, NEW t \in Callers, Die(t)
  PROVE  PointsInv'
  <1>1. /\ Done(t) /\ past' = past /\ UNCHANGED <<colls, memories, selected, ready>>
    BY DEF Die
  <1>2. CASE calls[t].pc \in vsInits
    BY <1>1, <1>2, vsStops
  <1>3. CASE calls[t].pc \notin vsInits
    <2>1. vsBecomes(t, Quiet)
      BY <1>1, vsKeeps, vsDone
    <2>2. QED BY <1>1, <2>1, vsKeeps, vsQuiet, vsStill
  <1>4. QED BY <1>2, <1>3

LEMMA vsSelects ==
  ASSUME PointsInv, (\E e \in Models : SelectEmbedder(e)) \/ UNCHANGED vsVars
  PROVE  PointsInv'
  <1>1. selected' \in Models /\ UNCHANGED <<colls, memories, calls, ready, past>>
    BY vsKeeps DEF SelectEmbedder, vsVars
  <1>2. vsShapes' /\ vsLying' /\ vsOwned'
    BY <1>1 DEF PointsInv, vsShapes, vsLying, vsOwned, vsHas
  <1>3. vsAlone' /\ vsReady'
    BY <1>1 DEF PointsInv, vsAlone, vsReady, Initialising
  <1>4. QED BY <1>2, <1>3 DEF PointsInv

LEMMA vsStart == vsInit => PointsInv
  <1> SUFFICES ASSUME vsInit PROVE PointsInv
    OBVIOUS
  <1>1. PICK owner \in [Ids -> Tenants \union {NoOne}] :
           memories = {[coll |-> Names[1], id |-> i, tenant |-> owner[i], by |-> selected,
                        late |-> FALSE] : i \in {j \in Ids : owner[j] # NoOne}}
    BY DEF vsInit
  <1>2. /\ selected \in Models /\ calls = [t \in Callers |-> Quiet]
        /\ ready = [by |-> selected, crossed |-> FALSE]
        /\ past = [used |-> IdsOf(memories), imported |-> {}, gone |-> {}]
        /\ colls = [c \in Colls |-> IF c \in Range(Names)
                  THEN [size |-> SizeOf[selected], aliases |-> {selected}, gen |-> 1,
                        there |-> TRUE, mixed |-> FALSE]
                  ELSE Missing]
    BY DEF vsInit
  <1>3. colls \in [Colls -> vsColl]
    BY <1>2, VectorAssumption DEF vsColl, Missing
  <1>4. vsShapes
    BY <1>2, <1>3, vsQuiet DEF vsShapes
  <1>5. \A c \in Range(Names) : c \in Colls /\ vsFits(colls[c], selected)
    BY <1>2 DEF Colls, vsFits
  <1>6. \A p \in memories : p.coll = Names[1] /\ p.by = selected /\ p.id \in Ids /\ p.tenant = owner[p.id]
                          /\ p.tenant \in Tenants
    BY <1>1
  <1>7. vsLying
    BY <1>5, <1>6, vsNames DEF vsLying, vsFits
  <1>8. vsOwned
    <2>1. \A t \in Callers : calls[t].pc = "idle"
      BY <1>2, vsQuiet
    <2>2. \A p \in memories : p.id \in past.used
      BY <1>2 DEF IdsOf
    <2>3. \A a, i : vsHas(a, i) => a = owner[i]
      BY <1>6, <2>1 DEF vsHas
    <2>4. QED BY <1>6, <2>1, <2>2, <2>3 DEF vsOwned
  <1>9. Initialising = {}
    BY <1>2, vsQuiet DEF Initialising
  <1>10. vsAlone /\ vsReady
    BY <1>2, <1>5, <1>9 DEF vsAlone, vsReady
  <1>11. QED BY <1>4, <1>7, <1>8, <1>10 DEF PointsInv

LEMMA vsStep == PointsInv /\ [vsNext]_vsVars => PointsInv'
  <1> SUFFICES ASSUME PointsInv, [vsNext]_vsVars PROVE PointsInv'
    OBVIOUS
  <1>1. ASSUME NEW t \in Callers, DeletePoint(t) PROVE PointsInv'
    BY <1>1, vsGone DEF DeletePoint, AtPc
  <1>2. ASSUME NEW a \in Tenants, NEW c \in Colls, NEW S \in SUBSET memories, Purge(a, c, S) PROVE PointsInv'
    <2>1. /\ Loses(S) /\ UNCHANGED <<colls, calls, selected, ready>>
      BY <1>2 DEF Purge
    <2>2. /\ memories' \subseteq memories
          /\ past' = [used |-> past.used, imported |-> past.imported, gone |-> past'.gone]
      BY <2>1, vsKeeps DEF Loses
    <2>3. vsShapes' /\ vsLying'
      BY <2>1, <2>2 DEF PointsInv, vsShapes, vsLying
    <2>4. vsOwned'
      BY <2>1, <2>2 DEF PointsInv, vsOwned, vsHas
    <2>5. vsAlone' /\ vsReady'
      BY <2>1 DEF PointsInv, vsAlone, vsReady, Initialising
    <2>6. QED BY <2>3, <2>4, <2>5 DEF PointsInv
  <1>3. ASSUME NEW t \in Callers, vsCall(t) PROVE PointsInv'
    <2>1. ASSUME NEW a \in Tenants, NEW id \in Ids, StartImport(t, a, id) PROVE PointsInv'
      BY <2>1, vsNames, vsStarts
    <2>2. QED BY <1>1, <1>3, <2>1, vsStartInit, vsStartCreate, vsStarts, vsWalks, vsCompares, vsDrops,
                 vsCreates, vsAliases, vsPuts, vsDies DEF vsCall
  <1>4. QED BY <1>2, <1>3, vsSelects DEF vsNext

\* A point vanishes or changes only by a request of its own agent, or with its
\* collection, or by an import that names its id (TenantsApart), for any number of
\* agents, requests and points: an id that was not imported is of one agent only.
THEOREM AgentsApart == vsSpec => TenantsApart
  <1>1. PointsInv /\ [vsNext]_vsVars =>
          [\A p \in memories \ memories' :
             \/ p.id \in past.imported
             \/ colls'[p.coll] # colls[p.coll]
             \/ \E t \in Callers : calls[t].agent = p.tenant /\ calls[t] # calls'[t]
             \/ calls' = calls /\ \A q \in memories \ memories' : q.tenant = p.tenant]_vsVars
    <2>1. SUFFICES ASSUME PointsInv, vsNext, NEW p \in memories, p \notin memories'
                   PROVE  \/ p.id \in past.imported
                          \/ colls'[p.coll] # colls[p.coll]
                          \/ \E t \in Callers : calls[t].agent = p.tenant /\ calls[t] # calls'[t]
                          \/ calls' = calls /\ \A q \in memories \ memories' : q.tenant = p.tenant
      OBVIOUS
    <2>2. ASSUME NEW t \in Callers, Drop(t) \/ Undo(t) PROVE colls'[p.coll] # colls[p.coll]
      <3>1. calls[t].pc \in vsInits /\ DropColl(calls[t].coll)
        BY <2>2 DEF Drop, Undo, AtPc, vsInits
      <3>2. calls[t].coll \in Colls
        BY <2>1, <3>1, vsWhere
      <3>3. p.coll = calls[t].coll /\ ~colls'[calls[t].coll].there
        BY <2>1, <3>1, <3>2, vsDropped
      <3>4. colls[p.coll].there
        BY <2>1 DEF PointsInv, vsLying
      <3>5. QED BY <3>3, <3>4
    <2>3. ASSUME NEW t \in Callers, PutPoint(t) \/ DeletePoint(t)
          PROVE  p.id \in past.imported \/ (calls[t].agent = p.tenant /\ calls[t] # calls'[t])
      <3>1. calls[t].pc \in {"upsert", "delete"} /\ Done(t) /\ p.id = calls[t].id
        BY <2>1, <2>3 DEF PutPoint, Upsert, DeletePoint, Loses, AtPc
      <3>2. calls'[t] = Quiet
        BY <2>1, <3>1, vsKeeps, vsDone DEF vsBecomes
      <3>3. vsHas(p.tenant, p.id) /\ vsHas(calls[t].agent, p.id)
        BY <2>1, <3>1 DEF vsHas
      <3>4. p.id \in past.used /\ p.tenant \in Tenants /\ calls[t].agent \in Tenants
        BY <2>1, <3>1 DEF PointsInv, vsOwned
      <3>5. p.id \in past.imported \/ p.tenant = calls[t].agent
        BY <2>1, <3>3, <3>4 DEF PointsInv, vsOwned
      <3>6. QED BY <3>1, <3>2, <3>5, vsQuiet
    <2>4. ASSUME NEW a \in Tenants, NEW c \in Colls, NEW S \in SUBSET memories, Purge(a, c, S)
          PROVE  calls' = calls /\ \A q \in memories \ memories' : q.tenant = p.tenant
      BY <2>1, <2>4 DEF Purge, Loses, Mine
    <2>5. \/ \E t \in Callers : Drop(t) \/ Undo(t) \/ PutPoint(t) \/ DeletePoint(t)
          \/ \E a \in Tenants, c \in Colls, S \in SUBSET memories : Purge(a, c, S)
      <3>1. memories' # memories
        BY <2>1
      <3>2. /\ \A t, a : ~StartInit(t, a) /\ \A c : ~StartCreate(t, a, c) /\ ~StartWalk(t, a, c)
            /\ \A t, a, id : ~StartImport(t, a, id)
        BY <3>1 DEF StartInit, StartCreate, StartWalk, StartImport
      <3>3. \A t, a, c, id : ~StartAdd(t, a, c, id) /\ ~StartEdit(t, a, c, id) /\ ~StartDelete(t, a, c, id)
        BY <3>1 DEF StartAdd, StartEdit, StartDelete
      <3>4. \A t : ~(Exists(t) \/ Compare(t) \/ Dump(t) \/ Create(t) \/ Alias(t) \/ NextPage(t) \/ EndWalk(t) \/ Die(t))
        BY <3>1 DEF Exists, Compare, Dump, Create, Alias, NextPage, EndWalk, Die
      <3>5. \A e : ~SelectEmbedder(e)
        BY <3>1 DEF SelectEmbedder
      <3>6. QED BY <2>1, <3>2, <3>3, <3>4, <3>5 DEF vsNext, vsCall
    <2>6. QED BY <2>2, <2>3, <2>4, <2>5
  <1>2. QED BY <1>1, vsStart, vsStep, PTL DEF vsSpec, TenantsApart

\* After an initialisation that no other one crossed every collection is there for
\* its embedder (Ready), for any number of requests and collections: what it has
\* checked or created nobody else drops before it ends, and a second alias comes
\* only of initialisations that crossed.
THEOREM StoreIsReady == vsSpec => []Ready
  <1>1. PointsInv => Ready
    BY DEF PointsInv, vsReady, vsLying, vsFits, Ready, Colls
  <1>2. QED BY <1>1, vsStart, vsStep, PTL DEF vsSpec

-----------------------------------------------------------------------------
(* A walk over the pages of an agent's points. *)

LEMMA SortedIs ==
  ASSUME NEW S \in SUBSET Nat, IsFiniteSet(S)
  PROVE  /\ Sorted(S) \in Seq(S) /\ Range(Sorted(S)) = S
         /\ \A i, j \in 1..Len(Sorted(S)) : i < j => Sorted(S)[i] < Sorted(S)[j]
  <1> DEFINE f == Sorted(S)
  <1>1. f \in [1..Cardinality(S) -> S] /\ Range(f) = S /\ Ascends(f)
    BY SortedExists DEF Sorted, Ascends
  <1>2. Cardinality(S) \in Nat
    BY FS_CardinalityType
  <1> HIDE DEF f
  <1>3. f \in Seq(S) /\ Len(f) = Cardinality(S)
    BY <1>1, <1>2
  <1>4. \A i, j \in 1..Len(f) : i < j => f[i] < f[j]
    BY <1>1, <1>3 DEF Ascends
  <1>5. QED BY <1>1, <1>3, <1>4 DEF f

\* What a walk has seen, and what it still meets: the points that were there when it
\* began, unless they were deleted or imported over, are still the agent's, and are
\* behind or ahead.
Seen(r) ==
    /\ r.agent \in Tenants /\ r.coll \in Colls /\ r.start \subseteq Ids
    /\ r.seen \in Seq(Ids) /\ Ascends(r.seen)
    /\ r.pc = "page" => r.id \in Nat /\ \A j \in 1..Len(r.seen) : r.seen[j] < r.id
Meets(r, points, lost) ==
    \A i \in r.start \ lost :
      /\ \E p \in points : p.id = i /\ p.coll = r.coll /\ p.tenant = r.agent
      /\ i \in Range(r.seen) \/ (r.pc = "page" /\ i >= r.id)
Lost == past.imported \union past.gone

WalksInv ==
    /\ PointsInv
    /\ past.used \subseteq Ids
    /\ \A t \in Callers : calls[t].op = "walk" => Seen(calls[t]) /\ Meets(calls[t], memories, Lost)

\* A point stays its agent's until it is deleted or named by an import.
vsKept ==
    /\ past.used \subseteq past'.used /\ past'.used \subseteq past.used \union Ids
    /\ past.imported \subseteq past'.imported /\ past.gone \subseteq past'.gone
    /\ \A p \in memories :
         \/ p.id \in past'.imported \union past'.gone
         \/ \E q \in memories' : q.id = p.id /\ q.coll = p.coll /\ q.tenant = p.tenant

LEMMA LosesKeeps ==
  ASSUME PointsInv, NEW S, Loses(S)
  PROVE  vsKept
  <1>1. memories' = memories \ S /\ past'.gone = past.gone \union IdsOf(S)
        /\ past'.used = past.used /\ past'.imported = past.imported
    BY vsKeeps DEF Loses
  <1>2. \A p \in memories : p \in S => p.id \in past'.gone
    BY <1>1 DEF IdsOf
  <1>3. QED BY <1>1, <1>2 DEF vsKept

LEMMA PutKeeps ==
  ASSUME PointsInv, NEW t \in Callers, PutPoint(t)
  PROVE  vsKept
  <1> DEFINE r == calls[t]
  <1>1. r.pc = "upsert" /\ Upsert(t, r.id) /\ past' = past
    BY DEF PutPoint
  <1>2. ASSUME NEW p \in memories, p.id \notin past.imported
        PROVE  \E q \in memories' : q.id = p.id /\ q.coll = p.coll /\ q.tenant = p.tenant
    <2>1. CASE p \in memories'
      BY <2>1
    <2>2. CASE p \notin memories'
      <3> DEFINE n == [coll |-> r.coll, id |-> r.id, tenant |-> r.agent, by |-> r.by,
                       late |-> r.by \notin colls[r.coll].aliases]
      <3>0. memories' = {q \in memories : <<q.coll, q.id>> # <<r.coll, r.id>>} \union {n}
        BY <1>1, <1>2, <2>2 DEF Upsert
      <3>9. n.coll = r.coll /\ n.id = r.id /\ n.tenant = r.agent
        OBVIOUS
      <3> HIDE DEF n
      <3>1. p.coll = r.coll /\ p.id = r.id /\ \E q \in memories' : q.coll = r.coll /\ q.id = r.id /\ q.tenant = r.agent
        BY <1>2, <2>2, <3>0, <3>9
      <3>2. vsHas(p.tenant, p.id) /\ vsHas(r.agent, p.id)
        BY <1>1, <3>1 DEF vsHas
      <3>3. p.id \in past.used /\ p.tenant \in Tenants /\ r.agent \in Tenants
        BY <1>1 DEF PointsInv, vsOwned
      <3>4. p.tenant = r.agent
        BY <1>2, <3>2, <3>3 DEF PointsInv, vsOwned
      <3>5. QED BY <3>1, <3>4
    <2>3. QED BY <2>1, <2>2
  <1>3. QED BY <1>1, <1>2 DEF vsKept

LEMMA vsAllKept ==
  ASSUME PointsInv, [vsNext]_vsVars
  PROVE  vsKept
  <1>1. ASSUME memories' = memories, past' = past PROVE vsKept
    BY <1>1 DEF vsKept
  <1>2. ASSUME NEW t \in Callers, Drop(t) \/ Undo(t) \/ DeletePoint(t) PROVE vsKept
    BY <1>2, LosesKeeps DEF Drop, Undo, DeletePoint, DropColl
  <1>3. ASSUME NEW a \in Tenants, NEW c \in Colls, NEW S \in SUBSET memories, Purge(a, c, S) PROVE vsKept
    BY <1>3, LosesKeeps DEF Purge
  <1>4. ASSUME NEW t \in Callers, NEW a \in Tenants, NEW c \in Colls, NEW id \in Ids,
               StartAdd(t, a, c, id) \/ StartImport(t, a, id)
        PROVE  vsKept
    <2>1. /\ past.used \subseteq past'.used /\ past'.used \subseteq past.used \union Ids
          /\ past.imported \subseteq past'.imported /\ past'.gone = past.gone /\ memories' = memories
      BY <1>4, vsKeeps DEF StartAdd, StartImport
    <2>2. QED BY <2>1 DEF vsKept
  <1>5. ASSUME NEW t \in Callers, NEW a \in Tenants, NEW id \in Ids, StartImport(t, a, id) PROVE vsKept
    <2>1. Names[1] \in Colls
      BY vsNames
    <2>2. QED BY <1>4, <1>5, <2>1
  <1>6. ASSUME NEW t \in Callers,
               \/ \E a \in Tenants : StartInit(t, a)
               \/ \E a \in Tenants, c \in Colls : StartCreate(t, a, c) \/ StartWalk(t, a, c)
               \/ \E a \in Tenants, c \in Colls, id \in Ids : StartEdit(t, a, c, id) \/ StartDelete(t, a, c, id)
               \/ Exists(t) \/ Compare(t) \/ Dump(t) \/ Create(t) \/ Alias(t)
               \/ NextPage(t) \/ EndWalk(t) \/ Die(t)
        PROVE  vsKept
    <2>1. memories' = memories /\ past' = past
      BY <1>6 DEF StartInit, StartCreate, StartWalk, StartEdit, StartDelete, Exists, Compare, Dump, Create,
                  Alias, NextPage, EndWalk, Die
    <2>2. QED BY <1>1, <2>1
  <1>7. ASSUME (\E e \in Models : SelectEmbedder(e)) \/ UNCHANGED vsVars PROVE vsKept
    BY <1>1, <1>7 DEF SelectEmbedder, vsVars
  <1>8. ASSUME NEW t \in Callers, vsCall(t) PROVE vsKept
    BY <1>2, <1>4, <1>5, <1>6, <1>8, PutKeeps DEF vsCall
  <1>9. QED BY <1>3, <1>7, <1>8 DEF vsNext

\* Who walks after a step walked before it, or starts to, or takes a page.
LEMMA vsWalkers ==
  ASSUME PointsInv, [vsNext]_vsVars, NEW t \in Callers, calls'[t].op = "walk"
  PROVE  \/ calls'[t] = calls[t]
         \/ \E a \in Tenants, c \in Colls : StartWalk(t, a, c)
         \/ NextPage(t)
  <1>1. ASSUME calls' = calls PROVE calls'[t] = calls[t]
    BY <1>1
  <1>2. ASSUME NEW u \in Callers, NEW r, calls' = [calls EXCEPT ![u] = r], u = t => r.op # "walk"
        PROVE  calls'[t] = calls[t]
    BY <1>2, vsKeeps DEF PointsInv, vsShapes
  <1>3. ASSUME NEW u \in Callers, NEW r, Begin(u, r), r.op # "walk" PROVE calls'[t] = calls[t]
    BY <1>2, <1>3 DEF Begin
  <1>4. ASSUME NEW u \in Callers, Done(u) PROVE calls'[t] = calls[t]
    BY <1>2, <1>4, vsQuiet DEF Done
  <1>5. ASSUME NEW u \in Callers, calls[u].pc \in vsInits PROVE calls[u].op # "walk"
    BY <1>5, vsKeeps DEF vsPlaced, vsInits
  <1>6. ASSUME NEW u \in Callers, calls[u].pc \in vsInits, NEW pc, To(u, pc) PROVE calls'[t] = calls[t]
    <2>1. calls' = [calls EXCEPT ![u] = vsAt(calls[u], pc)]
      BY <1>6 DEF To, PointsInv, vsShapes, vsAt
    <2>2. vsAt(calls[u], pc).op # "walk"
      BY <1>5, <1>6, vsKeeps, vsSame
    <2>3. QED BY <1>2, <2>1, <2>2
  <1>7. ASSUME NEW u \in Callers, calls[u].pc \in vsInits, Advance(u) PROVE calls'[t] = calls[t]
    <2>1. CASE Done(u)
      BY <1>4, <2>1
    <2>2. CASE ~Done(u)
      <3> DEFINE s == calls[u]
                 r == [s EXCEPT !.step = s.step + 1, !.pc = "exists", !.coll = Names[s.step + 1]]
      <3>1. calls' = [calls EXCEPT ![u] = r]
        BY <1>7, <2>2, vsKeeps DEF Advance, PointsInv, vsShapes
      <3>2. r.op = s.op
        BY vsKeeps DEF vsRecord, vsFields
      <3> HIDE DEF r
      <3>3. QED BY <1>2, <1>5, <1>7, <3>1, <3>2
    <2>3. QED BY <2>1, <2>2
  <1>8. ASSUME NEW u \in Callers, Exists(u) \/ Compare(u) \/ Dump(u) \/ Drop(u) \/ Create(u) \/ Alias(u) \/ Undo(u)
        PROVE  calls'[t] = calls[t]
    <2>1. calls[u].pc \in vsInits
      BY <1>8 DEF Exists, Compare, Dump, Drop, Create, Alias, Undo, AtPc, vsInits
    <2>2. Done(u) \/ Advance(u) \/ \E pc : To(u, pc)
      BY <1>8 DEF Exists, Compare, Dump, Drop, Create, Alias, Undo
    <2>3. QED BY <1>4, <1>6, <1>7, <2>1, <2>2
  <1>9. ASSUME NEW u \in Callers, PutPoint(u) \/ DeletePoint(u) \/ EndWalk(u) \/ Die(u)
        PROVE  calls'[t] = calls[t]
    BY <1>4, <1>9 DEF PutPoint, DeletePoint, EndWalk, Die
  <1>10. ASSUME NEW u, NEW a, NEW c, NEW id, u \in Callers,
                \/ StartInit(u, a) \/ StartCreate(u, a, c) \/ StartImport(u, a, id)
                \/ StartAdd(u, a, c, id) \/ StartEdit(u, a, c, id) \/ StartDelete(u, a, c, id)
         PROVE  calls'[t] = calls[t]
    <2>1. \E r : Begin(u, r) /\ r.op # "walk"
      <3>1. ASSUME NEW r, r.op # "walk", Begin(u, r) PROVE \E q : Begin(u, q) /\ q.op # "walk"
        BY <3>1
      <3>2. CASE StartInit(u, a)
        BY <3>1, <3>2 DEF StartInit, Quiet
      <3>3. CASE StartCreate(u, a, c)
        BY <3>1, <3>3 DEF StartCreate, Quiet
      <3>4. CASE StartImport(u, a, id)
        BY <3>1, <3>4 DEF StartImport, Quiet
      <3>5. CASE StartAdd(u, a, c, id)
        BY <3>1, <3>5 DEF StartAdd, Quiet
      <3>6. CASE StartEdit(u, a, c, id)
        BY <3>1, <3>6 DEF StartEdit, Quiet
      <3>7. CASE StartDelete(u, a, c, id)
        BY <3>1, <3>7 DEF StartDelete, Quiet
      <3>8. QED BY <1>10, <3>2, <3>3, <3>4, <3>5, <3>6, <3>7
    <2>2. QED BY <1>3, <1>10, <2>1
  <1>11. ASSUME NEW u \in Callers, NEW a \in Tenants, NEW c \in Colls, StartWalk(u, a, c), u # t
         PROVE  calls'[t] = calls[t]
    BY <1>2, <1>11 DEF StartWalk, Begin
  <1>12. ASSUME NEW u \in Callers, NextPage(u), u # t PROVE calls'[t] = calls[t]
    BY <1>12, vsKeeps DEF NextPage, vsShapes
  <1>13. CASE calls'[t] = calls[t]
    BY <1>13
  <1>14. CASE calls'[t] # calls[t]
    <2>1. vsNext
      BY <1>14 DEF vsVars
    <2>2. \A e : ~SelectEmbedder(e)
      BY <1>14 DEF SelectEmbedder
    <2>3. \A a, c, S : ~Purge(a, c, S)
      BY <1>14 DEF Purge
    <2>4. PICK u \in Callers : vsCall(u)
      BY <2>1, <2>2, <2>3 DEF vsNext
    <2>5. /\ \A a, c, id : ~StartInit(u, a) /\ ~StartCreate(u, a, c) /\ ~StartImport(u, a, id)
          /\ \A a, c, id : ~StartAdd(u, a, c, id) /\ ~StartEdit(u, a, c, id) /\ ~StartDelete(u, a, c, id)
      BY <1>10, <1>14
    <2>6. /\ ~Exists(u) /\ ~Compare(u) /\ ~Dump(u) /\ ~Drop(u) /\ ~Create(u) /\ ~Alias(u) /\ ~Undo(u)
          /\ ~PutPoint(u) /\ ~DeletePoint(u) /\ ~EndWalk(u) /\ ~Die(u)
      BY <1>8, <1>9, <1>14
    <2>7. (\E a \in Tenants, c \in Colls : StartWalk(u, a, c)) \/ NextPage(u)
      BY <2>4, <2>5, <2>6 DEF vsCall
    <2>8. QED BY <1>11, <1>12, <1>14, <2>7
  <1>15. QED BY <1>13, <1>14

Paged(ids, S) ==
    /\ ids \in Seq(S) /\ Range(ids) = S
    /\ \A i, j \in 1..Len(ids) : i < j => ids[i] < ids[j]
PageOf(ids, page) == page = SubSeq(ids, 1, Min({Page, Len(ids)}))

\* The pages: what is taken of a list lies below the offset, what is left from it on.
LEMMA PageTaken ==
  ASSUME NEW S \in SUBSET (Nat \ {0}), NEW ids, Paged(ids, S), NEW page, PageOf(ids, page)
  PROVE  /\ page \in Seq(S) /\ Ascends(page)
         /\ Offset(ids) = 0 => Range(page) = S
         /\ Offset(ids) # 0 => /\ Offset(ids) \in S
                               /\ \A j \in 1..Len(page) : page[j] < Offset(ids)
                               /\ \A i \in S : i \in Range(page) \/ i >= Offset(ids)
  <1>0. PICK m : m = Min({Page, Len(ids)})
    OBVIOUS
  <1>1. /\ ids \in Seq(S) /\ Range(ids) = S
        /\ \A i, j \in 1..Len(ids) : i < j => ids[i] < ids[j]
    BY DEF Paged
  <1>2. Len(ids) \in Nat /\ DOMAIN ids = 1..Len(ids) /\ Page \in Nat \ {0}
    BY <1>1, VectorAssumption
  <1>3. m = IF Page <= Len(ids) THEN Page ELSE Len(ids)
    BY <1>0, <1>2, LessOfTwo
  <1>4. m \in Nat /\ m <= Len(ids) /\ \A i \in 1..m : i \in 1..Len(ids)
    <2>1. CASE Page <= Len(ids)
      BY <1>2, <1>3, <2>1
    <2>2. CASE ~(Page <= Len(ids))
      BY <1>2, <1>3, <2>2
    <2>3. QED BY <2>1, <2>2
  <1>5. page = SubSeq(ids, 1, m)
    BY <1>0 DEF PageOf
  <1>6. page \in Seq(S) /\ Len(page) = m /\ DOMAIN page = 1..m /\ \A i \in 1..m : page[i] = ids[i]
    BY <1>1, <1>4, <1>5, Prefix
  <1>7. Ascends(page)
    BY <1>1, <1>4, <1>6 DEF Ascends
  <1>8. \A i \in 1..Len(ids) : ids[i] \in S /\ ids[i] \in Nat \ {0}
    <2>1. \A i \in 1..Len(ids) : ids[i] \in S
      BY <1>1
    <2>2. QED BY <2>1
  <1>9. CASE Len(ids) > Page
    <2>1. m = Page /\ Page + 1 \in 1..Len(ids) /\ Offset(ids) = ids[Page + 1]
      <3>1. Page <= Len(ids) /\ Page + 1 \in 1..Len(ids)
        BY <1>2, <1>9
      <3>2. QED BY <1>3, <1>9, <3>1 DEF Offset
    <2>2. Offset(ids) \in S /\ Offset(ids) # 0 /\ Offset(ids) \in Nat
      BY <1>8, <2>1
    <2>3. \A j \in 1..m : page[j] < Offset(ids)
      <3> SUFFICES ASSUME NEW j \in 1..m PROVE page[j] < Offset(ids)
        OBVIOUS
      <3>1. j \in 1..Len(ids) /\ j < Page + 1
        BY <1>2, <1>4, <2>1
      <3>2. QED BY <1>1, <1>6, <2>1, <3>1
    <2>4. \A i \in S : i \in Range(page) \/ i >= Offset(ids)
      <3> SUFFICES ASSUME NEW i \in S PROVE i \in Range(page) \/ i >= Offset(ids)
        OBVIOUS
      <3>1. PICK n \in 1..Len(ids) : i = ids[n]
        BY <1>1, <1>2 DEF Range
      <3>2. CASE n <= Page
        <4>1. n \in 1..m
          BY <1>2, <2>1, <3>2
        <4>2. QED BY <1>6, <3>1, <4>1 DEF Range
      <3>3. CASE n = Page + 1
        BY <2>1, <2>2, <3>1, <3>3
      <3>4. CASE n > Page + 1
        <4>1. ids[Page + 1] < ids[n]
          BY <1>1, <2>1, <3>4
        <4>2. QED BY <1>8, <2>1, <2>2, <3>1, <4>1
      <3>5. QED BY <1>2, <3>2, <3>3, <3>4
    <2>5. QED BY <1>6, <1>7, <2>2, <2>3, <2>4
  <1>10. CASE Len(ids) <= Page
    <2>1. m = Len(ids) /\ Offset(ids) = 0
      <3>1. Page <= Len(ids) => Page = Len(ids)
        <4>1. \A a, b \in Nat : a <= b /\ b <= a => b = a
          OBVIOUS
        <4>2. Len(ids) \in Nat /\ Page \in Nat
          BY <1>2
        <4>3. QED BY <1>10, <4>1, <4>2
      <3>2. ~(Len(ids) > Page)
        BY <1>2, <1>10
      <3>3. QED BY <1>3, <1>10, <3>1, <3>2 DEF Offset
    <2>2. Range(page) = S
      BY <1>1, <1>2, <1>6, <2>1 DEF Range
    <2>3. QED BY <1>6, <1>7, <2>1, <2>2
  <1>11. QED BY <1>2, <1>9, <1>10

LEMMA WalkStarts ==
  ASSUME WalksInv, NEW t \in Callers, NEW a \in Tenants, NEW c \in Colls, StartWalk(t, a, c)
  PROVE  Seen(calls'[t]) /\ Meets(calls'[t], memories', Lost')
  <1> DEFINE r == [Quiet EXCEPT !.op = "walk", !.agent = a, !.coll = c, !.pc = "page",
                                !.start = IdsOf(Mine(a, c))]
  <1>1. /\ r.agent = a /\ r.coll = c /\ r.start = IdsOf(Mine(a, c)) /\ r.seen = <<>>
        /\ r.pc = "page" /\ r.id = 0
    BY DEF Quiet
  <1>2. Begin(t, r) /\ UNCHANGED <<memories, past>>
    BY DEF StartWalk
  <1> HIDE DEF r
  <1>3. calls'[t] = r
    BY <1>2, vsKeeps DEF WalksInv, vsShapes, Begin
  <1>4. IdsOf(Mine(a, c)) \subseteq Ids
    BY DEF IdsOf, Mine, WalksInv, PointsInv, vsOwned
  <1>5. r.seen \in Seq(Ids) /\ Ascends(r.seen) /\ \A j \in 1..Len(r.seen) : r.seen[j] < r.id
    <2>1. <<>> \in Seq(Ids) /\ Len(<<>>) = 0 /\ Ascends(<<>>)
      BY DEF Ascends
    <2>2. QED BY <1>1, <2>1
  <1>6. Seen(r)
    BY <1>1, <1>4, <1>5 DEF Seen
  <1>7. ASSUME NEW i \in r.start
        PROVE  i >= 0 /\ \E p \in memories : p.id = i /\ p.coll = c /\ p.tenant = a
    <2>1. i \in IdsOf(Mine(a, c)) /\ i \in Nat
      BY <1>1, <1>4, VectorAssumption
    <2>2. QED BY <2>1 DEF IdsOf, Mine
  <1>9. Meets(calls'[t], memories', Lost')
    BY <1>1, <1>2, <1>3, <1>7 DEF Meets
  <1>10. QED BY <1>3, <1>6, <1>9

LEMMA WalkTakes ==
  ASSUME WalksInv, NEW t \in Callers, NextPage(t)
  PROVE  Seen(calls'[t]) /\ Meets(calls'[t], memories', Lost')
  <1> DEFINE r == calls[t]
             S == {i \in IdsOf(Mine(r.agent, r.coll)) : i >= r.id}
             ids == Sorted(S)
             page == SubSeq(ids, 1, Min({Page, Len(ids)}))
             next == Offset(ids)
             n == [r EXCEPT !.seen = r.seen \o page, !.id = next,
                            !.pc = IF next = 0 THEN "walked" ELSE "page"]
  <1>1. /\ r.op = "walk" /\ r.pc = "page" /\ UNCHANGED <<memories, past>>
        /\ calls' = [calls EXCEPT ![t].seen = r.seen \o page, ![t].id = next,
                                  ![t].pc = IF next = 0 THEN "walked" ELSE "page"]
    BY DEF NextPage, AtPc
  <1>2. Seen(r) /\ Meets(r, memories, Lost) /\ vsRecord(r)
    BY <1>1, vsKeeps DEF WalksInv
  <1>3. calls'[t] = n
    BY <1>1, vsKeeps DEF WalksInv, vsShapes
  <1>4. /\ n.agent = r.agent /\ n.coll = r.coll /\ n.start = r.start
        /\ n.seen = r.seen \o page /\ n.id = next
        /\ n.pc = IF next = 0 THEN "walked" ELSE "page"
    BY <1>2 DEF vsRecord, vsFields
  <1>5. S \in SUBSET (Nat \ {0}) /\ IsFiniteSet(S) /\ S \subseteq Ids
    <2>1. IdsOf(Mine(r.agent, r.coll)) \subseteq Ids
      BY DEF IdsOf, Mine, WalksInv, PointsInv, vsOwned
    <2>2. S \subseteq Ids
      BY <2>1
    <2>3. QED BY <2>2, VectorAssumption, FS_Subset
  <1>6. /\ page \in Seq(S) /\ Ascends(page)
        /\ next = 0 => Range(page) = S
        /\ next # 0 => /\ next \in S
                       /\ \A j \in 1..Len(page) : page[j] < next
                       /\ \A i \in S : i \in Range(page) \/ i >= next
    <2> HIDE DEF S
    <2>1. S \in SUBSET Nat
      BY <1>5
    <2>2. Paged(ids, S)
      BY <1>5, <2>1, SortedIs DEF Paged
    <2>3. PageOf(ids, page)
      BY DEF PageOf
    <2> HIDE DEF ids, page, next
    <2>4. next = Offset(ids)
      BY DEF next
    <2>5. QED BY <1>5, <2>2, <2>3, <2>4, PageTaken
  <1> DEFINE seen == r.seen
             all == seen \o page
  <1>7. /\ seen \in Seq(Ids) /\ Ascends(seen) /\ r.id \in Nat
        /\ \A j \in 1..Len(seen) : seen[j] < r.id
        /\ r.agent \in Tenants /\ r.coll \in Colls /\ r.start \subseteq Ids
    BY <1>1, <1>2 DEF Seen
  <1>8. \A i \in S : i \in Nat /\ i >= r.id
    BY <1>5
  <1>9. \A i \in r.start \ Lost :
          /\ \E p \in memories : p.id = i /\ p.coll = r.coll /\ p.tenant = r.agent
          /\ i \in Range(seen) \/ i \in S
    BY <1>1, <1>2 DEF Meets, IdsOf, Mine
  <1>10. n.pc = "page" => next # 0
    BY <1>4
  <1> HIDE DEF n, next, page, ids, S, seen
  <1>11. page \in Seq(Ids)
    <2>1. Len(page) \in Nat /\ DOMAIN page = 1..Len(page) /\ \A j \in 1..Len(page) : page[j] \in S
      BY <1>6
    <2>2. \A j \in 1..Len(page) : page[j] \in Ids
      BY <1>5, <2>1
    <2>3. page = [j \in 1..Len(page) |-> page[j]]
      BY <1>6
    <2>4. QED BY <2>1, <2>2, <2>3
  <1>12. Ids \subseteq Nat
    BY VectorAssumption
  <1>13. \A i \in 1..Len(seen), j \in 1..Len(page) : seen[i] < page[j]
    <2> SUFFICES ASSUME NEW i \in 1..Len(seen), NEW j \in 1..Len(page) PROVE seen[i] < page[j]
      OBVIOUS
    <2>1. seen[i] < r.id /\ seen[i] \in Nat /\ page[j] \in S
      <3>1. seen[i] \in Ids /\ page[j] \in S
        BY <1>6, <1>7
      <3>2. QED BY <1>7, <1>12, <3>1
    <2>2. page[j] \in Nat /\ page[j] >= r.id
      BY <1>8, <2>1
    <2>3. QED BY <1>7, <2>1, <2>2
  <1>14. Ascends(all) /\ all \in Seq(Ids)
    <2>1. Ascends(seen) /\ Ascends(page)
      BY <1>6, <1>7
    <2>2. Ascends(seen \o page)
      BY <1>7, <1>11, <1>12, <1>13, <2>1, AscendingConcat
    <2>3. all \in Seq(Ids)
      BY <1>7, <1>11
    <2>4. QED BY <2>2, <2>3
  <1>15. Range(all) = Range(seen) \union Range(page)
    BY <1>7, <1>11, ConcatRange
  <1>16. next # 0 => next \in Nat /\ \A j \in 1..Len(all) : all[j] < next
    <2> SUFFICES ASSUME next # 0, NEW j \in 1..Len(all) PROVE next \in Nat /\ all[j] < next
      BY <1>6, <1>8
    <2>1. next \in S /\ next \in Nat /\ next >= r.id
      BY <1>6, <1>8
    <2>2. /\ Len(seen) \in Nat /\ Len(page) \in Nat /\ Len(all) = Len(seen) + Len(page)
          /\ \A i \in 1..Len(seen) : all[i] = seen[i]
          /\ \A i \in 1..(Len(seen) + Len(page)) : i > Len(seen) => all[i] = page[i - Len(seen)]
      BY <1>7, <1>11
    <2>3. CASE j <= Len(seen)
      <3>1. j \in 1..Len(seen)
        BY <2>2, <2>3
      <3>0. all[j] = seen[j] /\ seen[j] < r.id
        BY <1>7, <2>2, <3>1
      <3>2. all[j] = seen[j] /\ seen[j] < r.id /\ seen[j] \in Nat
        <4>1. seen \in Seq(Ids)
          BY <1>7
        <4>2. seen[j] \in Ids
          BY ONLY <3>1, <4>1
        <4>3. QED BY <1>12, <3>0, <4>2
      <3>3. QED BY <1>7, <2>1, <3>2
    <2>4. CASE j > Len(seen)
      <3>1. j - Len(seen) \in 1..Len(page) /\ all[j] = page[j - Len(seen)]
        BY <2>2, <2>4
      <3>2. QED BY <1>6, <2>1, <3>1
    <2>5. QED BY <2>2, <2>3, <2>4
  <1>17. n.seen = all
    BY <1>4 DEF seen
  <1>18. Seen(n)
    BY <1>4, <1>7, <1>10, <1>14, <1>16, <1>17 DEF Seen
  <1>19. \A i \in r.start \ Lost : i \in Range(all) \/ (n.pc = "page" /\ i >= next)
    <2>1. n.pc = "page" <=> next # 0
      BY <1>4
    <2>2. QED BY <1>6, <1>9, <1>15, <2>1
  <1>22. Meets(n, memories', Lost')
    <2>1. Meets(n, memories, Lost)
      BY <1>4, <1>9, <1>17, <1>19 DEF Meets
    <2>2. QED BY <1>1, <2>1 DEF Lost
  <1>23. QED BY <1>3, <1>18, <1>22

\* A walk goes on past the steps of others.
LEMMA WalkStays ==
  ASSUME vsKept, NEW r, Meets(r, memories, Lost)
  PROVE  Meets(r, memories', Lost')
  <1>1. ASSUME NEW i \in r.start \ Lost'
        PROVE  /\ \E p \in memories' : p.id = i /\ p.coll = r.coll /\ p.tenant = r.agent
               /\ i \in Range(r.seen) \/ (r.pc = "page" /\ i >= r.id)
    <2>1. i \in r.start \ Lost
      BY <1>1 DEF vsKept, Lost
    <2>2. PICK p \in memories : p.id = i /\ p.coll = r.coll /\ p.tenant = r.agent
      BY <2>1 DEF Meets
    <2>3. \E q \in memories' : q.id = i /\ q.coll = r.coll /\ q.tenant = r.agent
      BY <1>1, <2>2 DEF vsKept, Lost
    <2>4. QED BY <2>1, <2>3 DEF Meets
  <1>2. QED BY <1>1 DEF Meets

\* A walk over the pages yields no id twice and misses no point that was there from its
\* start to its end (WalkComplete), for any size of the pages and any number of points,
\* agents and requests that add, change, delete and import while it goes on.
THEOREM WalksComplete == vsSpec => []WalkComplete
  <1>1. vsInit => WalksInv
    <2> SUFFICES ASSUME vsInit PROVE WalksInv
      OBVIOUS
    <2>1. PointsInv
      BY vsStart
    <2>2. \A t \in Callers : calls[t].op = "none"
      BY vsQuiet DEF vsInit
    <2>3. past.used = IdsOf(memories) /\ IdsOf(memories) \subseteq Ids
      BY DEF vsInit, IdsOf
    <2>4. QED BY <2>1, <2>2, <2>3 DEF WalksInv
  <1>2. WalksInv /\ [vsNext]_vsVars => WalksInv'
    <2> SUFFICES ASSUME WalksInv, [vsNext]_vsVars PROVE WalksInv'
      OBVIOUS
    <2>1. PointsInv' /\ vsKept
      BY vsStep, vsAllKept DEF WalksInv
    <2>2. past'.used \subseteq Ids
      BY <2>1 DEF vsKept, WalksInv
    <2>3. ASSUME NEW t \in Callers, calls'[t].op = "walk" PROVE Seen(calls'[t]) /\ Meets(calls'[t], memories', Lost')
      <3>1. CASE calls'[t] = calls[t]
        <4>1. Seen(calls[t]) /\ Meets(calls[t], memories, Lost)
          BY <2>3, <3>1 DEF WalksInv
        <4>2. QED BY <2>1, <3>1, <4>1, WalkStays
      <3>2. QED BY <2>3, <3>1, WalkStarts, WalkTakes, vsWalkers DEF WalksInv
    <2>4. QED BY <2>1, <2>2, <2>3 DEF WalksInv
  <1>3. WalksInv => WalkComplete
    <2> SUFFICES ASSUME WalksInv, NEW t \in Callers, AtPc(t, "walk", "walked")
                 PROVE  /\ Cardinality(Range(calls[t].seen)) = Len(calls[t].seen)
                        /\ calls[t].start \ (past.imported \union past.gone) \subseteq Range(calls[t].seen)
      BY DEF WalkComplete
    <2>1. Seen(calls[t]) /\ Meets(calls[t], memories, Lost) /\ calls[t].pc = "walked"
      BY DEF WalksInv, AtPc
    <2>2. calls[t].seen \in Seq(Ids) /\ Ascends(calls[t].seen) /\ Ids \subseteq Nat
      BY <2>1, VectorAssumption DEF Seen
    <2>3. Cardinality(Range(calls[t].seen)) = Len(calls[t].seen)
      BY <2>2, AscendingOne, InjectiveLength
    <2>4. QED BY <2>1, <2>3 DEF Meets, Lost
  <1>4. QED BY <1>1, <1>2, <1>3, PTL DEF vsSpec

-----------------------------------------------------------------------------
(* Webhooks: none is registered twice or told of an event twice, for any   *)
(* number of URLs, requests and events.                                    *)

Editing == [op : {"none", "register", "unregister", "post"}, url : Addresses \union {""},
            list : Seq(Addresses), event : Nat]

\* The shapes of the variables; a registration and a deletion have a URL, and an event
\* to come has no posts.
whShapes ==
    /\ webhooks \in Seq(Addresses)
    /\ editor \in [Editors -> Editing]
    /\ told \in [1..MaxEvents -> Seq(Addresses)]
    /\ events \in 0..MaxEvents
    /\ \A k \in Editors : editor[k].op \in {"register", "unregister"} => editor[k].url \in Addresses
    /\ \A n \in 1..MaxEvents : n > events => told[n] = <<>>

\* Who posts an event posts it alone, to URLs that have not been told.
PostsAlone(k) ==
    editor[k].op = "post" =>
      /\ editor[k].event \in 1..events
      /\ Range(told[editor[k].event]) \cap Range(editor[k].list) = {}
      /\ \A j \in Editors : editor[j].op = "post" /\ editor[j].event = editor[k].event => j = k

WebhooksInv ==
    /\ whShapes /\ OnceEach
    /\ \A k \in Editors : IsInjective(editor[k].list) /\ PostsAlone(k)

LEMMA RestOfList ==
  ASSUME NEW T, NEW s \in Seq(T), s # <<>>
  PROVE  /\ Head(s) \in T /\ Tail(s) \in Seq(T)
         /\ Head(s) \in Range(s) /\ Range(Tail(s)) \subseteq Range(s)
         /\ IsInjective(s) => IsInjective(Tail(s)) /\ Head(s) \notin Range(Tail(s))
  <1> DEFINE t == Tail(s)
  <1>1. /\ Len(s) \in Nat \ {0} /\ DOMAIN s = 1..Len(s) /\ DOMAIN t = 1..(Len(s) - 1)
        /\ Head(s) = s[1] /\ s[1] \in T /\ t \in Seq(T)
    OBVIOUS
  <1>2. \A i \in 1..(Len(s) - 1) : t[i] = s[i + 1]
    OBVIOUS
  <1> HIDE DEF t
  <1>3. \A i \in 1..(Len(s) - 1) : i + 1 \in 1..Len(s) /\ i + 1 # 1 /\ 1 \in 1..Len(s)
    BY <1>1
  <1>4. Head(s) \in Range(s)
    BY <1>1 DEF Range
  <1>5. Range(t) \subseteq Range(s)
    BY <1>1, <1>2, <1>3 DEF Range
  <1>6. ASSUME IsInjective(s) PROVE IsInjective(t) /\ Head(s) \notin Range(t)
    <2>1. \A i, j \in 1..Len(s) : s[i] = s[j] => i = j
      BY <1>1, <1>6 DEF IsInjective
    <2>2. ASSUME NEW i \in 1..(Len(s) - 1), NEW j \in 1..(Len(s) - 1), t[i] = t[j] PROVE i = j
      <3>1. s[i + 1] = s[j + 1]
        BY <1>2, <2>2
      <3>2. i + 1 = j + 1
        BY <1>3, <2>1, <3>1
      <3>3. QED BY <1>1, <3>2
    <2>3. IsInjective(t)
      BY <1>1, <2>2 DEF IsInjective
    <2>4. Head(s) \notin Range(t)
      BY <1>1, <1>2, <1>3, <2>1 DEF Range
    <2>5. QED BY <2>3, <2>4
  <1>7. QED BY <1>1, <1>4, <1>5, <1>6 DEF t

LEMMA WebhooksInit == whInit => WebhooksInv
  <1> SUFFICES ASSUME whInit PROVE WebhooksInv
    OBVIOUS
  <1>1. <<>> \in Seq(Addresses) /\ IsInjective(<<>>)
    BY DEF IsInjective
  <1>2. \A k \in Editors : editor[k] = Out
    BY DEF whInit
  <1>3. Out \in Editing /\ Out.op = "none" /\ Out.list = <<>>
    BY <1>1 DEF Out, Editing
  <1>4. editor \in [Editors -> Editing]
    BY <1>3 DEF whInit
  <1>5. told \in [1..MaxEvents -> Seq(Addresses)] /\ \A n \in 1..MaxEvents : told[n] = <<>>
    BY <1>1 DEF whInit
  <1>6. whShapes
    BY <1>1, <1>2, <1>3, <1>4, <1>5, WebhooksAssumption DEF whInit, whShapes
  <1>7. OnceEach
    BY <1>1, <1>5 DEF whInit, OnceEach
  <1>8. \A k \in Editors : IsInjective(editor[k].list) /\ PostsAlone(k)
    BY <1>1, <1>2, <1>3 DEF PostsAlone
  <1>9. QED BY <1>6, <1>7, <1>8 DEF WebhooksInv

\* Steps that post nothing: an editor takes another record.
LEMMA EditorMoves ==
  ASSUME WebhooksInv, NEW k \in Editors, NEW r \in Editing,
         editor' = [editor EXCEPT ![k] = r], IsInjective(r.list),
         r.op \in {"register", "unregister"} => r.url \in Addresses,
         webhooks' \in Seq(Addresses), IsInjective(webhooks'),
         UNCHANGED told, events' \in 0..MaxEvents, events <= events',
         \/ r.op # "post"
         \/ r.op = "post" /\ r.event = events + 1 /\ events' = events + 1
  PROVE  WebhooksInv'
  <1>1. editor' \in [Editors -> Editing] /\ editor'[k] = r /\ \A j \in Editors \ {k} : editor'[j] = editor[j]
    BY DEF WebhooksInv, whShapes
  <1>2. events \in Nat /\ events' \in Nat
    BY WebhooksAssumption DEF WebhooksInv, whShapes
  <1>3. whShapes'
    <2>1. \A n \in 1..MaxEvents : n > events' => told'[n] = <<>>
      <3> SUFFICES ASSUME NEW n \in 1..MaxEvents, n > events' PROVE told[n] = <<>>
        OBVIOUS
      <3>1. n > events
        BY <1>2
      <3>2. QED BY <3>1 DEF WebhooksInv, whShapes
    <2>2. QED BY <1>1, <2>1 DEF WebhooksInv, whShapes
  <1>4. OnceEach'
    BY DEF WebhooksInv, OnceEach
  <1>5. ASSUME NEW j \in Editors PROVE IsInjective(editor'[j].list)
    BY <1>1 DEF WebhooksInv
  <1>6. \A j \in Editors : editor[j].op = "post" => editor[j].event \in 1..events
    BY DEF WebhooksInv, PostsAlone
  <1>7. ASSUME NEW j \in Editors PROVE PostsAlone(j)'
    <2> SUFFICES ASSUME editor'[j].op = "post"
                 PROVE  /\ editor'[j].event \in 1..events'
                        /\ Range(told[editor'[j].event]) \cap Range(editor'[j].list) = {}
                        /\ \A i \in Editors : editor'[i].op = "post" /\ editor'[i].event = editor'[j].event => i = j
      BY DEF PostsAlone
    <2>1. CASE j = k
      <3>1. editor'[j] = r /\ r.op = "post" /\ r.event = events + 1 /\ events' = events + 1
        BY <1>1, <2>1
      <3>2. r.event \in 1..events' /\ r.event \in 1..MaxEvents /\ r.event > events
        BY <1>2, <3>1, WebhooksAssumption
      <3>3. told[r.event] = <<>>
        BY <3>2 DEF WebhooksInv, whShapes
      <3>4. Range(told[r.event]) = {}
        BY <3>3 DEF Range
      <3>5. ASSUME NEW i \in Editors, editor'[i].op = "post", editor'[i].event = r.event PROVE i = j
        <4>1. r.event \notin 1..events
          BY <1>2, <3>1
        <4>2. QED BY <1>1, <1>6, <2>1, <3>5, <4>1
      <3>6. QED BY <3>1, <3>2, <3>4, <3>5
    <2>2. CASE j # k
      <3>1. editor'[j] = editor[j] /\ PostsAlone(j)
        BY <1>1, <2>2 DEF WebhooksInv
      <3>2. editor[j].event \in 1..events /\ editor[j].event \in 1..events'
        BY <1>2, <1>6, <3>1
      <3>3. r.op = "post" => r.event # editor[j].event
        BY <1>2, <3>2
      <3>4. \A i \in Editors : editor'[i].op = "post" /\ editor'[i].event = editor'[j].event => i = j
        BY <1>1, <3>1, <3>3 DEF PostsAlone
      <3>5. QED BY <3>1, <3>2, <3>4 DEF PostsAlone
    <2>3. QED BY <2>1, <2>2
  <1>8. QED BY <1>3, <1>4, <1>5, <1>7 DEF WebhooksInv

LEMMA WebhookStored ==
  ASSUME WebhooksInv, NEW k \in Editors, StoreWebhooks(k)
  PROVE  WebhooksInv'
  <1> DEFINE e == editor[k]
  <1>1. e \in Editing /\ e.list \in Seq(Addresses) /\ IsInjective(e.list) /\ e.url \in Addresses
    BY DEF WebhooksInv, whShapes, StoreWebhooks, Editing
  <1>2. webhooks' = IF e.op = "register" THEN Registered(e.list, e.url)
                    ELSE Only(e.list, Addresses \ {e.url})
    BY DEF StoreWebhooks
  <1> HIDE DEF e
  <1>3. Only(e.list, Addresses \ {e.url}) \in Seq(Addresses)
    BY <1>1, OnlyType
  <1>4. IsInjective(Only(e.list, Addresses \ {e.url}))
    BY <1>1, OnlyInjective
  <1>5. Registered(e.list, e.url) \in Seq(Addresses) /\ IsInjective(Registered(e.list, e.url))
    <2>1. CASE Contains(e.list, e.url)
      BY <1>1, <2>1 DEF Registered
    <2>2. CASE ~Contains(e.list, e.url)
      <3>1. DOMAIN e.list = 1..Len(e.list)
        BY <1>1
      <3>2. e.url \notin Range(e.list)
        BY <2>2, <3>1 DEF Contains, Range
      <3>3. Append(e.list, e.url) \in Seq(Addresses) /\ Registered(e.list, e.url) = Append(e.list, e.url)
        BY <1>1, <2>2 DEF Registered
      <3>4. IsInjective(Append(e.list, e.url))
        BY <1>1, <3>2, InjectiveAppend
      <3>5. QED BY <3>3, <3>4
    <2>3. QED BY <2>1, <2>2
  <1>6. webhooks' \in Seq(Addresses) /\ IsInjective(webhooks')
    BY <1>2, <1>3, <1>4, <1>5
  <1>7. Out \in Editing /\ Out.op = "none" /\ Out.list = <<>> /\ IsInjective(Out.list)
    BY DEF Out, Editing, IsInjective
  <1>8. editor' = [editor EXCEPT ![k] = Out] /\ UNCHANGED <<told, events>>
    BY DEF StoreWebhooks, Edit
  <1>9. events \in 0..MaxEvents /\ events <= events'
    BY <1>8, WebhooksAssumption DEF WebhooksInv, whShapes
  <1>10. QED BY <1>6, <1>7, <1>8, <1>9, EditorMoves

LEMMA WebhookComes ==
  ASSUME WebhooksInv, NEW k \in Editors,
         (\E url \in Addresses : Register(k, url) \/ Unregister(k, url)) \/ Trigger(k)
  PROVE  WebhooksInv'
  <1> DEFINE Brings(r) == /\ Comes(k, r) /\ r.list = webhooks /\ r \in Editing
                          /\ r.op \in {"register", "unregister"} => r.url \in Addresses
                          /\ r.op # "post" \/ r.event = events + 1
                          /\ UNCHANGED <<webhooks, told>>
  <1>0. webhooks \in Seq(Addresses) /\ events + 1 \in Nat /\ 0 \in Nat
    BY WebhooksAssumption DEF WebhooksInv, whShapes
  <1>1. \E r : Brings(r)
    <2>1. ASSUME NEW url \in Addresses, Register(k, url) PROVE \E r : Brings(r)
      <3> DEFINE r == [op |-> "register", url |-> url, list |-> webhooks, event |-> 0]
      <3>1. Comes(k, r) /\ UNCHANGED <<webhooks, told>>
        BY <2>1 DEF Register
      <3>2. r \in Editing
        BY <1>0, <2>1 DEF Editing
      <3>3. Brings(r)
        BY <3>1, <3>2, <2>1
      <3> HIDE DEF r, Brings
      <3>4. QED BY <3>3
    <2>2. ASSUME NEW url \in Addresses, Unregister(k, url) PROVE \E r : Brings(r)
      <3> DEFINE r == [op |-> "unregister", url |-> url, list |-> webhooks, event |-> 0]
      <3>1. Comes(k, r) /\ UNCHANGED <<webhooks, told>>
        BY <2>2 DEF Unregister
      <3>2. r \in Editing
        BY <1>0, <2>2 DEF Editing
      <3>3. Brings(r)
        BY <3>1, <3>2, <2>2
      <3> HIDE DEF r, Brings
      <3>4. QED BY <3>3
    <2>3. ASSUME Trigger(k) PROVE \E r : Brings(r)
      <3> DEFINE r == [op |-> "post", url |-> "", list |-> webhooks, event |-> events + 1]
      <3>1. Comes(k, r) /\ UNCHANGED <<webhooks, told>>
        BY <2>3 DEF Trigger
      <3>2. r \in Editing
        BY <1>0 DEF Editing
      <3>3. Brings(r)
        BY <3>1, <3>2
      <3> HIDE DEF r, Brings
      <3>4. QED BY <3>3
    <2>4. QED BY <2>1, <2>2, <2>3
  <1>9. PICK r : Brings(r)
    BY <1>1
  <1>2. events' = events + 1 /\ events' \in 0..MaxEvents /\ events <= events'
    BY <1>9, WebhooksAssumption DEF Comes, WebhooksInv, whShapes
  <1>3. editor' = [editor EXCEPT ![k] = r]
    BY <1>9 DEF Comes, Edit
  <1>4. webhooks \in Seq(Addresses) /\ IsInjective(webhooks)
    BY DEF WebhooksInv, whShapes, OnceEach
  <1>5. QED BY <1>9, <1>2, <1>3, <1>4, EditorMoves

LEMMA WebhookDies ==
  ASSUME WebhooksInv, NEW k \in Editors, Edit(k, Out), UNCHANGED <<webhooks, told, events>>
  PROVE  WebhooksInv'
  <1>1. Out \in Editing /\ Out.op = "none" /\ Out.list = <<>> /\ IsInjective(Out.list)
    <2>1. <<>> \in Seq(Addresses) /\ IsInjective(<<>>)
      BY DEF IsInjective
    <2>2. Out.op = "none" /\ Out.list = <<>>
      BY DEF Out
    <2>3. Out \in Editing
      BY <2>1 DEF Out, Editing
    <2>4. QED BY <2>1, <2>2, <2>3
  <1>2. webhooks \in Seq(Addresses) /\ IsInjective(webhooks) /\ events \in 0..MaxEvents /\ events <= events'
    BY WebhooksAssumption DEF WebhooksInv, whShapes, OnceEach
  <1>3. QED BY <1>1, <1>2, EditorMoves DEF Edit

LEMMA WebhookPosted ==
  ASSUME WebhooksInv, NEW k \in Editors, Post(k), editor[k].list # <<>>
  PROVE  WebhooksInv'
  <1> DEFINE e == editor[k]
             h == Head(e.list)
             n == e.event
  <1>1. /\ e \in Editing /\ e.list \in Seq(Addresses) /\ IsInjective(e.list) /\ e.op = "post"
        /\ n \in 1..events /\ events \in 0..MaxEvents
        /\ Range(told[n]) \cap Range(e.list) = {}
        /\ \A j \in Editors : editor[j].op = "post" /\ editor[j].event = n => j = k
    BY DEF WebhooksInv, whShapes, Post, Editing, PostsAlone
  <1>2. n \in 1..MaxEvents /\ told[n] \in Seq(Addresses) /\ IsInjective(told[n])
    BY <1>1, WebhooksAssumption DEF WebhooksInv, whShapes, OnceEach
  <1>3. /\ h \in Addresses /\ Tail(e.list) \in Seq(Addresses)
        /\ h \in Range(e.list) /\ Range(Tail(e.list)) \subseteq Range(e.list)
        /\ IsInjective(Tail(e.list)) /\ h \notin Range(Tail(e.list))
    BY <1>1, RestOfList
  <1>4. told' = [told EXCEPT ![n] = Append(told[n], h)] \/ told' = told
    BY DEF Post
  <1>5. editor' = [editor EXCEPT ![k] = [e EXCEPT !.list = Tail(e.list)]] /\ UNCHANGED <<webhooks, events>>
    BY DEF Post, Edit
  <1> DEFINE r == [e EXCEPT !.list = Tail(e.list)]
  <1>6. r \in Editing /\ r.op = "post" /\ r.event = n /\ r.list = Tail(e.list)
    BY <1>1, <1>3 DEF Editing
  <1>7. editor' = [editor EXCEPT ![k] = r]
    BY <1>5
  <1> HIDE DEF e, h, n, r
  <1>8. editor' \in [Editors -> Editing] /\ editor'[k] = r /\ \A j \in Editors \ {k} : editor'[j] = editor[j]
    BY <1>6, <1>7 DEF WebhooksInv, whShapes
  <1>9. Append(told[n], h) \in Seq(Addresses) /\ IsInjective(Append(told[n], h))
        /\ Range(Append(told[n], h)) = Range(told[n]) \cup {h}
    <2>1. h \notin Range(told[n])
      BY <1>1, <1>3
    <2>2. Append(told[n], h) \in Seq(Addresses)
      BY <1>2, <1>3
    <2>3. IsInjective(Append(told[n], h))
      BY <1>2, <1>3, <2>1, InjectiveAppend
    <2>4. Range(Append(told[n], h)) = Range(told[n]) \cup {h}
      BY <1>2, <1>3, RangeAppend
    <2>5. QED BY <2>2, <2>3, <2>4
  <1>10. told \in [1..MaxEvents -> Seq(Addresses)]
    BY DEF WebhooksInv, whShapes
  <1>11. /\ told' \in [1..MaxEvents -> Seq(Addresses)]
         /\ \A m \in 1..MaxEvents \ {n} : told'[m] = told[m]
         /\ told'[n] \in {told[n], Append(told[n], h)}
    BY <1>2, <1>4, <1>9, <1>10
  <1>12. IsInjective(told'[n]) /\ Range(told'[n]) \subseteq Range(told[n]) \cup {h}
    BY <1>2, <1>9, <1>11
  <1>13. whShapes'
    <2>1. \A m \in 1..MaxEvents : m > events => m # n
      BY <1>1, WebhooksAssumption
    <2>2. \A m \in 1..MaxEvents : m > events' => told'[m] = <<>>
      BY <1>5, <1>11, <2>1 DEF WebhooksInv, whShapes
    <2>3. \A j \in Editors : editor'[j].op \in {"register", "unregister"} => editor'[j].url \in Addresses
      BY <1>6, <1>8 DEF WebhooksInv, whShapes
    <2>4. QED BY <1>5, <1>8, <1>11, <2>2, <2>3 DEF WebhooksInv, whShapes
  <1>14. OnceEach'
    BY <1>5, <1>11, <1>12 DEF WebhooksInv, OnceEach
  <1>15. ASSUME NEW j \in Editors PROVE IsInjective(editor'[j].list)
    BY <1>3, <1>6, <1>8 DEF WebhooksInv
  <1>16. ASSUME NEW j \in Editors PROVE PostsAlone(j)'
    <2>1. CASE j = k
      <3>1. Range(told'[r.event]) \cap Range(r.list) = {}
        BY <1>1, <1>3, <1>6, <1>12
      <3>2. \A i \in Editors : editor'[i].op = "post" /\ editor'[i].event = n => i = k
        BY <1>1, <1>8
      <3>3. QED BY <1>1, <1>5, <1>6, <1>8, <2>1, <3>1, <3>2 DEF PostsAlone
    <2>2. CASE j # k
      <3> SUFFICES ASSUME editor[j].op = "post" PROVE PostsAlone(j)'
        BY <1>8, <2>2 DEF PostsAlone
      <3>1. /\ editor[j].event \in 1..events /\ editor[j].event # n
            /\ Range(told[editor[j].event]) \cap Range(editor[j].list) = {}
            /\ \A i \in Editors : editor[i].op = "post" /\ editor[i].event = editor[j].event => i = j
        BY <1>1, <2>2 DEF WebhooksInv, PostsAlone
      <3>2. editor[j].event \in 1..MaxEvents
        BY <1>1, <3>1, WebhooksAssumption
      <3>3. told'[editor[j].event] = told[editor[j].event]
        BY <1>11, <3>1, <3>2
      <3>4. editor'[j] = editor[j]
        BY <1>8, <2>2
      <3>5. \A i \in Editors : editor'[i].op = "post" /\ editor'[i].event = editor[j].event => i = j
        BY <1>6, <1>8, <3>1
      <3>6. QED BY <1>5, <3>1, <3>3, <3>4, <3>5 DEF PostsAlone
    <2>3. QED BY <2>1, <2>2
  <1>17. QED BY <1>13, <1>14, <1>15, <1>16 DEF WebhooksInv

\* No URL is registered twice, and none is told of an event twice, for any number of
\* URLs, requests and events.
THEOREM WebhooksOnce == whSpec => []OnceEach
  <1>1. whInit => WebhooksInv
    BY WebhooksInit
  <1>2. WebhooksInv /\ [whNext]_whVars => WebhooksInv'
    <2> SUFFICES ASSUME WebhooksInv, [whNext]_whVars PROVE WebhooksInv'
      OBVIOUS
    <2>1. CASE UNCHANGED whVars
      BY <2>1 DEF whVars, WebhooksInv, whShapes, OnceEach, PostsAlone
    <2>2. CASE whNext
      <3>1. PICK k \in Editors :
              \/ \E url \in Addresses : Register(k, url) \/ Unregister(k, url)
              \/ StoreWebhooks(k) \/ Trigger(k) \/ Post(k) \/ EditorDies(k)
        BY <2>2 DEF whNext
      <3>2. CASE (\E url \in Addresses : Register(k, url) \/ Unregister(k, url)) \/ Trigger(k)
        BY <3>2, WebhookComes
      <3>3. CASE StoreWebhooks(k)
        BY <3>3, WebhookStored
      <3>4. CASE Post(k)
        <4>1. CASE editor[k].list = <<>>
          BY <3>4, <4>1, WebhookDies DEF Post
        <4>2. CASE editor[k].list # <<>>
          BY <3>4, <4>2, WebhookPosted
        <4>3. QED BY <4>1, <4>2
      <3>5. CASE EditorDies(k)
        BY <3>5, WebhookDies DEF EditorDies
      <3>6. QED BY <3>1, <3>2, <3>3, <3>4, <3>5
    <2>3. QED BY <2>1, <2>2
  <1>3. WebhooksInv => OnceEach
    BY DEF WebhooksInv
  <1>4. QED BY <1>1, <1>2, <1>3, PTL DEF whSpec

-----------------------------------------------------------------------------
(* Analytics: the counters agree with each other, for any number of files, *)
(* updates that cross and amounts.                                         *)

FileCounts == [files : [Documents -> Nat], total : Nat]
TokenCounts == [input : Nat, output : Nat, total : Nat, calls : Nat]

FilesAgree(doc) ==
    doc \in FileCounts /\ doc.total = MapThenSumSet(LAMBDA f : doc.files[f], Documents)
TokensAgree(doc) == doc \in TokenCounts /\ doc.total = doc.input + doc.output

\* What an update has read agrees too, and holds fewer than n calls.
UpdateAgrees(c, n) ==
    \/ c = NoUpdate
    \/ c.op = "embed" /\ c.file \in Documents /\ c.n \in Nat /\ FilesAgree(c.read)
    \/ c.op = "turn" /\ c.input \in Nat /\ c.output \in Nat /\ TokensAgree(c.read)
       /\ c.read.calls < n

AnalyticsInv ==
    /\ updates \in Nat
    /\ FilesAgree(embeddings)
    /\ TokensAgree(tokens) /\ tokens.calls <= updates
    /\ counter = [k \in Counters |-> counter[k]]
    /\ \A k \in Counters : UpdateAgrees(counter[k], updates)

LEMMA FileAdded ==
  ASSUME NEW doc, FilesAgree(doc), NEW f \in Documents, NEW n \in Nat
  PROVE  FilesAgree(WithFile(doc, f, n))
  <1> DEFINE h == doc.files
             k == [h EXCEPT ![f] = @ + n]
             new == WithFile(doc, f, n)
  <1>1. h \in [Documents -> Nat] /\ doc.total \in Nat /\ doc.total = MapThenSumSet(LAMBDA x : h[x], Documents)
    BY DEF FilesAgree, FileCounts
  <1>2. new = [files |-> k, total |-> doc.total + n]
    BY DEF WithFile
  <1>3. new.files = k /\ new.total = doc.total + n
    BY <1>2
  <1>4. k \in [Documents -> Nat] /\ doc.total + n \in Nat
    BY <1>1
  <1> HIDE DEF k, h, new
  <1>5. IsFiniteSet(Documents)
    BY AnalyticsAssumption
  <1>6. MapThenSumSet(LAMBDA x : k[x], Documents) = MapThenSumSet(LAMBDA x : h[x], Documents) + n
    BY <1>1, <1>5, SumChange DEF k
  <1>7. new \in FileCounts
    BY <1>2, <1>4 DEF FileCounts
  <1>8. new.total = MapThenSumSet(LAMBDA x : k[x], Documents)
    BY <1>1, <1>3, <1>6
  <1>9. new.total = MapThenSumSet(LAMBDA x : new.files[x], Documents)
    BY <1>3, <1>8
  <1>10. FilesAgree(new)
    BY <1>7, <1>9 DEF FilesAgree
  <1>11. QED BY <1>10 DEF new

LEMMA AnalyticsInit == anInit => AnalyticsInv
  <1> SUFFICES ASSUME anInit PROVE AnalyticsInv
    OBVIOUS
  <1> DEFINE h == [f \in Documents |-> 0]
  <1>1. embeddings = [files |-> h, total |-> 0] /\ tokens = Zero /\ updates = 0
    BY DEF anInit
  <1>2. h \in [Documents -> Nat]
    OBVIOUS
  <1>3. FilesAgree(embeddings)
    <2>1. MapThenSumSet(LAMBDA f : h[f], Documents) = 0
      <3> HIDE DEF h
      <3>1. h \in [Documents -> {0}] /\ IsFiniteSet(Documents)
        BY AnalyticsAssumption DEF h
      <3>2. QED BY <3>1, SumOfNone
    <2> HIDE DEF h
    <2>2. embeddings.files = h /\ embeddings.total = 0 /\ embeddings \in FileCounts
      BY <1>1, <1>2 DEF FileCounts
    <2>3. MapThenSumSet(LAMBDA f : embeddings.files[f], Documents) = 0
      BY <2>1, <2>2
    <2>4. QED BY <2>2, <2>3 DEF FilesAgree
  <1>4. TokensAgree(tokens) /\ tokens.calls = 0
    BY <1>1 DEF Zero, TokensAgree, TokenCounts
  <1>5. counter = [k \in Counters |-> NoUpdate]
    BY DEF anInit
  <1>6. counter = [k \in Counters |-> counter[k]] /\ \A k \in Counters : UpdateAgrees(counter[k], updates)
    BY <1>5 DEF UpdateAgrees
  <1>7. QED BY <1>1, <1>3, <1>4, <1>6 DEF AnalyticsInv

\* An update comes or goes.
LEMMA UpdateMoves ==
  ASSUME AnalyticsInv, NEW k \in Counters, NEW c, counter' = [counter EXCEPT ![k] = c],
         updates' \in Nat, updates <= updates', UpdateAgrees(c, updates'),
         FilesAgree(embeddings'), TokensAgree(tokens'), tokens'.calls <= updates'
  PROVE  AnalyticsInv'
  <1>1. counter' = [j \in Counters |-> counter'[j]]
    BY DEF AnalyticsInv
  <1>2. counter'[k] = c /\ \A j \in Counters \ {k} : counter'[j] = counter[j]
    BY DEF AnalyticsInv
  <1>3. ASSUME NEW j \in Counters PROVE UpdateAgrees(counter'[j], updates')
    <2>1. CASE j = k
      BY <1>2, <2>1
    <2>2. CASE j # k
      <3>1. counter'[j] = counter[j] /\ UpdateAgrees(counter[j], updates)
        BY <1>2, <2>2 DEF AnalyticsInv
      <3> DEFINE d == counter[j]
      <3> HIDE DEF d
      <3>2. UpdateAgrees(d, updates) /\ updates \in Nat
        BY <3>1 DEF d, AnalyticsInv
      <3>3. TokensAgree(d.read) => d.read.calls \in Nat
        BY DEF TokensAgree, TokenCounts
      <3>4. TokensAgree(d.read) /\ d.read.calls < updates => d.read.calls < updates'
        BY <3>2, <3>3
      <3>5. \/ d = NoUpdate
            \/ d.op = "embed" /\ d.file \in Documents /\ d.n \in Nat /\ FilesAgree(d.read)
            \/ d.op = "turn" /\ d.input \in Nat /\ d.output \in Nat /\ TokensAgree(d.read)
               /\ d.read.calls < updates'
        BY <3>2, <3>4 DEF UpdateAgrees
      <3>6. counter'[j] = d
        BY <3>1 DEF d
      <3>7. QED BY <3>5, <3>6 DEF UpdateAgrees
    <2>3. QED BY <2>1, <2>2
  <1>4. QED BY <1>1, <1>3 DEF AnalyticsInv

LEMMA FileCounted ==
  ASSUME AnalyticsInv, NEW k \in Counters, NEW f \in Documents, NEW n \in Amounts, CountFile(k, f, n)
  PROVE  AnalyticsInv'
  <1> DEFINE c == [op |-> "embed", file |-> f, n |-> n, read |-> embeddings]
  <1>1. n \in Nat
    BY AnalyticsAssumption
  <1>2. /\ updates' = updates + 1 /\ updates \in Nat
        /\ counter' = [counter EXCEPT ![k] = c] /\ UNCHANGED <<embeddings, tokens>>
    BY DEF CountFile, Updates, AnalyticsInv
  <1>3. c.op = "embed" /\ c.file = f /\ c.n = n /\ c.read = embeddings
    OBVIOUS
  <1> HIDE DEF c
  <1>4. FilesAgree(embeddings) /\ TokensAgree(tokens) /\ tokens.calls <= updates /\ tokens.calls \in Nat
    BY DEF AnalyticsInv, TokensAgree, TokenCounts
  <1>5. tokens.calls <= updates' /\ updates <= updates' /\ updates' \in Nat
    BY <1>2, <1>4
  <1>6. UpdateAgrees(c, updates')
    BY <1>1, <1>3, <1>4 DEF UpdateAgrees
  <1>7. QED BY <1>2, <1>4, <1>5, <1>6, UpdateMoves

LEMMA TurnCounted ==
  ASSUME AnalyticsInv, NEW k \in Counters, NEW i \in Amounts, NEW o \in Amounts, CountTurn(k, i, o)
  PROVE  AnalyticsInv'
  <1> DEFINE c == [op |-> "turn", input |-> i, output |-> o, read |-> tokens]
  <1>1. i \in Nat /\ o \in Nat
    BY AnalyticsAssumption
  <1>2. /\ updates' = updates + 1 /\ updates \in Nat
        /\ counter' = [counter EXCEPT ![k] = c] /\ UNCHANGED <<embeddings, tokens>>
    BY DEF CountTurn, Updates, AnalyticsInv
  <1>3. c.op = "turn" /\ c.input = i /\ c.output = o /\ c.read = tokens
    OBVIOUS
  <1> HIDE DEF c
  <1>4. FilesAgree(embeddings) /\ TokensAgree(tokens) /\ tokens.calls <= updates /\ tokens.calls \in Nat
    BY DEF AnalyticsInv, TokensAgree, TokenCounts
  <1>5. tokens.calls < updates' /\ updates <= updates' /\ updates' \in Nat /\ tokens.calls <= updates'
    BY <1>2, <1>4
  <1>6. UpdateAgrees(c, updates')
    BY <1>1, <1>3, <1>4, <1>5 DEF UpdateAgrees
  <1>7. QED BY <1>2, <1>4, <1>5, <1>6, UpdateMoves

LEMMA CountersStored ==
  ASSUME AnalyticsInv, NEW k \in Counters, StoreCounters(k)
  PROVE  AnalyticsInv'
  <1> DEFINE c == counter[k]
  <1>1. /\ UpdateAgrees(c, updates) /\ updates \in Nat
        /\ FilesAgree(embeddings) /\ TokensAgree(tokens) /\ tokens.calls <= updates
    BY DEF AnalyticsInv
  <1>2. /\ \/ c.op = "embed" /\ embeddings' = WithFile(c.read, c.file, c.n) /\ UNCHANGED tokens
           \/ c.op = "turn" /\ tokens' = WithTurn(c.read, c.input, c.output) /\ UNCHANGED embeddings
        /\ counter' = [counter EXCEPT ![k] = NoUpdate]
        /\ updates' = updates
    BY DEF StoreCounters
  <1> HIDE DEF c
  <1>3. c # NoUpdate
    BY <1>2 DEF NoUpdate
  <1>4. UpdateAgrees(NoUpdate, updates')
    BY DEF UpdateAgrees
  <1>5. CASE c.op = "embed"
    <2>1. c.file \in Documents /\ c.n \in Nat /\ FilesAgree(c.read)
      BY <1>1, <1>3, <1>5 DEF UpdateAgrees
    <2>2. FilesAgree(embeddings') /\ tokens' = tokens
      BY <1>2, <1>5, <2>1, FileAdded
    <2>3. updates' \in Nat /\ updates <= updates'
      BY <1>1, <1>2
    <2>4. QED BY <1>1, <1>2, <1>4, <2>2, <2>3, UpdateMoves
  <1>6. CASE c.op = "turn"
    <2>1. c.input \in Nat /\ c.output \in Nat /\ TokensAgree(c.read) /\ c.read.calls < updates
      BY <1>1, <1>3, <1>6 DEF UpdateAgrees
    <2> DEFINE d == c.read
               t == WithTurn(d, c.input, c.output)
    <2>2. d \in TokenCounts /\ d.total = d.input + d.output /\ d.calls < updates
      BY <2>1 DEF TokensAgree
    <2> HIDE DEF d
    <2>3. d.input \in Nat /\ d.output \in Nat /\ d.total \in Nat /\ d.calls \in Nat
      BY <2>2 DEF TokenCounts
    <2>4. t = [input |-> d.input + c.input, output |-> d.output + c.output,
               total |-> d.total + c.input + c.output, calls |-> d.calls + 1]
      BY DEF WithTurn
    <2> HIDE DEF t
    <2>5. t \in TokenCounts /\ t.total = t.input + t.output /\ t.calls <= updates
      BY <1>1, <2>1, <2>2, <2>3, <2>4 DEF TokenCounts
    <2>6. tokens' = t /\ embeddings' = embeddings
      BY <1>2, <1>6 DEF t, d
    <2>7. TokensAgree(tokens') /\ tokens'.calls <= updates'
      BY <1>2, <2>5, <2>6 DEF TokensAgree
    <2>8. updates' \in Nat /\ updates <= updates'
      BY <1>1, <1>2
    <2>9. QED BY <1>1, <1>2, <1>4, <2>6, <2>7, <2>8, UpdateMoves
  <1>7. QED BY <1>2, <1>5, <1>6

LEMMA UpdateLost ==
  ASSUME AnalyticsInv, NEW k \in Counters, CounterDies(k)
  PROVE  AnalyticsInv'
  <1>1. counter' = [counter EXCEPT ![k] = NoUpdate] /\ UNCHANGED <<embeddings, tokens, updates>>
    BY DEF CounterDies
  <1>2. /\ UpdateAgrees(NoUpdate, updates') /\ updates \in Nat
        /\ FilesAgree(embeddings) /\ TokensAgree(tokens) /\ tokens.calls <= updates
    BY DEF UpdateAgrees, AnalyticsInv
  <1>3. updates' \in Nat /\ updates <= updates'
    BY <1>1, <1>2
  <1>4. QED BY <1>1, <1>2, <1>3, UpdateMoves

\* The totals are those of their parts whichever updates are lost to others, and there
\* are no more calls than turns, for any finite set of files and any amounts.
THEOREM AnalyticsAgree == anSpec => []TotalsAgree
  <1>1. anInit => AnalyticsInv
    BY AnalyticsInit
  <1>2. AnalyticsInv /\ [anNext]_anVars => AnalyticsInv'
    <2> SUFFICES ASSUME AnalyticsInv, [anNext]_anVars PROVE AnalyticsInv'
      OBVIOUS
    <2>1. CASE UNCHANGED anVars
      BY <2>1 DEF anVars, AnalyticsInv
    <2>2. CASE anNext
      <3>1. PICK k \in Counters :
              \/ \E f \in Documents, n \in Amounts : CountFile(k, f, n)
              \/ \E i, o \in Amounts : CountTurn(k, i, o)
              \/ StoreCounters(k) \/ CounterDies(k)
        BY <2>2 DEF anNext
      <3>2. CASE \E f \in Documents, n \in Amounts : CountFile(k, f, n)
        BY <3>2, FileCounted
      <3>3. CASE \E i, o \in Amounts : CountTurn(k, i, o)
        BY <3>3, TurnCounted
      <3>4. CASE StoreCounters(k)
        BY <3>4, CountersStored
      <3>5. CASE CounterDies(k)
        BY <3>5, UpdateLost
      <3>6. QED BY <3>1, <3>2, <3>3, <3>4, <3>5
    <2>3. QED BY <2>1, <2>2
  <1>3. AnalyticsInv => TotalsAgree
    BY DEF AnalyticsInv, FilesAgree, TokensAgree, TotalsAgree
  <1>4. QED BY <1>1, <1>2, <1>3, PTL DEF anSpec

-----------------------------------------------------------------------------
(* Endpoints: the routes of a plugin are those of the edition that is      *)
(* loaded, for any number of plugins, editions, endpoints, requests and    *)
(* restarts.                                                               *)

AllEndpoints == UNION {Offered(p) : p \in Extensions}
AllRoutes == [endpoint : AllEndpoints, plugin : Extensions, edition : Editions]
RouteOf(e, p, v) == [endpoint |-> e, plugin |-> p, edition |-> v]

\* Routes, one for an endpoint.
Apart(rs) ==
    /\ rs \in Seq(AllRoutes)
    /\ \A i, j \in 1..Len(rs) : rs[i].endpoint = rs[j].endpoint => i = j

\* What routes are there for an endpoint.
RoutesTo(rs, e) == {r \in Range(rs) : r.endpoint = e}

LEMMA SequenceOf ==
  ASSUME NEW S, IsFiniteSet(S)
  PROVE  SetToSeq(S) \in Seq(S) /\ Range(SetToSeq(S)) = S /\ IsFiniteSet(DOMAIN SetToSeq(S))
  <1> DEFINE n == Cardinality(S)
             f == SetToSeq(S)
  <1>1. n \in Nat
    BY FS_CardinalityType
  <1>2. PICK g \in Bijection(1..n, S) : TRUE
    BY FS_CardinalityType DEF ExistsBijection
  <1>3. g \in [1..n -> S] /\ IsInjective(g)
    BY <1>2 DEF Bijection, Injection, Surjection, IsInjective
  <1>4. f \in [1..n -> S] /\ IsInjective(f)
    BY <1>3 DEF SetToSeq
  <1> HIDE DEF f
  <1>5. f \in Injection(1..n, S)
    BY <1>4 DEF Injection, IsInjective
  <1>6. IsFiniteSet(1..n) /\ Cardinality(1..n) = n
    BY <1>1, FS_Interval
  <1>7. f \in Surjection(1..n, S)
    BY <1>5, <1>6, FS_Injection
  <1>8. \A x \in S : \E i \in 1..n : f[i] = x
    BY <1>7 DEF Surjection
  <1>9. DOMAIN f = 1..n /\ f \in Seq(S)
    BY <1>1, <1>4
  <1>10. Range(f) = S
    BY <1>4, <1>8 DEF Range
  <1>11. QED BY <1>6, <1>9, <1>10 DEF f

LEMMA FoundIs ==
  ASSUME NEW rs \in Seq(AllRoutes), NEW e
  PROVE  IF \E i \in 1..Len(rs) : rs[i].endpoint = e
         THEN Found(rs, e) \in 1..Len(rs) /\ rs[Found(rs, e)].endpoint = e
         ELSE Found(rs, e) = 0
  <1> DEFINE I == {i \in 1..Len(rs) : rs[i].endpoint = e}
  <1>1. Found(rs, e) = IF I # {} THEN Min(I) ELSE 0
    BY DEF Found, SelectInSeq
  <1>2. CASE I = {}
    BY <1>1, <1>2
  <1>3. CASE I # {}
    <2>1. I \in SUBSET Nat
      OBVIOUS
    <2> HIDE DEF I
    <2>2. PICK n \in I : \A m \in I : n <= m
      BY <1>3, <2>1, LeastOf
    <2>3. Min(I) \in I
      BY <2>2 DEF Min
    <2>4. Found(rs, e) \in I
      BY <1>1, <1>3, <2>3
    <2>5. QED BY <2>4 DEF I
  <1>4. QED BY <1>2, <1>3

LEMMA RouteAddedIs ==
  ASSUME NEW rs, Apart(rs), NEW e \in AllEndpoints, NEW p \in Extensions, NEW v \in Editions
  PROVE  /\ Apart(RouteAdded(rs, e, p, v))
         /\ \A d \in AllEndpoints :
              RoutesTo(RouteAdded(rs, e, p, v), d) =
                IF d = e /\ RoutesTo(rs, e) = {} THEN {RouteOf(e, p, v)} ELSE RoutesTo(rs, d)
  <1> DEFINE r == RouteOf(e, p, v)
             t == Append(rs, r)
  <1>1. rs \in Seq(AllRoutes) /\ r \in AllRoutes /\ r.endpoint = e
    BY DEF Apart, AllRoutes, RouteOf
  <1>2. Range(rs) = {rs[i] : i \in 1..Len(rs)}
    BY <1>1 DEF Range
  <1>3. CASE \E i \in 1..Len(rs) : rs[i].endpoint = e
    <2>1. Found(rs, e) \in 1..Len(rs)
      BY <1>1, <1>3, FoundIs
    <2>2. RouteAdded(rs, e, p, v) = rs
      BY <2>1 DEF RouteAdded
    <2>3. RoutesTo(rs, e) # {}
      BY <1>2, <1>3 DEF RoutesTo
    <2>4. QED BY <2>2, <2>3
  <1>4. CASE ~\E i \in 1..Len(rs) : rs[i].endpoint = e
    <2>1. Found(rs, e) = 0
      BY <1>1, <1>4, FoundIs
    <2>2. RouteAdded(rs, e, p, v) = t
      BY <2>1 DEF RouteAdded, RouteOf
    <2>3. RoutesTo(rs, e) = {}
      BY <1>2, <1>4 DEF RoutesTo
    <2> HIDE DEF r
    <2>4. /\ t \in Seq(AllRoutes) /\ Len(t) = Len(rs) + 1 /\ Len(rs) \in Nat
          /\ t[Len(rs) + 1] = r /\ \A i \in 1..Len(rs) : t[i] = rs[i]
      BY <1>1
    <2>5. Range(t) = Range(rs) \union {r}
      BY <1>1, RangeAppend
    <2> HIDE DEF t
    <2>6. Apart(t)
      <3> SUFFICES ASSUME NEW i \in 1..Len(t), NEW j \in 1..Len(t), t[i].endpoint = t[j].endpoint
                   PROVE  i = j
        BY <2>4 DEF Apart
      <3>1. CASE i \in 1..Len(rs) /\ j \in 1..Len(rs)
        BY <2>4, <3>1 DEF Apart
      <3>2. CASE i = Len(rs) + 1 /\ j \in 1..Len(rs)
        BY <1>1, <1>4, <2>4, <3>2
      <3>3. CASE i \in 1..Len(rs) /\ j = Len(rs) + 1
        BY <1>1, <1>4, <2>4, <3>3
      <3>4. QED BY <2>4, <3>1, <3>2, <3>3
    <2>7. \A d : RoutesTo(t, d) = IF d = e THEN {r} \union RoutesTo(rs, e) ELSE RoutesTo(rs, d)
      BY <1>1, <2>5 DEF RoutesTo
    <2>8. QED BY <2>2, <2>3, <2>6, <2>7 DEF r
  <1>5. QED BY <1>3, <1>4

LEMMA Without ==
  ASSUME NEW T, NEW s \in Seq(T), NEW k \in 1..Len(s)
  PROVE  /\ RemoveAt(s, k) \in Seq(T) /\ Len(RemoveAt(s, k)) = Len(s) - 1
         /\ \A i \in 1..(Len(s) - 1) : RemoveAt(s, k)[i] = IF i < k THEN s[i] ELSE s[i + 1]
  <1> DEFINE a == SubSeq(s, 1, k - 1)
             b == SubSeq(s, k + 1, Len(s))
  <1>1. Len(s) \in Nat /\ k \in Nat /\ k >= 1 /\ k <= Len(s)
    OBVIOUS
  <1>2. a \in Seq(T) /\ Len(a) = k - 1 /\ \A i \in 1..(k - 1) : a[i] = s[i]
    BY <1>1
  <1>3. b \in Seq(T) /\ Len(b) = Len(s) - k /\ \A i \in 1..(Len(s) - k) : b[i] = s[k + i]
    BY <1>1
  <1> HIDE DEF a, b
  <1>4. a \o b \in Seq(T) /\ Len(a \o b) = Len(s) - 1
    <2>0. a \in Seq(T) /\ b \in Seq(T)
      BY <1>2, <1>3
    <2>1. a \o b \in Seq(T) /\ Len(a \o b) = Len(a) + Len(b)
      BY <2>0
    <2>2. k - 1 + (Len(s) - k) = Len(s) - 1
      BY <1>1
    <2>3. QED BY <1>2, <1>3, <2>1, <2>2
  <1>5. ASSUME NEW i \in 1..(Len(s) - 1) PROVE (a \o b)[i] = IF i < k THEN s[i] ELSE s[i + 1]
    <2>1. CASE i < k
      BY <1>1, <1>2, <1>3, <2>1
    <2>2. CASE ~(i < k)
      <3>1. (a \o b)[i] = b[i - (k - 1)]
        BY <1>1, <1>2, <1>3, <2>2
      <3>2. i - (k - 1) \in 1..(Len(s) - k) /\ k + (i - (k - 1)) = i + 1
        BY <1>1, <2>2
      <3>3. QED BY <1>3, <2>2, <3>1, <3>2
    <2>3. QED BY <2>1, <2>2
  <1>6. RemoveAt(s, k) = a \o b
    BY DEF RemoveAt, a, b
  <1>7. QED BY <1>4, <1>5, <1>6

LEMMA RouteRemovedIs ==
  ASSUME NEW rs, Apart(rs), NEW e
  PROVE  /\ Apart(RouteRemoved(rs, e))
         /\ \A d : RoutesTo(RouteRemoved(rs, e), d) = IF d = e THEN {} ELSE RoutesTo(rs, d)
  <1> DEFINE k == Found(rs, e)
             t == RemoveAt(rs, k)
  <1>1. rs \in Seq(AllRoutes) /\ \A i, j \in 1..Len(rs) : rs[i].endpoint = rs[j].endpoint => i = j
    BY DEF Apart
  <1>2. Range(rs) = {rs[i] : i \in 1..Len(rs)}
    BY <1>1 DEF Range
  <1>3. CASE ~\E i \in 1..Len(rs) : rs[i].endpoint = e
    <2>1. k = 0
      BY <1>1, <1>3, FoundIs
    <2>2. RouteRemoved(rs, e) = rs
      BY <2>1 DEF RouteRemoved
    <2>3. RoutesTo(rs, e) = {}
      BY <1>2, <1>3 DEF RoutesTo
    <2>4. QED BY <2>2, <2>3
  <1>4. CASE \E i \in 1..Len(rs) : rs[i].endpoint = e
    <2>1. k \in 1..Len(rs) /\ rs[k].endpoint = e
      BY <1>1, <1>4, FoundIs
    <2> HIDE DEF k
    <2>2. RouteRemoved(rs, e) = t
      BY <2>1 DEF RouteRemoved, k
    <2>3. /\ t \in Seq(AllRoutes) /\ Len(t) = Len(rs) - 1 /\ Len(rs) \in Nat
          /\ \A i \in 1..(Len(rs) - 1) : t[i] = IF i < k THEN rs[i] ELSE rs[i + 1]
      BY <1>1, <2>1, Without
    <2> HIDE DEF t
    <2>4. Apart(t)
      <3> SUFFICES ASSUME NEW i \in 1..Len(t), NEW j \in 1..Len(t), t[i].endpoint = t[j].endpoint
                   PROVE  i = j
        BY <2>3 DEF Apart
      <3> DEFINE n(x) == IF x < k THEN x ELSE x + 1
      <3>1. \A x \in 1..Len(t) : n(x) \in 1..Len(rs) /\ t[x] = rs[n(x)]
        BY <2>3
      <3>2. n(i) = n(j)
        <4> HIDE DEF n
        <4> QED BY <1>1, <3>1
      <3>3. i \in Int /\ j \in Int /\ k \in Int
        BY <2>1, <2>3
      <3>4. QED BY <3>2, <3>3
    <2>5. Range(t) = {t[i] : i \in 1..Len(t)}
      BY <2>3 DEF Range
    <2>6. ASSUME NEW r PROVE r \in Range(t) <=> r \in Range(rs) /\ r.endpoint # e
      <3>1. ASSUME NEW x \in 1..Len(t)
            PROVE  \E y \in 1..Len(rs) \ {k} : t[x] = rs[y]
        <4>1. CASE x < k
          BY <2>1, <2>3, <4>1
        <4>2. CASE ~(x < k)
          <5>1. x + 1 \in 1..Len(rs) \ {k} /\ t[x] = rs[x + 1]
            BY <2>1, <2>3, <4>2
          <5>2. QED BY <5>1
        <4>3. QED BY <4>1, <4>2
      <3>2. ASSUME NEW y \in 1..Len(rs) \ {k}
            PROVE  \E x \in 1..Len(t) : t[x] = rs[y]
        <4>1. CASE y < k
          <5>1. y \in 1..Len(t) /\ t[y] = rs[y]
            BY <2>1, <2>3, <4>1
          <5>2. QED BY <5>1
        <4>2. CASE y > k
          <5>1. y - 1 \in 1..Len(t) /\ ~(y - 1 < k) /\ y - 1 + 1 = y
            BY <2>1, <2>3, <4>2
          <5>2. t[y - 1] = rs[y]
            BY <2>3, <5>1
          <5>3. QED BY <5>1, <5>2
        <4>3. QED BY <2>1, <4>1, <4>2
      <3>3. \A y \in 1..Len(rs) : rs[y].endpoint # e <=> y # k
        BY <1>1, <2>1
      <3>4. ASSUME r \in Range(t) PROVE r \in Range(rs) /\ r.endpoint # e
        <4>1. PICK x \in 1..Len(t) : r = t[x]
          BY <2>5, <3>4
        <4>2. PICK y \in 1..Len(rs) \ {k} : t[x] = rs[y]
          BY <3>1
        <4>3. QED BY <1>2, <3>3, <4>1, <4>2
      <3>5. ASSUME r \in Range(rs), r.endpoint # e PROVE r \in Range(t)
        <4>1. PICK y \in 1..Len(rs) : r = rs[y]
          BY <1>2, <3>5
        <4>2. PICK x \in 1..Len(t) : t[x] = rs[y]
          BY <3>2, <3>3, <3>5, <4>1
        <4>3. QED BY <2>5, <4>1, <4>2
      <3>6. QED BY <3>4, <3>5
    <2>7. QED BY <2>2, <2>4, <2>6 DEF RoutesTo
  <1>5. QED BY <1>3, <1>4

\* t has the routes of rs, and routes to the endpoints in S that had none.
Adds(t, rs, S, p, v) ==
    /\ Apart(t)
    /\ \A d \in AllEndpoints :
         RoutesTo(t, d) = IF d \in S /\ RoutesTo(rs, d) = {} THEN {RouteOf(d, p, v)} ELSE RoutesTo(rs, d)

\* t has the routes of rs but those to the endpoints in S.
Removes(t, rs, S) ==
    /\ Apart(t)
    /\ \A d : RoutesTo(t, d) = IF d \in S THEN {} ELSE RoutesTo(rs, d)

\* Adding or removing the endpoints of a list one after the other.
AddsUpTo(g, seq, rs, p, v) ==
  g = [s \in SUBSET DOMAIN seq |->
         IF s = {} THEN rs ELSE RouteAdded(g[s \ {Chosen(s)}], seq[Chosen(s)], p, v)]

RemovesUpTo(g, seq, rs) ==
  g = [s \in SUBSET DOMAIN seq |->
         IF s = {} THEN rs ELSE RouteRemoved(g[s \ {Chosen(s)}], seq[Chosen(s)])]

LEMMA AddsExist ==
  ASSUME NEW rs, Apart(rs), NEW seq \in Seq(AllEndpoints), IsFiniteSet(DOMAIN seq),
         NEW p \in Extensions, NEW v \in Editions
  PROVE  \E g : AddsUpTo(g, seq, rs, p, v)
  <1> DEFINE D == DOMAIN seq
             V == {t \in Seq(AllRoutes) : Apart(t)}
             step == [x \in D \X V |-> RouteAdded(x[2], seq[x[1]], p, v)]
  <1>1. rs \in V
    BY DEF Apart
  <1>2. \A i \in D : seq[i] \in AllEndpoints
    OBVIOUS
  <1>3. \A i \in D, t \in V : RouteAdded(t, seq[i], p, v) \in V
    <2> SUFFICES ASSUME NEW i \in D, NEW t, Apart(t) PROVE Apart(RouteAdded(t, seq[i], p, v))
      BY DEF Apart
    <2>1. QED BY <1>2, RouteAddedIs
  <1> HIDE DEF V
  <1>4. step \in FoldSteps(D, V) /\ \A i \in D, t \in V : step[<<i, t>>] = RouteAdded(t, seq[i], p, v)
    BY <1>3 DEF FoldSteps
  <1>5. \A s \in SUBSET D : s # {} => Chosen(s) \in s /\ Chosen(s) \in D
    BY DEF Chosen
  <1> HIDE DEF D, step
  <1>6. PICK f \in [SUBSET D -> V] : FoldUpTo(f, D, rs, step)
    <2>1. IsFiniteSet(D)
      BY DEF D
    <2>2. QED BY <1>1, <1>4, <2>1, FoldExists
  <1>7. \A s \in SUBSET D : f[s] = IF s = {} THEN rs ELSE RouteAdded(f[s \ {Chosen(s)}], seq[Chosen(s)], p, v)
    <2> SUFFICES ASSUME NEW s \in SUBSET D
                 PROVE  f[s] = IF s = {} THEN rs ELSE RouteAdded(f[s \ {Chosen(s)}], seq[Chosen(s)], p, v)
      OBVIOUS
    <2>1. f[s] = IF s = {} THEN rs ELSE step[<<Chosen(s), f[s \ {Chosen(s)}]>>]
      BY <1>6 DEF FoldUpTo
    <2>2. f[s \ {Chosen(s)}] \in V
      BY <1>6
    <2>3. QED BY <1>4, <1>5, <2>1, <2>2
  <1>8. f = [s \in SUBSET D |-> f[s]]
    BY <1>6
  <1>9. QED BY <1>7, <1>8 DEF AddsUpTo, D

LEMMA AddsAre ==
  ASSUME NEW rs, Apart(rs), NEW seq \in Seq(AllEndpoints), IsFiniteSet(DOMAIN seq),
         NEW p \in Extensions, NEW v \in Editions, NEW g, AddsUpTo(g, seq, rs, p, v)
  PROVE  Adds(g[DOMAIN seq], rs, Range(seq), p, v)
  <1> DEFINE D == DOMAIN seq
             Added(s) == \A d \in AllEndpoints :
                RoutesTo(g[s], d) =
                  IF (\E i \in s : seq[i] = d) /\ RoutesTo(rs, d) = {}
                  THEN {RouteOf(d, p, v)} ELSE RoutesTo(rs, d)
             H == {s \in SUBSET D : Apart(g[s]) /\ Added(s)}
  <1>1. \A s \in SUBSET D :
          g[s] = IF s = {} THEN rs ELSE RouteAdded(g[s \ {Chosen(s)}], seq[Chosen(s)], p, v)
    BY DEF AddsUpTo
  <1>2. {} \in H
    BY <1>1
  <1>3. ASSUME NEW s \in SUBSET D, s # {}, \A x \in s : s \ {x} \in H PROVE s \in H
    <2> DEFINE c == Chosen(s)
               h == g[s \ {c}]
               e == seq[c]
    <2>1. c \in s /\ c \in D
      BY <1>3 DEF Chosen
    <2>2. Apart(h) /\ Added(s \ {c})
      BY <1>3, <2>1
    <2>3. e \in AllEndpoints
      BY <2>1
    <2>4. g[s] = RouteAdded(h, e, p, v)
      BY <1>1, <1>3
    <2>5. \A d : (\E i \in s : seq[i] = d) <=> d = e \/ \E i \in s \ {c} : seq[i] = d
      BY <2>1
    <2>6. \A d \in AllEndpoints :
            RoutesTo(h, d) = IF (\E i \in s \ {c} : seq[i] = d) /\ RoutesTo(rs, d) = {}
                             THEN {RouteOf(d, p, v)} ELSE RoutesTo(rs, d)
      BY <2>2
    <2> HIDE DEF h, e, c
    <2>7. /\ Apart(g[s])
          /\ \A d \in AllEndpoints :
               RoutesTo(g[s], d) = IF d = e /\ RoutesTo(h, e) = {} THEN {RouteOf(e, p, v)} ELSE RoutesTo(h, d)
      BY <2>2, <2>3, <2>4, RouteAddedIs
    <2>8. ASSUME NEW d \in AllEndpoints
          PROVE  RoutesTo(g[s], d) = IF (\E i \in s : seq[i] = d) /\ RoutesTo(rs, d) = {}
                                     THEN {RouteOf(d, p, v)} ELSE RoutesTo(rs, d)
      <3> DEFINE A == \E i \in s : seq[i] = d
                 B == \E i \in s \ {c} : seq[i] = d
      <3>1. A <=> d = e \/ B
        BY <2>5
      <3>2. RoutesTo(h, d) = IF B /\ RoutesTo(rs, d) = {} THEN {RouteOf(d, p, v)} ELSE RoutesTo(rs, d)
        BY <2>6
      <3>3. RoutesTo(g[s], d) = IF d = e /\ RoutesTo(h, d) = {} THEN {RouteOf(d, p, v)} ELSE RoutesTo(h, d)
        BY <2>7
      <3> HIDE DEF A, B
      <3>4. RoutesTo(g[s], d) = IF A /\ RoutesTo(rs, d) = {} THEN {RouteOf(d, p, v)} ELSE RoutesTo(rs, d)
        BY <3>1, <3>2, <3>3
      <3>5. QED BY <3>4 DEF A
    <2>9. QED BY <2>7, <2>8
  <1>4. D \in H
    <2>1. SUBSET D \subseteq H
      <3>1. IsFiniteSet(D)
        OBVIOUS
      <3> HIDE DEF H, D
      <3> QED BY <1>2, <1>3, <3>1, SetUpward
    <2>2. QED BY <2>1
  <1>5. \A d : (\E i \in D : seq[i] = d) <=> d \in Range(seq)
    BY DEF Range
  <1>6. QED BY <1>4, <1>5 DEF Adds

LEMMA RoutesAddedAre ==
  ASSUME EndpointsAssumption, NEW rs, Apart(rs), NEW p \in Extensions, NEW v \in Editions
  PROVE  Adds(RoutesAdded(rs, p, v), rs, Offers[p][v], p, v)
  <1> DEFINE seq == SetToSeq(Offers[p][v])
             g == CHOOSE g : AddsUpTo(g, seq, rs, p, v)
  <1>1. seq \in Seq(Offers[p][v]) /\ Range(seq) = Offers[p][v] /\ IsFiniteSet(DOMAIN seq)
    BY SequenceOf DEF EndpointsAssumption
  <1>2. Offers[p][v] \subseteq AllEndpoints
    BY DEF AllEndpoints, Offered
  <1>3. RoutesAdded(rs, p, v) = g[DOMAIN seq]
    BY DEF RoutesAdded, FoldSeq, FoldFunction, FoldFunctionOnSet, MapThenFoldSet, AddsUpTo, Chosen
  <1> HIDE DEF seq
  <1>4. seq \in Seq(AllEndpoints)
    BY <1>1, <1>2, SeqMonotonic
  <1>5. AddsUpTo(g, seq, rs, p, v)
    BY <1>1, <1>4, AddsExist
  <1> HIDE DEF g
  <1>6. Adds(g[DOMAIN seq], rs, Range(seq), p, v)
    BY <1>1, <1>4, <1>5, AddsAre
  <1>7. QED BY <1>1, <1>3, <1>6

LEMMA RemovesExist ==
  ASSUME NEW rs, Apart(rs), NEW seq \in Seq(AllEndpoints), IsFiniteSet(DOMAIN seq)
  PROVE  \E g : RemovesUpTo(g, seq, rs)
  <1> DEFINE D == DOMAIN seq
             V == {t \in Seq(AllRoutes) : Apart(t)}
             step == [x \in D \X V |-> RouteRemoved(x[2], seq[x[1]])]
  <1>1. rs \in V
    BY DEF Apart
  <1>3. \A i \in D, t \in V : RouteRemoved(t, seq[i]) \in V
    <2> SUFFICES ASSUME NEW i \in D, NEW t, Apart(t) PROVE Apart(RouteRemoved(t, seq[i]))
      BY DEF Apart
    <2>1. QED BY RouteRemovedIs
  <1> HIDE DEF V
  <1>4. step \in FoldSteps(D, V) /\ \A i \in D, t \in V : step[<<i, t>>] = RouteRemoved(t, seq[i])
    BY <1>3 DEF FoldSteps
  <1>5. \A s \in SUBSET D : s # {} => Chosen(s) \in s /\ Chosen(s) \in D
    BY DEF Chosen
  <1> HIDE DEF D, step
  <1>6. PICK f \in [SUBSET D -> V] : FoldUpTo(f, D, rs, step)
    <2>1. IsFiniteSet(D)
      BY DEF D
    <2>2. QED BY <1>1, <1>4, <2>1, FoldExists
  <1>7. \A s \in SUBSET D : f[s] = IF s = {} THEN rs ELSE RouteRemoved(f[s \ {Chosen(s)}], seq[Chosen(s)])
    <2> SUFFICES ASSUME NEW s \in SUBSET D
                 PROVE  f[s] = IF s = {} THEN rs ELSE RouteRemoved(f[s \ {Chosen(s)}], seq[Chosen(s)])
      OBVIOUS
    <2>1. f[s] = IF s = {} THEN rs ELSE step[<<Chosen(s), f[s \ {Chosen(s)}]>>]
      BY <1>6 DEF FoldUpTo
    <2>2. f[s \ {Chosen(s)}] \in V
      BY <1>6
    <2>3. QED BY <1>4, <1>5, <2>1, <2>2
  <1>8. f = [s \in SUBSET D |-> f[s]]
    BY <1>6
  <1>9. QED BY <1>7, <1>8 DEF RemovesUpTo, D

LEMMA RemovesAre ==
  ASSUME NEW rs, Apart(rs), NEW seq, IsFiniteSet(DOMAIN seq), NEW g, RemovesUpTo(g, seq, rs)
  PROVE  Removes(g[DOMAIN seq], rs, Range(seq))
  <1> DEFINE D == DOMAIN seq
             Removed(s) == \A d : RoutesTo(g[s], d) = IF \E i \in s : seq[i] = d THEN {} ELSE RoutesTo(rs, d)
             H == {s \in SUBSET D : Apart(g[s]) /\ Removed(s)}
  <1>1. \A s \in SUBSET D :
          g[s] = IF s = {} THEN rs ELSE RouteRemoved(g[s \ {Chosen(s)}], seq[Chosen(s)])
    BY DEF RemovesUpTo
  <1>2. {} \in H
    BY <1>1
  <1>3. ASSUME NEW s \in SUBSET D, s # {}, \A x \in s : s \ {x} \in H PROVE s \in H
    <2> DEFINE c == Chosen(s)
               h == g[s \ {c}]
               e == seq[c]
    <2>1. c \in s /\ c \in D
      BY <1>3 DEF Chosen
    <2>2. Apart(h) /\ Removed(s \ {c})
      BY <1>3, <2>1
    <2>4. g[s] = RouteRemoved(h, e)
      BY <1>1, <1>3
    <2>5. \A d : (\E i \in s : seq[i] = d) <=> d = e \/ \E i \in s \ {c} : seq[i] = d
      BY <2>1
    <2>6. \A d : RoutesTo(h, d) = IF \E i \in s \ {c} : seq[i] = d THEN {} ELSE RoutesTo(rs, d)
      BY <2>2
    <2> HIDE DEF h, e, c
    <2>7. /\ Apart(g[s])
          /\ \A d : RoutesTo(g[s], d) = IF d = e THEN {} ELSE RoutesTo(h, d)
      BY <2>2, <2>4, RouteRemovedIs
    <2>8. ASSUME NEW d
          PROVE  RoutesTo(g[s], d) = IF \E i \in s : seq[i] = d THEN {} ELSE RoutesTo(rs, d)
      BY <2>5, <2>6, <2>7
    <2>9. QED BY <2>7, <2>8
  <1>4. D \in H
    <2>1. SUBSET D \subseteq H
      <3>1. IsFiniteSet(D)
        OBVIOUS
      <3> HIDE DEF H, D
      <3> QED BY <1>2, <1>3, <3>1, SetUpward
    <2>2. QED BY <2>1
  <1>5. \A d : (\E i \in D : seq[i] = d) <=> d \in Range(seq)
    BY DEF Range
  <1>6. QED BY <1>4, <1>5 DEF Removes

LEMMA RoutesRemovedAre ==
  ASSUME EndpointsAssumption, NEW rs, Apart(rs), NEW p \in Extensions, NEW v \in Editions
  PROVE  Removes(RoutesRemoved(rs, p, v), rs, Offers[p][v])
  <1> DEFINE seq == SetToSeq(Offers[p][v])
             g == CHOOSE g : RemovesUpTo(g, seq, rs)
  <1>1. seq \in Seq(Offers[p][v]) /\ Range(seq) = Offers[p][v] /\ IsFiniteSet(DOMAIN seq)
    BY SequenceOf DEF EndpointsAssumption
  <1>2. Offers[p][v] \subseteq AllEndpoints
    BY DEF AllEndpoints, Offered
  <1>3. RoutesRemoved(rs, p, v) = g[DOMAIN seq]
    BY DEF RoutesRemoved, FoldSeq, FoldFunction, FoldFunctionOnSet, MapThenFoldSet, RemovesUpTo, Chosen
  <1> HIDE DEF seq
  <1>4. seq \in Seq(AllEndpoints)
    BY <1>1, <1>2, SeqMonotonic
  <1>5. RemovesUpTo(g, seq, rs)
    BY <1>1, <1>4, RemovesExist
  <1> HIDE DEF g
  <1>6. Removes(g[DOMAIN seq], rs, Range(seq))
    BY <1>1, <1>5, RemovesAre
  <1>7. QED BY <1>1, <1>3, <1>6

Ordering == [at : {"idle", "toggle", "uninstall", "load", "finish", "add"},
             does : {"nothing", "toggle", "uninstall", "install"}, plugin : Extensions \union {"none"}]

\* The shapes of the variables; a request is about a plugin.
epShapes ==
    /\ Apart(routes)
    /\ folders \in [Extensions -> Editions \union {0}]
    /\ plugins \in [Extensions -> Editions \union {0}]
    /\ listed \in [Extensions -> Nat]
    /\ order \in [Admins -> Ordering]
    /\ \A r \in Admins : IF order[r].at = "idle" THEN order[r] = Idle ELSE Of(r) \in Extensions

\* A request waits for the plugin's requirements.
Loading(p) == \E r \in Admins : Of(r) = p /\ order[r].at = "load"

\* A plugin is listed once, and then the edition in its folder is loaded, or it is not
\* listed, and then there is one only while a request loads it.
ListedAsLoaded(p) ==
    \/ listed[p] = 0 /\ (plugins[p] # 0 <=> Loading(p))
    \/ listed[p] = 1 /\ plugins[p] # 0 /\ plugins[p] = folders[p] /\ ~Loading(p)

\* One request is about it; meanwhile it has no routes.
OrderedOnce(p) ==
    \A r, k \in Admins : Of(r) = p /\ Of(k) = p => k = r

Routed(p) ==
    \A e \in Own(p) :
      RoutesTo(routes, e) = IF ~Ordered(p) /\ Listed(p) /\ e \in Offers[p][plugins[p]]
                            THEN {RouteOf(e, p, plugins[p])} ELSE {}

EndpointsInv ==
    /\ epShapes
    /\ \A p \in Extensions \ astray : ListedAsLoaded(p) /\ OrderedOnce(p) /\ Routed(p)

LEMMA OwnIs ==
  ASSUME NEW p \in Extensions, NEW e \in Own(p)
  PROVE  e \in AllEndpoints /\ \A q \in Extensions \ {p}, v \in Editions : e \notin Offers[q][v]
  BY DEF Own, Offered, AllEndpoints

\* The routes of others come and go.
LEMMA OthersRoutes ==
  ASSUME NEW p \in Extensions, NEW q \in Extensions, NEW w \in Editions, p # q, NEW e \in Own(p),
         NEW t, NEW rs, Adds(t, rs, Offers[q][w], q, w) \/ Removes(t, rs, Offers[q][w])
  PROVE  RoutesTo(t, e) = RoutesTo(rs, e)
  <1>1. e \in AllEndpoints /\ e \notin Offers[q][w]
    BY OwnIs
  <1>2. QED BY <1>1 DEF Adds, Removes

\* A request about another plugin changes nothing for p.
LEMMA OthersStep ==
  ASSUME NEW p \in Extensions, epShapes, ListedAsLoaded(p), OrderedOnce(p), Routed(p),
         NEW r \in Admins, NEW o \in Ordering, Of(r) # p, o.plugin # p, Orders(r, o),
         folders'[p] = folders[p], plugins'[p] = plugins[p], listed'[p] = listed[p],
         \A e \in Own(p) : RoutesTo(routes', e) = RoutesTo(routes, e)
  PROVE  ListedAsLoaded(p)' /\ OrderedOnce(p)' /\ Routed(p)'
  <1>1. order' = [order EXCEPT ![r] = o] /\ order'[r] = o /\ \A k \in Admins \ {r} : order'[k] = order[k]
    BY DEF Orders, epShapes
  <1>2. \A k \in Admins : Of(k)' = p <=> Of(k) = p
    BY <1>1 DEF Of
  <1>3. \A k \in Admins : Of(k) = p => order'[k] = order[k]
    BY <1>1
  <1>4. ListedAsLoaded(p)'
    <2>1. Loading(p)' <=> Loading(p)
      BY <1>2, <1>3 DEF Loading
    <2>2. QED BY <2>1 DEF ListedAsLoaded
  <1>5. OrderedOnce(p)'
    BY <1>2 DEF OrderedOnce
  <1>6. Ordered(p)' <=> Ordered(p)
    BY <1>2 DEF Ordered
  <1>7. Listed(p)' <=> Listed(p)
    BY DEF Listed
  <1>8. Routed(p)'
    BY <1>6, <1>7 DEF Routed
  <1>9. QED BY <1>4, <1>5, <1>8

\* No request is about p: one that begins is the only one.
LEMMA FirstOrder ==
  ASSUME NEW p \in Extensions, epShapes, ~Ordered(p), NEW r \in Admins, NEW o \in Ordering,
         o.plugin = p, Orders(r, o)
  PROVE  /\ Ordered(p)'
         /\ \A k \in Admins : Of(k)' = p <=> k = r
         /\ order'[r] = o
         /\ ~Loading(p) /\ (Loading(p)' <=> o.at = "load")
  <1>1. order' = [order EXCEPT ![r] = o] /\ order'[r] = o /\ \A k \in Admins \ {r} : order'[k] = order[k]
    BY DEF Orders, epShapes
  <1>2. QED BY <1>1 DEF Ordered, Of, Loading

\* One request is about p, and goes on or ends.
LEMMA OnlyOrder ==
  ASSUME NEW p \in Extensions, epShapes, OrderedOnce(p), NEW r \in Admins, NEW o \in Ordering,
         Of(r) = p, o.plugin \in {p, "none"}, Orders(r, o), "none" \notin Extensions
  PROVE  /\ Ordered(p) /\ (Ordered(p)' <=> o.plugin = p)
         /\ \A k \in Admins : Of(k)' = p <=> k = r /\ o.plugin = p
         /\ order'[r] = o
         /\ Loading(p) <=> order[r].at = "load"
         /\ Loading(p)' <=> o.plugin = p /\ o.at = "load"
  <1>1. order' = [order EXCEPT ![r] = o] /\ order'[r] = o /\ \A k \in Admins \ {r} : order'[k] = order[k]
    BY DEF Orders, epShapes
  <1>2. \A k \in Admins : Of(k) = p => k = r
    BY DEF OrderedOnce
  <1>3. QED BY <1>1, <1>2 DEF Ordered, Of, Loading

LEMMA BeginOrderKeeps ==
  ASSUME EndpointsAssumption, EndpointsInv, NEW r \in Admins, NEW does \in {"toggle", "uninstall"},
         NEW q \in Extensions, BeginOrder(r, does, q)
  PROVE  EndpointsInv'
  <1> DEFINE o == [at |-> does, does |-> does, plugin |-> q]
             goes == ~Listed(q) \/ plugins[q] # 0
  <1>1. /\ epShapes /\ Apart(routes) /\ order[r] = Idle /\ Of(r) = "none" /\ Of(r) \notin Extensions
        /\ o \in Ordering /\ o.plugin = q
    BY DEF EndpointsInv, epShapes, BeginOrder, Idle, Of, Ordering, EndpointsAssumption
  <1>2. /\ UNCHANGED <<folders, plugins, listed>> /\ astray' = astray \union {x \in {q} : Ordered(x)}
        /\ IF goes THEN Orders(r, o) ELSE UNCHANGED <<order, routes>>
        /\ ~Listed(q) => UNCHANGED routes
        /\ Listed(q) /\ goes => routes' = RoutesRemoved(routes, q, plugins[q])
    BY DEF BeginOrder
  <1>3. Listed(q) /\ goes => plugins[q] \in Editions /\ Removes(routes', routes, Offers[q][plugins[q]])
    <2> SUFFICES ASSUME Listed(q), goes
                 PROVE  plugins[q] \in Editions /\ Removes(routes', routes, Offers[q][plugins[q]])
      OBVIOUS
    <2>1. plugins[q] \in Editions
      BY <1>1 DEF epShapes
    <2>2. Removes(RoutesRemoved(routes, q, plugins[q]), routes, Offers[q][plugins[q]])
      BY <1>1, <2>1, RoutesRemovedAre
    <2>3. QED BY <1>2, <2>1, <2>2
  <1> HIDE DEF o, goes
  <1>4. epShapes'
    <2>1. Apart(routes')
      BY <1>1, <1>2, <1>3 DEF Removes, goes
    <2>2. order' \in [Admins -> Ordering] /\ \A k \in Admins : order'[k] = order[k] \/ order'[k] = o
      BY <1>1, <1>2 DEF Orders, epShapes
    <2>3. o.at # "idle" /\ o.plugin \in Extensions
      BY DEF o
    <2>4. QED BY <1>1, <1>2, <2>1, <2>2, <2>3 DEF epShapes, Of
  <1>5. ASSUME NEW p \in Extensions \ astray'
        PROVE  ListedAsLoaded(p)' /\ OrderedOnce(p)' /\ Routed(p)'
    <2>1. ListedAsLoaded(p) /\ OrderedOnce(p) /\ Routed(p)
      BY <1>2 DEF EndpointsInv
    <2>2. CASE ~goes
      <3>1. UNCHANGED <<order, routes, folders, plugins, listed>>
        BY <1>2, <2>2
      <3>2. ListedAsLoaded(p)' /\ OrderedOnce(p)'
        BY <2>1, <3>1 DEF ListedAsLoaded, OrderedOnce, Of, Loading
      <3>3. Routed(p)'
        BY <2>1, <3>1 DEF Routed, Ordered, Of, Listed
      <3>4. QED BY <3>2, <3>3
    <2>3. CASE goes /\ p # q
      <3>1. ASSUME NEW e \in Own(p) PROVE RoutesTo(routes', e) = RoutesTo(routes, e)
        <4>1. CASE Listed(q)
          BY <1>3, <2>3, <4>1, OthersRoutes
        <4>2. CASE ~Listed(q)
          BY <1>2, <4>2
        <4>3. QED BY <4>1, <4>2
      <3>2. o.plugin # p /\ Of(r) # p
        BY <1>1, <2>3
      <3>3. QED BY <1>1, <1>2, <2>1, <2>3, <3>1, <3>2, OthersStep
    <2>4. CASE goes /\ p = q
      <3>1. ~Ordered(p)
        BY <1>2, <2>4
      <3>2. /\ Ordered(p)' /\ (\A k \in Admins : Of(k)' = p <=> k = r) /\ order'[r] = o
            /\ ~Loading(p) /\ (Loading(p)' <=> o.at = "load")
        BY <1>1, <1>2, <2>4, <3>1, FirstOrder
      <3>3. OrderedOnce(p)'
        BY <3>2 DEF OrderedOnce
      <3>4. ListedAsLoaded(p)'
        <4>1. o.at # "load"
          BY DEF o
        <4>2. QED BY <1>2, <2>1, <3>2, <4>1 DEF ListedAsLoaded
      <3>5. ASSUME NEW e \in Own(p) PROVE RoutesTo(routes', e) = {}
        <4>1. RoutesTo(routes, e) = IF Listed(p) /\ e \in Offers[p][plugins[p]]
                                    THEN {RouteOf(e, p, plugins[p])} ELSE {}
          BY <2>1, <3>1 DEF Routed
        <4>2. CASE Listed(p)
          BY <1>3, <2>4, <4>1, <4>2 DEF Removes
        <4>3. CASE ~Listed(p)
          BY <1>2, <2>4, <4>1, <4>3
        <4>4. QED BY <4>2, <4>3
      <3>6. Routed(p)'
        BY <3>2, <3>5 DEF Routed
      <3>7. QED BY <3>3, <3>4, <3>6
    <2>5. QED BY <2>2, <2>3, <2>4
  <1>6. QED BY <1>4, <1>5 DEF EndpointsInv

LEMMA ExtractKeeps ==
  ASSUME EndpointsAssumption, EndpointsInv, NEW r \in Admins, NEW q \in Extensions, NEW v \in Editions,
         Extract(r, q, v)
  PROVE  EndpointsInv'
  <1> DEFINE o == [at |-> "load", does |-> "install", plugin |-> q]
             goes == DependsOn[q] \subseteq Present
  <1>1. /\ epShapes /\ Apart(routes) /\ order[r] = Idle /\ Of(r) = "none" /\ Of(r) \notin Extensions
        /\ o \in Ordering /\ o.plugin = q
    BY DEF EndpointsInv, epShapes, Extract, Idle, Of, Ordering, EndpointsAssumption
  <1>2. /\ UNCHANGED <<routes, listed>>
        /\ astray' = astray \union {x \in {q} : Ordered(x) \/ Listed(x)}
        /\ IF goes THEN Orders(r, o) /\ plugins' = [plugins EXCEPT ![q] = v]
                   ELSE UNCHANGED <<order, plugins>>
        /\ \E w \in {0, v} : folders' = [folders EXCEPT ![q] = w]
    BY DEF Extract
  <1> HIDE DEF o, goes
  <1>3. /\ folders' \in [Extensions -> Editions \union {0}]
        /\ plugins' \in [Extensions -> Editions \union {0}]
        /\ \A x \in Extensions \ {q} : folders'[x] = folders[x] /\ plugins'[x] = plugins[x]
        /\ goes => plugins'[q] = v /\ v # 0
    BY <1>1, <1>2 DEF epShapes, EndpointsAssumption
  <1>4. epShapes'
    <2>2. order' \in [Admins -> Ordering] /\ \A k \in Admins : order'[k] = order[k] \/ order'[k] = o
      BY <1>1, <1>2 DEF Orders, epShapes
    <2>3. o.at # "idle" /\ o.plugin \in Extensions
      BY DEF o
    <2>4. QED BY <1>1, <1>2, <1>3, <2>2, <2>3 DEF epShapes, Of
  <1>5. ASSUME NEW p \in Extensions \ astray'
        PROVE  ListedAsLoaded(p)' /\ OrderedOnce(p)' /\ Routed(p)'
    <2>1. ListedAsLoaded(p) /\ OrderedOnce(p) /\ Routed(p)
      BY <1>2 DEF EndpointsInv
    <2>2. listed[p] \in Nat
      BY <1>1 DEF epShapes
    <2>3. CASE p # q /\ goes
      <3>1. o.plugin # p /\ Of(r) # p
        BY <1>1, <2>3
      <3>2. folders'[p] = folders[p] /\ plugins'[p] = plugins[p]
        BY <1>3, <2>3
      <3>3. QED BY <1>1, <1>2, <2>1, <2>3, <3>1, <3>2, OthersStep
    <2>4. CASE ~goes
      <3>1. UNCHANGED <<order, routes, plugins, listed>>
        BY <1>2, <2>4
      <3>2. OrderedOnce(p)'
        BY <2>1, <3>1 DEF OrderedOnce, Of
      <3>7. Loading(p)' <=> Loading(p)
        BY <3>1 DEF Loading, Of
      <3>3. Routed(p)'
        BY <2>1, <3>1 DEF Routed, Ordered, Of, Listed
      <3>4. p = q => listed[p] = 0
        BY <1>2, <2>2 DEF Listed
      <3>5. ListedAsLoaded(p)'
        BY <1>3, <2>1, <3>1, <3>4, <3>7 DEF ListedAsLoaded
      <3>6. QED BY <3>2, <3>3, <3>5
    <2>5. CASE p = q /\ goes
      <3>1. ~Ordered(p) /\ ~Listed(p)
        BY <1>2, <2>5
      <3>2. listed[p] = 0 /\ plugins'[p] # 0
        BY <1>3, <2>2, <2>5, <3>1 DEF Listed
      <3>3. /\ Ordered(p)' /\ (\A k \in Admins : Of(k)' = p <=> k = r) /\ order'[r] = o
            /\ Loading(p)' <=> o.at = "load"
        BY <1>1, <1>2, <2>5, <3>1, FirstOrder
      <3>4. OrderedOnce(p)' /\ ListedAsLoaded(p)'
        <4>1. o.at = "load"
          BY DEF o
        <4>2. QED BY <1>2, <3>2, <3>3, <4>1 DEF OrderedOnce, ListedAsLoaded
      <3>5. Routed(p)'
        BY <1>2, <2>1, <3>1, <3>3 DEF Routed
      <3>6. QED BY <3>4, <3>5
    <2>6. QED BY <2>3, <2>4, <2>5
  <1>6. QED BY <1>4, <1>5 DEF EndpointsInv

\* The ways on of the request r.
WaysOn(r) == {Idle} \union {[order[r] EXCEPT !.at = at] : at \in {"load", "finish", "add"}}

\* A request that goes on or ends, and leaves the routes as they are.
LEMMA OwnStep ==
  ASSUME EndpointsAssumption, EndpointsInv, NEW r \in Admins, NEW q \in Extensions, Of(r) = q,
         NEW o \in WaysOn(r), Orders(r, o), UNCHANGED routes,
         folders' \in [Extensions -> Editions \union {0}],
         plugins' \in [Extensions -> Editions \union {0}],
         listed' \in [Extensions -> Nat],
         \A x \in Extensions \ {q} :
           folders'[x] = folders[x] /\ plugins'[x] = plugins[x] /\ listed'[x] = listed[x],
         astray \subseteq astray',
         q \notin astray' =>
           \/ listed'[q] = 0 /\ (plugins'[q] # 0 <=> o.at = "load")
           \/ listed'[q] = 1 /\ plugins'[q] # 0 /\ plugins'[q] = folders'[q] /\ o.at # "load" /\ o # Idle
  PROVE  EndpointsInv'
  <1>1. epShapes /\ order[r] \in Ordering /\ order[r].plugin = q
    BY DEF EndpointsInv, epShapes, Of
  <1>2. /\ o \in Ordering /\ o.plugin \in {q, "none"}
        /\ (o = Idle /\ o.at = "idle") \/ (o.at # "idle" /\ o.plugin = q)
    <2>1. CASE o = Idle
      BY <2>1 DEF Idle, Ordering
    <2>2. CASE o # Idle
      <3>1. PICK at \in {"load", "finish", "add"} : o = [order[r] EXCEPT !.at = at]
        BY <2>2 DEF WaysOn
      <3>2. QED BY <1>1, <3>1 DEF Ordering
    <2>3. QED BY <2>1, <2>2
  <1>3. epShapes'
    <2>1. order' \in [Admins -> Ordering] /\ \A k \in Admins : order'[k] = order[k] \/ order'[k] = o
      BY <1>1, <1>2 DEF Orders, epShapes
    <2>2. \A k \in Admins : IF order'[k].at = "idle" THEN order'[k] = Idle ELSE order'[k].plugin \in Extensions
      BY <1>1, <1>2, <2>1 DEF epShapes, Of, Idle
    <2>3. QED BY <1>1, <2>1, <2>2 DEF epShapes, Of
  <1>4. ASSUME NEW p \in Extensions \ astray'
        PROVE  ListedAsLoaded(p)' /\ OrderedOnce(p)' /\ Routed(p)'
    <2>1. ListedAsLoaded(p) /\ OrderedOnce(p) /\ Routed(p)
      BY DEF EndpointsInv
    <2>2. CASE p # q
      <3>1. o.plugin # p
        BY <1>2, <2>2 DEF EndpointsAssumption
      <3>2. QED BY <1>1, <1>2, <2>1, <2>2, <3>1, OthersStep
    <2>3. CASE p = q
      <3>0. "none" \notin Extensions
        BY DEF EndpointsAssumption
      <3>1. /\ Ordered(p) /\ (Ordered(p)' <=> o.plugin = p)
            /\ \A k \in Admins : Of(k)' = p <=> k = r /\ o.plugin = p
            /\ order'[r] = o
            /\ Loading(p)' <=> o.plugin = p /\ o.at = "load"
        BY <1>1, <1>2, <2>1, <2>3, <3>0, OnlyOrder
      <3>2. OrderedOnce(p)'
        BY <3>1 DEF OrderedOnce
      <3>3. ~Ordered(p)' => ~Listed(p)'
        BY <1>2, <2>3, <3>1, <3>0 DEF Listed
      <3>4. Routed(p)'
        BY <2>1, <3>1, <3>3 DEF Routed
      <3>5. Loading(p)' <=> o.at = "load"
        BY <1>2, <2>3, <3>1
      <3>6. ListedAsLoaded(p)'
        BY <2>3, <3>5 DEF ListedAsLoaded
      <3>7. QED BY <3>2, <3>4, <3>6
    <2>4. QED BY <2>2, <2>3
  <1>5. QED BY <1>3, <1>4 DEF EndpointsInv

LEMMA Working ==
  ASSUME EndpointsAssumption, EndpointsInv, NEW r \in Admins, order[r].at # "idle"
  PROVE  /\ Of(r) \in Extensions
         /\ Idle \in WaysOn(r) /\ Idle.at = "idle"
         /\ \A at \in {"load", "finish", "add"} :
              /\ [order[r] EXCEPT !.at = at] \in WaysOn(r)
              /\ [order[r] EXCEPT !.at = at].at = at
              /\ [order[r] EXCEPT !.at = at] # Idle
         /\ folders \in [Extensions -> Editions \union {0}]
         /\ plugins \in [Extensions -> Editions \union {0}]
         /\ listed \in [Extensions -> Nat]
         /\ Of(r) \notin astray =>
              \/ listed[Of(r)] = 0 /\ (plugins[Of(r)] # 0 <=> order[r].at = "load")
              \/ /\ listed[Of(r)] = 1 /\ plugins[Of(r)] # 0 /\ plugins[Of(r)] = folders[Of(r)]
                 /\ order[r].at # "load"
  <1>1. Of(r) \in Extensions /\ order[r] \in Ordering
    BY DEF EndpointsInv, epShapes
  <1>2. \A at \in {"load", "finish", "add"} :
          /\ [order[r] EXCEPT !.at = at] \in WaysOn(r)
          /\ [order[r] EXCEPT !.at = at].at = at
          /\ [order[r] EXCEPT !.at = at] # Idle
    BY <1>1 DEF Ordering, Idle, WaysOn
  <1>3. Of(r) \notin astray => (Loading(Of(r)) <=> order[r].at = "load")
    BY <1>1 DEF EndpointsInv, OrderedOnce, Loading
  <1>4. QED BY <1>1, <1>2, <1>3 DEF EndpointsInv, epShapes, WaysOn, ListedAsLoaded, Idle

\* A deactivation, or one that fails, leaves the plugin unlisted or as it was.
LEMMA DeactivatedIs ==
  ASSUME NEW q \in Extensions, plugins \in [Extensions -> Editions \union {0}],
         listed \in [Extensions -> Nat], Listed(q), Deactivated(q) \/ NotDeactivated
  PROVE  /\ plugins' \in [Extensions -> Editions \union {0}]
         /\ listed' \in [Extensions -> Nat]
         /\ \A x \in Extensions \ {q} : plugins'[x] = plugins[x] /\ listed'[x] = listed[x]
         /\ \/ plugins'[q] = 0 /\ listed'[q] = listed[q] - 1
            \/ plugins'[q] = plugins[q] /\ listed'[q] = listed[q]
  <1>1. CASE Deactivated(q)
    <2>1. plugins' = [plugins EXCEPT ![q] = 0] /\ listed' = [listed EXCEPT ![q] = @ - 1] /\ listed[q] > 0
      BY <1>1 DEF Deactivated, Listed
    <2>2. QED BY <2>1
  <1>2. CASE NotDeactivated
    BY <1>2 DEF NotDeactivated
  <1>3. QED BY <1>1, <1>2

LEMMA ToggleListedKeeps ==
  ASSUME EndpointsAssumption, EndpointsInv, NEW r \in Admins, ToggleListed(r)
  PROVE  EndpointsInv'
  <1>1. order[r].at = "toggle" /\ UNCHANGED routes
    BY DEF ToggleListed
  <1>0. PICK q \in Extensions : Of(r) = q
    BY <1>1, Working
  <1> DEFINE o(at) == [order[r] EXCEPT !.at = at]
  <1>2. /\ Idle \in WaysOn(r) /\ Idle.at = "idle"
        /\ \A at \in {"load", "finish", "add"} : o(at) \in WaysOn(r) /\ o(at).at = at /\ o(at) # Idle
        /\ folders \in [Extensions -> Editions \union {0}]
        /\ plugins \in [Extensions -> Editions \union {0}]
        /\ listed \in [Extensions -> Nat]
        /\ q \notin astray => \/ listed[q] = 0 /\ plugins[q] = 0
                              \/ listed[q] = 1 /\ plugins[q] # 0 /\ plugins[q] = folders[q]
    BY <1>0, <1>1, Working
  <1>3. \A at \in {"load", "finish", "add"} : OrderGoes(r, at) => Orders(r, o(at))
    BY DEF OrderGoes
  <1> HIDE DEF o
  <1>4. CASE RefuseOrder(r)
    BY <1>0, <1>1, <1>2, <1>4, OwnStep DEF RefuseOrder, Closes
  <1>5. CASE ~Listed(q) /\ folders[q] # 0 /\ StartLoading(r)
    <2>1. listed[q] = 0 /\ UNCHANGED <<folders, listed, astray>>
      BY <1>2, <1>5 DEF Listed, StartLoading
    <2>2. CASE OrderGoes(r, "load") /\ plugins' = [plugins EXCEPT ![q] = folders[q]]
      <3>1. /\ plugins' \in [Extensions -> Editions \union {0}]
            /\ \A x \in Extensions \ {q} : plugins'[x] = plugins[x]
            /\ plugins'[q] # 0
        BY <1>2, <1>5, <2>2
      <3>2. Orders(r, o("load")) /\ o("load") \in WaysOn(r) /\ o("load").at = "load"
        BY <1>2, <1>3, <2>2
      <3>3. QED BY <1>0, <1>1, <1>2, <2>1, <3>1, <3>2, OwnStep
    <2>3. CASE OrderGoes(r, "finish") /\ UNCHANGED plugins
      <3>1. Orders(r, o("finish")) /\ o("finish") \in WaysOn(r) /\ o("finish").at = "finish"
        BY <1>2, <1>3, <2>3
      <3>2. QED BY <1>0, <1>1, <1>2, <2>1, <2>3, <3>1, OwnStep
    <2>4. QED BY <1>0, <1>5, <2>2, <2>3 DEF StartLoading
  <1>6. CASE /\ Listed(q) /\ (Deactivated(q) \/ NotDeactivated)
             /\ OrderGoes(r, "add") /\ UNCHANGED <<folders, astray>>
    <2>1. /\ plugins' \in [Extensions -> Editions \union {0}]
          /\ listed' \in [Extensions -> Nat]
          /\ \A x \in Extensions \ {q} : plugins'[x] = plugins[x] /\ listed'[x] = listed[x]
          /\ \/ plugins'[q] = 0 /\ listed'[q] = listed[q] - 1
             \/ plugins'[q] = plugins[q] /\ listed'[q] = listed[q]
      BY <1>2, <1>6, DeactivatedIs
    <2>2. Orders(r, o("add")) /\ o("add") \in WaysOn(r) /\ o("add").at = "add" /\ o("add") # Idle
      BY <1>2, <1>3, <1>6
    <2>3. q \notin astray => listed[q] = 1 /\ plugins[q] # 0 /\ plugins[q] = folders[q]
      BY <1>2, <1>6 DEF Listed
    <2>4. QED BY <1>0, <1>1, <1>2, <1>6, <2>1, <2>2, <2>3, OwnStep
  <1>7. QED BY <1>0, <1>4, <1>5, <1>6 DEF ToggleListed

LEMMA UninstallKeeps ==
  ASSUME EndpointsAssumption, EndpointsInv, NEW r \in Admins, Uninstall(r)
  PROVE  EndpointsInv'
  <1>1. order[r].at = "uninstall" /\ UNCHANGED routes
    BY DEF Uninstall
  <1>2. PICK q \in Extensions : Of(r) = q
    BY <1>1, Working
  <1>3. /\ Idle \in WaysOn(r) /\ Idle.at = "idle"
        /\ folders \in [Extensions -> Editions \union {0}]
        /\ plugins \in [Extensions -> Editions \union {0}]
        /\ listed \in [Extensions -> Nat]
        /\ q \notin astray => \/ listed[q] = 0 /\ plugins[q] = 0
                              \/ listed[q] = 1 /\ plugins[q] # 0 /\ plugins[q] = folders[q]
    BY <1>1, <1>2, Working
  <1>4. CASE RefuseOrder(r)
    BY <1>1, <1>2, <1>3, <1>4, OwnStep DEF RefuseOrder, Closes
  <1>5. CASE folders[q] = 0 /\ Closes(r) /\ UNCHANGED <<folders, plugins, listed, astray>>
    <2>1. q \notin astray => listed'[q] = 0 /\ plugins'[q] = 0
      BY <1>3, <1>5
    <2>2. Orders(r, Idle)
      BY <1>5 DEF Closes
    <2>3. QED BY <1>1, <1>2, <1>3, <1>5, <2>1, <2>2, OwnStep
  <1>6. CASE /\ plugins[q] # 0
             /\ IF Listed(q) THEN Deactivated(q) \/ NotDeactivated
                ELSE UNCHANGED <<plugins, listed, expenses>>
             /\ folders' = [folders EXCEPT ![q] = 0]
             /\ astray' = astray \union {x \in {q} : listed'[x] > 0}
             /\ Closes(r)
    <2>1. Orders(r, Idle)
      BY <1>6 DEF Closes
    <2>2. /\ folders' \in [Extensions -> Editions \union {0}]
          /\ \A x \in Extensions \ {q} : folders'[x] = folders[x]
      BY <1>3, <1>6
    <2>3. /\ plugins' \in [Extensions -> Editions \union {0}]
          /\ listed' \in [Extensions -> Nat]
          /\ \A x \in Extensions \ {q} : plugins'[x] = plugins[x] /\ listed'[x] = listed[x]
          /\ Listed(q) => \/ plugins'[q] = 0 /\ listed'[q] = listed[q] - 1
                          \/ plugins'[q] = plugins[q] /\ listed'[q] = listed[q]
      <3>1. CASE Listed(q)
        BY <1>3, <1>6, <3>1, DeactivatedIs
      <3>2. CASE ~Listed(q)
        BY <1>3, <1>6, <3>2
      <3>3. QED BY <3>1, <3>2
    <2>4. q \notin astray' => listed'[q] = 0 /\ plugins'[q] = 0
      <3> SUFFICES ASSUME q \notin astray' PROVE listed'[q] = 0 /\ plugins'[q] = 0
        OBVIOUS
      <3>1. listed[q] = 1 /\ q \notin astray
        BY <1>3, <1>6
      <3>2. Listed(q) /\ ~(listed'[q] > 0)
        BY <1>6, <3>1 DEF Listed
      <3>3. QED BY <2>3, <3>1, <3>2
    <2>5. astray \subseteq astray'
      BY <1>6
    <2>6. QED BY <1>1, <1>2, <1>3, <2>1, <2>2, <2>3, <2>4, <2>5, OwnStep
  <1>7. QED BY <1>2, <1>4, <1>5, <1>6 DEF Uninstall

LEMMA LoadKeeps ==
  ASSUME EndpointsAssumption, EndpointsInv, NEW r \in Admins, Load(r)
  PROVE  EndpointsInv'
  <1> DEFINE o == [order[r] EXCEPT !.at = "finish"]
  <1>1. order[r].at = "load"
    BY DEF Load
  <1>2. PICK q \in Extensions : Of(r) = q
    BY <1>1, Working
  <1>3. /\ o \in WaysOn(r) /\ o.at = "finish" /\ o # Idle
        /\ folders \in [Extensions -> Editions \union {0}]
        /\ plugins \in [Extensions -> Editions \union {0}]
        /\ listed \in [Extensions -> Nat]
        /\ q \notin astray => listed[q] = 0 /\ plugins[q] # 0
    BY <1>1, <1>2, Working
  <1>4. /\ folders[q] # 0 /\ Orders(r, o) /\ UNCHANGED <<routes, folders, astray>>
        /\ plugins' = [plugins EXCEPT ![q] = IF @ = 0 THEN 0 ELSE folders[q]]
        /\ listed' = [listed EXCEPT ![q] = @ + 1]
    BY <1>2 DEF Load, OrderGoes
  <1> HIDE DEF o
  <1>5. /\ plugins' \in [Extensions -> Editions \union {0}]
        /\ listed' \in [Extensions -> Nat]
        /\ \A x \in Extensions \ {q} : plugins'[x] = plugins[x] /\ listed'[x] = listed[x]
        /\ plugins'[q] = IF plugins[q] = 0 THEN 0 ELSE folders[q]
        /\ listed'[q] = listed[q] + 1
    BY <1>3, <1>4
  <1>6. QED BY <1>2, <1>3, <1>4, <1>5, OwnStep

LEMMA MissKeeps ==
  ASSUME EndpointsAssumption, EndpointsInv, NEW r \in Admins, Miss(r)
  PROVE  EndpointsInv'
  <1> DEFINE o == [order[r] EXCEPT !.at = "finish"]
  <1>1. order[r].at = "load" /\ UNCHANGED <<routes, folders, listed, astray>>
    BY DEF Miss
  <1>2. PICK q \in Extensions : Of(r) = q
    BY <1>1, Working
  <1>3. /\ o \in WaysOn(r) /\ o.at = "finish"
        /\ folders \in [Extensions -> Editions \union {0}]
        /\ plugins \in [Extensions -> Editions \union {0}]
        /\ listed \in [Extensions -> Nat]
        /\ q \notin astray => listed[q] = 0
    BY <1>1, <1>2, Working
  <1>4. plugins' = [plugins EXCEPT ![q] = 0] /\ Orders(r, o)
    BY <1>2 DEF Miss, OrderGoes
  <1> HIDE DEF o
  <1>5. /\ plugins' \in [Extensions -> Editions \union {0}]
        /\ \A x \in Extensions \ {q} : plugins'[x] = plugins[x]
        /\ plugins'[q] = 0
    BY <1>3, <1>4
  <1>6. QED BY <1>1, <1>2, <1>3, <1>4, <1>5, OwnStep

LEMMA RebuildFailsKeeps ==
  ASSUME EndpointsAssumption, EndpointsInv, NEW r \in Admins, RebuildFails(r)
  PROVE  EndpointsInv'
  <1>1. order[r].at = "finish" /\ UNCHANGED <<routes, folders, plugins, listed>> /\ Orders(r, Idle)
    BY DEF RebuildFails, Closes
  <1>2. PICK q \in Extensions : Of(r) = q
    BY <1>1, Working
  <1>3. /\ Idle \in WaysOn(r) /\ Idle.at = "idle"
        /\ folders \in [Extensions -> Editions \union {0}]
        /\ plugins \in [Extensions -> Editions \union {0}]
        /\ listed \in [Extensions -> Nat]
        /\ q \notin astray => \/ listed[q] = 0 /\ plugins[q] = 0
                              \/ listed[q] = 1
    BY <1>1, <1>2, Working
  <1>4. astray' = astray \union {x \in {q} : Listed(x)}
    BY <1>2 DEF RebuildFails
  <1>5. q \notin astray' => listed'[q] = 0 /\ plugins'[q] = 0
    BY <1>1, <1>3, <1>4 DEF Listed
  <1>6. QED BY <1>1, <1>2, <1>3, <1>4, <1>5, OwnStep

LEMMA AddRoutesKeeps ==
  ASSUME EndpointsAssumption, EndpointsInv, NEW r \in Admins, AddRoutes(r)
  PROVE  EndpointsInv'
  <1>1. /\ order[r].at \in {"add", "finish"} /\ Orders(r, Idle)
        /\ UNCHANGED <<folders, plugins, listed, astray>>
    BY DEF AddRoutes, Closes
  <1>2. PICK q \in Extensions : Of(r) = q
    BY <1>1, Working
  <1> DEFINE adds == plugins[q] # 0 /\ (order[r].does = "install" \/ Listed(q))
  <1>3. routes' = IF adds THEN RoutesAdded(routes, q, plugins[q]) ELSE routes
    BY <1>2 DEF AddRoutes
  <1>4. epShapes /\ Apart(routes) /\ Idle \in Ordering /\ Idle.plugin = "none" /\ Idle.at = "idle"
        /\ "none" \notin Extensions
    BY DEF EndpointsInv, epShapes, Idle, Ordering, EndpointsAssumption
  <1>5. adds => plugins[q] \in Editions /\ Adds(routes', routes, Offers[q][plugins[q]], q, plugins[q])
    <2> SUFFICES ASSUME adds
                 PROVE  plugins[q] \in Editions
                        /\ Adds(routes', routes, Offers[q][plugins[q]], q, plugins[q])
      OBVIOUS
    <2>1. plugins[q] \in Editions
      BY <1>4 DEF epShapes
    <2>2. QED BY <1>3, <1>4, <2>1, RoutesAddedAre
  <1>6. q \notin astray => (adds <=> Listed(q)) /\ (listed[q] = 0 => plugins[q] = 0)
                             /\ (listed[q] = 0 \/ (listed[q] = 1 /\ plugins[q] # 0 /\ plugins[q] = folders[q]))
    <2>1. order[r].at # "idle" /\ order[r].at # "load"
      BY <1>1
    <2>2. q \notin astray => \/ listed[q] = 0 /\ plugins[q] = 0
                             \/ listed[q] = 1 /\ plugins[q] # 0 /\ plugins[q] = folders[q]
      <3>1. Of(r) \notin astray =>
              \/ listed[Of(r)] = 0 /\ (plugins[Of(r)] # 0 <=> order[r].at = "load")
              \/ /\ listed[Of(r)] = 1 /\ plugins[Of(r)] # 0 /\ plugins[Of(r)] = folders[Of(r)]
                 /\ order[r].at # "load"
        BY <2>1, Working
      <3>2. QED BY <1>2, <2>1, <3>1
    <2>3. listed[q] = 0 => ~Listed(q)
      BY DEF Listed
    <2>4. listed[q] = 1 => Listed(q)
      BY DEF Listed
    <2>5. QED BY <2>2, <2>3, <2>4
  <1> HIDE DEF adds
  <1>7. epShapes'
    <2>1. Apart(routes')
      BY <1>3, <1>4, <1>5 DEF Adds
    <2>2. order' \in [Admins -> Ordering] /\ \A k \in Admins : order'[k] = order[k] \/ order'[k] = Idle
      BY <1>1, <1>4 DEF Orders, epShapes
    <2>3. QED BY <1>1, <1>4, <2>1, <2>2 DEF epShapes, Of
  <1>8. ASSUME NEW p \in Extensions \ astray'
        PROVE  ListedAsLoaded(p)' /\ OrderedOnce(p)' /\ Routed(p)'
    <2>1. ListedAsLoaded(p) /\ OrderedOnce(p) /\ Routed(p)
      BY <1>1 DEF EndpointsInv
    <2>2. CASE p # q
      <3>1. ASSUME NEW e \in Own(p) PROVE RoutesTo(routes', e) = RoutesTo(routes, e)
        <4>1. CASE adds
          BY <1>5, <2>2, <4>1, OthersRoutes
        <4>2. CASE ~adds
          BY <1>3, <4>2
        <4>3. QED BY <4>1, <4>2
      <3>2. Idle.plugin # p
        BY <1>4
      <3>3. QED BY <1>1, <1>2, <1>4, <2>1, <2>2, <3>1, <3>2, OthersStep
    <2>3. CASE p = q
      <3>1. /\ Ordered(p) /\ ~Ordered(p)' /\ (\A k \in Admins : Of(k)' # p) /\ ~Loading(p)'
        BY <1>1, <1>2, <1>4, <2>1, <2>3, OnlyOrder
      <3>2. OrderedOnce(p)'
        BY <3>1 DEF OrderedOnce
      <3>3. ListedAsLoaded(p)' /\ (Listed(p)' <=> Listed(p)) /\ plugins'[p] = plugins[p]
        BY <1>1, <1>6, <2>3, <3>1 DEF ListedAsLoaded, Listed
      <3>4. ASSUME NEW e \in Own(p)
            PROVE  RoutesTo(routes', e) = IF Listed(p) /\ e \in Offers[p][plugins[p]]
                                          THEN {RouteOf(e, p, plugins[p])} ELSE {}
        <4>1. RoutesTo(routes, e) = {} /\ e \in AllEndpoints
          BY <2>1, <3>1, OwnIs DEF Routed
        <4>2. CASE adds
          BY <1>1, <1>5, <1>6, <2>3, <4>1, <4>2 DEF Adds
        <4>3. CASE ~adds
          BY <1>1, <1>3, <1>6, <2>3, <4>1, <4>3
        <4>4. QED BY <4>2, <4>3
      <3>5. Routed(p)'
        BY <3>1, <3>3, <3>4 DEF Routed
      <3>6. QED BY <3>2, <3>3, <3>5
    <2>4. QED BY <2>2, <2>3
  <1>9. QED BY <1>7, <1>8 DEF EndpointsInv

\* The routes as they are made at the start, plugin by plugin.
StartsUpTo(g, seq) ==
  g = [s \in SUBSET DOMAIN seq |->
         IF s = {} THEN <<>>
         ELSE IF Listed(seq[Chosen(s)])
              THEN RoutesAdded(g[s \ {Chosen(s)}], seq[Chosen(s)], folders[seq[Chosen(s)]])
              ELSE g[s \ {Chosen(s)}]]

LEMMA StartsExist ==
  ASSUME EndpointsAssumption, NEW seq \in Seq(Extensions), IsFiniteSet(DOMAIN seq),
         \A p \in Extensions : Listed(p) => folders[p] \in Editions
  PROVE  \E g : StartsUpTo(g, seq)
  <1> DEFINE D == DOMAIN seq
             none == <<>>
             V == {t \in Seq(AllRoutes) : Apart(t)}
             on(i, t) == IF Listed(seq[i]) THEN RoutesAdded(t, seq[i], folders[seq[i]]) ELSE t
             step == [x \in D \X V |-> on(x[1], x[2])]
  <1>1. none \in V
    BY DEF Apart
  <1>2. \A i \in D, t \in V : on(i, t) \in V
    <2> SUFFICES ASSUME NEW i \in D, NEW t, Apart(t), Listed(seq[i])
                 PROVE  Apart(RoutesAdded(t, seq[i], folders[seq[i]]))
      BY DEF Apart
    <2>1. seq[i] \in Extensions /\ folders[seq[i]] \in Editions
      OBVIOUS
    <2>2. QED BY <2>1, RoutesAddedAre DEF Adds
  <1> HIDE DEF V, on
  <1>3. step \in FoldSteps(D, V) /\ \A i \in D, t \in V : step[<<i, t>>] = on(i, t)
    BY <1>2 DEF FoldSteps
  <1>4. \A s \in SUBSET D : s # {} => Chosen(s) \in s /\ Chosen(s) \in D
    BY DEF Chosen
  <1> HIDE DEF D, step, none
  <1>5. PICK f \in [SUBSET D -> V] : FoldUpTo(f, D, none, step)
    <2>1. IsFiniteSet(D)
      BY DEF D
    <2>2. QED BY <1>1, <1>3, <2>1, FoldExists
  <1>6. \A s \in SUBSET D : f[s] = IF s = {} THEN none ELSE on(Chosen(s), f[s \ {Chosen(s)}])
    <2> SUFFICES ASSUME NEW s \in SUBSET D
                 PROVE  f[s] = IF s = {} THEN none ELSE on(Chosen(s), f[s \ {Chosen(s)}])
      OBVIOUS
    <2>1. f[s] = IF s = {} THEN none ELSE step[<<Chosen(s), f[s \ {Chosen(s)}]>>]
      BY <1>5 DEF FoldUpTo
    <2>2. f[s \ {Chosen(s)}] \in V
      BY <1>5
    <2>3. QED BY <1>3, <1>4, <2>1, <2>2
  <1>7. f = [s \in SUBSET D |-> f[s]]
    BY <1>5
  <1>8. f = [s \in SUBSET D |-> IF s = {} THEN none ELSE on(Chosen(s), f[s \ {Chosen(s)}])]
    BY <1>6, <1>7
  <1>9. StartsUpTo(f, seq)
    BY <1>8 DEF StartsUpTo, D, none, on
  <1>10. QED BY <1>9

LEMMA StartsAre ==
  ASSUME EndpointsAssumption, NEW seq \in Seq(Extensions), IsFiniteSet(DOMAIN seq),
         \A p \in Extensions : Listed(p) => folders[p] \in Editions,
         NEW g, StartsUpTo(g, seq)
  PROVE  /\ Apart(g[DOMAIN seq])
         /\ \A p \in Range(seq) : \A e \in Own(p) :
              RoutesTo(g[DOMAIN seq], e) = IF Listed(p) /\ e \in Offers[p][folders[p]]
                                           THEN {RouteOf(e, p, folders[p])} ELSE {}
  <1> DEFINE D == DOMAIN seq
             In(s, p) == \E i \in s : seq[i] = p
             Right(s) == \A p \in Extensions : \A e \in Own(p) :
                RoutesTo(g[s], e) = IF In(s, p) /\ Listed(p) /\ e \in Offers[p][folders[p]]
                                    THEN {RouteOf(e, p, folders[p])} ELSE {}
             H == {s \in SUBSET D : Apart(g[s]) /\ Right(s)}
  <1>1. \A s \in SUBSET D :
          g[s] = IF s = {} THEN <<>>
                 ELSE IF Listed(seq[Chosen(s)])
                      THEN RoutesAdded(g[s \ {Chosen(s)}], seq[Chosen(s)], folders[seq[Chosen(s)]])
                      ELSE g[s \ {Chosen(s)}]
    BY DEF StartsUpTo
  <1>2. {} \in H
    <2>1. g[{}] = <<>>
      BY <1>1
    <2>2. Apart(<<>>) /\ \A e : RoutesTo(<<>>, e) = {}
      BY DEF Apart, RoutesTo, Range
    <2>3. QED BY <2>1, <2>2
  <1>3. ASSUME NEW s \in SUBSET D, s # {}, \A x \in s : s \ {x} \in H PROVE s \in H
    <2> DEFINE c == Chosen(s)
               h == g[s \ {c}]
               q == seq[c]
    <2>1. c \in s /\ c \in D /\ q \in Extensions
      BY <1>3 DEF Chosen
    <2>2. Apart(h) /\ Right(s \ {c})
      BY <1>3, <2>1
    <2>3. g[s] = IF Listed(q) THEN RoutesAdded(h, q, folders[q]) ELSE h
      BY <1>1, <1>3
    <2>4. \A p : In(s, p) <=> p = q \/ In(s \ {c}, p)
      BY <2>1
    <2>5. \A p \in Extensions : \A e \in Own(p) :
            RoutesTo(h, e) = IF In(s \ {c}, p) /\ Listed(p) /\ e \in Offers[p][folders[p]]
                             THEN {RouteOf(e, p, folders[p])} ELSE {}
      BY <2>2
    <2> HIDE DEF h, q, c, In
    <2>6. Listed(q) => folders[q] \in Editions /\ Adds(g[s], h, Offers[q][folders[q]], q, folders[q])
      BY <2>1, <2>2, <2>3, RoutesAddedAre
    <2>7. Apart(g[s])
      BY <2>2, <2>3, <2>6 DEF Adds
    <2>8. ASSUME NEW p \in Extensions, NEW e \in Own(p)
          PROVE  RoutesTo(g[s], e) = IF In(s, p) /\ Listed(p) /\ e \in Offers[p][folders[p]]
                                     THEN {RouteOf(e, p, folders[p])} ELSE {}
      <3>1. CASE ~Listed(q)
        BY <2>3, <2>4, <2>5, <3>1
      <3>2. CASE Listed(q) /\ p # q
        <4>1. RoutesTo(g[s], e) = RoutesTo(h, e)
          BY <2>1, <2>6, <3>2, OthersRoutes
        <4>2. QED BY <2>4, <2>5, <3>2, <4>1
      <3>3. CASE Listed(q) /\ p = q
        <4>1. e \in AllEndpoints
          BY OwnIs
        <4>2. RoutesTo(g[s], e) = IF e \in Offers[q][folders[q]] /\ RoutesTo(h, e) = {}
                                  THEN {RouteOf(e, q, folders[q])} ELSE RoutesTo(h, e)
          BY <2>6, <3>3, <4>1 DEF Adds
        <4>3. In(s, p)
          BY <2>4, <3>3
        <4>4. RoutesTo(h, e) = IF In(s \ {c}, p) /\ Listed(p) /\ e \in Offers[p][folders[p]]
                               THEN {RouteOf(e, p, folders[p])} ELSE {}
          BY <2>5
        <4>5. QED BY <3>3, <4>2, <4>3, <4>4
      <3>4. QED BY <3>1, <3>2, <3>3
    <2>9. QED BY <2>7, <2>8
  <1>4. D \in H
    <2>1. SUBSET D \subseteq H
      <3>1. IsFiniteSet(D)
        OBVIOUS
      <3> HIDE DEF H, D
      <3> QED BY <1>2, <1>3, <3>1, SetUpward
    <2>2. QED BY <2>1
  <1>5. \A p \in Range(seq) : In(D, p) /\ p \in Extensions
    BY DEF Range
  <1>6. QED BY <1>4, <1>5

LEMMA RestartKeeps ==
  ASSUME EndpointsAssumption, EndpointsInv, Restart
  PROVE  EndpointsInv'
  <1> DEFINE seq == SetToSeq(Extensions)
             g == CHOOSE g : StartsUpTo(g, seq)
  <1>1. epShapes
    BY DEF EndpointsInv
  <1>2. /\ plugins' = [p \in Extensions |-> IF Listed(p) THEN folders[p] ELSE 0]
        /\ listed' = [p \in Extensions |-> IF Listed(p) THEN 1 ELSE 0]
        /\ order' = [r \in Admins |-> Idle]
        /\ astray' = {} /\ folders' = folders
        /\ \A p \in Extensions : Listed(p) => folders[p] # 0
    BY DEF Restart
  <1>3. routes' = g[DOMAIN seq]
    BY DEF Restart, FoldSeq, FoldFunction, FoldFunctionOnSet, MapThenFoldSet, StartsUpTo, Chosen
  <1>4. seq \in Seq(Extensions) /\ Range(seq) = Extensions /\ IsFiniteSet(DOMAIN seq)
    BY SequenceOf DEF EndpointsAssumption
  <1>5. \A p \in Extensions : Listed(p) => folders[p] \in Editions
    BY <1>1, <1>2 DEF epShapes
  <1> HIDE DEF seq
  <1>6. StartsUpTo(g, seq)
    BY <1>4, <1>5, StartsExist
  <1> HIDE DEF g
  <1>7. /\ Apart(routes')
        /\ \A p \in Extensions : \A e \in Own(p) :
             RoutesTo(routes', e) = IF Listed(p) /\ e \in Offers[p][folders[p]]
                                    THEN {RouteOf(e, p, folders[p])} ELSE {}
    BY <1>3, <1>4, <1>5, <1>6, StartsAre
  <1>8. Idle \in Ordering /\ Idle.plugin = "none" /\ Idle.at = "idle" /\ "none" \notin Extensions
    BY DEF Idle, Ordering, EndpointsAssumption
  <1>9. epShapes'
    <2>1. plugins' \in [Extensions -> Editions \union {0}] /\ listed' \in [Extensions -> Nat]
      BY <1>2, <1>5
    <2>2. order' \in [Admins -> Ordering] /\ \A k \in Admins : order'[k] = Idle
      BY <1>2, <1>8
    <2>3. QED BY <1>1, <1>2, <1>7, <1>8, <2>1, <2>2 DEF epShapes, Of
  <1>10. ASSUME NEW p \in Extensions
         PROVE  ListedAsLoaded(p)' /\ OrderedOnce(p)' /\ Routed(p)'
    <2>1. \A k \in Admins : Of(k)' # p
      BY <1>2, <1>8 DEF Of
    <2>2. OrderedOnce(p)' /\ ~Ordered(p)' /\ ~Loading(p)'
      BY <2>1 DEF OrderedOnce, Ordered, Loading
    <2>3. /\ plugins'[p] = IF Listed(p) THEN folders[p] ELSE 0
          /\ listed'[p] = IF Listed(p) THEN 1 ELSE 0
      BY <1>2
    <2>4. ListedAsLoaded(p)' /\ (Listed(p)' <=> Listed(p))
      BY <1>2, <2>2, <2>3 DEF ListedAsLoaded, Listed
    <2>5. Routed(p)'
      BY <1>7, <2>2, <2>3, <2>4 DEF Routed
    <2>6. QED BY <2>2, <2>4, <2>5
  <1>11. QED BY <1>9, <1>10 DEF EndpointsInv

LEMMA EndpointsInit == EndpointsAssumption /\ epInit => EndpointsInv
  <1> SUFFICES ASSUME EndpointsAssumption, epInit PROVE EndpointsInv
    OBVIOUS
  <1>1. /\ routes = <<>> /\ folders = [p \in Extensions |-> 0] /\ plugins = [p \in Extensions |-> 0]
        /\ listed = [p \in Extensions |-> 0] /\ order = [r \in Admins |-> Idle]
    BY DEF epInit
  <1>2. Idle \in Ordering /\ Idle.plugin = "none" /\ Idle.at = "idle" /\ "none" \notin Extensions
    BY DEF Idle, Ordering, EndpointsAssumption
  <1>3. Apart(routes) /\ \A e : RoutesTo(routes, e) = {}
    BY <1>1 DEF Apart, RoutesTo, Range
  <1>4. epShapes
    BY <1>1, <1>2, <1>3 DEF epShapes, Of
  <1>5. ASSUME NEW p \in Extensions
        PROVE  ListedAsLoaded(p) /\ OrderedOnce(p) /\ Routed(p)
    <2>1. \A k \in Admins : Of(k) # p
      BY <1>1, <1>2 DEF Of
    <2>2. OrderedOnce(p) /\ ~Ordered(p) /\ ~Loading(p)
      BY <2>1 DEF OrderedOnce, Ordered, Loading
    <2>3. QED BY <1>1, <1>3, <2>2 DEF ListedAsLoaded, Routed, Listed
  <1>6. QED BY <1>4, <1>5 DEF EndpointsInv

LEMMA EndpointsKeep ==
  ASSUME EndpointsAssumption, EndpointsInv, [epNext]_epVars
  PROVE  EndpointsInv'
  <1>1. CASE UNCHANGED epVars
    <2>1. UNCHANGED <<routes, folders, plugins, listed, order, astray>>
      BY <1>1 DEF epVars
    <2>2. epShapes'
      BY <2>1 DEF EndpointsInv, epShapes, Of
    <2>3. ASSUME NEW p \in Extensions \ astray'
          PROVE  ListedAsLoaded(p)' /\ OrderedOnce(p)' /\ Routed(p)'
      <3>1. ListedAsLoaded(p) /\ OrderedOnce(p) /\ Routed(p)
        BY <2>1 DEF EndpointsInv
      <3>2. QED BY <2>1, <3>1 DEF ListedAsLoaded, OrderedOnce, Routed, Ordered, Of, Listed, Loading
    <2>4. QED BY <2>2, <2>3 DEF EndpointsInv
  <1>2. ASSUME NEW r \in Admins, NEW p \in Extensions, NEW does \in {"toggle", "uninstall"},
               BeginOrder(r, does, p)
        PROVE  EndpointsInv'
    BY <1>2, BeginOrderKeeps
  <1>3. ASSUME NEW r \in Admins, NEW p \in Extensions, NEW v \in Editions, Extract(r, p, v)
        PROVE  EndpointsInv'
    BY <1>3, ExtractKeeps
  <1>4. ASSUME NEW r \in Admins, ToggleListed(r) \/ Uninstall(r) \/ Load(r) \/ Miss(r)
                                 \/ RebuildFails(r) \/ AddRoutes(r)
        PROVE  EndpointsInv'
    BY <1>4, ToggleListedKeeps, UninstallKeeps, LoadKeeps, MissKeeps, RebuildFailsKeeps,
       AddRoutesKeeps
  <1>5. CASE Restart
    BY <1>5, RestartKeeps
  <1>6. QED BY <1>1, <1>2, <1>3, <1>4, <1>5 DEF epNext

LEMMA OneRouteTo ==
  ASSUME NEW rs, Apart(rs), NEW e, NEW r, RoutesTo(rs, e) = {r}
  PROVE  \E n \in DOMAIN rs : {i \in DOMAIN rs : rs[i].endpoint = e} = {n} /\ rs[n] = r
  <1>1. DOMAIN rs = 1..Len(rs) /\ \A i, j \in 1..Len(rs) : rs[i].endpoint = rs[j].endpoint => i = j
    BY DEF Apart
  <1>2. PICK n \in DOMAIN rs : rs[n] = r /\ r.endpoint = e
    BY DEF RoutesTo, Range
  <1>3. \A i \in DOMAIN rs : rs[i].endpoint = e <=> i = n
    BY <1>1, <1>2
  <1>4. QED BY <1>2, <1>3

\* The routes of a plugin are the endpoints of the edition that is loaded, each once,
\* when it is active, and none when it is not: install_plugin, toggle_plugin and
\* uninstall_plugin with their endpoints, CatEndpoint.activate and deactivate, in any
\* order and over restarts.
THEOREM EndpointsServed == epSpec => []Served
  <1>1. epInit => EndpointsInv
    BY EndpointsInit, EndpointsAssumption
  <1>2. EndpointsInv /\ [epNext]_epVars => EndpointsInv'
    BY EndpointsKeep, EndpointsAssumption
  <1>3. EndpointsInv => Served
    <2> SUFFICES ASSUME EndpointsInv, NEW p \in Extensions \ astray, ~Ordered(p), NEW e \in Own(p)
                 PROVE  LET places == {n \in DOMAIN routes : routes[n].endpoint = e}
                        IN  IF Listed(p) /\ e \in Offers[p][plugins[p]]
                            THEN \E n \in places :
                                   places = {n} /\ routes[n] = RouteOf(e, p, plugins[p])
                            ELSE places = {}
      BY DEF Served, RouteOf
    <2> DEFINE places == {n \in DOMAIN routes : routes[n].endpoint = e}
    <2>1. Routed(p) /\ Apart(routes)
      BY DEF EndpointsInv, epShapes
    <2>2. CASE Listed(p) /\ e \in Offers[p][plugins[p]]
      <3>1. RoutesTo(routes, e) = {RouteOf(e, p, plugins[p])}
        BY <2>1, <2>2 DEF Routed
      <3>2. PICK n \in DOMAIN routes : places = {n} /\ routes[n] = RouteOf(e, p, plugins[p])
        BY <2>1, <3>1, OneRouteTo
      <3>3. QED BY <2>2, <3>2
    <2>3. CASE ~(Listed(p) /\ e \in Offers[p][plugins[p]])
      <3>1. RoutesTo(routes, e) = {}
        BY <2>1, <2>3 DEF Routed
      <3>2. places = {}
        BY <3>1 DEF RoutesTo, Range
      <3>3. QED BY <2>3, <3>2
    <2>4. QED BY <2>2, <2>3
  <1>4. QED BY <1>1, <1>2, <1>3, PTL DEF epSpec

-----------------------------------------------------------------------------
(* Chunks: no word is lost, repeated or moved, and what comes out fits,    *)
(* for any number of chunks and words and any sizes.                       *)

CharsUpTo(g, w, base) ==
  g = [s \in SUBSET DOMAIN w |-> IF s = {} THEN base ELSE w[Chosen(s)] + g[s \ {Chosen(s)}]]

LEMMA CharsAre ==
  ASSUME NEW w \in Seq(Nat)
  PROVE  Chars(w) = Len(w) - 1 + SumOfList(w)
  <1> DEFINE base == Len(w) - 1
             D == DOMAIN w
             g == CHOOSE g : CharsUpTo(g, w, base)
  <1>1. base \in Int
    OBVIOUS
  <1>2. Chars(w) = g[D]
    BY DEF Chars, FoldSeq, FoldFunction, FoldFunctionOnSet, MapThenFoldSet, CharsUpTo, Chosen
  <1>3. /\ IsFiniteSet(D) /\ w \in [D -> Nat]
        /\ \E f \in [SUBSET D -> Nat] : SumUpTo(f, w, D) /\ SumOfList(w) = f[D]
    BY SumOfListIs
  <1> HIDE DEF base, D
  <1>4. PICK f \in [SUBSET D -> Nat] : SumUpTo(f, w, D) /\ SumOfList(w) = f[D]
    BY <1>3
  <1>5. \A s \in SUBSET D : s # {} =>
          /\ Chosen(s) \in s /\ w[Chosen(s)] \in Nat
          /\ f[s] = w[Chosen(s)] + f[s \ {Chosen(s)}]
    BY <1>3, <1>4 DEF Chosen, SumUpTo
  <1>6. f[{}] = 0
    BY <1>4 DEF SumUpTo
  <1>7. \A a \in Int, b, c \in Nat : a + (b + c) = b + (a + c)
    OBVIOUS
  <1>8. CharsUpTo([s \in SUBSET D |-> base + f[s]], w, base)
    <2> DEFINE k == [s \in SUBSET D |-> base + f[s]]
    <2>1. ASSUME NEW s \in SUBSET D, s # {} PROVE k[s] = w[Chosen(s)] + k[s \ {Chosen(s)}]
      <3>1. k[s] = base + (w[Chosen(s)] + f[s \ {Chosen(s)}])
        BY <1>5, <2>1
      <3>2. k[s \ {Chosen(s)}] = base + f[s \ {Chosen(s)}] /\ f[s \ {Chosen(s)}] \in Nat
        OBVIOUS
      <3>3. QED BY <1>1, <1>5, <1>7, <2>1, <3>1, <3>2
    <2>2. k[{}] = base
      BY <1>1, <1>6
    <2>3. k = [s \in SUBSET D |-> k[s]]
      OBVIOUS
    <2> HIDE DEF k
    <2>4. k = [s \in SUBSET D |-> IF s = {} THEN base ELSE w[Chosen(s)] + k[s \ {Chosen(s)}]]
      BY <2>1, <2>2, <2>3
    <2>5. QED BY <2>4 DEF CharsUpTo, k, D
  <1>9. CharsUpTo(g, w, base)
    BY <1>8
  <1> HIDE DEF g
  <1>10. g[D] = base + f[D]
    <2> DEFINE H == {s \in SUBSET D : g[s] = base + f[s]}
    <2>1. {} \in H
      BY <1>1, <1>6, <1>9 DEF CharsUpTo, D
    <2>2. ASSUME NEW s \in SUBSET D, s # {}, \A x \in s : s \ {x} \in H PROVE s \in H
      <3>1. g[s] = w[Chosen(s)] + g[s \ {Chosen(s)}]
        BY <1>9, <2>2 DEF CharsUpTo, D
      <3>2. g[s \ {Chosen(s)}] = base + f[s \ {Chosen(s)}] /\ f[s \ {Chosen(s)}] \in Nat
        BY <1>5, <2>2
      <3>3. w[Chosen(s)] \in Nat /\ f[s] = w[Chosen(s)] + f[s \ {Chosen(s)}]
        BY <1>5, <2>2
      <3>4. g[s] = w[Chosen(s)] + (base + f[s \ {Chosen(s)}])
        BY <3>1, <3>2
      <3>5. base + f[s] = base + (w[Chosen(s)] + f[s \ {Chosen(s)}])
        BY <3>3
      <3>6. base + (w[Chosen(s)] + f[s \ {Chosen(s)}]) = w[Chosen(s)] + (base + f[s \ {Chosen(s)}])
        BY ONLY <1>1, <1>7, <3>2, <3>3
      <3>7. g[s] = base + f[s]
        BY <3>4, <3>5, <3>6
      <3>8. QED BY <3>7
    <2>3. \A s \in SUBSET D : s # {} /\ (\A x \in s : s \ {x} \in H) => s \in H
      BY <2>2
    <2>4. SUBSET D \subseteq H
      <3> HIDE DEF H
      <3> QED BY <1>3, <2>1, <2>3, SetUpward
    <2>5. QED BY <2>4
  <1>11. QED BY <1>2, <1>4, <1>10 DEF base

LEMMA CharsConcat ==
  ASSUME NEW v \in Seq(Nat), NEW w \in Seq(Nat)
  PROVE  Chars(v) \in Int /\ Chars(v \o w) = Chars(v) + Chars(w) + 1
  <1> DEFINE u == v \o w
  <1>1. u \in Seq(Nat) /\ Len(u) = Len(v) + Len(w) /\ Len(v) \in Nat /\ Len(w) \in Nat
    OBVIOUS
  <1>2. Chars(v) = Len(v) - 1 + SumOfList(v) /\ Chars(w) = Len(w) - 1 + SumOfList(w)
    BY CharsAre
  <1>3. Chars(u) = Len(v) + Len(w) - 1 + SumOfList(u)
    <2> HIDE DEF u
    <2>1. Chars(u) = Len(u) - 1 + SumOfList(u)
      BY <1>1, CharsAre
    <2>2. QED BY <1>1, <2>1
  <1>4. SumOfList(u) = SumOfList(v) + SumOfList(w) /\ SumOfList(v) \in Nat /\ SumOfList(w) \in Nat
    BY SumOfListConcat, SumOfListType
  <1>5. \A a, b, c, d \in Nat : a + b - 1 + (c + d) = (a - 1 + c) + (b - 1 + d) + 1
    OBVIOUS
  <1>6. QED BY <1>1, <1>2, <1>3, <1>4, <1>5

\* Chunks of any number of words.
SomeChunks == [words : Seq(WordSizes), blank : Nat]

LEMMA AllWordsNone == AllWords(<<>>) = <<>>
  <1>1. [i \in DOMAIN <<>> |-> <<>>[i].words] = <<>>
    OBVIOUS
  <1>2. QED BY <1>1, FlatNone DEF AllWords

LEMMA WordLists ==
  ASSUME NEW cs \in Seq(SomeChunks)
  PROVE  [i \in DOMAIN cs |-> cs[i].words] \in Seq(Seq(WordSizes))
  <1> DEFINE V == Seq(WordSizes)
  <1>1. Len(cs) \in Nat /\ DOMAIN cs = 1..Len(cs) /\ \A i \in 1..Len(cs) : cs[i] \in SomeChunks
    OBVIOUS
  <1>0. \A c \in SomeChunks : c.words \in V
    BY DEF SomeChunks
  <1> HIDE DEF V
  <1>2. [i \in DOMAIN cs |-> cs[i].words] \in Seq(V)
    BY <1>0, <1>1
  <1>3. QED BY <1>2 DEF V

LEMMA AllWordsType ==
  ASSUME NEW cs \in Seq(SomeChunks)
  PROVE  AllWords(cs) \in Seq(WordSizes)
  BY WordLists, FlatType DEF AllWords

LEMMA AllWordsAppend ==
  ASSUME NEW cs \in Seq(SomeChunks), NEW c \in SomeChunks
  PROVE  AllWords(Append(cs, c)) = AllWords(cs) \o c.words
  <1> DEFINE ds == Append(cs, c)
             us == [i \in DOMAIN cs |-> cs[i].words]
             vs == [i \in DOMAIN ds |-> ds[i].words]
  <1>1. c.words \in Seq(WordSizes) /\ ds \in Seq(SomeChunks)
    BY DEF SomeChunks
  <1>2. us \in Seq(Seq(WordSizes)) /\ vs \in Seq(Seq(WordSizes))
    BY <1>1, WordLists
  <1>3. /\ Len(cs) \in Nat /\ DOMAIN us = 1..Len(cs) /\ DOMAIN vs = 1..(Len(cs) + 1)
        /\ \A i \in 1..Len(cs) : vs[i] = us[i]
        /\ vs[Len(cs) + 1] = c.words
    OBVIOUS
  <1> HIDE DEF us, vs
  <1>4. Len(us) = Len(cs) /\ Len(vs) = Len(cs) + 1
    BY <1>2, <1>3
  <1> DEFINE V == Seq(WordSizes)
  <1>5. us \in Seq(V) /\ vs \in Seq(V) /\ c.words \in V
    BY <1>1, <1>2
  <1> HIDE DEF V
  <1>6. vs = Append(us, c.words)
    BY <1>3, <1>4, <1>5
  <1>7. FlattenSeq(vs) = FlattenSeq(us) \o c.words
    BY <1>1, <1>2, <1>6, FlatAppend
  <1>8. QED BY <1>7 DEF AllWords, us, vs

LEMMA PrefixNext ==
  ASSUME NEW T, NEW s \in Seq(T), NEW m \in Nat, m < Len(s)
  PROVE  SubSeq(s, 1, m + 1) = Append(SubSeq(s, 1, m), s[m + 1])
  <1> DEFINE a == SubSeq(s, 1, m)
             b == SubSeq(s, 1, m + 1)
             c == Append(a, s[m + 1])
  <1>1. Len(s) \in Nat /\ m + 1 \in Nat /\ m + 1 <= Len(s) /\ m <= Len(s) /\ s[m + 1] \in T
    OBVIOUS
  <1>2. a \in Seq(T) /\ Len(a) = m /\ \A i \in 1..m : a[i] = s[i]
    BY <1>1, Prefix
  <1>3. b \in Seq(T) /\ Len(b) = m + 1 /\ \A i \in 1..(m + 1) : b[i] = s[i]
    BY <1>1, Prefix
  <1> HIDE DEF a, b
  <1>4. c \in Seq(T) /\ Len(c) = m + 1 /\ (\A i \in 1..m : c[i] = s[i]) /\ c[m + 1] = s[m + 1]
    BY <1>1, <1>2
  <1> HIDE DEF c
  <1>5. ASSUME NEW i \in 1..(m + 1) PROVE b[i] = c[i]
    <2>1. b[i] = s[i]
      BY <1>3
    <2>2. CASE i = m + 1
      BY <1>4, <2>1, <2>2
    <2>3. CASE i # m + 1
      <3>1. i \in 1..m
        BY <2>3
      <3>2. QED BY <1>4, <2>1, <3>1
    <2>4. QED BY <2>2, <2>3
  <1>6. b = c
    BY <1>3, <1>4, <1>5
  <1>7. QED BY <1>6 DEF a, b, c

LEMMA PrefixEnds ==
  ASSUME NEW T, NEW s \in Seq(T)
  PROVE  SubSeq(s, 1, Len(s)) = s /\ SubSeq(s, 1, 0) = <<>>
  <1> DEFINE b == SubSeq(s, 1, Len(s))
             a == SubSeq(s, 1, 0)
  <1>1. Len(s) \in Nat /\ Len(s) <= Len(s) /\ 0 <= Len(s)
    OBVIOUS
  <1>2. b \in Seq(T) /\ Len(b) = Len(s) /\ \A i \in 1..Len(s) : b[i] = s[i]
    BY <1>1, Prefix
  <1>3. a \in Seq(T) /\ Len(a) = 0
    BY <1>1, Prefix
  <1> HIDE DEF a, b
  <1>4. b = s /\ a = <<>>
    BY <1>2, <1>3
  <1>5. QED BY <1>4 DEF a, b

LEMMA PrefixPiece ==
  ASSUME NEW T, NEW s \in Seq(T), NEW m \in Nat, NEW k \in Nat, m + k <= Len(s)
  PROVE  /\ SubSeq(s, m + 1, m + k) \in Seq(T) /\ Len(SubSeq(s, m + 1, m + k)) = k
         /\ SubSeq(s, 1, m) \o SubSeq(s, m + 1, m + k) = SubSeq(s, 1, m + k)
  <1> DEFINE a == SubSeq(s, 1, m)
             b == SubSeq(s, m + 1, m + k)
             c == SubSeq(s, 1, m + k)
  <1>1. Len(s) \in Nat /\ m + k \in Nat /\ m <= Len(s)
    OBVIOUS
  <1>2. a \in Seq(T) /\ Len(a) = m /\ \A i \in 1..m : a[i] = s[i]
    BY <1>1, Prefix
  <1>3. c \in Seq(T) /\ Len(c) = m + k /\ \A i \in 1..(m + k) : c[i] = s[i]
    BY <1>1, Prefix
  <1>4. b \in Seq(T) /\ Len(b) = k /\ \A i \in 1..k : b[i] = s[m + i]
    BY <1>1
  <1> HIDE DEF a, b, c
  <1> DEFINE d == a \o b
  <1>0. /\ d \in Seq(T) /\ Len(d) = Len(a) + Len(b)
        /\ \A i \in 1..Len(a) : d[i] = a[i]
        /\ \A i \in (Len(a) + 1)..(Len(a) + Len(b)) : d[i] = b[i - Len(a)]
    <2>1. a \in Seq(T) /\ b \in Seq(T)
      BY <1>2, <1>4
    <2>2. QED BY ONLY <2>1
  <1> HIDE DEF d
  <1>5. d \in Seq(T) /\ Len(d) = m + k
    BY <1>0, <1>2, <1>4
  <1>6. ASSUME NEW i \in 1..(m + k) PROVE d[i] = c[i]
    <2>1. CASE i <= m
      <3>1. i \in 1..Len(a) /\ a[i] = c[i]
        BY <1>2, <1>3, <2>1
      <3>2. d[i] = a[i]
        BY ONLY <1>0, <3>1
      <3>3. QED BY <3>1, <3>2
    <2>2. CASE ~(i <= m)
      <3>1. i - m \in 1..k /\ m + (i - m) = i
        BY <2>2
      <3>2. d[i] = b[i - m]
        <4>1. i \in (Len(a) + 1)..(Len(a) + Len(b)) /\ Len(a) = m
          BY <1>2, <1>4, <2>2
        <4>2. d[i] = b[i - Len(a)]
          BY ONLY <1>0, <4>1
        <4>3. QED BY <4>1, <4>2
      <3>3. QED BY <1>3, <1>4, <3>1, <3>2
    <2>3. QED BY <2>1, <2>2
  <1>7. d = c
    BY <1>3, <1>5, <1>6
  <1>8. QED BY <1>4, <1>7 DEF a, b, c, d

\* The last of a list that is not empty.
LEMMA FrontAndLast ==
  ASSUME NEW T, NEW s \in Seq(T), s # <<>>
  PROVE  Front(s) \in Seq(T) /\ Last(s) \in T /\ s = Append(Front(s), Last(s))
  <1> DEFINE n == Len(s) - 1
  <1>1. n \in Nat /\ n < Len(s) /\ n + 1 = Len(s) /\ s[Len(s)] \in T
    OBVIOUS
  <1> HIDE DEF n
  <1>2. SubSeq(s, 1, n + 1) = Append(SubSeq(s, 1, n), s[n + 1]) /\ SubSeq(s, 1, n) \in Seq(T)
    BY <1>1, PrefixNext, Prefix
  <1>3. SubSeq(s, 1, Len(s)) = s
    BY PrefixEnds
  <1>4. Front(s) = SubSeq(s, 1, n) /\ Last(s) = s[n + 1]
    BY <1>1 DEF Front, Last, n
  <1>5. QED BY <1>1, <1>2, <1>3, <1>4

\* What sz covers of ms: the chunks before the n-th, and a part of that.
Covers(sz, ms, n, part) ==
    /\ AllWords(sz) = AllWords(SubSeq(ms, 1, n - 1)) \o part
    /\ \A i \in DOMAIN sz : Tokens(Size(sz[i])) <= MaxInput \/ Len(sz[i].words) <= 1
    /\ \A c \in Range(SubSeq(ms, 1, n - 1)) : Tokens(Size(c)) <= MaxInput => c \in Range(sz)

LEMMA SizedGrows ==
  ASSUME NEW sz \in Seq(SomeChunks), NEW d \in SomeChunks,
         \A i \in DOMAIN sz : Tokens(Size(sz[i])) <= MaxInput \/ Len(sz[i].words) <= 1,
         Tokens(Size(d)) <= MaxInput \/ Len(d.words) <= 1
  PROVE  /\ \A i \in DOMAIN Append(sz, d) :
              Tokens(Size(Append(sz, d)[i])) <= MaxInput \/ Len(Append(sz, d)[i].words) <= 1
         /\ Range(Append(sz, d)) = Range(sz) \union {d}
         /\ AllWords(Append(sz, d)) = AllWords(sz) \o d.words
         /\ AllWords(sz) \in Seq(WordSizes) /\ d.words \in Seq(WordSizes)
  <1> DEFINE t == Append(sz, d)
             OK(c) == Tokens(Size(c)) <= MaxInput \/ Len(c.words) <= 1
  <1>1. /\ DOMAIN sz = 1..Len(sz) /\ DOMAIN t = 1..(Len(sz) + 1) /\ Len(sz) \in Nat
        /\ t[Len(sz) + 1] = d /\ \A i \in 1..Len(sz) : t[i] = sz[i]
    OBVIOUS
  <1>2. (\A i \in 1..Len(sz) : OK(sz[i])) /\ OK(d)
    OBVIOUS
  <1> HIDE DEF OK
  <1>3. Range(t) = Range(sz) \union {d}
    BY RangeAppend
  <1>4. AllWords(t) = AllWords(sz) \o d.words /\ AllWords(sz) \in Seq(WordSizes)
    BY AllWordsAppend, AllWordsType
  <1>5. d.words \in Seq(WordSizes)
    BY DEF SomeChunks
  <1> HIDE DEF t
  <1>6. \A i \in DOMAIN t : OK(t[i])
    BY <1>1, <1>2
  <1>7. QED BY <1>3, <1>4, <1>5, <1>6 DEF t, OK

LEMMA DoneGrows ==
  ASSUME NEW ms \in Seq(SomeChunks), NEW n \in Nat \ {0}, n <= Len(ms)
  PROVE  /\ ms[n] \in SomeChunks
         /\ SubSeq(ms, 1, n - 1) \in Seq(SomeChunks)
         /\ SubSeq(ms, 1, (n + 1) - 1) = Append(SubSeq(ms, 1, n - 1), ms[n])
         /\ AllWords(SubSeq(ms, 1, (n + 1) - 1)) = AllWords(SubSeq(ms, 1, n - 1)) \o ms[n].words
         /\ Range(SubSeq(ms, 1, (n + 1) - 1)) = Range(SubSeq(ms, 1, n - 1)) \union {ms[n]}
         /\ AllWords(SubSeq(ms, 1, n - 1)) \in Seq(WordSizes)
  <1> DEFINE m == n - 1
             a == SubSeq(ms, 1, m)
  <1>1. m \in Nat /\ m < Len(ms) /\ m + 1 = n /\ (n + 1) - 1 = n /\ ms[n] \in SomeChunks /\ m <= Len(ms)
    OBVIOUS
  <1> HIDE DEF m
  <1>2. SubSeq(ms, 1, m + 1) = Append(SubSeq(ms, 1, m), ms[m + 1])
    BY <1>1, PrefixNext
  <1>3. a \in Seq(SomeChunks)
    BY <1>1, Prefix
  <1> HIDE DEF a
  <1>4. /\ AllWords(Append(a, ms[n])) = AllWords(a) \o ms[n].words
        /\ Range(Append(a, ms[n])) = Range(a) \union {ms[n]}
        /\ AllWords(a) \in Seq(WordSizes)
    BY <1>1, <1>3, AllWordsAppend, RangeAppend, AllWordsType
  <1>5. SubSeq(ms, 1, (n + 1) - 1) = Append(a, ms[n]) /\ SubSeq(ms, 1, n - 1) = a
    BY <1>1, <1>2 DEF a, m
  <1>6. QED BY <1>1, <1>3, <1>4, <1>5

LEMMA Assoc3 ==
  \A x, y, z \in Seq(WordSizes) : (x \o y) \o z = x \o (y \o z)
  <1> SUFFICES ASSUME NEW x \in Seq(WordSizes), NEW y \in Seq(WordSizes), NEW z \in Seq(WordSizes)
               PROVE  (x \o y) \o z = x \o (y \o z)
    OBVIOUS
  <1> QED BY ConcatAssociative

\* A chunk that is kept as it is.
LEMMA CoversNext ==
  ASSUME NEW ms \in Seq(SomeChunks), NEW n \in Nat \ {0}, n <= Len(ms),
         NEW sz \in Seq(SomeChunks), Covers(sz, ms, n, <<>>),
         Tokens(Size(ms[n])) <= MaxInput \/ ms[n].words = <<>>
  PROVE  Covers(Append(sz, ms[n]), ms, n + 1, <<>>)
  <1> DEFINE d == ms[n]
             a == SubSeq(ms, 1, n - 1)
             b == SubSeq(ms, 1, (n + 1) - 1)
             t == Append(sz, d)
  <1>1. /\ d \in SomeChunks /\ AllWords(b) = AllWords(a) \o d.words
        /\ Range(b) = Range(a) \union {d} /\ AllWords(a) \in Seq(WordSizes)
    BY DoneGrows
  <1>2. /\ AllWords(sz) = AllWords(a) \o <<>>
        /\ \A i \in DOMAIN sz : Tokens(Size(sz[i])) <= MaxInput \/ Len(sz[i].words) <= 1
        /\ \A c \in Range(a) : Tokens(Size(c)) <= MaxInput => c \in Range(sz)
    BY DEF Covers
  <1>3. Tokens(Size(d)) <= MaxInput \/ Len(d.words) <= 1
    OBVIOUS
  <1> HIDE DEF d, a, b
  <1>4. /\ \A i \in DOMAIN t : Tokens(Size(t[i])) <= MaxInput \/ Len(t[i].words) <= 1
        /\ Range(t) = Range(sz) \union {d} /\ AllWords(t) = AllWords(sz) \o d.words
        /\ d.words \in Seq(WordSizes)
    BY <1>1, <1>2, <1>3, SizedGrows
  <1> HIDE DEF t
  <1>5. AllWords(sz) = AllWords(a)
    BY <1>1, <1>2
  <1>6. AllWords(t) = AllWords(b) /\ AllWords(b) \in Seq(WordSizes)
    BY <1>1, <1>4, <1>5
  <1>7. AllWords(t) = AllWords(b) \o <<>>
    BY <1>6
  <1>8. \A c \in Range(b) : Tokens(Size(c)) <= MaxInput => c \in Range(t)
    BY <1>1, <1>2, <1>4
  <1>9. Covers(t, ms, n + 1, <<>>)
    BY <1>4, <1>7, <1>8 DEF Covers, b
  <1>10. QED BY <1>9 DEF t, d

\* A piece of a chunk that is split.
LEMMA CoversPiece ==
  ASSUME NEW ms \in Seq(SomeChunks), NEW n \in Nat \ {0}, n <= Len(ms),
         NEW sz \in Seq(SomeChunks), NEW w \in Seq(WordSizes), NEW m \in Nat, NEW k \in Nat \ {0},
         m + k <= Len(w), Covers(sz, ms, n, SubSeq(w, 1, m)),
         NEW p, p = SubSeq(w, m + 1, m + k), k = 1 \/ Fits(p),
         NEW d, d = [words |-> p, blank |-> 0]
  PROVE  d \in SomeChunks /\ Covers(Append(sz, d), ms, n, SubSeq(w, 1, m + k))
  <1> DEFINE a == SubSeq(ms, 1, n - 1)
             u == SubSeq(w, 1, m)
             v == SubSeq(w, 1, m + k)
             t == Append(sz, d)
  <1>1. /\ p \in Seq(WordSizes) /\ Len(p) = k /\ u \o p = v
    BY PrefixPiece
  <1>0. u \in Seq(WordSizes)
    BY Prefix
  <1>2. AllWords(a) \in Seq(WordSizes)
    BY DoneGrows
  <1>3. d \in SomeChunks /\ d.words = p /\ d.blank = 0 /\ p # <<>>
    BY <1>1 DEF SomeChunks
  <1>4. Tokens(Size(d)) <= MaxInput \/ Len(d.words) <= 1
    <2>1. CASE k = 1
      BY <1>1, <1>3, <2>1
    <2>2. CASE Fits(p)
      <3>1. Chars(p) \in Int
        <4>1. WordSizes \subseteq Nat
          BY SplittingAssumption DEF SplittingAssumption
        <4>2. p \in Seq(Nat)
          BY <1>1, <4>1, SeqMonotonic
        <4>3. QED BY <4>2, CharsConcat
      <3>2. Size(d) = Chars(p) + 0
        BY <1>3 DEF Size
      <3>3. Size(d) = Chars(p)
        BY <3>1, <3>2
      <3>4. QED BY <2>2, <3>3 DEF Fits
    <2>3. QED BY <2>1, <2>2
  <1>5. /\ AllWords(sz) = AllWords(a) \o u
        /\ \A i \in DOMAIN sz : Tokens(Size(sz[i])) <= MaxInput \/ Len(sz[i].words) <= 1
        /\ \A c \in Range(a) : Tokens(Size(c)) <= MaxInput => c \in Range(sz)
    BY DEF Covers
  <1> HIDE DEF a, u, v
  <1>6. /\ \A i \in DOMAIN t : Tokens(Size(t[i])) <= MaxInput \/ Len(t[i].words) <= 1
        /\ Range(t) = Range(sz) \union {d} /\ AllWords(t) = AllWords(sz) \o p
    BY <1>3, <1>4, <1>5, SizedGrows
  <1> HIDE DEF t
  <1>7. (AllWords(a) \o u) \o p = AllWords(a) \o (u \o p)
    <2>1. \A x, y, z \in Seq(WordSizes) : (x \o y) \o z = x \o (y \o z)
      BY Assoc3
    <2> DEFINE T == Seq(WordSizes)
               x == AllWords(a)
    <2>2. x \in T /\ u \in T /\ p \in T /\ \A i, j, k0 \in T : (i \o j) \o k0 = i \o (j \o k0)
      BY <1>0, <1>1, <1>2, <2>1
    <2> HIDE DEF T, x
    <2>3. (x \o u) \o p = x \o (u \o p)
      BY ONLY <2>2
    <2>4. QED BY <2>3 DEF x
  <1>8. AllWords(t) = AllWords(a) \o v
    BY <1>1, <1>5, <1>6, <1>7
  <1>9. \A c \in Range(a) : Tokens(Size(c)) <= MaxInput => c \in Range(t)
    BY <1>5, <1>6
  <1>10. Covers(t, ms, n, v)
    BY <1>6, <1>8, <1>9 DEF Covers, a
  <1>11. QED BY <1>3, <1>10 DEF t, v

\* The last piece.
LEMMA CoversWhole ==
  ASSUME NEW ms \in Seq(SomeChunks), NEW n \in Nat \ {0}, n <= Len(ms),
         NEW sz, Covers(sz, ms, n, ms[n].words), ~(Tokens(Size(ms[n])) <= MaxInput)
  PROVE  Covers(sz, ms, n + 1, <<>>)
  <1> DEFINE d == ms[n]
             a == SubSeq(ms, 1, n - 1)
             b == SubSeq(ms, 1, (n + 1) - 1)
  <1>1. /\ d \in SomeChunks /\ AllWords(b) = AllWords(a) \o d.words
        /\ Range(b) = Range(a) \union {d} /\ AllWords(a) \in Seq(WordSizes)
    BY DoneGrows
  <1>2. /\ AllWords(sz) = AllWords(a) \o d.words
        /\ \A i \in DOMAIN sz : Tokens(Size(sz[i])) <= MaxInput \/ Len(sz[i].words) <= 1
        /\ \A c \in Range(a) : Tokens(Size(c)) <= MaxInput => c \in Range(sz)
    BY DEF Covers
  <1>3. ~(Tokens(Size(d)) <= MaxInput) /\ d.words \in Seq(WordSizes)
    BY <1>1 DEF SomeChunks
  <1> HIDE DEF d, a, b
  <1>4. AllWords(b) \in Seq(WordSizes)
    BY <1>1, <1>3
  <1>5. AllWords(sz) = AllWords(b) \o <<>>
    BY <1>1, <1>2, <1>4
  <1>6. \A c \in Range(b) : Tokens(Size(c)) <= MaxInput => c \in Range(sz)
    BY <1>1, <1>2, <1>3
  <1>7. QED BY <1>2, <1>5, <1>6 DEF Covers, b

\* A merged chunk is as large as its parts and the two characters between them.
LEMMA JoinedFits ==
  ASSUME NEW prev \in SomeChunks, NEW c \in SomeChunks, c.words # <<>>
  PROVE  /\ Joined(prev, c) \in SomeChunks /\ Joined(prev, c).words = prev.words \o c.words
         /\ Size(Joined(prev, c)) <= Size(prev) + Size(c) + 2
  <1> DEFINE v == prev.words
             w == c.words
             u == v \o w
             blank == c.blank + (IF v = <<>> THEN 2 ELSE prev.blank + 1)
  <1>1. v \in Seq(WordSizes) /\ w \in Seq(WordSizes) /\ prev.blank \in Nat /\ c.blank \in Nat
    BY DEF SomeChunks
  <1>2. WordSizes \subseteq Nat
    BY SplittingAssumption DEF SplittingAssumption
  <1>3. v \in Seq(Nat) /\ w \in Seq(Nat)
    BY <1>1, <1>2, SeqMonotonic
  <1>4. u \in Seq(WordSizes) /\ u # <<>>
    BY <1>1
  <1>5. blank \in Nat
    BY <1>1
  <1>6. Joined(prev, c) = [words |-> u, blank |-> blank]
    BY DEF Joined
  <1>7. Chars(u) = Chars(v) + Chars(w) + 1 /\ Chars(v) \in Int /\ Chars(w) \in Int
    BY <1>3, CharsConcat
  <1>8. v = <<>> => u = w
    BY <1>1
  <1>9. blank = c.blank + (IF v = <<>> THEN 2 ELSE prev.blank + 1)
    OBVIOUS
  <1> HIDE DEF u, blank
  <1>10. Size(Joined(prev, c)) = Chars(u) + blank /\ Size(c) = Chars(w) + c.blank
         /\ Size(prev) = IF v = <<>> THEN prev.blank ELSE Chars(v) + prev.blank
    BY <1>4, <1>6 DEF Size
  <1> HIDE DEF v, w
  <1>11. Chars(u) + blank <= Size(prev) + Size(c) + 2
    <2>1. CASE v = <<>>
      <3>1. Chars(u) = Chars(w) /\ blank = c.blank + 2 /\ Size(prev) = prev.blank
        BY <1>8, <1>9, <1>10, <2>1
      <3>2. \A x \in Int, y, z \in Nat : x + (y + 2) <= z + (x + y) + 2
        OBVIOUS
      <3>3. QED BY <1>1, <1>7, <1>10, <3>1, <3>2
    <2>2. CASE v # <<>>
      <3>1. blank = c.blank + (prev.blank + 1) /\ Size(prev) = Chars(v) + prev.blank
        BY <1>9, <1>10, <2>2
      <3>2. \A a, b \in Int, x, y \in Nat : a + b + 1 + (x + (y + 1)) <= a + y + (b + x) + 2
        OBVIOUS
      <3>3. QED BY <1>1, <1>7, <1>10, <3>1, <3>2
    <2>3. QED BY <2>1, <2>2
  <1>12. Joined(prev, c) \in SomeChunks /\ Joined(prev, c).words = u
    BY <1>4, <1>5, <1>6 DEF SomeChunks
  <1>13. QED BY <1>10, <1>11, <1>12 DEF u, v, w

LEMMA SizeIs ==
  ASSUME NEW c \in SomeChunks
  PROVE  Size(c) \in Int
  <1>1. WordSizes \subseteq Nat
    BY SplittingAssumption DEF SplittingAssumption
  <1>2. c.words \in Seq(WordSizes) /\ c.blank \in Nat
    BY DEF SomeChunks
  <1>3. c.words \in Seq(Nat)
    BY <1>1, <1>2, SeqMonotonic
  <1>4. Chars(c.words) \in Int
    BY <1>3, CharsConcat
  <1>5. QED BY <1>2, <1>4 DEF Size

-----------------------------------------------------------------------------
\* What holds of a state: the shapes, the sizes of what was merged, what the merge
\* and the split have covered, and where the search in a chunk is.
Searches == {"guess", "refine", "take"}
PartOf(ms, sc) == IF sc.at \in Searches THEN SubSeq(ms[sc.next].words, 1, sc.start) ELSE <<>>

SplitShapes(cs, ms, sc, sz) ==
    /\ cs \in Seq(SomeChunks) /\ ms \in Seq(SomeChunks) /\ sz \in Seq(SomeChunks)
    /\ sc \in [at : {"merge", "size"} \union Searches, next : Nat \ {0},
               start : Nat, part : Nat, lo : Nat, hi : Nat]

MergedSizes(cs, ms) == \A i \in DOMAIN ms : ms[i] \notin Range(cs) => Size(ms[i]) <= MaxMerge

Merging(cs, ms, sc, sz) == sc.at = "merge" =>
    /\ sc.next <= Len(cs) + 1 /\ sz = <<>>
    /\ AllWords(ms) = AllWords(SubSeq(cs, 1, sc.next - 1))

Sizing(cs, ms, sc, sz) == sc.at # "merge" =>
    AllWords(ms) = AllWords(cs) /\ Covers(sz, ms, sc.next, PartOf(ms, sc))

\* The bisection knows a prefix that fits, or none.
Bisecting(w, sc) ==
    /\ sc.lo <= sc.hi /\ sc.start + sc.hi <= Len(w)
    /\ sc.lo = 0 \/ Fits(SubSeq(w, sc.start + 1, sc.start + sc.lo))

Searching(ms, sc) == sc.at \in Searches =>
    /\ sc.next <= Len(ms) /\ sc.start < Len(ms[sc.next].words)
    /\ ~(Tokens(Size(ms[sc.next])) <= MaxInput)
    /\ sc.at # "guess" => Bisecting(ms[sc.next].words, sc)

SplitInv ==
    /\ SplitShapes(chunks, mergeds, scan, sized) /\ MergedSizes(chunks, mergeds)
    /\ Merging(chunks, mergeds, scan, sized) /\ Sizing(chunks, mergeds, scan, sized)
    /\ Searching(mergeds, scan)

LEMMA SplitStart == spInit => SplitInv
  <1> SUFFICES ASSUME spInit PROVE SplitInv
    OBVIOUS
  <1>0. PICK cs : cs = chunks
    OBVIOUS
  <1>1. /\ scan = [at |-> "merge", next |-> 1, start |-> 0, part |-> 0, lo |-> 0, hi |-> 0]
        /\ mergeds = <<>> /\ sized = <<>>
    BY DEF spInit, AtStart
  <1>2. cs \in Seq(SomeChunks)
    <2>1. PICK n \in 0..MaxChunks : cs \in [1..n -> Chunks]
      BY <1>0 DEF spInit
    <2>2. Chunks \subseteq SomeChunks
      <3> SUFFICES ASSUME NEW c \in Chunks PROVE c \in SomeChunks
        OBVIOUS
      <3>1. PICK k \in 0..MaxWords : c.words \in [1..k -> WordSizes]
        BY DEF Chunks
      <3>0. c.blank \in Nat /\ c = [words |-> c.words, blank |-> c.blank]
        BY SplittingAssumption DEF Chunks, SplittingAssumption
      <3>2. c.words \in Seq(WordSizes) /\ c.blank \in Nat /\ c = [words |-> c.words, blank |-> c.blank]
        BY <3>0, <3>1
      <3>3. QED BY <3>2 DEF SomeChunks
    <2>3. n \in Nat /\ cs \in [1..n -> SomeChunks]
      BY <2>1, <2>2
    <2>4. QED BY <2>3
  <1>3. SplitShapes(cs, mergeds, scan, sized)
    BY <1>1, <1>2 DEF SplitShapes
  <1>4. MergedSizes(cs, mergeds)
    BY <1>1 DEF MergedSizes
  <1>5. Merging(cs, mergeds, scan, sized)
    <2>1. SubSeq(cs, 1, 0) = <<>> /\ Len(cs) \in Nat
      BY <1>2, PrefixEnds
    <2>2. scan.next = 1 /\ 1 - 1 = 0 /\ 1 <= Len(cs) + 1
      BY <1>1, <2>1
    <2>3. QED BY <1>1, <2>1, <2>2 DEF Merging
  <1>6. Sizing(cs, mergeds, scan, sized) /\ Searching(mergeds, scan)
    BY <1>1 DEF Sizing, Searching, Searches
  <1>7. QED BY <1>0, <1>3, <1>4, <1>5, <1>6 DEF SplitInv

LEMMA MergeNextKeeps == SplitInv /\ MergeNext => SplitInv'
  <1> SUFFICES ASSUME SplitInv, MergeNext PROVE SplitInv'
    OBVIOUS
  <1>0. PICK cs, ms, sc, ms2, sc2 : cs = chunks /\ ms = mergeds /\ sc = scan /\ ms2 = mergeds' /\ sc2 = scan'
    OBVIOUS
  <1> DEFINE n == sc.next
             c == cs[n]
             prev == Last(ms)
             front == Front(ms)
             whole == Joined(prev, c)
             joins == Short(c) /\ ms # <<>> /\ Size(prev) + Size(c) + 2 <= MaxMerge
  <1>1. /\ cs \in Seq(SomeChunks) /\ ms \in Seq(SomeChunks)
        /\ sc \in [at : {"merge", "size"} \union Searches, next : Nat \ {0},
                   start : Nat, part : Nat, lo : Nat, hi : Nat]
        /\ sized \in Seq(SomeChunks) /\ MergedSizes(cs, ms)
        /\ Merging(cs, ms, sc, sized)
    BY <1>0 DEF SplitInv, SplitShapes
  <1>2. /\ sc.at = "merge" /\ n <= Len(cs) /\ sc2 = [sc EXCEPT !.next = @ + 1]
        /\ chunks' = chunks /\ sized' = sized
        /\ ms2 = IF joins THEN Append(front, whole) ELSE Append(ms, c)
    BY <1>0 DEF MergeNext, Scans
  <1>3. /\ sized = <<>> /\ AllWords(ms) = AllWords(SubSeq(cs, 1, n - 1))
    BY <1>1, <1>2 DEF Merging
  <1>4. sc2 \in [at : {"merge", "size"} \union Searches, next : Nat \ {0},
                 start : Nat, part : Nat, lo : Nat, hi : Nat]
        /\ sc2.at = "merge" /\ sc2.next = n + 1 /\ n \in Nat \ {0}
    <2> DEFINE S == {"merge", "size"} \union Searches
    <2>1. /\ sc \in [at : S, next : Nat \ {0}, start : Nat, part : Nat, lo : Nat, hi : Nat]
          /\ sc.at = "merge" /\ sc2 = [sc EXCEPT !.next = sc.next + 1]
      BY <1>1, <1>2
    <2> HIDE DEF S
    <2>2. QED BY <2>1 DEF S
  <1> HIDE DEF n
  <1>5. /\ c \in SomeChunks
        /\ AllWords(SubSeq(cs, 1, (n + 1) - 1)) = AllWords(SubSeq(cs, 1, n - 1)) \o c.words
    BY <1>1, <1>2, <1>4, DoneGrows
  <1>6. c \in Range(cs)
    <2>1. n \in DOMAIN cs
      <3>1. cs \in Seq(SomeChunks) /\ n \in Nat \ {0} /\ n <= Len(cs)
        BY <1>1, <1>2, <1>4
      <3>2. QED BY ONLY <3>1
    <2>2. QED BY <2>1 DEF Range
  <1> HIDE DEF c
  <1>7. ASSUME joins
        PROVE  AllWords(ms2) = AllWords(ms) \o c.words /\ ms2 \in Seq(SomeChunks) /\ MergedSizes(cs, ms2)
    <2>0. prev \in SomeChunks /\ front \in Seq(SomeChunks) /\ ms = Append(front, prev)
      BY <1>1, <1>7, FrontAndLast
    <2>1. /\ whole \in SomeChunks /\ whole.words = prev.words \o c.words
          /\ Size(whole) <= Size(prev) + Size(c) + 2
      <3>1. c.words # <<>>
        BY <1>7 DEF Short
      <3> HIDE DEF prev
      <3>2. QED BY <1>5, <2>0, <3>1, JoinedFits
    <2>2. Size(whole) <= MaxMerge
      <3>1. Size(whole) \in Int /\ Size(prev) \in Int /\ Size(c) \in Int
        BY <1>5, <2>0, <2>1, SizeIs
      <3>2. Size(prev) + Size(c) + 2 <= MaxMerge /\ MaxMerge \in Nat
        BY <1>7, SplittingAssumption DEF SplittingAssumption
      <3> HIDE DEF prev, whole
      <3>3. \A x, y, z, m \in Int : x <= y + z + 2 /\ y + z + 2 <= m => x <= m
        OBVIOUS
      <3>4. QED BY <2>1, <3>1, <3>2, <3>3
    <2>3. ms2 = Append(front, whole)
      BY <1>2, <1>7
    <2> HIDE DEF prev, front, whole
    <2>4. AllWords(ms2) = AllWords(front) \o whole.words /\ AllWords(ms) = AllWords(front) \o prev.words
      BY <2>0, <2>1, <2>3, AllWordsAppend
    <2>5. AllWords(front) \o (prev.words \o c.words) = (AllWords(front) \o prev.words) \o c.words
      <3>1. prev.words \in Seq(WordSizes) /\ c.words \in Seq(WordSizes) /\ AllWords(front) \in Seq(WordSizes)
        BY <1>5, <2>0, AllWordsType DEF SomeChunks
      <3>2. \A x, y, z \in Seq(WordSizes) : (x \o y) \o z = x \o (y \o z)
        BY Assoc3
      <3> DEFINE T == Seq(WordSizes)
                 x == AllWords(front)
                 y == prev.words
                 z == c.words
      <3>3. x \in T /\ y \in T /\ z \in T /\ \A i, j, k \in T : (i \o j) \o k = i \o (j \o k)
        BY <3>1, <3>2
      <3> HIDE DEF T, x, y, z
      <3>4. x \o (y \o z) = (x \o y) \o z
        BY ONLY <3>3
      <3>5. QED BY <3>4 DEF x, y, z
    <2>6. AllWords(ms2) = AllWords(ms) \o c.words
      BY <2>1, <2>4, <2>5
    <2>7. ms2 \in Seq(SomeChunks)
      BY <2>0, <2>1, <2>3
    <2>8. MergedSizes(cs, ms2)
      <3> SUFFICES ASSUME NEW i \in DOMAIN ms2, ms2[i] \notin Range(cs) PROVE Size(ms2[i]) <= MaxMerge
        BY DEF MergedSizes
      <3>1. CASE i = Len(front) + 1
        BY <2>0, <2>1, <2>2, <2>3, <3>1
      <3>2. CASE i # Len(front) + 1
        <4>1. i \in DOMAIN ms /\ ms[i] = ms2[i]
          BY <2>0, <2>1, <2>3, <3>2
        <4>2. QED BY <1>1, <4>1 DEF MergedSizes
      <3>3. QED BY <3>1, <3>2
    <2>9. QED BY <2>6, <2>7, <2>8
  <1>8. ASSUME ~joins
        PROVE  AllWords(ms2) = AllWords(ms) \o c.words /\ ms2 \in Seq(SomeChunks) /\ MergedSizes(cs, ms2)
    <2>3. ms2 = Append(ms, c)
      BY <1>2, <1>8
    <2>4. AllWords(ms2) = AllWords(ms) \o c.words
      BY <1>1, <1>5, <2>3, AllWordsAppend
    <2>7. ms2 \in Seq(SomeChunks)
      BY <1>1, <1>5, <2>3
    <2>8. MergedSizes(cs, ms2)
      <3> SUFFICES ASSUME NEW i \in DOMAIN ms2, ms2[i] \notin Range(cs) PROVE Size(ms2[i]) <= MaxMerge
        BY DEF MergedSizes
      <3>1. i # Len(ms) + 1
        BY <1>1, <1>5, <1>6, <2>3
      <3>2. i \in DOMAIN ms /\ ms[i] = ms2[i]
        BY <1>1, <1>5, <2>3, <3>1
      <3>3. QED BY <1>1, <3>2 DEF MergedSizes
    <2>9. QED BY <2>4, <2>7, <2>8
  <1>9. AllWords(ms2) = AllWords(ms) \o c.words /\ ms2 \in Seq(SomeChunks) /\ MergedSizes(cs, ms2)
    BY <1>7, <1>8
  <1>10. Merging(cs, ms2, sc2, sized)
    <2>1. AllWords(ms2) = AllWords(SubSeq(cs, 1, (n + 1) - 1))
      BY <1>3, <1>5, <1>9
    <2>2. n + 1 <= Len(cs) + 1 /\ sc2.next - 1 = (n + 1) - 1
      BY <1>1, <1>2, <1>4
    <2>3. QED BY <1>3, <1>4, <2>1, <2>2 DEF Merging
  <1>11. Sizing(cs, ms2, sc2, sized) /\ Searching(ms2, sc2)
    BY <1>4 DEF Sizing, Searching, Searches
  <1>12. SplitShapes(cs, ms2, sc2, sized)
    BY <1>1, <1>4, <1>9 DEF SplitShapes
  <1>13. QED
    <2>1. chunks' = cs /\ mergeds' = ms2 /\ scan' = sc2 /\ sized' = sized
      BY <1>0, <1>2
    <2>2. QED BY <1>9, <1>10, <1>11, <1>12, <2>1 DEF SplitInv

LEMMA CoversNone ==
  ASSUME NEW ms \in Seq(SomeChunks)
  PROVE  Covers(<<>>, ms, 1, <<>>)
  <1> DEFINE a == SubSeq(ms, 1, 1 - 1)
             none == <<>>
  <1>1. 1 - 1 = 0
    OBVIOUS
  <1>2. a = none
    BY <1>1, PrefixEnds
  <1>3. DOMAIN none = {} /\ Range(none) = {} /\ none \o none = none
    BY DEF Range
  <1>4. AllWords(none) = none
    BY AllWordsNone
  <1> HIDE DEF a, none
  <1>5. AllWords(none) = AllWords(a) \o none
    BY <1>2, <1>3, <1>4
  <1>6. (\A c \in Range(a) : Tokens(Size(c)) <= MaxInput => c \in Range(none))
        /\ \A i \in DOMAIN none : Tokens(Size(none[i])) <= MaxInput \/ Len(none[i].words) <= 1
    BY <1>2, <1>3
  <1>7. Covers(none, ms, 1, none)
    BY <1>5, <1>6 DEF Covers, a
  <1>8. QED BY <1>7 DEF none

LEMMA EndMergeKeeps == SplitInv /\ EndMerge => SplitInv'
  <1> SUFFICES ASSUME SplitInv, EndMerge PROVE SplitInv'
    OBVIOUS
  <1>0. PICK cs, ms, sc, sc2 : cs = chunks /\ ms = mergeds /\ sc = scan /\ sc2 = scan'
    OBVIOUS
  <1>1. /\ cs \in Seq(SomeChunks) /\ ms \in Seq(SomeChunks) /\ sized \in Seq(SomeChunks)
        /\ sc.next \in Nat \ {0} /\ MergedSizes(cs, ms) /\ Merging(cs, ms, sc, sized)
    BY <1>0 DEF SplitInv, SplitShapes
  <1>2. /\ sc.at = "merge" /\ sc.next > Len(cs)
        /\ sc2 = [at |-> "size", next |-> 1, start |-> 0, part |-> 0, lo |-> 0, hi |-> 0]
        /\ chunks' = chunks /\ mergeds' = mergeds /\ sized' = sized
    BY <1>0 DEF EndMerge, Scans, AtStart
  <1>3. /\ sized = <<>> /\ AllWords(ms) = AllWords(SubSeq(cs, 1, sc.next - 1))
        /\ sc.next <= Len(cs) + 1
    BY <1>1, <1>2 DEF Merging
  <1>4. sc.next - 1 = Len(cs)
    <2>1. Len(cs) \in Nat
      BY <1>1
    <2>2. QED BY <1>1, <1>2, <1>3, <2>1
  <1>5. AllWords(ms) = AllWords(cs)
    BY <1>1, <1>3, <1>4, PrefixEnds
  <1>6. Covers(sized, ms, 1, <<>>)
    BY <1>1, <1>3, CoversNone
  <1>7. Sizing(cs, ms, sc2, sized)
    <2>1. PartOf(ms, sc2) = <<>> /\ sc2.next = 1
      BY <1>2 DEF PartOf, Searches
    <2>2. QED BY <1>5, <1>6, <2>1 DEF Sizing
  <1>8. Merging(cs, ms, sc2, sized) /\ Searching(ms, sc2)
    BY <1>2 DEF Merging, Searching, Searches
  <1>9. SplitShapes(cs, ms, sc2, sized)
    BY <1>1, <1>2 DEF SplitShapes
  <1>10. QED
    <2>1. chunks' = cs /\ mergeds' = ms /\ scan' = sc2 /\ sized' = sized
      BY <1>0, <1>2
    <2>2. QED BY <1>1, <1>7, <1>8, <1>9, <2>1 DEF SplitInv

LEMMA SizeNextKeeps == SplitInv /\ SizeNext => SplitInv'
  <1> SUFFICES ASSUME SplitInv, SizeNext PROVE SplitInv'
    OBVIOUS
  <1>0. PICK cs, ms, sc, sz, sc2, sz2, d :
          /\ cs = chunks /\ ms = mergeds /\ sc = scan /\ sz = sized /\ sc2 = scan' /\ sz2 = sized'
          /\ d = ms[sc.next]
    OBVIOUS
  <1>1. /\ cs \in Seq(SomeChunks) /\ ms \in Seq(SomeChunks) /\ sz \in Seq(SomeChunks)
        /\ sc \in [at : {"merge", "size"} \union Searches, next : Nat \ {0},
                   start : Nat, part : Nat, lo : Nat, hi : Nat]
        /\ MergedSizes(cs, ms) /\ Sizing(cs, ms, sc, sz)
    BY <1>0 DEF SplitInv, SplitShapes
  <1>2. /\ sc.at = "size" /\ sc.next <= Len(ms) /\ chunks' = chunks /\ mergeds' = mergeds
        /\ IF Tokens(Size(d)) <= MaxInput \/ d.words = <<>>
           THEN sz2 = Append(sz, d) /\ sc2 = [sc EXCEPT !.next = @ + 1]
           ELSE sc2 = [sc EXCEPT !.at = "guess", !.start = 0] /\ sz2 = sz
    BY <1>0 DEF SizeNext, Scans, Doc, Words
  <1>3. sc.next \in Nat \ {0} /\ sc.start \in Nat
    BY <1>1
  <1>4. d \in SomeChunks /\ d.words \in Seq(WordSizes)
    <2>1. ms[sc.next] \in SomeChunks
      BY <1>1, <1>2, <1>3
    <2>2. QED BY <1>0, <2>1 DEF SomeChunks
  <1>5. AllWords(ms) = AllWords(cs) /\ Covers(sz, ms, sc.next, <<>>)
    <2>1. PartOf(ms, sc) = <<>> /\ sc.at # "merge"
      BY <1>2 DEF PartOf, Searches
    <2>2. QED BY <1>1, <2>1 DEF Sizing
  <1> DEFINE S == {"merge", "size"} \union Searches
  <1>6. sc \in [at : S, next : Nat \ {0}, start : Nat, part : Nat, lo : Nat, hi : Nat]
    BY <1>1
  <1>7. "guess" \in S /\ "guess" \in Searches /\ "size" \notin Searches
    BY DEF Searches
  <1> HIDE DEF S
  <1>8. ASSUME Tokens(Size(d)) <= MaxInput \/ d.words = <<>>
        PROVE  /\ sz2 \in Seq(SomeChunks) /\ Sizing(cs, ms, sc2, sz2) /\ Searching(ms, sc2)
               /\ sc2 \in [at : S, next : Nat \ {0}, start : Nat, part : Nat, lo : Nat, hi : Nat]
               /\ sc2.at # "merge"
    <2>1. sz2 = Append(sz, d) /\ sc2 = [sc EXCEPT !.next = sc.next + 1]
      BY <1>2, <1>8
    <2>2. /\ sc2 \in [at : S, next : Nat \ {0}, start : Nat, part : Nat, lo : Nat, hi : Nat]
          /\ sc2.at = "size" /\ sc2.next = sc.next + 1
      <3>1. sc.at = "size"
        BY <1>2
      <3>2. QED BY ONLY <1>6, <2>1, <3>1
    <2>3. Covers(sz2, ms, sc.next + 1, <<>>)
      <3>1. Tokens(Size(ms[sc.next])) <= MaxInput \/ ms[sc.next].words = <<>>
        BY <1>0, <1>8
      <3>2. Covers(Append(sz, ms[sc.next]), ms, sc.next + 1, <<>>)
        BY <1>1, <1>2, <1>3, <1>5, <3>1, CoversNext
      <3>3. QED BY <1>0, <2>1, <3>2
    <2>4. PartOf(ms, sc2) = <<>>
      BY <1>7, <2>2 DEF PartOf
    <2>5. Sizing(cs, ms, sc2, sz2)
      BY <1>5, <2>2, <2>3, <2>4 DEF Sizing
    <2>6. Searching(ms, sc2)
      BY <1>7, <2>2 DEF Searching
    <2>7. sz2 \in Seq(SomeChunks)
      BY <1>1, <1>4, <2>1
    <2>8. QED BY <2>2, <2>5, <2>6, <2>7
  <1>9. ASSUME ~(Tokens(Size(d)) <= MaxInput \/ d.words = <<>>)
        PROVE  /\ sz2 \in Seq(SomeChunks) /\ Sizing(cs, ms, sc2, sz2) /\ Searching(ms, sc2)
               /\ sc2 \in [at : S, next : Nat \ {0}, start : Nat, part : Nat, lo : Nat, hi : Nat]
               /\ sc2.at # "merge"
    <2>1. sz2 = sz /\ sc2 = [sc EXCEPT !.at = "guess", !.start = 0]
      BY <1>2, <1>9
    <2>2. /\ sc2 \in [at : S, next : Nat \ {0}, start : Nat, part : Nat, lo : Nat, hi : Nat]
          /\ sc2.at = "guess" /\ sc2.next = sc.next /\ sc2.start = 0
      BY <1>6, <1>7, <2>1
    <2>3. PartOf(ms, sc2) = <<>>
      <3>1. PartOf(ms, sc2) = SubSeq(d.words, 1, 0)
        BY <1>0, <1>7, <2>2 DEF PartOf
      <3>2. QED BY <1>4, <3>1, PrefixEnds
    <2>4. Sizing(cs, ms, sc2, sz2)
      BY <1>5, <2>1, <2>2, <2>3 DEF Sizing
    <2>5. Len(d.words) \in Nat /\ Len(d.words) > 0
      BY <1>4, <1>9
    <2>6. Searching(ms, sc2)
      <3>1. ms[sc2.next] = d
        BY <1>0, <2>2
      <3>2. QED BY <1>2, <1>9, <2>2, <2>5, <3>1 DEF Searching
    <2>7. QED BY <1>1, <2>1, <2>2, <2>4, <2>6
  <1>10. /\ sz2 \in Seq(SomeChunks) /\ Sizing(cs, ms, sc2, sz2) /\ Searching(ms, sc2)
         /\ sc2 \in [at : S, next : Nat \ {0}, start : Nat, part : Nat, lo : Nat, hi : Nat]
         /\ sc2.at # "merge"
    BY <1>8, <1>9
  <1>11. SplitShapes(cs, ms, sc2, sz2) /\ Merging(cs, ms, sc2, sz2)
    BY <1>1, <1>10 DEF SplitShapes, Merging, S
  <1>12. QED
    <2>1. chunks' = cs /\ mergeds' = ms /\ scan' = sc2 /\ sized' = sz2
      BY <1>0, <1>2
    <2>2. QED BY <1>1, <1>10, <1>11, <2>1 DEF SplitInv

LEMMA PieceSizes ==
  ASSUME Words \in Seq(WordSizes)
  PROVE  PerPiece \in Nat \ {0}
  <1>0. PICK w : w = Words
    OBVIOUS
  <1> DEFINE m == Least(Sample, Len(w))
             sample == SubSeq(w, 1, m)
             most == MaxInput * Len(sample)
             size == Tokens(Chars(sample))
             words == most \div size
  <1>1. w \in Seq(WordSizes) /\ Len(w) \in Nat
    BY <1>0
  <1>2. Sample \in Nat /\ MaxInput \in Nat /\ WordSizes \subseteq Nat
    BY SplittingAssumption DEF SplittingAssumption
  <1>3. m \in Nat /\ m <= Len(w)
    BY <1>1, <1>2 DEF Least
  <1> HIDE DEF m
  <1>4. sample \in Seq(WordSizes)
    BY <1>1, <1>3, Prefix
  <1> HIDE DEF sample
  <1>5. sample \in Seq(Nat) /\ Len(sample) \in Nat
    <2>1. sample \in Seq(Nat)
      BY <1>2, <1>4, SeqMonotonic
    <2>2. QED BY <2>1
  <1>6. Chars(sample) \in Int
    BY <1>5, CharsConcat
  <1>7. size \in Nat \ {0}
    BY <1>6 DEF Tokens
  <1>8. most \in Nat
    <2>1. \A x, y \in Nat : x * y \in Nat
      OBVIOUS
    <2>2. QED BY <1>2, <1>5, <2>1
  <1> HIDE DEF most, size
  <1>9. words \in Nat
    <2>1. \A x \in Nat, y \in Nat \ {0} : x \div y \in Nat
      OBVIOUS
    <2>2. QED BY <1>7, <1>8, <2>1
  <1>10. PerPiece = IF words = 0 THEN 1 ELSE words
    BY <1>0 DEF PerPiece, most, size, sample, m
  <1> HIDE DEF words
  <1>11. QED BY <1>9, <1>10

\* The search in a chunk goes on: what is covered stays.
SearchGoesOn(ms, sc, sc2) ==
    /\ sc.at \in Searches /\ sc2.at \in Searches /\ sc2.next = sc.next /\ sc2.start = sc.start
    /\ sc.next <= Len(ms) /\ sc.start < Len(ms[sc.next].words)
    /\ ~(Tokens(Size(ms[sc.next])) <= MaxInput)
    /\ Bisecting(ms[sc.next].words, sc2)

LEMMA SearchKeeps ==
  ASSUME NEW cs, NEW ms, NEW sc, NEW sc2, NEW sz,
         Sizing(cs, ms, sc, sz), SearchGoesOn(ms, sc, sc2)
  PROVE  Sizing(cs, ms, sc2, sz) /\ Searching(ms, sc2) /\ Merging(cs, ms, sc2, sz)
  <1>1. sc.at # "merge" /\ sc2.at # "merge" /\ sc.at \in Searches /\ sc2.at \in Searches
        /\ sc2.next = sc.next /\ sc2.start = sc.start
    BY DEF SearchGoesOn, Searches
  <1>2. PartOf(ms, sc2) = PartOf(ms, sc)
    BY <1>1 DEF PartOf
  <1>3. Sizing(cs, ms, sc2, sz)
    BY <1>1, <1>2 DEF Sizing
  <1>4. Searching(ms, sc2)
    BY <1>1 DEF SearchGoesOn, Searching
  <1>5. Merging(cs, ms, sc2, sz)
    BY <1>1 DEF Merging
  <1>6. QED BY <1>3, <1>4, <1>5

LEMMA GuessKeeps == SplitInv /\ Guess => SplitInv'
  <1> SUFFICES ASSUME SplitInv, Guess PROVE SplitInv'
    OBVIOUS
  <1>0. PICK cs, ms, sc, sc2, w, g :
          /\ cs = chunks /\ ms = mergeds /\ sc = scan /\ sc2 = scan' /\ w = Words /\ g = Guessed
          /\ w = ms[sc.next].words
    BY DEF Words, Doc
  <1> DEFINE S == {"merge", "size"} \union Searches
  <1>1. /\ cs \in Seq(SomeChunks) /\ ms \in Seq(SomeChunks) /\ sized \in Seq(SomeChunks)
        /\ sc \in [at : S, next : Nat \ {0}, start : Nat, part : Nat, lo : Nat, hi : Nat]
        /\ MergedSizes(cs, ms) /\ Sizing(cs, ms, sc, sized) /\ Searching(ms, sc)
    BY <1>0 DEF SplitInv, SplitShapes
  <1>2. /\ sc.at = "guess" /\ chunks' = chunks /\ mergeds' = mergeds /\ sized' = sized
        /\ sc2 = IF Fits(SubSeq(w, sc.start + 1, sc.start + g))
                 THEN [sc EXCEPT !.at = "take", !.part = g, !.lo = g, !.hi = g]
                 ELSE [sc EXCEPT !.at = "refine", !.part = g, !.lo = 0, !.hi = g]
    BY <1>0 DEF Guess, Scans, Piece
  <1>3. {"guess", "refine", "take"} \subseteq S /\ {"guess", "refine", "take"} = Searches
    BY DEF Searches
  <1> HIDE DEF S
  <1>4. /\ sc.next <= Len(ms) /\ sc.start < Len(w) /\ ~(Tokens(Size(ms[sc.next])) <= MaxInput)
        /\ sc.next \in Nat \ {0} /\ sc.start \in Nat
    BY <1>0, <1>1, <1>2, <1>3 DEF Searching
  <1>5. w \in Seq(WordSizes)
    <2>1. ms[sc.next] \in SomeChunks
      BY <1>1, <1>4
    <2>2. QED BY <1>0, <2>1 DEF SomeChunks
  <1>6. g \in Nat \ {0} /\ sc.start + g <= Len(w)
    <2>1. PerPiece \in Nat \ {0}
      BY <1>0, <1>5, PieceSizes
    <2>2. g = Least(PerPiece, Len(w) - sc.start)
      BY <1>0 DEF Guessed
    <2>3. Len(w) \in Nat
      BY <1>5
    <2>4. QED BY <1>4, <2>1, <2>2, <2>3 DEF Least
  <1>7. /\ sc2 \in [at : S, next : Nat \ {0}, start : Nat, part : Nat, lo : Nat, hi : Nat]
        /\ sc2.at \in Searches /\ sc2.next = sc.next /\ sc2.start = sc.start
        /\ sc2.at # "guess" /\ sc2.at # "merge" /\ sc2.hi = g
        /\ sc2.lo = 0 \/ (sc2.lo = g /\ Fits(SubSeq(w, sc.start + 1, sc.start + g)))
    <2>1. CASE Fits(SubSeq(w, sc.start + 1, sc.start + g))
      <3>1. sc2 = [sc EXCEPT !.at = "take", !.part = g, !.lo = g, !.hi = g]
        BY <1>2, <2>1
      <3>2. QED BY <1>1, <1>3, <1>6, <2>1, <3>1
    <2>2. CASE ~Fits(SubSeq(w, sc.start + 1, sc.start + g))
      <3>1. sc2 = [sc EXCEPT !.at = "refine", !.part = g, !.lo = 0, !.hi = g]
        BY <1>2, <2>2
      <3>2. QED BY <1>1, <1>3, <1>6, <3>1
    <2>3. QED BY <2>1, <2>2
  <1>8. Bisecting(w, sc2)
    BY <1>6, <1>7 DEF Bisecting
  <1>9. SearchGoesOn(ms, sc, sc2)
    BY <1>0, <1>4, <1>7, <1>8, <1>2, <1>3 DEF SearchGoesOn
  <1>10. QED
    <2>1. Sizing(cs, ms, sc2, sized) /\ Searching(ms, sc2) /\ Merging(cs, ms, sc2, sized)
      BY <1>1, <1>9, SearchKeeps
    <2>2. SplitShapes(cs, ms, sc2, sized)
      BY <1>1, <1>7 DEF SplitShapes, S
    <2>3. chunks' = cs /\ mergeds' = ms /\ scan' = sc2 /\ sized' = sized
      BY <1>0, <1>2
    <2>4. QED BY <1>1, <2>1, <2>2, <2>3 DEF SplitInv

LEMMA RefineKeeps == SplitInv /\ Refine => SplitInv'
  <1> SUFFICES ASSUME SplitInv, Refine PROVE SplitInv'
    OBVIOUS
  <1>0. PICK cs, ms, sc, sc2, w, mid :
          /\ cs = chunks /\ ms = mergeds /\ sc = scan /\ sc2 = scan' /\ w = Words
          /\ mid = (sc.lo + sc.hi + 1) \div 2
          /\ w = ms[sc.next].words
    BY DEF Words, Doc
  <1> DEFINE S == {"merge", "size"} \union Searches
  <1>1. /\ cs \in Seq(SomeChunks) /\ ms \in Seq(SomeChunks) /\ sized \in Seq(SomeChunks)
        /\ sc \in [at : S, next : Nat \ {0}, start : Nat, part : Nat, lo : Nat, hi : Nat]
        /\ MergedSizes(cs, ms) /\ Sizing(cs, ms, sc, sized) /\ Searching(ms, sc)
    BY <1>0 DEF SplitInv, SplitShapes
  <1>2. /\ sc.at = "refine" /\ chunks' = chunks /\ mergeds' = mergeds /\ sized' = sized
        /\ sc2 = IF sc.lo >= sc.hi THEN [sc EXCEPT !.at = "take"]
                 ELSE IF Fits(SubSeq(w, sc.start + 1, sc.start + mid)) THEN [sc EXCEPT !.lo = mid]
                 ELSE [sc EXCEPT !.hi = mid - 1]
    BY <1>0 DEF Refine, Scans, Piece
  <1>3. {"guess", "refine", "take"} \subseteq S /\ {"guess", "refine", "take"} = Searches
    BY DEF Searches
  <1> HIDE DEF S
  <1>4. /\ sc.next <= Len(ms) /\ sc.start < Len(w) /\ ~(Tokens(Size(ms[sc.next])) <= MaxInput)
        /\ sc.next \in Nat \ {0} /\ sc.start \in Nat /\ sc.lo \in Nat /\ sc.hi \in Nat
        /\ sc.lo <= sc.hi /\ sc.start + sc.hi <= Len(w)
        /\ sc.lo = 0 \/ Fits(SubSeq(w, sc.start + 1, sc.start + sc.lo))
    BY <1>0, <1>1, <1>2, <1>3 DEF Searching, Bisecting
  <1>5. ~(sc.lo >= sc.hi) => mid \in Nat \ {0} /\ sc.lo < mid /\ mid <= sc.hi
    <2>1. \A x, y \in Nat : ~(x >= y) => LET z == (x + y + 1) \div 2 IN z \in Nat \ {0} /\ x < z /\ z <= y
      OBVIOUS
    <2>2. QED BY <1>0, <1>4, <2>1
  <1>6. Len(w) \in Nat
    <2>1. ms[sc.next] \in SomeChunks
      BY <1>1, <1>4
    <2>2. QED BY <1>0, <2>1 DEF SomeChunks
  <1>7. /\ sc2 \in [at : S, next : Nat \ {0}, start : Nat, part : Nat, lo : Nat, hi : Nat]
        /\ sc2.at \in Searches /\ sc2.next = sc.next /\ sc2.start = sc.start
        /\ sc2.at # "guess" /\ sc2.at # "merge" /\ Bisecting(w, sc2)
    <2>1. CASE sc.lo >= sc.hi
      <3>1. sc2 = [sc EXCEPT !.at = "take"]
        BY <1>2, <2>1
      <3>2. /\ sc2 \in [at : S, next : Nat \ {0}, start : Nat, part : Nat, lo : Nat, hi : Nat]
            /\ sc2.at = "take" /\ sc2.next = sc.next /\ sc2.start = sc.start
            /\ sc2.lo = sc.lo /\ sc2.hi = sc.hi
        BY <1>1, <1>3, <3>1
      <3>3. Bisecting(w, sc2)
        BY <1>4, <3>2 DEF Bisecting
      <3>4. QED BY <1>3, <3>2, <3>3
    <2>2. CASE ~(sc.lo >= sc.hi) /\ Fits(SubSeq(w, sc.start + 1, sc.start + mid))
      <3>1. sc2 = [sc EXCEPT !.lo = mid]
        BY <1>2, <2>2
      <3>2. /\ sc2 \in [at : S, next : Nat \ {0}, start : Nat, part : Nat, lo : Nat, hi : Nat]
            /\ sc2.at = "refine" /\ sc2.next = sc.next /\ sc2.start = sc.start
            /\ sc2.lo = mid /\ sc2.hi = sc.hi
        BY <1>1, <1>2, <1>5, <2>2, <3>1
      <3>3. Bisecting(w, sc2)
        BY <1>4, <1>5, <2>2, <3>2 DEF Bisecting
      <3>4. QED BY <1>3, <3>2, <3>3
    <2>3. CASE ~(sc.lo >= sc.hi) /\ ~Fits(SubSeq(w, sc.start + 1, sc.start + mid))
      <3>1. sc2 = [sc EXCEPT !.hi = mid - 1]
        BY <1>2, <2>3
      <3>2. mid - 1 \in Nat /\ sc.lo <= mid - 1 /\ mid - 1 <= sc.hi
        BY <1>4, <1>5, <2>3
      <3>3. /\ sc2 \in [at : S, next : Nat \ {0}, start : Nat, part : Nat, lo : Nat, hi : Nat]
            /\ sc2.at = "refine" /\ sc2.next = sc.next /\ sc2.start = sc.start
            /\ sc2.lo = sc.lo /\ sc2.hi = mid - 1
        BY <1>1, <1>2, <3>1, <3>2
      <3>4. Bisecting(w, sc2)
        BY <1>4, <1>6, <3>2, <3>3 DEF Bisecting
      <3>5. QED BY <1>3, <3>3, <3>4
    <2>4. QED BY <2>1, <2>2, <2>3
  <1>9. SearchGoesOn(ms, sc, sc2)
    BY <1>0, <1>4, <1>7, <1>2, <1>3 DEF SearchGoesOn
  <1>10. QED
    <2>1. Sizing(cs, ms, sc2, sized) /\ Searching(ms, sc2) /\ Merging(cs, ms, sc2, sized)
      BY <1>1, <1>9, SearchKeeps
    <2>2. SplitShapes(cs, ms, sc2, sized)
      BY <1>1, <1>7 DEF SplitShapes, S
    <2>3. chunks' = cs /\ mergeds' = ms /\ scan' = sc2 /\ sized' = sized
      BY <1>0, <1>2
    <2>4. QED BY <1>1, <2>1, <2>2, <2>3 DEF SplitInv

\* Where the search goes after a piece.
LEMMA NextPiece ==
  ASSUME NEW S, NEW a \in S, NEW n \in Nat \ {0}, NEW s \in Nat,
         NEW r \in [at : S, next : Nat \ {0}, start : Nat, part : Nat, lo : Nat, hi : Nat]
  PROVE  \A x : x = [r EXCEPT !.at = a, !.next = n, !.start = s] =>
         /\ x \in [at : S, next : Nat \ {0}, start : Nat, part : Nat, lo : Nat, hi : Nat]
         /\ x.at = a /\ x.next = n /\ x.start = s
  OBVIOUS

LEMMA NextChunk ==
  ASSUME NEW S, NEW a \in S, NEW n \in Nat \ {0},
         NEW r \in [at : S, next : Nat \ {0}, start : Nat, part : Nat, lo : Nat, hi : Nat]
  PROVE  \A x : x = [r EXCEPT !.at = a, !.next = n] =>
         /\ x \in [at : S, next : Nat \ {0}, start : Nat, part : Nat, lo : Nat, hi : Nat]
         /\ x.at = a /\ x.next = n
  OBVIOUS

LEMMA TakeKeeps == SplitInv /\ Take => SplitInv'
  <1> SUFFICES ASSUME SplitInv, Take PROVE SplitInv'
    OBVIOUS
  <1>0. PICK cs, ms, sc, sz, sc2, sz2, w, k, p, d :
          /\ cs = chunks /\ ms = mergeds /\ sc = scan /\ sz = sized /\ sc2 = scan' /\ sz2 = sized'
          /\ w = Words /\ w = ms[sc.next].words
          /\ k = (IF sc.lo = 0 THEN 1 ELSE sc.lo)
          /\ p = SubSeq(w, sc.start + 1, sc.start + k) /\ d = [words |-> p, blank |-> 0]
    BY DEF Words, Doc
  <1> DEFINE S == {"merge", "size"} \union Searches
             n == sc.next
             m == sc.start
  <1>1. /\ cs \in Seq(SomeChunks) /\ ms \in Seq(SomeChunks) /\ sz \in Seq(SomeChunks)
        /\ sc \in [at : S, next : Nat \ {0}, start : Nat, part : Nat, lo : Nat, hi : Nat]
        /\ MergedSizes(cs, ms) /\ Sizing(cs, ms, sc, sz) /\ Searching(ms, sc)
    BY <1>0 DEF SplitInv, SplitShapes
  <1>2. /\ sc.at = "take" /\ chunks' = chunks /\ mergeds' = mergeds
        /\ sz2 = Append(sz, d)
        /\ sc2 = IF m + k = Len(w) THEN [AtStart EXCEPT !.at = "size", !.next = n + 1]
                 ELSE [AtStart EXCEPT !.at = "guess", !.next = n, !.start = m + k]
    <2>1. sc.at = "take" /\ chunks' = chunks /\ mergeds' = mergeds
      BY <1>0 DEF Take
    <2>2. sz2 = Append(sz, d)
      BY <1>0 DEF Take, Piece
    <2>3. sc2 = IF m + k = Len(w) THEN [AtStart EXCEPT !.at = "size", !.next = n + 1]
                ELSE [AtStart EXCEPT !.at = "guess", !.next = n, !.start = m + k]
      BY <1>0 DEF Take, Scans
    <2>4. QED BY <2>1, <2>2, <2>3
  <1>3. "size" \in S /\ {"guess", "refine", "take"} \subseteq S /\ {"guess", "refine", "take"} = Searches
    BY DEF Searches
  <1>13. AtStart \in [at : S, next : Nat \ {0}, start : Nat, part : Nat, lo : Nat, hi : Nat]
    BY DEF AtStart
  <1> HIDE DEF S
  <1>4. /\ n <= Len(ms) /\ m < Len(w) /\ ~(Tokens(Size(ms[n])) <= MaxInput)
        /\ n \in Nat \ {0} /\ m \in Nat /\ sc.lo \in Nat /\ sc.hi \in Nat
        /\ sc.lo <= sc.hi /\ m + sc.hi <= Len(w)
        /\ sc.lo = 0 \/ Fits(SubSeq(w, m + 1, m + sc.lo))
    BY <1>0, <1>1, <1>2, <1>3 DEF Searching, Bisecting
  <1>5. AllWords(ms) = AllWords(cs) /\ Covers(sz, ms, n, SubSeq(w, 1, m))
    <2>1. PartOf(ms, sc) = SubSeq(w, 1, m) /\ sc.at # "merge"
      BY <1>0, <1>2, <1>3 DEF PartOf
    <2>2. QED BY <1>1, <2>1 DEF Sizing
  <1> HIDE DEF n, m
  <1>6. ms[n] \in SomeChunks /\ w \in Seq(WordSizes) /\ Len(w) \in Nat
    <2>1. ms[n] \in SomeChunks
      BY <1>1, <1>4
    <2>2. w \in Seq(WordSizes)
      BY <1>0, <2>1 DEF SomeChunks, n
    <2>3. QED BY <2>1, <2>2
  <1>7. k \in Nat \ {0} /\ m + k <= Len(w) /\ (k = 1 \/ Fits(p))
    <2>1. CASE sc.lo = 0
      BY <1>0, <1>4, <1>6, <2>1
    <2>2. CASE sc.lo # 0
      <3>1. k = sc.lo /\ p = SubSeq(w, m + 1, m + sc.lo)
        BY <1>0, <2>2 DEF m
      <3>2. QED BY <1>4, <1>6, <2>2, <3>1
    <2>3. QED BY <2>1, <2>2
  <1>8. d \in SomeChunks /\ Covers(sz2, ms, n, SubSeq(w, 1, m + k))
    <2>1. p = SubSeq(w, m + 1, m + k) /\ d = [words |-> p, blank |-> 0]
      BY <1>0 DEF m
    <2>2. d \in SomeChunks /\ Covers(Append(sz, d), ms, n, SubSeq(w, 1, m + k))
      BY <1>1, <1>4, <1>5, <1>6, <1>7, <2>1, CoversPiece
    <2>3. QED BY <1>2, <2>2
  <1>9. sz2 \in Seq(SomeChunks)
    BY <1>1, <1>2, <1>8
  <1>10. /\ sc2 \in [at : S, next : Nat \ {0}, start : Nat, part : Nat, lo : Nat, hi : Nat]
         /\ sc2.at # "merge" /\ Sizing(cs, ms, sc2, sz2) /\ Searching(ms, sc2)
    <2>1. CASE m + k = Len(w)
      <3>1. sc2 = [AtStart EXCEPT !.at = "size", !.next = n + 1]
        BY <1>2, <2>1
      <3>2. /\ sc2 \in [at : S, next : Nat \ {0}, start : Nat, part : Nat, lo : Nat, hi : Nat]
            /\ sc2.at = "size" /\ sc2.next = n + 1
        <4>1. "size" \in S /\ n + 1 \in Nat \ {0}
          BY <1>3, <1>4
        <4>2. QED BY ONLY <1>13, <3>1, <4>1, NextChunk
      <3>3. Covers(sz2, ms, n, ms[n].words)
        <4>1. SubSeq(w, 1, Len(w)) = w
          BY <1>6, PrefixEnds
        <4>2. w = ms[n].words
          BY <1>0 DEF n
        <4>3. QED BY <1>8, <2>1, <4>1, <4>2
      <3>4. Covers(sz2, ms, n + 1, <<>>)
        BY <1>1, <1>4, <3>3, CoversWhole
      <3>5. PartOf(ms, sc2) = <<>>
        BY <3>2 DEF PartOf, Searches
      <3>6. Sizing(cs, ms, sc2, sz2)
        BY <1>5, <3>2, <3>4, <3>5 DEF Sizing
      <3>7. Searching(ms, sc2)
        BY <3>2 DEF Searching, Searches
      <3>8. QED BY <3>2, <3>6, <3>7
    <2>2. CASE m + k # Len(w)
      <3>1. sc2 = [AtStart EXCEPT !.at = "guess", !.next = n, !.start = m + k]
        BY <1>2, <2>2
      <3>2. /\ sc2 \in [at : S, next : Nat \ {0}, start : Nat, part : Nat, lo : Nat, hi : Nat]
            /\ sc2.at = "guess" /\ sc2.next = n /\ sc2.start = m + k
        <4>1. "guess" \in S /\ n \in Nat \ {0} /\ m + k \in Nat
          BY <1>3, <1>4, <1>7
        <4>2. QED BY ONLY <1>13, <3>1, <4>1, NextPiece
      <3>3. w = ms[n].words
        BY <1>0 DEF n
      <3>4. PartOf(ms, sc2) = SubSeq(w, 1, m + k)
        BY <3>2, <3>3 DEF PartOf, Searches
      <3>5. Sizing(cs, ms, sc2, sz2)
        BY <1>5, <1>8, <3>2, <3>4 DEF Sizing
      <3>6. m + k < Len(w)
        BY <1>4, <1>6, <1>7, <2>2
      <3>7. Searching(ms, sc2)
        BY <1>4, <3>2, <3>3, <3>6 DEF Searching
      <3>8. QED BY <3>2, <3>5, <3>7
    <2>3. QED BY <2>1, <2>2
  <1>11. SplitShapes(cs, ms, sc2, sz2) /\ Merging(cs, ms, sc2, sz2)
    BY <1>1, <1>9, <1>10 DEF SplitShapes, Merging, S
  <1>12. QED
    <2>1. chunks' = cs /\ mergeds' = ms /\ scan' = sc2 /\ sized' = sz2
      BY <1>0, <1>2
    <2>2. QED BY <1>1, <1>10, <1>11, <2>1 DEF SplitInv

LEMMA SplitFollows == SplitInv => Split
  <1> SUFFICES ASSUME SplitInv PROVE Split
    OBVIOUS
  <1>0. PICK cs, ms, sc, sz, part :
          /\ cs = chunks /\ ms = mergeds /\ sc = scan /\ sz = sized /\ part = PartOf(ms, sc)
    OBVIOUS
  <1>1. MergedSizes(cs, ms) /\ Merging(cs, ms, sc, sz) /\ Sizing(cs, ms, sc, sz)
    BY <1>0 DEF SplitInv
  <1>2. part = IF sc.at \in {"guess", "refine", "take"} THEN SubSeq(Words, 1, sc.start) ELSE <<>>
    BY <1>0 DEF PartOf, Searches, Words, Doc
  <1>3. \A i \in DOMAIN ms : ms[i] \notin Range(cs) => Size(ms[i]) <= MaxMerge
    BY <1>1 DEF MergedSizes
  <1>4. sc.at = "merge" => AllWords(ms) = AllWords(SubSeq(cs, 1, sc.next - 1))
    BY <1>1 DEF Merging
  <1>5. sc.at # "merge" =>
             /\ AllWords(ms) = AllWords(cs)
             /\ AllWords(sz) = AllWords(SubSeq(ms, 1, sc.next - 1)) \o part
             /\ \A i \in DOMAIN sz :
                  Tokens(Size(sz[i])) <= MaxInput \/ Len(sz[i].words) <= 1
             /\ \A c \in Range(SubSeq(ms, 1, sc.next - 1)) : Tokens(Size(c)) <= MaxInput => c \in Range(sz)
    BY <1>0, <1>1 DEF Sizing, Covers
  <1>6. QED
    BY <1>0, <1>2, <1>3, <1>4, <1>5 DEF Split, InMerge

\* No word of any text is lost, repeated or moved by the merge of its short chunks and
\* the split of its large ones, every chunk that comes out fits the embedder or is a
\* single word, and one that fitted is as it was (_merge_short_chunks, split_oversized).
THEOREM ChunksSplit == spSpec => []Split
  <1>1. SplitInv /\ [spNext]_spVars => SplitInv'
    <2> SUFFICES ASSUME SplitInv, [spNext]_spVars PROVE SplitInv'
      OBVIOUS
    <2>1. CASE MergeNext
      BY <2>1, MergeNextKeeps
    <2>2. CASE EndMerge
      BY <2>2, EndMergeKeeps
    <2>3. CASE SizeNext
      BY <2>3, SizeNextKeeps
    <2>4. CASE Guess
      BY <2>4, GuessKeeps
    <2>5. CASE Refine
      BY <2>5, RefineKeeps
    <2>6. CASE Take
      BY <2>6, TakeKeeps
    <2>7. CASE UNCHANGED spVars
      BY <2>7 DEF spVars, SplitInv
    <2>8. QED BY <2>1, <2>2, <2>3, <2>4, <2>5, <2>6, <2>7 DEF spNext
  <1>2. QED BY <1>1, SplitStart, SplitFollows, PTL DEF spSpec


-----------------------------------------------------------------------------
(* Delivery: what is heard of a text. *)

Marks == {"word", "<think>", "</think>", "block", "reasoning", "report", "answer"}
Inside(said) == Thought(said, Len(said) + 1)
Placed(said, t) == \A i \in 1..Len(t) : t[i].at = Len(said) + i
Kind(inside) == IF inside THEN "llm_thinking" ELSE "chat_token"

\* Two lists, one after the other.
LEMMA ConcatIs ==
  ASSUME NEW T, NEW a \in Seq(T), NEW b \in Seq(T)
  PROVE  /\ a \o b \in Seq(T) /\ Len(a \o b) = Len(a) + Len(b)
         /\ Len(a) \in Nat /\ Len(b) \in Nat
         /\ \A i \in 1..Len(a) : (a \o b)[i] = a[i]
         /\ \A i \in 1..Len(b) : (a \o b)[Len(a) + i] = b[i]
  OBVIOUS

\* Lists of one length with the same elements are one.
LEMMA SameList ==
  ASSUME NEW T, NEW a \in Seq(T), NEW b \in Seq(T), Len(a) = Len(b), \A i \in 1..Len(a) : a[i] = b[i]
  PROVE  a = b
  OBVIOUS

\* The pieces of a text have their places after what was said.
LEMMA NumberedType ==
  ASSUME NEW said \in Seq(Pieces), NEW S, S \subseteq Marks, NEW text \in Seq(S)
  PROVE  /\ Numbered(said, text) \in Seq([is : S, at : Nat]) /\ Numbered(said, text) \in Seq(Pieces)
         /\ Len(Numbered(said, text)) = Len(text) /\ Placed(said, Numbered(said, text))
         /\ \A i \in 1..Len(text) : Numbered(said, text)[i] = [is |-> text[i], at |-> Len(said) + i]
  <1> DEFINE n == Len(said)
             m == Len(text)
  <1>1. n \in Nat /\ m \in Nat /\ \A i \in 1..m : text[i] \in S
    OBVIOUS
  <1> HIDE DEF n, m
  <1> DEFINE t == [i \in 1..m |-> [is |-> text[i], at |-> n + i]]
  <1>2. t \in Seq([is : S, at : Nat]) /\ t \in Seq([is : Marks, at : Nat]) /\ Len(t) = m
    BY <1>1
  <1>3. \A i \in 1..m : t[i] = [is |-> text[i], at |-> n + i] /\ t[i].at = n + i
    BY <1>1
  <1>4. QED BY <1>2, <1>3 DEF Numbered, Pieces, Marks, Placed, n, m

\* A text is numbered part by part.
LEMMA NumberedParts ==
  ASSUME NEW said \in Seq(Pieces), NEW u \in Seq(Marks), NEW v \in Seq(Marks)
  PROVE  Numbered(said, u \o v) = Numbered(said, u) \o Numbered(said \o Numbered(said, u), v)
  <1> DEFINE U == Numbered(said, u)
             V == Numbered(said \o U, v)
             T == Numbered(said, u \o v)
             n == Len(said)
  <1>1. /\ U \in Seq(Pieces) /\ Len(U) = Len(u)
        /\ \A i \in 1..Len(u) : U[i] = [is |-> u[i], at |-> n + i]
    BY NumberedType
  <1>0. u \o v \in Seq(Marks)
    OBVIOUS
  <1>2. said \o U \in Seq(Pieces) /\ Len(said \o U) = n + Len(u)
    <2> HIDE DEF U
    <2>1. U \in Seq(Pieces) /\ Len(U) = Len(u)
      BY <1>1
    <2>2. said \o U \in Seq(Pieces) /\ Len(said \o U) = Len(said) + Len(U)
      BY <2>1, ConcatIs
    <2>3. QED BY <2>1, <2>2
  <1>3. /\ V \in Seq(Pieces) /\ Len(V) = Len(v)
        /\ \A i \in 1..Len(v) : V[i] = [is |-> v[i], at |-> (n + Len(u)) + i]
    <2> DEFINE s == said \o U
    <2>1. s \in Seq(Pieces) /\ Len(s) = n + Len(u)
      BY <1>2
    <2> HIDE DEF s
    <2>2. /\ Numbered(s, v) \in Seq(Pieces) /\ Len(Numbered(s, v)) = Len(v)
          /\ \A i \in 1..Len(v) : Numbered(s, v)[i] = [is |-> v[i], at |-> Len(s) + i]
      <3>1. Marks \subseteq Marks
        OBVIOUS
      <3>2. v \in Seq(Marks)
        OBVIOUS
      <3>3. QED BY ONLY <2>1, <3>1, <3>2, NumberedType, ZenonT(20)
    <2>3. QED BY <2>1, <2>2 DEF s
  <1>4. /\ T \in Seq(Pieces) /\ Len(T) = Len(u \o v)
        /\ \A i \in 1..Len(u \o v) : T[i] = [is |-> (u \o v)[i], at |-> n + i]
    BY <1>0, NumberedType
  <1>5. n \in Nat /\ Len(u) \in Nat /\ Len(v) \in Nat
    OBVIOUS
  <1> DEFINE w == u \o v
             W == U \o V
  <1>8. /\ Len(w) = Len(u) + Len(v)
        /\ \A i \in 1..Len(u) : w[i] = u[i]
        /\ \A i \in 1..Len(v) : w[Len(u) + i] = v[i]
    BY ConcatIs
  <1>9. /\ W \in Seq(Pieces) /\ Len(W) = Len(u) + Len(v)
        /\ \A i \in 1..Len(u) : W[i] = U[i]
        /\ \A i \in 1..Len(v) : W[Len(u) + i] = V[i]
    <2> HIDE DEF U, V
    <2>1. U \in Seq(Pieces) /\ V \in Seq(Pieces) /\ Len(U) = Len(u) /\ Len(V) = Len(v)
      BY <1>1, <1>3
    <2>2. U \o V \in Seq(Pieces) /\ Len(U \o V) = Len(U) + Len(V)
      BY ONLY <2>1, ConcatIs
    <2>3. \A i \in 1..Len(U) : (U \o V)[i] = U[i]
      BY ONLY <2>1, ConcatIs
    <2>4. \A i \in 1..Len(V) : (U \o V)[Len(U) + i] = V[i]
      BY ONLY <2>1, ConcatIs
    <2>5. QED BY <2>1, <2>2, <2>3, <2>4
  <1>6. Len(T) = Len(W) /\ Len(T) = Len(u) + Len(v) /\ Len(w) = Len(T)
    BY <1>4, <1>8, <1>9
  <1> HIDE DEF U, V, T, n, w, W
  <1>7. ASSUME NEW i \in 1..Len(T) PROVE T[i] = W[i]
    <2>1. CASE i <= Len(u)
      <3>1. i \in 1..Len(u) /\ i \in 1..Len(w)
        BY <1>5, <1>6, <2>1
      <3>2. QED BY <1>1, <1>4, <1>8, <1>9, <3>1 DEF w
    <2>2. CASE i > Len(u)
      <3> DEFINE j == i - Len(u)
      <3>1. j \in 1..Len(v) /\ i \in 1..Len(w) /\ Len(u) + j = i /\ (n + Len(u)) + j = n + i
        BY <1>5, <1>6, <2>2
      <3> HIDE DEF j
      <3>2. w[i] = v[j] /\ W[i] = V[j]
        BY <1>8, <1>9, <3>1
      <3>3. T[i] = [is |-> w[i], at |-> n + i]
        BY <1>4, <3>1 DEF w
      <3>4. QED BY <1>3, <3>1, <3>2, <3>3
    <2>3. QED BY <1>5, <1>6, <2>1, <2>2
  <1>10. T = W
    BY ONLY <1>4, <1>6, <1>7, <1>9, SameList
  <1>11. QED BY <1>10 DEF T, W, U, V

\* Whether a word is a thought depends on what comes before it.
LEMMA ThoughtBefore ==
  ASSUME NEW said \in Seq(Pieces), NEW t \in Seq(Pieces), NEW i \in 1..(Len(said) + 1)
  PROVE  Thought(said \o t, i) <=> Thought(said, i)
  <1> DEFINE all == said \o t
  <1>1. \A j \in 1..(i - 1) : all[j] = said[j]
    OBVIOUS
  <1>2. i \in Nat
    OBVIOUS
  <1> HIDE DEF all
  <1>3. QED BY <1>1, <1>2 DEF Thought, all

\* WordPieces do not end or begin a thought.
LEMMA ThoughtWords ==
  ASSUME NEW said \in Seq(Pieces), NEW t \in Seq(WordPieces)
  PROVE  Inside(said \o t) <=> Inside(said)
  <1> DEFINE all == said \o t
             n == Len(said)
             m == Len(all)
  <1>0. /\ n \in Nat /\ Len(t) \in Nat /\ m = n + Len(t) /\ (\A j \in 1..n : all[j] = said[j])
        /\ (\A j \in 1..Len(t) : all[n + j] = t[j]) /\ \A j \in 1..Len(t) : t[j] \in WordPieces
    <2>1. WordPieces \subseteq Pieces
      BY DEF WordPieces, Pieces
    <2>2. t \in Seq(Pieces) /\ \A j \in 1..Len(t) : t[j] \in WordPieces
      BY <2>1
    <2>3. QED BY ONLY <2>2, said \in Seq(Pieces), ConcatIs
  <1> HIDE DEF all, n, m
  <1>1. n \in Nat /\ m \in Nat /\ n <= m /\ (\A j \in 1..n : all[j] = said[j])
        /\ \A j \in (n + 1)..m : all[j].is = "word"
    <2>1. \A j \in (n + 1)..m : j - n \in 1..Len(t) /\ n + (j - n) = j
      BY <1>0
    <2>2. \A j \in 1..Len(t) : t[j].is = "word"
      BY <1>0 DEF WordPieces
    <2>3. ASSUME NEW j \in (n + 1)..m PROVE all[j].is = "word"
      <3>1. PICK k \in 1..Len(t) : n + k = j
        BY <2>1
      <3>2. all[n + k] = t[k]
        BY <1>0
      <3>3. QED BY <2>2, <3>1, <3>2
    <2>4. QED BY <1>0, <2>3
  <1>2. \A k \in 1..m : all[k].is = "<think>" => k \in 1..n
    BY <1>1
  <1>3. \A k \in 1..n : /\ k \in 1..m /\ \A j \in (k + 1)..m : j \in (k + 1)..n \/ j \in (n + 1)..m
                        /\ \A j \in (k + 1)..n : j \in (k + 1)..m /\ j \in 1..n
    BY <1>1
  <1>4. (n + 1) - 1 = n /\ (m + 1) - 1 = m
    BY <1>1
  <1>5. Thought(all, m + 1) <=> \E k \in 1..m : all[k].is = "<think>" /\ \A j \in (k + 1)..m : all[j].is = "word"
    BY <1>4 DEF Thought
  <1>6. Thought(said, n + 1) <=> \E k \in 1..n : said[k].is = "<think>" /\ \A j \in (k + 1)..n : said[j].is = "word"
    BY <1>4 DEF Thought
  <1>7. Thought(all, m + 1) <=> Thought(said, n + 1)
    BY <1>1, <1>2, <1>3, <1>5, <1>6
  <1>8. QED BY <1>7 DEF Inside, all, n, m

\* A tag does.
LEMMA ThoughtTag ==
  ASSUME NEW said \in Seq(Pieces), NEW g \in Pieces, g.is # "word"
  PROVE  Inside(said \o <<g>>) <=> g.is = "<think>"
  <1> DEFINE all == said \o <<g>>
             m == Len(all)
  <1>1. m \in Nat /\ m >= 1 /\ all[m] = g /\ (m + 1) - 1 = m
    OBVIOUS
  <1> HIDE DEF all, m
  <1>2. Thought(all, m + 1) <=> \E k \in 1..m : all[k].is = "<think>" /\ \A j \in (k + 1)..m : all[j].is = "word"
    BY <1>1 DEF Thought
  <1>3. \A k \in 1..m : k = m \/ m \in (k + 1)..m
    BY <1>1
  <1>4. m \in 1..m /\ \A j \in (m + 1)..m : FALSE
    BY <1>1
  <1>5. Thought(all, m + 1) <=> g.is = "<think>"
    BY <1>1, <1>2, <1>3, <1>4
  <1>6. QED BY <1>5 DEF Inside, all, m

\* The frames of a speaker.
OwnFrames(x) == AnyFrame({speech[x].turn}, {speech[x].talk})

\* A word makes a frame.
WordFrame(x, all, p) == Frame(x, Kind(Thought(all, p.at)), <<p>>)
WordFrames(x, all, words) == [j \in 1..Len(words) |-> WordFrame(x, all, words[j])]

LEMMA WordsArePieces == WordPieces \subseteq Pieces
  <1> SUFFICES ASSUME NEW p \in WordPieces PROVE p \in Pieces
    OBVIOUS
  <1>1. QED BY DEF WordPieces, Pieces

LEMMA FrameType ==
  ASSUME NEW x, NEW text \in Seq(Pieces),
         NEW kind \in {"chat_token", "llm_thinking", "chat", "error", "wrong"} \cup Reported
  PROVE  Frame(x, kind, text) \in OwnFrames(x)
  BY DEF Frame, OwnFrames, AnyFrame

\* What is heard is a list of frames.
LEMMA WordFramesType ==
  ASSUME NEW x, NEW all, NEW words \in Seq(WordPieces)
  PROVE  /\ WordFrames(x, all, words) \in Seq(OwnFrames(x))
         /\ Len(WordFrames(x, all, words)) = Len(words)
         /\ \A j \in 1..Len(words) : WordFrames(x, all, words)[j] = WordFrame(x, all, words[j])
  <1>1. WordPieces \subseteq Pieces /\ Len(words) \in Nat /\ \A j \in 1..Len(words) : words[j] \in WordPieces
    BY WordsArePieces
  <1>2. \A p \in WordPieces : WordFrame(x, all, p) \in OwnFrames(x)
    <2> TAKE p \in WordPieces
    <2>1. <<p>> \in Seq(Pieces)
      BY <1>1
    <2>2. Kind(Thought(all, p.at)) \in {"chat_token", "llm_thinking", "chat", "error", "wrong"} \cup Reported
      BY DEF Kind
    <2>3. QED BY <2>1, <2>2, FrameType DEF WordFrame
  <1> DEFINE F(j) == WordFrame(x, all, words[j])
             n == Len(words)
  <1>3. \A j \in 1..n : F(j) \in OwnFrames(x)
    BY <1>1, <1>2
  <1>4. n \in Nat /\ WordFrames(x, all, words) = [j \in 1..n |-> F(j)]
    BY <1>1 DEF WordFrames
  <1> HIDE DEF F, n
  <1>5. [j \in 1..n |-> F(j)] \in Seq(OwnFrames(x)) /\ Len([j \in 1..n |-> F(j)]) = n
        /\ \A j \in 1..n : [i \in 1..n |-> F(i)][j] = F(j)
    BY <1>3, <1>4
  <1>6. QED BY <1>4, <1>5 DEF F, n

LEMMA HeardIs ==
  ASSUME NEW x, NEW said, NEW t
  PROVE  Heard(x, said, t) = WordFrames(x, said \o t, Only(t, WordPieces))
  BY DEF Heard, WordFrames, WordFrame, Kind

\* The words of a text are some of its pieces.
LEMMA WordsOf ==
  ASSUME NEW t \in Seq(Pieces)
  PROVE  /\ Only(t, WordPieces) \in Seq(WordPieces)
         /\ \A j \in 1..Len(Only(t, WordPieces)) : \E i \in 1..Len(t) : Only(t, WordPieces)[j] = t[i]
  <1>1. PICK w : w = Only(t, WordPieces)
    OBVIOUS
  <1>2. w \in Seq(Pieces)
    BY <1>1, OnlyType
  <1>3. Range(w) = Range(t) \cap WordPieces
    BY <1>1, OnlyElements
  <1>4. DOMAIN w = 1..Len(w) /\ Len(w) \in Nat /\ DOMAIN t = 1..Len(t) /\ w = [j \in 1..Len(w) |-> w[j]]
    BY <1>2
  <1>5. \A j \in 1..Len(w) : w[j] \in Range(t) /\ w[j] \in WordPieces
    BY <1>3, <1>4 DEF Range
  <1>6. w \in Seq(WordPieces)
    BY <1>4, <1>5
  <1>7. \A j \in 1..Len(w) : \E i \in 1..Len(t) : w[j] = t[i]
    BY <1>4, <1>5 DEF Range
  <1>8. QED BY <1>1, <1>6, <1>7

LEMMA HeardType ==
  ASSUME NEW x, NEW said, NEW t \in Seq(Pieces)
  PROVE  Heard(x, said, t) \in Seq(OwnFrames(x))
  BY HeardIs, WordsOf, WordFramesType

\* What is heard of two texts is heard of them one after the other.
HeardInTurn(x, said, t, u) ==
    Heard(x, said, t \o u) = Heard(x, said, t) \o Heard(x, said \o t, u)

LEMMA HeardNext ==
  ASSUME NEW x, NEW said \in Seq(Pieces), NEW t \in Seq(Pieces), NEW u \in Seq(Pieces), Placed(said, t)
  PROVE  HeardInTurn(x, said, t, u)
  <1> DEFINE first == said \o t
             all == first \o u
             V == Only(t, WordPieces)
             W == Only(u, WordPieces)
             A == WordFrames(x, first, V)
             B == WordFrames(x, all, W)
             C == WordFrames(x, all, V \o W)
  <1>1. first \in Seq(Pieces) /\ Len(first) = Len(said) + Len(t) /\ all = said \o (t \o u)
        /\ Len(said) \in Nat /\ Len(t) \in Nat
    OBVIOUS
  <1>2. V \in Seq(WordPieces) /\ W \in Seq(WordPieces) /\ Only(t \o u, WordPieces) = V \o W
    BY WordsOf, OnlyConcat
  <1>3. Heard(x, said, t) = A /\ Heard(x, first, u) = B /\ Heard(x, said, t \o u) = C
    BY <1>1, <1>2, HeardIs
  <1>4. \A j \in 1..Len(V) : V[j].at \in 1..(Len(first) + 1)
    <2> TAKE j \in 1..Len(V)
    <2>1. PICK i \in 1..Len(t) : V[j] = t[i]
      BY WordsOf
    <2>2. t[i].at = Len(said) + i
      BY DEF Placed
    <2> HIDE DEF first, V
    <2>3. QED BY <1>1, <2>1, <2>2
  <1>5. \A j \in 1..Len(V) : Thought(all, V[j].at) <=> Thought(first, V[j].at)
    BY <1>1, <1>4, ThoughtBefore
  <1>6. \A j \in 1..Len(V) : WordFrame(x, all, V[j]) = WordFrame(x, first, V[j])
    BY <1>5 DEF WordFrame, Kind
  <1> HIDE DEF first, all, V, W
  <1> DEFINE U == V \o W
  <1>7. /\ U \in Seq(WordPieces) /\ Len(U) = Len(V) + Len(W) /\ Len(V) \in Nat /\ Len(W) \in Nat
        /\ (\A i \in 1..Len(V) : U[i] = V[i]) /\ \A i \in 1..Len(W) : U[Len(V) + i] = W[i]
    BY <1>2
  <1>8. /\ A \in Seq(OwnFrames(x)) /\ Len(A) = Len(V) /\ \A j \in 1..Len(V) : A[j] = WordFrame(x, first, V[j])
    BY <1>2, WordFramesType
  <1>9. /\ B \in Seq(OwnFrames(x)) /\ Len(B) = Len(W) /\ \A j \in 1..Len(W) : B[j] = WordFrame(x, all, W[j])
    BY <1>2, WordFramesType
  <1>10. /\ C \in Seq(OwnFrames(x)) /\ Len(C) = Len(U) /\ \A j \in 1..Len(U) : C[j] = WordFrame(x, all, U[j])
    BY <1>7, WordFramesType
  <1> DEFINE D == A \o B
  <1> HIDE DEF A, B, C, U
  <1>11. /\ D \in Seq(OwnFrames(x)) /\ Len(D) = Len(A) + Len(B)
         /\ (\A i \in 1..Len(A) : D[i] = A[i]) /\ \A i \in 1..Len(B) : D[Len(A) + i] = B[i]
    <2>0. A \in Seq(OwnFrames(x)) /\ B \in Seq(OwnFrames(x))
      BY <1>8, <1>9
    <2>1. A \o B \in Seq(OwnFrames(x)) /\ Len(A \o B) = Len(A) + Len(B)
      BY ONLY <2>0, ConcatIs
    <2>2. \A i \in 1..Len(A) : (A \o B)[i] = A[i]
      BY ONLY <2>0, ConcatIs
    <2>3. \A i \in 1..Len(B) : (A \o B)[Len(A) + i] = B[i]
      BY ONLY <2>0, ConcatIs
    <2>4. QED BY <2>1, <2>2, <2>3
  <1> HIDE DEF D
  <1>12. ASSUME NEW i \in 1..Len(C) PROVE C[i] = D[i]
    <2>1. CASE i <= Len(V)
      <3>1. i \in 1..Len(V) /\ i \in 1..Len(U)
        BY <1>7, <1>10, <2>1
      <3>2. QED BY <1>6, <1>7, <1>8, <1>10, <1>11, <3>1
    <2>2. CASE i > Len(V)
      <3>1. PICK k \in 1..Len(W) : i = Len(V) + k
        <4>1. i - Len(V) \in 1..Len(W) /\ i = Len(V) + (i - Len(V))
          BY <1>7, <1>10, <2>2
        <4>2. QED BY <4>1
      <3>2. i \in 1..Len(U) /\ U[i] = W[k] /\ D[i] = B[k]
        BY <1>7, <1>8, <1>9, <1>10, <1>11, <3>1
      <3>3. QED BY <1>9, <1>10, <3>2
    <2>3. QED BY <1>7, <1>10, <2>1, <2>2
  <1>13. Len(C) = Len(D)
    BY <1>7, <1>8, <1>9, <1>10, <1>11
  <1>14. C = D
    BY ONLY <1>10, <1>11, <1>12, <1>13, SameList
  <1>15. QED BY <1>3, <1>14 DEF D, first, HeardInTurn

\* What is heard of no more than one word.
LEMMA HeardWord ==
  ASSUME NEW x, NEW said \in Seq(Pieces), NEW t \in Seq(WordPieces), Placed(said, t), Len(t) <= 1
  PROVE  Heard(x, said, t) = Frames(x, Kind(Inside(said)), t)
  <1>0. t \in Seq(Pieces) /\ Len(t) \in Nat /\ (Len(t) = 0 \/ Len(t) = 1)
    <2>1. Len(t) \in Nat /\ Len(t) <= 1
      OBVIOUS
    <2>2. \A n \in Nat : n <= 1 => n = 0 \/ n = 1
      OBVIOUS
    <2>3. t \in Seq(Pieces)
      BY WordsArePieces
    <2>4. QED BY <2>1, <2>2, <2>3
  <1>1. Only(t, WordPieces) = t
    <2>1. Range(t) \subseteq WordPieces
      BY DEF Range
    <2>2. QED BY <1>0, <2>1, OnlyAll
  <1> DEFINE all == said \o t
             W == WordFrames(x, all, t)
  <1>2. Heard(x, said, t) = W
    BY <1>1, HeardIs
  <1>3. W \in Seq(OwnFrames(x)) /\ Len(W) = Len(t) /\ \A j \in 1..Len(t) : W[j] = WordFrame(x, all, t[j])
    BY WordFramesType
  <1>4. CASE Len(t) = 0
    <2>1. t = <<>> /\ W = <<>>
      BY <1>3, <1>4
    <2>2. QED BY <1>2, <2>1 DEF Frames
  <1>5. CASE Len(t) = 1
    <2>0. <<t[1]>> \in Seq(Pieces) /\ Len(<<t[1]>>) = 1 /\ 1 \in 1..Len(t)
      BY <1>0, <1>5
    <2>1. t = <<t[1]>> /\ t # <<>> /\ 1 \in 1..Len(t)
      <3>1. \A i \in 1..Len(t) : t[i] = <<t[1]>>[i]
        BY <1>5
      <3>2. t = <<t[1]>>
        BY ONLY <1>0, <1>5, <2>0, <3>1, SameList
      <3>3. t # <<>>
        <4>1. \A s : s = <<>> => Len(s) = 0
          OBVIOUS
        <4>2. Len(t) # 0
          BY ONLY <1>5
        <4>3. QED BY ONLY <4>1, <4>2
      <3>4. QED BY <2>0, <3>2, <3>3
    <2>2. t[1].at = Len(said) + 1
      BY <2>1 DEF Placed
    <2>3. Len(said) + 1 \in 1..(Len(said) + 1)
      OBVIOUS
    <2>4. Thought(all, Len(said) + 1) <=> Inside(said)
      BY <1>0, <2>3, ThoughtBefore DEF Inside
    <2>5. W[1] = Frame(x, Kind(Inside(said)), t)
      <3>1. WordFrame(x, all, t[1]) = Frame(x, Kind(Inside(said)), <<t[1]>>)
        BY <2>2, <2>4 DEF WordFrame, Kind
      <3>2. QED BY <1>3, <2>1, <3>1
    <2> HIDE DEF W
    <2>6. W = <<W[1]>>
      BY <1>3, <1>5
    <2>7. QED BY <1>2, <2>1, <2>5, <2>6 DEF Frames
  <1>6. QED BY <1>0, <1>4, <1>5

\* A tag is not heard.
LEMMA HeardTag ==
  ASSUME NEW x, NEW said, NEW g \in Pieces, g.is # "word"
  PROVE  Heard(x, said, <<g>>) = <<>>
  <1> DEFINE t == <<g>>
  <1>1. t \in Seq(Pieces) /\ Range(t) \cap WordPieces = {}
    BY DEF Range, WordPieces
  <1>2. Only(t, WordPieces) = <<>>
    BY <1>1, OnlyVoid
  <1>3. QED BY <1>2, HeardIs DEF WordFrames

\* str.partition finds the first tag.
SplitAt(t, u, g, v) == HasTag(t, g.is) /\ Before(t, g.is) = u /\ After(t, g.is) = v

LEMMA Partition ==
  ASSUME NEW u \in Seq(Pieces), NEW g \in Pieces, NEW v \in Seq(Pieces),
         \A i \in 1..Len(u) : u[i].is # g.is
  PROVE  SplitAt(u \o <<g>> \o v, u, g, v)
  <1> DEFINE n == Len(u)
             m == Len(v)
             tag == g.is
             t == u \o <<g>> \o v
  <1>1. /\ t \in Seq(Pieces) /\ Len(t) = (n + 1) + m /\ n \in Nat /\ m \in Nat
        /\ (\A i \in 1..n : t[i] = u[i]) /\ t[n + 1] = g /\ \A i \in 1..m : t[(n + 1) + i] = v[i]
    OBVIOUS
  <1> HIDE DEF t, n, m
  <1> DEFINE I == {i \in 1..Len(t) : t[i].is = tag}
  <1>2. n + 1 \in I
    BY <1>1
  <1>3. \A i \in I : n + 1 <= i
    <2>1. \A i \in 1..n : t[i].is # tag
      BY <1>1 DEF n
    <2>2. \A i \in 1..Len(t) : i \in 1..n \/ n + 1 <= i
      BY <1>1
    <2>3. QED BY <2>1, <2>2
  <1>4. Min(I) = n + 1
    <2>1. \A i \in I : i \in Nat
      BY <1>1
    <2> HIDE DEF I
    <2>2. ASSUME NEW y \in I, \A i \in I : y <= i
          PROVE  y = n + 1
      <3>1. y <= n + 1 /\ n + 1 <= y /\ y \in Nat /\ n + 1 \in Nat
        BY <1>1, <1>2, <1>3, <2>1, <2>2
      <3>2. QED BY <3>1
    <2>3. QED BY <1>2, <1>3, <2>2 DEF Min
  <1>5. Place(t, tag) = n + 1
    BY <1>2, <1>4 DEF Place, SelectInSeq
  <1> HIDE DEF I, tag
  <1>6. HasTag(t, tag)
    BY <1>1, <1>5 DEF HasTag
  <1>7. Before(t, tag) = u
    <2> DEFINE s == SubSeq(t, 1, n)
    <2>1. s \in Seq(Pieces) /\ Len(s) = n /\ \A i \in 1..n : s[i] = t[i]
      BY <1>1, Prefix
    <2>2. (n + 1) - 1 = n
      BY <1>1
    <2>3. Before(t, tag) = s
      BY <1>5, <2>2 DEF Before
    <2> HIDE DEF s
    <2>4. Len(s) = Len(u) /\ \A i \in 1..Len(s) : s[i] = u[i]
      BY <1>1, <2>1 DEF n
    <2>5. s = u
      BY ONLY <2>1, <2>4, u \in Seq(Pieces), SameList
    <2>6. QED BY <2>3, <2>5
  <1>8. After(t, tag) = v
    <2> DEFINE k == (n + 1) + 1
               s == SubSeq(t, k, Len(t))
    <2>0. k \in 1..(Len(t) + 1) /\ (Len(t) - k) + 1 = m /\ \A i \in Nat : (k + i) - 1 = (n + 1) + i
      BY <1>1
    <2>1. After(t, tag) = s
      BY <1>5 DEF After
    <2> HIDE DEF k
    <2>2. s \in Seq(Pieces) /\ Len(s) = m /\ \A i \in 1..m : s[i] = t[(k + i) - 1]
      BY <1>1, <2>0
    <2> HIDE DEF s
    <2>4. Len(s) = Len(v) /\ \A i \in 1..Len(s) : s[i] = v[i]
      <3>1. Len(s) = Len(v) /\ Len(s) = m
        BY <2>2 DEF m
      <3>2. ASSUME NEW i \in 1..m PROVE s[i] = v[i]
        <4>1. i \in Nat /\ s[i] = t[(k + i) - 1] /\ t[(n + 1) + i] = v[i]
          BY <1>1, <2>2
        <4>2. QED BY <2>0, <4>1
      <3>3. QED BY <3>1, <3>2
    <2>5. s = v
      BY ONLY <2>2, <2>4, v \in Seq(Pieces), SameList
    <2>6. QED BY <2>1, <2>5
  <1>9. QED BY <1>6, <1>7, <1>8 DEF tag, t, SplitAt

LEMMA NoTag ==
  ASSUME NEW t \in Seq(Pieces), NEW tag, \A i \in 1..Len(t) : t[i].is # tag
  PROVE  ~HasTag(t, tag)
  BY DEF HasTag, Place, SelectInSeq

\* In a well formed text a tag ends a thought when there is one.
LEMMA TagsFit ==
  ASSUME NEW s \in Seq(Pieces), NEW g \in Pieces, NEW v \in Seq(Pieces), g.is # "word",
         WellFormed(s \o <<g>> \o v)
  PROVE  (g.is = "</think>") = Inside(s)
  <1> DEFINE rest == <<g>> \o v
             all == s \o <<g>> \o v
             n == Len(s)
  <1>1. n \in Nat /\ rest \in Seq(Pieces) /\ all = s \o rest
    OBVIOUS
  <1>2. all[n + 1] = g /\ n + 1 \in 1..Len(all) /\ n + 1 \in 1..(n + 1)
    OBVIOUS
  <1>3. WellFormed(all)
    OBVIOUS
  <1> HIDE DEF rest, all
  <1>4. Thought(all, n + 1) <=> Inside(s)
    BY <1>1, <1>2, ThoughtBefore DEF Inside
  <1>5. (g.is = "</think>") = Thought(all, n + 1)
    BY <1>2, <1>3 DEF WellFormed
  <1>6. QED BY <1>4, <1>5 DEF Thought, Inside

\* A text with one tag.
TagHeard(x, said, u, g, v) ==
    LET t == u \o <<g>> \o v
        opens == g.is = "<think>"
    IN  /\ Heard(x, said, t) = Frames(x, Kind(Inside(said)), u) \o Frames(x, Kind(opens), v)
        /\ Inside(said \o t) <=> opens

LEMMA OneTag ==
  ASSUME NEW x, NEW said \in Seq(Pieces), NEW u \in Seq(WordPieces), Len(u) <= 1, NEW g \in Pieces,
         g.is # "word", NEW v \in Seq(WordPieces), Len(v) <= 1, Placed(said, u \o <<g>> \o v)
  PROVE  TagHeard(x, said, u, g, v)
  <1> DEFINE t == u \o <<g>> \o v
             opens == g.is = "<think>"
             one == said \o u
             two == one \o <<g>>
             three == u \o <<g>>
  <1>1. u \in Seq(Pieces) /\ v \in Seq(Pieces) /\ <<g>> \in Seq(Pieces)
    BY WordsArePieces
  <1>2. /\ one \in Seq(Pieces) /\ two \in Seq(Pieces) /\ three \in Seq(Pieces) /\ t \in Seq(Pieces)
        /\ two = said \o three /\ said \o t = two \o v /\ t = three \o v
    BY <1>1, SMTT(20)
  <1>3. /\ Len(said) \in Nat /\ Len(u) \in Nat /\ Len(v) \in Nat /\ Len(three) = Len(u) + 1
        /\ Len(t) = (Len(u) + 1) + Len(v) /\ Len(two) = (Len(said) + Len(u)) + 1
        /\ (\A i \in 1..Len(u) : t[i] = u[i] /\ three[i] = u[i]) /\ (\A i \in 1..Len(three) : t[i] = three[i])
        /\ \A i \in 1..Len(v) : t[(Len(u) + 1) + i] = v[i]
    BY <1>1
  <1>4. Placed(said, t)
    OBVIOUS
  <1> HIDE DEF t, one, two, three
  <1>5. Placed(said, u) /\ Placed(said, three) /\ Placed(two, v)
    <2>1. Placed(said, u)
      BY <1>3, <1>4 DEF Placed
    <2>2. Placed(said, three)
      BY <1>3, <1>4 DEF Placed
    <2>3. ASSUME NEW i \in 1..Len(v) PROVE v[i].at = Len(two) + i
      <3>1. (Len(u) + 1) + i \in 1..Len(t)
        BY <1>3
      <3>2. t[(Len(u) + 1) + i].at = Len(said) + ((Len(u) + 1) + i)
        BY <1>4, <3>1 DEF Placed
      <3>3. QED BY <1>3, <3>2
    <2>4. QED BY <2>1, <2>2, <2>3 DEF Placed
  <1>6. Heard(x, said, t) = Heard(x, said, three) \o Heard(x, two, v)
    <2>1. HeardInTurn(x, said, three, v)
      BY <1>1, <1>2, <1>5, HeardNext
    <2>2. QED BY <1>2, <2>1 DEF HeardInTurn
  <1>7. Heard(x, said, three) = Heard(x, said, u) \o Heard(x, one, <<g>>)
    <2>1. HeardInTurn(x, said, u, <<g>>)
      BY <1>1, <1>5, HeardNext
    <2>2. QED BY <2>1 DEF three, one, HeardInTurn
  <1>8. Heard(x, one, <<g>>) = <<>>
    BY HeardTag
  <1>9. Heard(x, said, u) = Frames(x, Kind(Inside(said)), u)
    BY <1>5, HeardWord
  <1>10. Inside(two) <=> opens
    BY <1>2, ThoughtTag DEF two
  <1>11. Heard(x, two, v) = Frames(x, Kind(Inside(two)), v)
    BY <1>2, <1>5, HeardWord
  <1>12. Kind(Inside(two)) = Kind(opens)
    BY <1>10 DEF Kind
  <1>13. Heard(x, said, u) \in Seq(OwnFrames(x))
    BY <1>1, HeardType
  <1>14. \A a \in Seq(OwnFrames(x)) : a \o <<>> = a
    OBVIOUS
  <1>15. Heard(x, said, three) = Heard(x, said, u)
    BY <1>7, <1>8, <1>13, <1>14
  <1>16. Inside(said \o t) <=> Inside(two)
    BY <1>2, ThoughtWords
  <1>17. QED BY <1>6, <1>9, <1>10, <1>11, <1>12, <1>15, <1>16 DEF t, TagHeard

Optional == {<<>>, <<"word">>}

LEMMA OptionalIs == \A u \in Optional : u \in Seq({"word"}) /\ u \in Seq(Marks) /\ Len(u) <= 1
  <1>1. <<>> \in Seq({"word"}) /\ <<>> \in Seq(Marks) /\ Len(<<>>) = 0
    OBVIOUS
  <1>2. "word" \in Marks
    BY DEF Marks
  <1>3. <<"word">> \in Seq({"word"}) /\ <<"word">> \in Seq(Marks) /\ Len(<<"word">>) = 1
    BY <1>2
  <1> SUFFICES ASSUME NEW u \in Optional
               PROVE  u \in Seq({"word"}) /\ u \in Seq(Marks) /\ Len(u) <= 1
    OBVIOUS
  <1>4. CASE u = <<>>
    BY <1>1, <1>4
  <1>5. CASE u = <<"word">>
    BY <1>3, <1>5
  <1>6. QED BY <1>4, <1>5 DEF Optional

LEMMA WordIs ==
  ASSUME NEW t \in Seq(WordPieces)
  PROVE  \A i \in 1..Len(t) : t[i].is = "word"
  <1> TAKE i \in 1..Len(t)
  <1>1. t[i] \in WordPieces
    OBVIOUS
  <1>2. QED BY <1>1 DEF WordPieces

LEMMA NumberedOne ==
  ASSUME NEW said \in Seq(Pieces), NEW m \in Marks
  PROVE  /\ [is |-> m, at |-> Len(said) + 1] \in Pieces
         /\ Numbered(said, <<m>>) = <<[is |-> m, at |-> Len(said) + 1]>>
  <1> DEFINE t == Numbered(said, <<m>>)
             p == [is |-> m, at |-> Len(said) + 1]
  <1>0. <<m>> \in Seq(Marks) /\ Len(<<m>>) = 1 /\ Len(said) \in Nat /\ 1 \in 1..Len(<<m>>) /\ <<m>>[1] = m
    OBVIOUS
  <1>1. t \in Seq(Pieces) /\ Len(t) = 1 /\ t[1] = [is |-> <<m>>[1], at |-> Len(said) + 1]
    <2>1. Marks \subseteq Marks
      OBVIOUS
    <2>2. QED BY <1>0, <2>1, NumberedType
  <1>2. t[1] = p
    BY <1>0, <1>1
  <1>3. p \in Pieces
    BY <1>0 DEF Pieces, Marks
  <1> HIDE DEF t, p
  <1>4. <<p>> \in Seq(Pieces) /\ Len(<<p>>) = 1 /\ \A i \in 1..1 : <<p>>[i] = p /\ t[i] = p
    BY <1>2, <1>3
  <1>5. t = <<p>>
    BY <1>1, <1>4, SameList
  <1>6. QED BY <1>3, <1>5 DEF t, p

\* The words of a token are words.
LEMMA NumberedWords ==
  ASSUME NEW said \in Seq(Pieces), NEW u \in Optional
  PROVE  Numbered(said, u) \in Seq(WordPieces) /\ Len(Numbered(said, u)) <= 1
  <1>1. u \in Seq({"word"}) /\ Len(u) <= 1 /\ {"word"} \subseteq Marks
    BY OptionalIs DEF Marks
  <1>2. Numbered(said, u) \in Seq([is : {"word"}, at : Nat]) /\ Len(Numbered(said, u)) = Len(u)
    BY <1>1, NumberedType
  <1>3. QED BY <1>1, <1>2 DEF WordPieces

\* A text of words around a tag.
Around(t, m) ==
    \E u \in Seq(WordPieces), g \in Pieces, v \in Seq(WordPieces) :
      Len(u) <= 1 /\ Len(v) <= 1 /\ g.is = m /\ t = u \o <<g>> \o v

LEMMA NumberedAround ==
  ASSUME NEW said \in Seq(Pieces), NEW u \in Optional, NEW v \in Optional, NEW m \in Marks
  PROVE  Around(Numbered(said, u \o <<m>> \o v), m)
  <1> DEFINE um == u \o <<m>>
             U == Numbered(said, u)
             s == said \o U
             G == [is |-> m, at |-> Len(s) + 1]
             s2 == said \o Numbered(said, um)
             V == Numbered(s2, v)
  <1>1. u \in Seq(Marks) /\ v \in Seq(Marks) /\ <<m>> \in Seq(Marks)
    BY OptionalIs
  <1>2. um \in Seq(Marks)
    BY <1>1
  <1>3. U \in Seq(WordPieces) /\ Len(U) <= 1 /\ U \in Seq(Pieces)
    BY NumberedWords, WordsArePieces
  <1>4. s \in Seq(Pieces)
    BY <1>3
  <1>5. Numbered(said, um) = U \o Numbered(s, <<m>>)
    BY <1>1, NumberedParts
  <1>6. Numbered(s, <<m>>) = <<G>> /\ G \in Pieces
    BY <1>4, NumberedOne
  <1>7. s2 \in Seq(Pieces)
    <2>1. Numbered(said, um) \in Seq(Pieces)
      <3>1. Marks \subseteq Marks
        OBVIOUS
      <3>2. QED BY <1>2, <3>1, NumberedType
    <2>2. QED BY <2>1
  <1>8. V \in Seq(WordPieces) /\ Len(V) <= 1
    BY <1>7, NumberedWords
  <1>9. Numbered(said, um \o v) = Numbered(said, um) \o V
    BY <1>1, <1>2, NumberedParts
  <1>10. Numbered(said, um \o v) = (U \o <<G>>) \o V
    BY <1>5, <1>6, <1>9
  <1>11. G.is = m
    OBVIOUS
  <1> HIDE DEF U, G, V
  <1>12. QED BY <1>3, <1>6, <1>8, <1>10, <1>11 DEF Around

-----------------------------------------------------------------------------
(* Delivery: what the callbacks make of a token. *)

AF == AnyFrame(TurnIds, Talks)
Speech == [at : {"quiet", "turn", "call"}, talk : Talks \cup {"none"}, turn : 0..MaxSpeeches,
           inside : BOOLEAN, streamed : BOOLEAN, said : Seq(Pieces), blocks : Seq(AF), due : Seq(AF)]

LEMMA FramesType ==
  ASSUME NEW x, NEW kind \in {"chat_token", "llm_thinking", "chat", "error", "wrong"}, NEW t \in Seq(Pieces)
  PROVE  Frames(x, kind, t) \in Seq(OwnFrames(x))
  <1>1. Frame(x, kind, t) \in OwnFrames(x)
    BY FrameType
  <1>2. QED BY <1>1 DEF Frames

LEMMA SortedPlain ==
  ASSUME NEW x, speech[x] \in Speech, NEW t, ~speech[x].inside, ~HasTag(t, "<think>")
  PROVE  LET r == SortedToken(x, t)
         IN  /\ r.due = <<Frame(x, "chat_token", t)>> /\ r.inside = FALSE
             /\ r.streamed = speech[x].streamed
             /\ r = [speech[x] EXCEPT !.inside = r.inside, !.streamed = r.streamed, !.due = r.due]
  <1> DEFINE q == [speech[x] EXCEPT !.due = <<Frame(x, "chat_token", t)>>]
  <1>1. SortedToken(x, t) = q
    BY DEF SortedToken
  <1>2. q.due = <<Frame(x, "chat_token", t)>> /\ q.inside = speech[x].inside /\ q.streamed = speech[x].streamed
    BY DEF Speech
  <1>3. q = [speech[x] EXCEPT !.inside = q.inside, !.streamed = q.streamed, !.due = q.due]
    BY DEF Speech
  <1>4. speech[x].inside = FALSE
    BY DEF Speech
  <1> HIDE DEF q
  <1>5. QED BY <1>1, <1>2, <1>3, <1>4

SortedInto(x, t, pre, rest) ==
    LET r == SortedToken(x, t)
        closes == HasTag(rest, "</think>")
        thinking == Frames(x, "llm_thinking", IF closes THEN Before(rest, "</think>") ELSE rest)
    IN  /\ r.due = Frames(x, "chat_token", pre) \o thinking
                   \o (IF closes THEN Frames(x, "chat_token", After(rest, "</think>")) ELSE <<>>)
        /\ r.inside = ~closes /\ r.streamed = (speech[x].streamed \/ thinking # <<>>)
        /\ r = [speech[x] EXCEPT !.inside = r.inside, !.streamed = r.streamed, !.due = r.due]

LEMMA SortedThinking ==
  ASSUME NEW x, speech[x] \in Speech, NEW t, NEW pre, NEW rest,
         \/ speech[x].inside /\ pre = <<>> /\ rest = t
         \/ /\ ~speech[x].inside /\ HasTag(t, "<think>")
            /\ pre = Before(t, "<think>") /\ rest = After(t, "<think>")
  PROVE  SortedInto(x, t, pre, rest)
  <1> DEFINE closes == HasTag(rest, "</think>")
             thinking == Frames(x, "llm_thinking", IF closes THEN Before(rest, "</think>") ELSE rest)
             due == Frames(x, "chat_token", pre) \o thinking
                    \o (IF closes THEN Frames(x, "chat_token", After(rest, "</think>")) ELSE <<>>)
             q == [speech[x] EXCEPT !.inside = ~closes, !.streamed = @ \/ thinking # <<>>, !.due = due]
  <1>1. SortedToken(x, t) = q
    <2>1. CASE speech[x].inside
      BY <2>1 DEF SortedToken
    <2>2. CASE ~speech[x].inside
      BY <2>2 DEF SortedToken
    <2>3. QED BY <2>1, <2>2
  <1> HIDE DEF closes, thinking, due
  <1>2. q.due = due /\ q.inside = ~closes /\ q.streamed = (speech[x].streamed \/ thinking # <<>>)
    BY DEF Speech
  <1>3. q = [speech[x] EXCEPT !.inside = q.inside, !.streamed = q.streamed, !.due = q.due]
    BY DEF Speech
  <1> HIDE DEF q
  <1>4. QED BY <1>1, <1>2, <1>3 DEF closes, thinking, due, SortedInto

\* What was said before a well formed text is well formed.
LEMMA WellFormedBefore ==
  ASSUME NEW said \in Seq(Pieces), NEW t \in Seq(Pieces), WellFormed(said \o t)
  PROVE  WellFormed(said)
  <1> SUFFICES ASSUME NEW i \in 1..Len(said), said[i].is # "word"
               PROVE  (said[i].is = "</think>") = Thought(said, i)
    BY DEF WellFormed
  <1> DEFINE all == said \o t
  <1>1. all[i] = said[i] /\ i \in 1..Len(all) /\ i \in 1..(Len(said) + 1)
    OBVIOUS
  <1>2. Thought(all, i) <=> Thought(said, i)
    BY <1>1, ThoughtBefore
  <1> HIDE DEF all
  <1>3. (all[i].is = "</think>") = Thought(all, i)
    BY <1>1 DEF WellFormed, all
  <1>4. QED BY <1>1, <1>2, <1>3 DEF Thought

\* A token is sorted into what should be heard of it: when it holds no tag ...
Sorts(x, t) ==
    LET r == SortedToken(x, t)
    IN  /\ r.due = Heard(x, speech[x].said, t)
        /\ r.inside <=> Inside(speech[x].said \o t)
        /\ r.streamed \in BOOLEAN /\ r.inside \in BOOLEAN /\ (~r.streamed => ~speech[x].streamed)
        /\ r = [speech[x] EXCEPT !.inside = r.inside, !.streamed = r.streamed, !.due = r.due]

LEMMA PlainSorts ==
  ASSUME NEW x, speech[x] \in Speech, speech[x].inside <=> Inside(speech[x].said),
         NEW t \in Seq(WordPieces), Len(t) = 1, Placed(speech[x].said, t)
  PROVE  Sorts(x, t)
  <1> DEFINE said == speech[x].said
             r == SortedToken(x, t)
  <1>1. said \in Seq(Pieces) /\ t \in Seq(Pieces) /\ speech[x].inside \in BOOLEAN /\ speech[x].streamed \in BOOLEAN
    BY WordsArePieces DEF Speech
  <1>2. Inside(said \o t) <=> speech[x].inside
    BY <1>1, ThoughtWords
  <1>3. Heard(x, said, t) = Frames(x, Kind(Inside(said)), t)
    <2>1. Len(t) <= 1
      OBVIOUS
    <2>2. QED BY <1>1, <2>1, HeardWord
  <1>4. Kind(Inside(said)) = Kind(speech[x].inside)
    BY DEF Kind
  <1>5. t # <<>>
    <2>1. \A s : s = <<>> => Len(s) = 0
      OBVIOUS
    <2>2. Len(t) # 0
      OBVIOUS
    <2>3. QED BY ONLY <2>1, <2>2
  <1>6. \A i \in 1..Len(t) : t[i].is = "word"
    BY WordIs
  <1>7. ~HasTag(t, "<think>") /\ ~HasTag(t, "</think>")
    BY <1>1, <1>6, NoTag
  <1>8. CASE ~speech[x].inside
    <2>1. /\ r.due = <<Frame(x, "chat_token", t)>> /\ r.inside = FALSE
          /\ r.streamed = speech[x].streamed
          /\ r = [speech[x] EXCEPT !.inside = r.inside, !.streamed = r.streamed, !.due = r.due]
      BY <1>7, <1>8, SortedPlain
    <2>2. Heard(x, said, t) = <<Frame(x, "chat_token", t)>>
      BY <1>3, <1>4, <1>5, <1>8 DEF Kind, Frames
    <2> HIDE DEF r
    <2>3. QED BY <1>1, <1>2, <1>8, <2>1, <2>2 DEF Sorts, r
  <1>9. CASE speech[x].inside
    <2> DEFINE closes == HasTag(t, "</think>")
               thinking == Frames(x, "llm_thinking", IF closes THEN Before(t, "</think>") ELSE t)
    <2>1. /\ r.due = Frames(x, "chat_token", <<>>) \o thinking
                     \o (IF closes THEN Frames(x, "chat_token", After(t, "</think>")) ELSE <<>>)
          /\ r.inside = ~closes /\ r.streamed = (speech[x].streamed \/ thinking # <<>>)
          /\ r = [speech[x] EXCEPT !.inside = r.inside, !.streamed = r.streamed, !.due = r.due]
      BY <1>9, SortedThinking DEF SortedInto
    <2>2. thinking = Frames(x, "llm_thinking", t) /\ ~closes
      BY <1>7
    <2>3. thinking \in Seq(OwnFrames(x))
      BY <1>1, <2>2, FramesType
    <2>4. Frames(x, "chat_token", <<>>) = <<>>
      BY DEF Frames
    <2> HIDE DEF closes, thinking, r
    <2>5. r.due = thinking
      <3>1. r.due = <<>> \o thinking \o <<>>
        BY <2>1, <2>2, <2>4
      <3>2. QED BY <2>3, <3>1
    <2>6. Heard(x, said, t) = thinking
      BY <1>3, <1>4, <1>9, <2>2 DEF Kind
    <2>7. r.inside = TRUE /\ r.streamed \in BOOLEAN /\ (~r.streamed => ~speech[x].streamed)
      BY <1>1, <2>1, <2>2
    <2>8. QED BY <1>1, <1>2, <1>9, <2>1, <2>5, <2>6, <2>7 DEF Sorts, r
  <1>10. QED BY <1>8, <1>9

\* ... when it ends a block of thinking ...
LEMMA ClosingSorts ==
  ASSUME NEW x, speech[x] \in Speech, speech[x].inside, Inside(speech[x].said),
         NEW t \in Seq(Pieces), Around(t, "</think>"), Placed(speech[x].said, t)
  PROVE  Sorts(x, t)
  <1> DEFINE said == speech[x].said
             r == SortedToken(x, t)
  <1>1. PICK u \in Seq(WordPieces), g \in Pieces, v \in Seq(WordPieces) :
          Len(u) <= 1 /\ Len(v) <= 1 /\ g.is = "</think>" /\ t = u \o <<g>> \o v
    BY DEF Around
  <1>2. said \in Seq(Pieces) /\ u \in Seq(Pieces) /\ v \in Seq(Pieces) /\ speech[x].streamed \in BOOLEAN
    BY WordsArePieces DEF Speech
  <1>3. g.is # "word" /\ g.is # "<think>" /\ \A i \in 1..Len(u) : u[i].is # g.is
    BY <1>1, WordIs
  <1>4. HasTag(t, "</think>") /\ Before(t, "</think>") = u /\ After(t, "</think>") = v
    <2>1. SplitAt(u \o <<g>> \o v, u, g, v)
      BY <1>1, <1>2, <1>3, Partition
    <2>2. QED BY <1>1, <2>1 DEF SplitAt
  <1> DEFINE thinking == Frames(x, "llm_thinking", u)
             after == Frames(x, "chat_token", v)
  <1>5. thinking \in Seq(OwnFrames(x)) /\ after \in Seq(OwnFrames(x))
    BY <1>2, FramesType
  <1>6. /\ Heard(x, said, t) = thinking \o after
        /\ ~Inside(said \o t)
    <2>1. Placed(said, u \o <<g>> \o v)
      BY <1>1
    <2>2. TagHeard(x, said, u, g, v)
      BY <1>1, <1>2, <1>3, <2>1, OneTag
    <2>3. Kind(Inside(said)) = "llm_thinking" /\ Kind(g.is = "<think>") = "chat_token"
      BY <1>3 DEF Kind
    <2>4. QED BY <1>1, <1>3, <2>2, <2>3 DEF TagHeard
  <1>7. /\ r.due = Frames(x, "chat_token", <<>>) \o thinking \o after
        /\ r.inside = FALSE /\ r.streamed = (speech[x].streamed \/ thinking # <<>>)
        /\ r = [speech[x] EXCEPT !.inside = r.inside, !.streamed = r.streamed, !.due = r.due]
    <2> DEFINE closes == HasTag(t, "</think>")
               thought == Frames(x, "llm_thinking", IF closes THEN Before(t, "</think>") ELSE t)
    <2>1. /\ r.due = Frames(x, "chat_token", <<>>) \o thought
                     \o (IF closes THEN Frames(x, "chat_token", After(t, "</think>")) ELSE <<>>)
          /\ r.inside = ~closes /\ r.streamed = (speech[x].streamed \/ thought # <<>>)
          /\ r = [speech[x] EXCEPT !.inside = r.inside, !.streamed = r.streamed, !.due = r.due]
      BY SortedThinking DEF SortedInto
    <2>2. closes /\ thought = thinking /\ Frames(x, "chat_token", After(t, "</think>")) = after
      BY <1>4
    <2> HIDE DEF closes, thought, thinking, after, r
    <2>3. QED BY <2>1, <2>2
  <1>8. Frames(x, "chat_token", <<>>) = <<>>
    BY DEF Frames
  <1> HIDE DEF thinking, after, r
  <1>9. r.due = thinking \o after
    <2>1. r.due = <<>> \o thinking \o after
      BY <1>7, <1>8
    <2>2. QED BY <1>5, <2>1
  <1>10. r.streamed \in BOOLEAN /\ (~r.streamed => ~speech[x].streamed) /\ r.inside \in BOOLEAN /\ ~r.inside
    BY <1>2, <1>7
  <1>11. QED BY <1>6, <1>7, <1>9, <1>10 DEF Sorts, r

\* ... when it begins one ...
LEMMA OpeningSorts ==
  ASSUME NEW x, speech[x] \in Speech, ~speech[x].inside, ~Inside(speech[x].said),
         NEW t \in Seq(Pieces), Around(t, "<think>"), Placed(speech[x].said, t)
  PROVE  Sorts(x, t)
  <1> DEFINE said == speech[x].said
             r == SortedToken(x, t)
  <1>1. PICK u \in Seq(WordPieces), g \in Pieces, v \in Seq(WordPieces) :
          Len(u) <= 1 /\ Len(v) <= 1 /\ g.is = "<think>" /\ t = u \o <<g>> \o v
    BY DEF Around
  <1>2. said \in Seq(Pieces) /\ u \in Seq(Pieces) /\ v \in Seq(Pieces) /\ speech[x].streamed \in BOOLEAN
    BY WordsArePieces DEF Speech
  <1>3. g.is # "word" /\ \A i \in 1..Len(u) : u[i].is # g.is
    BY <1>1, WordIs
  <1>4. HasTag(t, "<think>") /\ Before(t, "<think>") = u /\ After(t, "<think>") = v
    <2>1. SplitAt(u \o <<g>> \o v, u, g, v)
      BY <1>1, <1>2, <1>3, Partition
    <2>2. QED BY <1>1, <2>1 DEF SplitAt
  <1>5. ~HasTag(v, "</think>")
    <2>1. \A i \in 1..Len(v) : v[i].is # "</think>"
      BY WordIs
    <2>2. QED BY <1>2, <2>1, NoTag
  <1> DEFINE pre == Frames(x, "chat_token", u)
             thinking == Frames(x, "llm_thinking", v)
  <1>6. pre \in Seq(OwnFrames(x)) /\ thinking \in Seq(OwnFrames(x))
    BY <1>2, FramesType
  <1>7. Heard(x, said, t) = pre \o thinking /\ Inside(said \o t)
    <2>1. Placed(said, u \o <<g>> \o v)
      BY <1>1
    <2>2. TagHeard(x, said, u, g, v)
      BY <1>1, <1>2, <1>3, <2>1, OneTag
    <2>3. Kind(Inside(said)) = "chat_token" /\ Kind(g.is = "<think>") = "llm_thinking"
      BY <1>1 DEF Kind
    <2>4. QED BY <1>1, <2>2, <2>3 DEF TagHeard
  <1>8. /\ r.due = pre \o thinking \o <<>>
        /\ r.inside = TRUE /\ r.streamed = (speech[x].streamed \/ thinking # <<>>)
        /\ r = [speech[x] EXCEPT !.inside = r.inside, !.streamed = r.streamed, !.due = r.due]
    <2> DEFINE closes == HasTag(v, "</think>")
               thought == Frames(x, "llm_thinking", IF closes THEN Before(v, "</think>") ELSE v)
    <2>1. /\ r.due = Frames(x, "chat_token", u) \o thought
                     \o (IF closes THEN Frames(x, "chat_token", After(v, "</think>")) ELSE <<>>)
          /\ r.inside = ~closes /\ r.streamed = (speech[x].streamed \/ thought # <<>>)
          /\ r = [speech[x] EXCEPT !.inside = r.inside, !.streamed = r.streamed, !.due = r.due]
      <3>1. SortedInto(x, t, u, v)
        BY <1>4, SortedThinking
      <3>2. QED BY <3>1 DEF SortedInto
    <2>2. ~closes /\ thought = thinking /\ Frames(x, "chat_token", u) = pre
      BY <1>5
    <2> HIDE DEF closes, thought, thinking, pre, r
    <2>3. QED BY <2>1, <2>2
  <1> HIDE DEF thinking, pre, r
  <1>9. r.due = pre \o thinking
    BY <1>6, <1>8
  <1>10. r.streamed \in BOOLEAN /\ (~r.streamed => ~speech[x].streamed) /\ r.inside \in BOOLEAN /\ r.inside
    BY <1>2, <1>8
  <1>11. QED BY <1>7, <1>8, <1>9, <1>10 DEF Sorts, r

\* ... and when it holds a block.
LEMMA BlockSorts ==
  ASSUME NEW x, speech[x] \in Speech, ~speech[x].inside, ~Inside(speech[x].said),
         NEW t1 \in Seq(Pieces), Around(t1, "<think>"), NEW h \in Pieces, h.is = "</think>",
         NEW w \in Seq(WordPieces), Len(w) <= 1,
         Placed(speech[x].said, t1 \o (<<h>> \o w))
  PROVE  Sorts(x, t1 \o (<<h>> \o w))
  <1> DEFINE said == speech[x].said
             t2 == <<h>> \o w
             t == t1 \o t2
             r == SortedToken(x, t)
             next == said \o t1
  <1>1. PICK u \in Seq(WordPieces), g \in Pieces, v \in Seq(WordPieces) :
          Len(u) <= 1 /\ Len(v) <= 1 /\ g.is = "<think>" /\ t1 = u \o <<g>> \o v
    BY DEF Around
  <1>2. /\ said \in Seq(Pieces) /\ u \in Seq(Pieces) /\ v \in Seq(Pieces) /\ w \in Seq(Pieces)
        /\ speech[x].streamed \in BOOLEAN
    BY WordsArePieces DEF Speech
  <1> DEFINE rest == v \o <<h>> \o w
  <1>30. t2 \in Seq(Pieces) /\ t2 = <<>> \o <<h>> \o w /\ rest \in Seq(Pieces)
    BY <1>2
  <1>31. t = u \o <<g>> \o rest
    <2> DEFINE L == Seq(Pieces)
               ug == u \o <<g>>
    <2>1. u \in L /\ v \in L /\ w \in L /\ <<g>> \in L /\ <<h>> \in L
      BY <1>2
    <2>2. ug \in L /\ t2 \in L
      BY <2>1
    <2>3. t = (ug \o v) \o t2 /\ rest = (v \o <<h>>) \o w
      BY <1>1
    <2>4. rest = v \o t2
      <3>1. PICK one \in Seq(Pieces) : one = <<h>>
        BY <2>1 DEF L
      <3>2. (v \o one) \o w = v \o (one \o w)
        <4>1. v \in Seq(Pieces) /\ w \in Seq(Pieces)
          BY <1>2
        <4>2. QED BY ONLY <3>1, <4>1
      <3>3. t2 = <<h>> \o w
        OBVIOUS
      <3> HIDE DEF L, rest, t2
      <3>4. QED BY <2>3, <3>1, <3>2, <3>3
    <2> HIDE DEF L, rest, t, t2, ug
    <2>5. (ug \o v) \o t2 = ug \o (v \o t2)
      <3>1. ug \in Seq(Pieces) /\ v \in Seq(Pieces) /\ t2 \in Seq(Pieces)
        BY <2>1, <2>2 DEF L
      <3>2. QED BY <3>1
    <2>7. t = ug \o rest
      BY <2>3, <2>4, <2>5
    <2>6. QED BY <2>7 DEF ug
  <1>32. next \in Seq(Pieces) /\ Len(next) = Len(said) + Len(t1) /\ Len(said) \in Nat /\ Len(t1) \in Nat
    BY <1>2
  <1>33. said \o t = next \o t2
    <2>1. t2 \in Seq(Pieces) /\ said \in Seq(Pieces)
      BY <1>2, <1>30
    <2> HIDE DEF t2, said
    <2>2. QED BY <2>1, SMTT(20)
  <1>34. /\ Len(t) = Len(t1) + Len(t2) /\ Len(t2) \in Nat
         /\ (\A i \in 1..Len(t1) : t[i] = t1[i]) /\ \A i \in 1..Len(t2) : t[Len(t1) + i] = t2[i]
    <2>1. t2 \in Seq(Pieces)
      BY <1>30
    <2> HIDE DEF t2
    <2>2. QED BY <2>1, ConcatIs
  <1>35. rest = v \o <<h>> \o w
    OBVIOUS
  <1> HIDE DEF t, t2, next, rest, said
  <1>3. /\ t2 \in Seq(Pieces) /\ t2 = <<>> \o <<h>> \o w /\ rest \in Seq(Pieces)
        /\ t = u \o <<g>> \o rest /\ next \in Seq(Pieces) /\ said \o t = next \o t2
        /\ Len(t) = Len(t1) + Len(t2) /\ Len(next) = Len(said) + Len(t1)
        /\ Len(said) \in Nat /\ Len(t1) \in Nat /\ Len(t2) \in Nat
        /\ (\A i \in 1..Len(t1) : t[i] = t1[i]) /\ \A i \in 1..Len(t2) : t[Len(t1) + i] = t2[i]
    BY <1>30, <1>31, <1>32, <1>33, <1>34
  <1>4. /\ g.is # "word" /\ h.is # "word" /\ (\A i \in 1..Len(u) : u[i].is # g.is)
        /\ \A i \in 1..Len(v) : v[i].is # h.is
    BY <1>1, WordIs
  <1>5. Placed(said, t)
    BY DEF said, t, t2
  <1>6. HasTag(t, "<think>") /\ Before(t, "<think>") = u /\ After(t, "<think>") = rest
    <2>1. SplitAt(u \o <<g>> \o rest, u, g, rest)
      BY <1>2, <1>3, <1>4, Partition
    <2>2. QED BY <1>1, <1>3, <2>1 DEF SplitAt
  <1>7. HasTag(rest, "</think>") /\ Before(rest, "</think>") = v /\ After(rest, "</think>") = w
    <2>1. SplitAt(v \o <<h>> \o w, v, h, w)
      BY <1>2, <1>4, Partition
    <2>2. QED BY <1>35, <2>1 DEF SplitAt
  <1>8. Placed(said, t1) /\ Placed(next, t2)
    <2>1. \A i \in 1..Len(t1) : i \in 1..Len(t)
      BY <1>3
    <2>2. Placed(said, t1)
      BY <1>3, <1>5, <2>1 DEF Placed
    <2>3. ASSUME NEW i \in 1..Len(t2) PROVE t2[i].at = Len(next) + i
      <3> DEFINE k == Len(t1) + i
      <3>1. /\ k \in 1..Len(t) /\ Len(said) + k = Len(next) + i
        BY <1>3
      <3>2. t[k] = t2[i]
        BY <1>3
      <3> HIDE DEF k
      <3>3. t[k].at = Len(said) + k
        BY <1>5, <3>1 DEF Placed
      <3>4. QED BY <3>1, <3>2, <3>3
    <2>4. QED BY <2>2, <2>3 DEF Placed
  <1> DEFINE pre == Frames(x, "chat_token", u)
             thinking == Frames(x, "llm_thinking", v)
             after == Frames(x, "chat_token", w)
  <1>9. pre \in Seq(OwnFrames(x)) /\ thinking \in Seq(OwnFrames(x)) /\ after \in Seq(OwnFrames(x))
    BY <1>2, FramesType
  <1>10. Heard(x, said, t1) = pre \o thinking
    <2>1. Placed(said, u \o <<g>> \o v)
      BY <1>1, <1>8
    <2>2. TagHeard(x, said, u, g, v)
      BY <1>1, <1>2, <1>4, <2>1, OneTag
    <2>3. Kind(Inside(said)) = "chat_token" /\ Kind(g.is = "<think>") = "llm_thinking"
      BY <1>1 DEF Kind, said
    <2>4. QED BY <1>1, <2>2, <2>3 DEF TagHeard
  <1>11. Heard(x, next, t2) = after /\ ~Inside(said \o t)
    <2> DEFINE none == <<>>
    <2>0. none \in Seq(WordPieces) /\ Len(none) = 0 /\ Len(none) <= 1
      OBVIOUS
    <2>1. t2 = none \o <<h>> \o w
      BY <1>3
    <2> HIDE DEF none
    <2>2. Placed(next, none \o <<h>> \o w)
      BY <1>8, <2>1
    <2>3. TagHeard(x, next, none, h, w)
      BY <1>3, <1>4, <2>0, <2>2, OneTag
    <2>4. Kind(h.is = "<think>") = "chat_token" /\ h.is # "<think>"
      BY DEF Kind
    <2>5. Frames(x, Kind(Inside(next)), none) = <<>>
      BY DEF Frames, none
    <2>6. Heard(x, next, t2) = <<>> \o after /\ ~Inside(next \o t2)
      BY <2>1, <2>3, <2>4, <2>5 DEF TagHeard
    <2>7. \A a \in Seq(OwnFrames(x)) : <<>> \o a = a
      OBVIOUS
    <2> HIDE DEF after
    <2>8. QED BY <1>3, <1>9, <2>6, <2>7
  <1>12. Heard(x, said, t) = pre \o thinking \o after
    <2>1. HeardInTurn(x, said, t1, t2)
      BY <1>2, <1>3, <1>8, HeardNext
    <2>2. QED BY <1>10, <1>11, <2>1 DEF HeardInTurn, t, next
  <1>13. /\ r.due = pre \o thinking \o after
         /\ r.inside = FALSE /\ r.streamed = (speech[x].streamed \/ thinking # <<>>)
         /\ r = [speech[x] EXCEPT !.inside = r.inside, !.streamed = r.streamed, !.due = r.due]
    <2> DEFINE closes == HasTag(rest, "</think>")
               thought == Frames(x, "llm_thinking", IF closes THEN Before(rest, "</think>") ELSE rest)
    <2>1. /\ r.due = Frames(x, "chat_token", u) \o thought
                     \o (IF closes THEN Frames(x, "chat_token", After(rest, "</think>")) ELSE <<>>)
          /\ r.inside = ~closes /\ r.streamed = (speech[x].streamed \/ thought # <<>>)
          /\ r = [speech[x] EXCEPT !.inside = r.inside, !.streamed = r.streamed, !.due = r.due]
      <3>1. SortedInto(x, t, u, rest)
        BY <1>6, SortedThinking
      <3>2. QED BY <3>1 DEF SortedInto
    <2>2. closes /\ thought = thinking /\ Frames(x, "chat_token", u) = pre
          /\ Frames(x, "chat_token", After(rest, "</think>")) = after
      BY <1>7
    <2> HIDE DEF closes, thought, thinking, pre, after, r
    <2>3. QED BY <2>1, <2>2
  <1> HIDE DEF thinking, pre, after, r
  <1>14. r.streamed \in BOOLEAN /\ (~r.streamed => ~speech[x].streamed) /\ r.inside \in BOOLEAN /\ ~r.inside
    BY <1>2, <1>13
  <1>15. Sorts(x, t)
    BY <1>11, <1>12, <1>13, <1>14 DEF Sorts, r, said
  <1>16. QED BY <1>15 DEF t, t2

\* The tags of a well formed text say whether it continues a thought.
LEMMA AroundFits ==
  ASSUME NEW said \in Seq(Pieces), NEW t \in Seq(Pieces), NEW m, m # "word", Around(t, m),
         WellFormed(said \o t)
  PROVE  (Inside(said) <=> m = "</think>") /\ Len(t) >= 1
  <1>1. PICK u \in Seq(WordPieces), g \in Pieces, v \in Seq(WordPieces) : g.is = m /\ t = u \o <<g>> \o v
    BY DEF Around
  <1>2. u \in Seq(Pieces) /\ v \in Seq(Pieces)
    BY WordsArePieces
  <1> DEFINE s == said \o u
  <1>3. s \in Seq(Pieces) /\ said \o t = s \o <<g>> \o v
    BY <1>1, <1>2, SMTT(20)
  <1>4. Inside(s) <=> Inside(said)
    BY ThoughtWords
  <1> HIDE DEF s
  <1>5. WellFormed(s \o <<g>> \o v) /\ g.is # "word"
    BY <1>1, <1>3
  <1>6. (g.is = "</think>") = Inside(s)
    BY <1>2, <1>3, <1>5, TagsFit
  <1>7. Len(t) >= 1
    BY <1>1, <1>2
  <1>8. QED BY <1>1, <1>4, <1>6, <1>7 DEF Inside, Thought

\* Any token the model may say is sorted as it should be.
LEMMA TokenSorts ==
  ASSUME NEW x, speech[x] \in Speech, NEW token \in TokenShapes, NEW t,
         t = Numbered(speech[x].said, token), WellFormed(speech[x].said \o t),
         WellFormed(speech[x].said) => (speech[x].inside <=> Inside(speech[x].said))
  PROVE  Sorts(x, t) /\ t \in Seq(Pieces) /\ Len(t) >= 1
  <1> DEFINE said == speech[x].said
  <1>1. said \in Seq(Pieces) /\ speech[x].inside \in BOOLEAN
    BY DEF Speech
  <1>2. PICK u \in Optional, v \in Optional, w \in Optional :
          token \in {<<"word">>, u \o <<"<think>">> \o v, u \o <<"</think>">> \o v,
                     u \o <<"<think>">> \o v \o <<"</think>">> \o w}
    BY TokenAssumption DEF Optional
  <1>3. /\ u \in Seq(Marks) /\ v \in Seq(Marks) /\ w \in Seq(Marks)
        /\ "<think>" \in Marks /\ "</think>" \in Marks /\ <<"word">> \in Optional
    BY OptionalIs DEF Marks, Optional
  <1>4. token \in Seq(Marks)
    <2>1. <<"word">> \in Seq(Marks)
      BY DEF Marks
    <2>2. <<"<think>">> \in Seq(Marks) /\ <<"</think>">> \in Seq(Marks)
      BY <1>3
    <2>3. u \o <<"<think>">> \o v \in Seq(Marks)
      BY <1>3, <2>2
    <2>4. u \o <<"</think>">> \o v \in Seq(Marks)
      BY <1>3, <2>2
    <2>5. u \o <<"<think>">> \o v \o <<"</think>">> \o w \in Seq(Marks)
      BY <1>3, <2>2, <2>3
    <2>6. QED BY <1>2, <2>1, <2>3, <2>4, <2>5
  <1>5. t \in Seq(Pieces) /\ Placed(said, t)
    <2>1. Marks \subseteq Marks
      OBVIOUS
    <2>2. QED BY <1>1, <1>4, <2>1, NumberedType
  <1> HIDE DEF said
  <1>6. WellFormed(said \o t) /\ WellFormed(said)
    BY <1>1, <1>5, WellFormedBefore DEF said
  <1>7. speech[x].inside <=> Inside(said)
    BY <1>6 DEF said
  <1>8. CASE token = <<"word">>
    <2>1. t \in Seq(WordPieces) /\ Len(t) <= 1 /\ Len(t) = Len(token)
      <3>1. t \in Seq(WordPieces) /\ Len(t) <= 1
        BY <1>1, <1>3, <1>8, NumberedWords DEF said
      <3>2. Marks \subseteq Marks
        OBVIOUS
      <3>3. Len(t) = Len(token)
        BY <1>1, <1>4, <3>2, NumberedType DEF said
      <3>4. QED BY <3>1, <3>3
    <2>2. Len(t) = 1
      BY <1>8, <2>1
    <2>3. Sorts(x, t)
      BY <1>5, <1>7, <2>1, <2>2, PlainSorts DEF said
    <2>4. QED BY <1>5, <2>2, <2>3
  <1>9. CASE token = u \o <<"<think>">> \o v
    <2>1. Around(t, "<think>")
      <3>1. Around(Numbered(said, u \o <<"<think>">> \o v), "<think>")
        BY <1>1, <1>3, NumberedAround
      <3>2. QED BY <1>9, <3>1 DEF said
    <2>2. ~Inside(said) /\ Len(t) >= 1
      BY <1>1, <1>5, <1>6, <2>1, AroundFits
    <2>3. Sorts(x, t)
      BY <1>5, <1>7, <2>1, <2>2, OpeningSorts DEF said
    <2>4. QED BY <1>5, <2>2, <2>3
  <1>10. CASE token = u \o <<"</think>">> \o v
    <2>1. Around(t, "</think>")
      <3>1. Around(Numbered(said, u \o <<"</think>">> \o v), "</think>")
        BY <1>1, <1>3, NumberedAround
      <3>2. QED BY <1>10, <3>1 DEF said
    <2>2. Inside(said) /\ Len(t) >= 1
      BY <1>1, <1>5, <1>6, <2>1, AroundFits
    <2>3. Sorts(x, t)
      BY <1>5, <1>7, <2>1, <2>2, ClosingSorts DEF said
    <2>4. QED BY <1>5, <2>2, <2>3
  <1>11. CASE token = u \o <<"<think>">> \o v \o <<"</think>">> \o w
    <2> DEFINE k == u \o <<"<think>">> \o v
               l == <<"</think>">> \o w
               t1 == Numbered(said, k)
               s == said \o t1
               h == [is |-> "</think>", at |-> Len(s) + 1]
               s2 == s \o <<h>>
               W == Numbered(s2, w)
    <2>1. k \in Seq(Marks) /\ l \in Seq(Marks) /\ <<"</think>">> \in Seq(Marks)
      BY <1>3
    <2>2. token = k \o l
      BY <1>3, <1>11, <2>1
    <2>3. t1 \in Seq(Pieces)
      <3>1. Marks \subseteq Marks
        OBVIOUS
      <3> HIDE DEF k
      <3>2. QED BY <1>1, <2>1, <3>1, NumberedType
    <2>4. s \in Seq(Pieces)
      BY <1>1, <2>3
    <2>5. Around(t1, "<think>")
      BY <1>1, <1>3, NumberedAround
    <2>6. t = t1 \o Numbered(s, l)
      <3> HIDE DEF k, l
      <3>1. Numbered(said, k \o l) = Numbered(said, k) \o Numbered(said \o Numbered(said, k), l)
        BY <1>1, <2>1, NumberedParts
      <3>2. QED BY <2>2, <3>1 DEF said
    <2>7. Numbered(s, <<"</think>">>) = <<h>> /\ h \in Pieces
      <3> HIDE DEF s
      <3>1. QED BY <1>3, <2>4, NumberedOne
    <2>8. Numbered(s, l) = <<h>> \o W
      <3> HIDE DEF s, h
      <3>1. Numbered(s, <<"</think>">> \o w) = Numbered(s, <<"</think>">>)
                                               \o Numbered(s \o Numbered(s, <<"</think>">>), w)
        BY <1>3, <2>1, <2>4, NumberedParts
      <3>2. QED BY <2>7, <3>1
    <2>9. W \in Seq(WordPieces) /\ Len(W) <= 1
      <3>1. s2 \in Seq(Pieces)
        BY <2>4, <2>7
      <3> HIDE DEF s2
      <3>2. QED BY <3>1, NumberedWords
    <2>10. h.is = "</think>"
      OBVIOUS
    <2> HIDE DEF k, l, t1, s, h, s2, W
    <2>11. t = t1 \o (<<h>> \o W)
      BY <2>6, <2>8
    <2>12. WellFormed(said \o t1)
      <3> DEFINE t2 == <<h>> \o W
      <3>1. t2 \in Seq(Pieces)
        BY <2>7, <2>9, WordsArePieces
      <3>2. said \o t = s \o t2
        <4>1. t = t1 \o t2
          BY <2>11
        <4> HIDE DEF t2
        <4>2. (said \o t1) \o t2 = said \o (t1 \o t2)
          BY <1>1, <2>3, <3>1
        <4>3. QED BY <4>1, <4>2 DEF s
      <3> HIDE DEF t2
      <3>3. QED BY <1>6, <2>4, <3>1, <3>2, WellFormedBefore DEF s
    <2>13. ~Inside(said) /\ Len(t1) >= 1
      BY <1>1, <2>3, <2>5, <2>12, AroundFits
    <2>14. Len(t) >= 1
      BY <2>3, <2>7, <2>9, <2>11, <2>13, WordsArePieces
    <2>15. Sorts(x, t)
      <3>1. Placed(speech[x].said, t1 \o (<<h>> \o W))
        BY <1>5, <2>11 DEF said
      <3>2. ~speech[x].inside /\ ~Inside(speech[x].said)
        BY <1>7, <2>13 DEF said
      <3>3. Sorts(x, t1 \o (<<h>> \o W))
        BY <2>3, <2>5, <2>7, <2>9, <2>10, <3>1, <3>2, BlockSorts
      <3>4. QED BY <2>11, <3>3
    <2>16. QED BY <1>5, <2>14, <2>15
  <1>12. QED BY <1>2, <1>8, <1>9, <1>10, <1>11

-----------------------------------------------------------------------------
(* Delivery: whatever a turn says comes to whoever is connected. *)

\* Connections have numbers of their own; the table of a replica names a connection at
\* its own place only; an open one that never shared its place is the one it names,
\* and alone there.
Connection == [at : {"open", "gone"}, talk : Talks, pod : Pods, number : 1..passed.connects]
PassedFit == passed \in [connects : Nat, turns : 0..MaxSpeeches, asked : Nat, tokens : Nat, cuts : Nat]
TablesFit ==
    /\ socket \in [Sockets -> {NoSocket} \cup Connection]
    /\ table \in [Pods -> [Talks -> 0..passed.connects]]
NumbersApart ==
    \A s, o \in Sockets : socket[s] # NoSocket /\ socket[o] # NoSocket
                          /\ socket[s].number = socket[o].number => s = o
OwnPlace ==
    \A s \in Sockets, p \in Pods, c \in Talks :
      socket[s] # NoSocket /\ table[p][c] = socket[s].number => socket[s].pod = p /\ socket[s].talk = c
AloneThere ==
    \A s \in Sockets : socket[s].at = "open" /\ s \notin crossed =>
      /\ table[socket[s].pod][socket[s].talk] = socket[s].number
      /\ \A o \in Sockets \ {s} : ~(socket[o].pod = socket[s].pod /\ socket[o].talk = socket[s].talk)

\* Speakers have turns of their own and the frames of their own turn; in a call, the
\* callbacks know whether what was said ends in a thought.
TurnFits(r, n) ==
    /\ r.turn \in 1..n /\ r.talk \in Talks
    /\ r.blocks \in Seq(AnyFrame({r.turn}, {r.talk})) /\ r.due \in Seq(AnyFrame({r.turn}, {r.talk}))
CallFits(r) ==
    /\ r.streamed => r.said # <<>>
    /\ ~r.streamed => r.blocks = <<>>
    /\ WellFormed(r.said) => (r.inside <=> Inside(r.said))
SpeechFits(r, n) ==
    /\ r \in Speech
    /\ r # Silent => r.at # "quiet" /\ TurnFits(r, n)
    /\ r.at = "call" => CallFits(r)
SpeechesFit ==
    /\ speech \in [Speakers -> Speech] /\ \A x \in Speakers : SpeechFits(speech[x], passed.turns)
    /\ \A x, y \in Speakers : speech[x] # Silent /\ speech[x].turn = speech[y].turn => x = y

WiresFit == wire \in [Pods -> Seq(AF)]

PlacesFit == PassedFit /\ TablesFit /\ NumbersApart /\ OwnPlace /\ AloneThere
DeliveryInv == PlacesFit /\ SpeechesFit /\ WiresFit /\ Streamed

LEMMA PlacesInit == dlInit => PlacesFit
  <1> SUFFICES ASSUME dlInit PROVE PlacesFit
    OBVIOUS
  <1> USE DeliveryAssumption DEF dlInit
  <1>1. PassedFit
    BY DEF PassedFit
  <1>2. TablesFit
    BY DEF TablesFit
  <1>3. NumbersApart /\ OwnPlace
    BY DEF NumbersApart, OwnPlace
  <1>4. AloneThere
    BY DEF AloneThere, NoSocket
  <1>5. QED BY <1>1, <1>2, <1>3, <1>4 DEF PlacesFit

\* What a step does that opens no connection and ends none.
LEMMA PlacesStay ==
  ASSUME PlacesFit, PassedFit', UNCHANGED <<socket, table, crossed>>, passed'.connects = passed.connects
  PROVE  PlacesFit'
  <1>1. TablesFit'
    BY DEF PlacesFit, TablesFit, Connection
  <1>2. NumbersApart' /\ OwnPlace' /\ AloneThere'
    BY DEF PlacesFit, NumbersApart, OwnPlace, AloneThere
  <1>3. QED BY <1>1, <1>2 DEF PlacesFit

LEMMA PassedStays ==
  ASSUME PassedFit, NEW what \in {"asked", "tokens", "cuts"}, Counts(what)
  PROVE  PassedFit' /\ passed'.connects = passed.connects /\ passed'.turns = passed.turns
  BY DEF PassedFit, Counts

\* A connection: its fields.
LEMMA ConnectionIs ==
  ASSUME PlacesFit, NEW s \in Sockets
  PROVE  /\ socket[s] = NoSocket <=> socket[s].at = "off"
         /\ socket[s] # NoSocket => /\ socket[s].at \in {"open", "gone"} /\ socket[s].talk \in Talks
                                    /\ socket[s].pod \in Pods /\ socket[s].number \in 1..passed.connects
         /\ socket[s].pod \in Pods => socket[s] # NoSocket
         /\ passed.connects \in Nat
  <1>1. socket[s] = NoSocket \/ socket[s] \in Connection
    BY DEF PlacesFit, TablesFit
  <1>2. passed.connects \in Nat
    BY DEF PlacesFit, PassedFit
  <1>3. NoSocket.at = "off" /\ NoSocket.pod \notin Pods
    BY DeliveryAssumption DEF NoSocket
  <1>4. CASE socket[s] = NoSocket
    BY <1>2, <1>3, <1>4
  <1>5. CASE socket[s] \in Connection
    <2>1. /\ socket[s].at \in {"open", "gone"} /\ socket[s].talk \in Talks
          /\ socket[s].pod \in Pods /\ socket[s].number \in 1..passed.connects
      BY <1>5 DEF Connection
    <2>2. socket[s] # NoSocket
      BY <1>3, <2>1
    <2>3. QED BY <1>2, <2>1, <2>2
  <1>6. QED BY <1>1, <1>4, <1>5

LEMMA PlacesOpen ==
  ASSUME PlacesFit, NEW s \in Sockets, NEW c \in Talks, NEW p \in Pods, OpenSocket(s, c, p)
  PROVE  PlacesFit'
  <1> DEFINE n == passed.connects + 1
             fresh == [at |-> "open", talk |-> c, pod |-> p, number |-> n]
             others == {o \in Sockets \ {s} : socket[o].talk = c /\ socket[o].pod = p}
  <1>0. /\ socket[s] = NoSocket /\ socket' = [socket EXCEPT ![s] = fresh]
        /\ table' = [table EXCEPT ![p][c] = n]
        /\ crossed' = IF others = {} THEN crossed \ {s} ELSE crossed \cup others \cup {s}
        /\ passed' = [passed EXCEPT !.connects = @ + 1]
    BY DEF OpenSocket, Counts
  <1>1. PassedFit' /\ passed'.connects = n /\ passed.connects \in Nat /\ n \in Nat
    BY <1>0 DEF PlacesFit, PassedFit
  <1>2. /\ socket'[s] = fresh /\ (\A o \in Sockets \ {s} : socket'[o] = socket[o])
        /\ \A q \in Pods, d \in Talks : table'[q][d] = IF q = p /\ d = c THEN n ELSE table[q][d]
    BY <1>0 DEF PlacesFit, TablesFit
  <1>3. \A o \in Sockets \ {s} : socket'[o] # NoSocket => socket'[o].number # n /\ socket'[o].number \in 1..passed.connects
    BY <1>1, <1>2, ConnectionIs
  <1>4. \A q \in Pods, d \in Talks : table[q][d] \in 0..passed.connects /\ table[q][d] # n
    BY <1>1 DEF PlacesFit, TablesFit
  <1>5. /\ fresh.at = "open" /\ fresh.talk = c /\ fresh.pod = p /\ fresh.number = n
        /\ fresh # NoSocket
    BY DEF NoSocket
  <1>6. TablesFit'
    <2>1. Connection \subseteq Connection'
      BY <1>1 DEF Connection
    <2>2. fresh \in Connection'
      BY <1>1 DEF Connection
    <2>3. socket' \in [Sockets -> {NoSocket} \cup Connection']
      BY <1>0, <2>1, <2>2 DEF PlacesFit, TablesFit
    <2>4. 0..passed.connects \subseteq 0..n /\ n \in 0..n
      BY <1>1
    <2>5. table' \in [Pods -> [Talks -> 0..n]]
      BY <1>0, <2>4 DEF PlacesFit, TablesFit
    <2>6. QED BY <1>1, <2>3, <2>5 DEF TablesFit
  <1> HIDE DEF fresh, n
  <1>7. NumbersApart'
    <2> SUFFICES ASSUME NEW a \in Sockets, NEW o \in Sockets, socket'[a] # NoSocket, socket'[o] # NoSocket,
                        socket'[a].number = socket'[o].number
                 PROVE  a = o
      BY DEF NumbersApart
    <2>1. CASE a # s /\ o # s
      BY <1>2, <2>1 DEF PlacesFit, NumbersApart
    <2>2. CASE a = s \/ o = s
      BY <1>2, <1>3, <1>5, <2>2
    <2>3. QED BY <2>1, <2>2
  <1>8. OwnPlace'
    <2> SUFFICES ASSUME NEW a \in Sockets, NEW q \in Pods, NEW d \in Talks, socket'[a] # NoSocket,
                        table'[q][d] = socket'[a].number
                 PROVE  socket'[a].pod = q /\ socket'[a].talk = d
      BY DEF OwnPlace
    <2>1. CASE a = s
      BY <1>2, <1>4, <1>5, <2>1
    <2>2. CASE a # s
      <3>1. ~(q = p /\ d = c) /\ table[q][d] = socket[a].number
        BY <1>2, <1>3, <2>2
      <3>2. QED BY <1>2, <2>2, <3>1 DEF PlacesFit, OwnPlace
    <2>3. QED BY <2>1, <2>2
  <1>9. AloneThere'
    <2> SUFFICES ASSUME NEW a \in Sockets, socket'[a].at = "open", a \notin crossed'
                 PROVE  /\ table'[socket'[a].pod][socket'[a].talk] = socket'[a].number
                        /\ \A o \in Sockets \ {a} : ~(socket'[o].pod = socket'[a].pod /\ socket'[o].talk = socket'[a].talk)
      BY DEF AloneThere
    <2>1. CASE a = s
      <3>1. others = {}
        BY <1>0, <2>1
      <3>2. QED BY <1>2, <1>5, <2>1, <3>1
    <2>2. CASE a # s
      <3>1. a \notin crossed /\ a \notin others
        BY <1>0, <2>2
      <3>2. socket'[a] = socket[a] /\ ~(socket[a].talk = c /\ socket[a].pod = p)
        BY <1>2, <2>2, <3>1
      <3>3. /\ table[socket[a].pod][socket[a].talk] = socket[a].number
            /\ \A o \in Sockets \ {a} : ~(socket[o].pod = socket[a].pod /\ socket[o].talk = socket[a].talk)
        BY <3>1, <3>2 DEF PlacesFit, AloneThere
      <3>4. socket[a].pod \in Pods /\ socket[a].talk \in Talks
        BY <3>2, ConnectionIs
      <3>5. QED BY <1>2, <1>5, <2>2, <3>2, <3>3, <3>4
    <2>3. QED BY <2>1, <2>2
  <1>10. QED BY <1>1, <1>6, <1>7, <1>8, <1>9 DEF PlacesFit

\* A connection that is over, or whose client is gone.
LEMMA PlacesEnd ==
  ASSUME PlacesFit, PassedFit', passed'.connects = passed.connects,
         socket' \in [Sockets -> {NoSocket} \cup Connection],
         \A o \in Sockets : socket'[o] # NoSocket =>
           /\ socket[o] # NoSocket /\ socket'[o].pod = socket[o].pod
           /\ socket'[o].talk = socket[o].talk /\ socket'[o].number = socket[o].number
           /\ socket'[o].at = "open" => socket[o].at = "open",
         table' \in [Pods -> [Talks -> 0..passed.connects]],
         \A q \in Pods, d \in Talks : table'[q][d] # table[q][d] =>
           /\ table'[q][d] = 0
           /\ \A o \in Sockets : socket'[o].at = "open" /\ socket'[o].pod = q /\ socket'[o].talk = d => o \in crossed',
         \A o \in Sockets : socket'[o].at = "open" /\ o \notin crossed' => o \notin crossed
  PROVE  PlacesFit'
  <1>0. /\ \A o \in Sockets : socket'[o].at = "open" => socket'[o] # NoSocket
        /\ \A o \in Sockets : socket'[o] # NoSocket => socket'[o].number # 0
        /\ \A o \in Sockets : socket'[o].pod \in Pods => socket'[o] # NoSocket
    <2>1. \A o \in Sockets : socket'[o].at = "open" => socket'[o] # NoSocket
      BY DEF NoSocket
    <2>2. \A o \in Sockets : socket'[o] # NoSocket => socket'[o].number # 0
      BY ConnectionIs
    <2>3. \A o \in Sockets : socket'[o].pod \in Pods => socket'[o] # NoSocket
      BY DeliveryAssumption DEF NoSocket
    <2>4. QED BY <2>1, <2>2, <2>3
  <1>1. TablesFit'
    BY DEF TablesFit, Connection
  <1>2. NumbersApart'
    BY DEF PlacesFit, NumbersApart
  <1>3. OwnPlace'
    <2> SUFFICES ASSUME NEW a \in Sockets, NEW q \in Pods, NEW d \in Talks, socket'[a] # NoSocket,
                        table'[q][d] = socket'[a].number
                 PROVE  socket'[a].pod = q /\ socket'[a].talk = d
      BY DEF OwnPlace
    <2>1. table[q][d] = socket[a].number
      BY <1>0
    <2>2. QED BY <2>1 DEF PlacesFit, OwnPlace
  <1>4. AloneThere'
    <2> SUFFICES ASSUME NEW a \in Sockets, socket'[a].at = "open", a \notin crossed'
                 PROVE  /\ table'[socket'[a].pod][socket'[a].talk] = socket'[a].number
                        /\ \A o \in Sockets \ {a} : ~(socket'[o].pod = socket'[a].pod /\ socket'[o].talk = socket'[a].talk)
      BY DEF AloneThere
    <2>1. socket'[a] # NoSocket /\ socket[a] # NoSocket /\ socket[a].at = "open" /\ a \notin crossed
      BY <1>0
    <2>2. /\ table[socket[a].pod][socket[a].talk] = socket[a].number
          /\ \A o \in Sockets \ {a} : ~(socket[o].pod = socket[a].pod /\ socket[o].talk = socket[a].talk)
      BY <2>1 DEF PlacesFit, AloneThere
    <2>3. socket[a].pod \in Pods /\ socket[a].talk \in Talks /\ socket'[a].pod \in Pods
      BY <2>1, ConnectionIs
    <2>4. table'[socket'[a].pod][socket'[a].talk] = table[socket[a].pod][socket[a].talk]
      BY <2>1, <2>3
    <2>5. ASSUME NEW o \in Sockets \ {a}, socket'[o].pod = socket'[a].pod, socket'[o].talk = socket'[a].talk
          PROVE  FALSE
      <3>1. socket'[o] # NoSocket
        BY <1>0, <2>3, <2>5
      <3>2. socket[o].pod = socket[a].pod /\ socket[o].talk = socket[a].talk
        BY <2>1, <2>5, <3>1
      <3>3. QED BY <2>2, <3>2
    <2>6. QED BY <2>1, <2>2, <2>4, <2>5
  <1>5. QED BY <1>1, <1>2, <1>3, <1>4 DEF PlacesFit

LEMMA PlacesLeave ==
  ASSUME PlacesFit, NEW s \in Sockets, Leave(s)
  PROVE  PlacesFit'
  <1>1. /\ socket[s].at = "open" /\ socket' = [socket EXCEPT ![s].at = "gone"]
        /\ crossed' = crossed \ {s} /\ table' = table /\ passed' = passed
    BY DEF Leave
  <1>2. socket[s] \in Connection
    BY <1>1 DEF PlacesFit, TablesFit, NoSocket
  <1> DEFINE r == [socket[s] EXCEPT !.at = "gone"]
  <1>3. /\ r \in Connection /\ r.pod = socket[s].pod /\ r.talk = socket[s].talk
        /\ r.number = socket[s].number /\ r.at = "gone"
    BY <1>2 DEF Connection
  <1>4. socket'[s] = r /\ \A o \in Sockets \ {s} : socket'[o] = socket[o]
    BY <1>1 DEF PlacesFit, TablesFit
  <1>5. socket' \in [Sockets -> {NoSocket} \cup Connection]
    BY <1>1, <1>3 DEF PlacesFit, TablesFit
  <1> HIDE DEF r
  <1>6. \A o \in Sockets : socket'[o] # NoSocket =>
           /\ socket[o] # NoSocket /\ socket'[o].pod = socket[o].pod
           /\ socket'[o].talk = socket[o].talk /\ socket'[o].number = socket[o].number
           /\ socket'[o].at = "open" => socket[o].at = "open"
    BY <1>1, <1>3, <1>4, ConnectionIs
  <1>7. \A o \in Sockets : socket'[o].at = "open" /\ o \notin crossed' => o \notin crossed
    BY <1>1, <1>3, <1>4
  <1>8. PassedFit' /\ table' \in [Pods -> [Talks -> 0..passed.connects]] /\ passed'.connects = passed.connects
    BY <1>1 DEF PlacesFit, PassedFit, TablesFit
  <1>9. QED BY <1>1, <1>5, <1>6, <1>7, <1>8, PlacesEnd

LEMMA PlacesHandler ==
  ASSUME PlacesFit, NEW s \in Sockets, HandlerEnds(s) \/ HandlerFails(s)
  PROVE  PlacesFit'
  <1>1. /\ socket[s].at \in {"open", "gone"} /\ socket' = [socket EXCEPT ![s] = NoSocket]
        /\ crossed' \in {crossed, crossed \ {s}}
    BY DEF HandlerEnds, HandlerFails
  <1>2. socket'[s] = NoSocket /\ \A o \in Sockets \ {s} : socket'[o] = socket[o]
    BY <1>1 DEF PlacesFit, TablesFit
  <1>3. socket' \in [Sockets -> {NoSocket} \cup Connection]
    BY <1>1 DEF PlacesFit, TablesFit
  <1>4. \A o \in Sockets : socket'[o] # NoSocket =>
           /\ socket[o] # NoSocket /\ socket'[o].pod = socket[o].pod
           /\ socket'[o].talk = socket[o].talk /\ socket'[o].number = socket[o].number
           /\ socket'[o].at = "open" => socket[o].at = "open"
    BY <1>2
  <1>5. \A o \in Sockets : socket'[o].at = "open" /\ o \notin crossed' => o \notin crossed
    BY <1>1, <1>2 DEF NoSocket
  <1>6. CASE HandlerFails(s)
    <2>1. PassedFit' /\ passed'.connects = passed.connects
      BY <1>6, PassedStays DEF HandlerFails, PlacesFit
    <2>2. table' = table /\ table' \in [Pods -> [Talks -> 0..passed.connects]]
      BY <1>6 DEF HandlerFails, PlacesFit, TablesFit
    <2>3. QED BY <1>3, <1>4, <1>5, <2>1, <2>2, PlacesEnd
  <1>7. CASE HandlerEnds(s)
    <2> DEFINE p == socket[s].pod
               c == socket[s].talk
    <2>0. socket[s].at = "gone" /\ crossed' = crossed /\ passed' = passed
          /\ table' = [table EXCEPT ![p][c] = 0]
      BY <1>7 DEF HandlerEnds
    <2>1. PassedFit' /\ passed'.connects = passed.connects
      BY <2>0 DEF PlacesFit, PassedFit
    <2>2. socket[s] # NoSocket /\ p \in Pods /\ c \in Talks /\ passed.connects \in Nat
      BY <2>0, ConnectionIs DEF NoSocket
    <2> HIDE DEF p, c
    <2>3. table' \in [Pods -> [Talks -> 0..passed.connects]]
      BY <2>0, <2>2 DEF PlacesFit, TablesFit
    <2>4. \A q \in Pods, d \in Talks : table'[q][d] = IF q = p /\ d = c THEN 0 ELSE table[q][d]
      BY <2>0, <2>2 DEF PlacesFit, TablesFit
    <2>5. ASSUME NEW o \in Sockets, socket'[o].at = "open", socket'[o].pod = p, socket'[o].talk = c
          PROVE  o \in crossed'
      <3>1. o # s /\ socket[o].at = "open" /\ socket[o].pod = p /\ socket[o].talk = c
        BY <1>2, <2>5 DEF NoSocket
      <3>2. o \in crossed
        BY <3>1 DEF PlacesFit, AloneThere, p, c
      <3>3. QED BY <2>0, <3>2
    <2>6. \A q \in Pods, d \in Talks : table'[q][d] # table[q][d] =>
           /\ table'[q][d] = 0
           /\ \A o \in Sockets : socket'[o].at = "open" /\ socket'[o].pod = q /\ socket'[o].talk = d => o \in crossed'
      BY <2>4, <2>5
    <2>7. QED BY <1>3, <1>4, <1>5, <2>1, <2>3, <2>6, PlacesEnd
  <1>8. QED BY <1>6, <1>7

LEMMA PlacesClose ==
  ASSUME PlacesFit, NEW p \in Pods, CloseAll(p)
  PROVE  PlacesFit'
  <1>1. /\ Counts("cuts") /\ crossed' = crossed
        /\ socket' = [s \in Sockets |-> IF socket[s].pod = p THEN [socket[s] EXCEPT !.at = "gone"] ELSE socket[s]]
        /\ table' = [table EXCEPT ![p] = [c \in Talks |-> 0]]
    BY DEF CloseAll, PodEnds
  <1>2. PassedFit' /\ passed'.connects = passed.connects
    BY <1>1, PassedStays DEF PlacesFit
  <1>3. ASSUME NEW s \in Sockets
        PROVE  /\ socket'[s] \in {NoSocket} \cup Connection
               /\ socket'[s] # NoSocket => socket[s] # NoSocket
               /\ socket'[s].pod = socket[s].pod /\ socket'[s].talk = socket[s].talk
               /\ socket'[s].number = socket[s].number
               /\ socket'[s].at = "open" => socket[s].at = "open" /\ socket[s].pod # p
    <2>1. CASE socket[s].pod = p
      <3>1. socket[s] \in Connection
        <4>1. socket[s] # NoSocket
          BY <2>1, ConnectionIs
        <4>2. QED BY <4>1 DEF PlacesFit, TablesFit
      <3> DEFINE r == [socket[s] EXCEPT !.at = "gone"]
      <3>2. socket'[s] = r
        BY <1>1, <2>1
      <3>3. r \in Connection /\ r.pod = socket[s].pod /\ r.talk = socket[s].talk
            /\ r.number = socket[s].number /\ r.at = "gone"
        BY <3>1 DEF Connection
      <3>4. socket[s] # NoSocket
        BY <2>1, ConnectionIs
      <3> HIDE DEF r
      <3>5. QED BY <3>2, <3>3, <3>4
    <2>2. CASE socket[s].pod # p
      <3>1. socket'[s] = socket[s]
        BY <1>1, <2>2
      <3>2. QED BY <2>2, <3>1 DEF PlacesFit, TablesFit
    <2>3. QED BY <2>1, <2>2
  <1>4. socket' \in [Sockets -> {NoSocket} \cup Connection]
    <2>1. socket' = [s \in Sockets |-> socket'[s]]
      BY <1>1
    <2>2. QED BY <1>3, <2>1
  <1>5. \A o \in Sockets : socket'[o] # NoSocket =>
           /\ socket[o] # NoSocket /\ socket'[o].pod = socket[o].pod
           /\ socket'[o].talk = socket[o].talk /\ socket'[o].number = socket[o].number
           /\ socket'[o].at = "open" => socket[o].at = "open"
    BY <1>3
  <1>6. \A o \in Sockets : socket'[o].at = "open" /\ o \notin crossed' => o \notin crossed
    BY <1>1
  <1>7. passed.connects \in Nat
    BY DEF PlacesFit, PassedFit
  <1>8. table' \in [Pods -> [Talks -> 0..passed.connects]]
    BY <1>1, <1>7 DEF PlacesFit, TablesFit
  <1>9. \A q \in Pods, d \in Talks : table'[q][d] = IF q = p THEN 0 ELSE table[q][d]
    BY <1>1 DEF PlacesFit, TablesFit
  <1>10. \A q \in Pods, d \in Talks : table'[q][d] # table[q][d] =>
           /\ table'[q][d] = 0
           /\ \A o \in Sockets : socket'[o].at = "open" /\ socket'[o].pod = q /\ socket'[o].talk = d => o \in crossed'
    BY <1>3, <1>9
  <1>11. QED BY <1>2, <1>4, <1>5, <1>6, <1>8, <1>10, PlacesEnd

\* A speaker that goes on.
LEMMA SpeechKept ==
  ASSUME SpeechesFit, NEW n \in 0..MaxSpeeches, passed.turns \in 0..n, passed'.turns = n,
         NEW x \in Speakers, NEW r, SpeechFits(r, n),
         speech' = [speech EXCEPT ![x] = r],
         r # Silent => \A y \in Speakers \ {x} : speech[y].turn # r.turn
  PROVE  SpeechesFit'
  <1>1. r \in Speech /\ n \in Nat /\ passed.turns \in Nat /\ passed.turns <= n
    BY DeliveryAssumption DEF SpeechFits
  <1>2. speech' \in [Speakers -> Speech] /\ speech'[x] = r /\ \A y \in Speakers \ {x} : speech'[y] = speech[y]
    BY <1>1 DEF SpeechesFit
  <1>3. ASSUME NEW y \in Speakers PROVE SpeechFits(speech'[y], n)
    <2>1. CASE y = x
      BY <1>2, <2>1
    <2>2. CASE y # x
      <3>1. SpeechFits(speech[y], passed.turns)
        BY DEF SpeechesFit
      <3>2. 1..passed.turns \subseteq 1..n
        BY <1>1
      <3>3. QED BY <1>2, <2>2, <3>1, <3>2 DEF SpeechFits, TurnFits
    <2>3. QED BY <2>1, <2>2
  <1>4. ASSUME NEW a \in Speakers, NEW b \in Speakers, speech'[a] # Silent, speech'[a].turn = speech'[b].turn, a # b
        PROVE  FALSE
    <2>1. CASE a = x
      BY <1>2, <1>4, <2>1
    <2>2. CASE b = x
      <3>1. speech[a] # Silent /\ speech[a].turn = r.turn
        BY <1>2, <1>4, <2>2
      <3>2. speech[a].turn # 0
        <4>1. SpeechFits(speech[a], passed.turns)
          BY DEF SpeechesFit
        <4>2. TurnFits(speech[a], passed.turns)
          BY <3>1, <4>1 DEF SpeechFits
        <4>3. speech[a].turn \in 1..passed.turns
          BY <4>2 DEF TurnFits
        <4>4. QED BY <1>1, <4>3
      <3>3. r # Silent
        BY <3>1, <3>2 DEF Silent
      <3>4. QED BY <1>4, <2>2, <3>1, <3>3
    <2>3. CASE a # x /\ b # x
      BY <1>2, <1>4, <2>3 DEF SpeechesFit
    <2>4. QED BY <2>1, <2>2, <2>3
  <1>5. QED BY <1>2, <1>3, <1>4 DEF SpeechesFit

\* A speaker in a turn.
LEMMA SpeakerIs ==
  ASSUME SpeechesFit, PassedFit, NEW x \in Speakers
  PROVE  /\ speech[x] \in Speech /\ passed.turns \in 0..MaxSpeeches
         /\ speech[x].at # "quiet" => speech[x] # Silent
         /\ speech[x].due # <<>> => speech[x] # Silent
         /\ speech[x] # Silent => /\ speech[x].turn \in TurnIds /\ speech[x].talk \in Talks
                                  /\ speech[x].turn \in 1..passed.turns
                                  /\ speech[x].blocks \in Seq(OwnFrames(x)) /\ speech[x].due \in Seq(OwnFrames(x))
                                  /\ OwnFrames(x) \subseteq AF
                                  /\ \A y \in Speakers \ {x} : speech[y].turn # speech[x].turn
         /\ speech[x].at = "call" => CallFits(speech[x])
  <1>1. SpeechFits(speech[x], passed.turns) /\ speech[x] \in Speech /\ passed.turns \in 0..MaxSpeeches
    BY DEF SpeechesFit, PassedFit
  <1>2. speech[x].at # "quiet" => speech[x] # Silent
    BY DEF Silent
  <1>3. speech[x].due # <<>> => speech[x] # Silent
    BY DEF Silent
  <1>4. ASSUME speech[x] # Silent
        PROVE  /\ speech[x].turn \in TurnIds /\ speech[x].talk \in Talks
               /\ speech[x].turn \in 1..passed.turns
               /\ speech[x].blocks \in Seq(OwnFrames(x)) /\ speech[x].due \in Seq(OwnFrames(x))
               /\ OwnFrames(x) \subseteq AF
               /\ \A y \in Speakers \ {x} : speech[y].turn # speech[x].turn
    <2>1. TurnFits(speech[x], passed.turns)
      BY <1>1, <1>4 DEF SpeechFits
    <2>2. speech[x].turn \in 1..passed.turns /\ speech[x].talk \in Talks
      BY <2>1 DEF TurnFits
    <2>3. speech[x].turn \in TurnIds
      BY <1>1, <2>2, DeliveryAssumption DEF TurnIds
    <2>4. OwnFrames(x) \subseteq AF
      BY <2>2, <2>3 DEF OwnFrames, AF, AnyFrame
    <2>5. \A y \in Speakers \ {x} : speech[y].turn # speech[x].turn
      BY <1>4 DEF SpeechesFit
    <2>6. QED BY <2>1, <2>2, <2>3, <2>4, <2>5 DEF TurnFits, OwnFrames
  <1>5. QED BY <1>1, <1>2, <1>3, <1>4 DEF SpeechFits

\* A speaker that goes on with its turn.
LEMMA SpeechGoesOn ==
  ASSUME SpeechesFit, PassedFit, passed'.turns = passed.turns, NEW x \in Speakers, speech[x] # Silent,
         NEW r, speech' = [speech EXCEPT ![x] = r], r \in Speech, r.at \in {"turn", "call"},
         r.turn = speech[x].turn, r.talk = speech[x].talk,
         r.blocks \in Seq(OwnFrames(x)), r.due \in Seq(OwnFrames(x)),
         r.at = "call" => CallFits(r)
  PROVE  SpeechesFit'
  <1>1. /\ speech[x].turn \in 1..passed.turns /\ speech[x].talk \in Talks
        /\ \A y \in Speakers \ {x} : speech[y].turn # r.turn
    BY SpeakerIs
  <1>2. TurnFits(r, passed.turns)
    BY <1>1 DEF TurnFits, OwnFrames
  <1>3. SpeechFits(r, passed.turns)
    BY <1>2 DEF SpeechFits
  <1>4. passed.turns \in 0..MaxSpeeches /\ passed.turns \in 0..passed.turns
    BY DeliveryAssumption DEF PassedFit
  <1>5. QED BY <1>1, <1>3, <1>4, SpeechKept

-----------------------------------------------------------------------------
(* Delivery: what is on its way. *)

OfTurn(turn, c) == AnyFrame({turn}, {c})
DueIn(sp, turn, c) ==
    LET who == {x \in Speakers : sp[x].turn = turn /\ sp[x].talk = c}
    IN  IF who = {} THEN <<>> ELSE sp[CHOOSE x \in who : TRUE].due
ComingIn(w, sp, c) == [turn \in TurnIds |-> Only(w, OfTurn(turn, c)) \o DueIn(sp, turn, c)]

LEMMA StreamedIs ==
  Streamed <=> \A s \in Sockets : Follows(s) =>
                 owed[s] = ComingIn(wire[socket[s].pod], speech, socket[s].talk)
  BY DEF Streamed, Coming, ComingIn, Due, DueIn, OfTurn

LEMMA StreamedNext ==
  Streamed' <=> \A s \in Sockets : Follows(s)' =>
                  owed'[s] = ComingIn(wire'[socket'[s].pod], speech', socket'[s].talk)
  BY DEF Streamed, Coming, ComingIn, Due, DueIn, OfTurn

\* Two ways to speak that say the same of a turn.
SameDue(sp, sq, turn, c) ==
    \A x \in Speakers : /\ sp[x].turn = turn /\ sp[x].talk = c <=> sq[x].turn = turn /\ sq[x].talk = c
                        /\ sp[x].turn = turn /\ sp[x].talk = c => sp[x].due = sq[x].due
AloneDue(sp, x, turn, c) ==
    sp[x].turn = turn /\ sp[x].talk = c /\ \A y \in Speakers \ {x} : sp[y].turn # turn

LEMMA DueSame ==
  ASSUME NEW sp, NEW sq, NEW turn, NEW c, SameDue(sp, sq, turn, c)
  PROVE  DueIn(sp, turn, c) = DueIn(sq, turn, c)
  <1> DEFINE P == {x \in Speakers : sp[x].turn = turn /\ sp[x].talk = c}
             Q == {x \in Speakers : sq[x].turn = turn /\ sq[x].talk = c}
  <1>1. P = Q
    BY DEF SameDue
  <1>2. \A x \in P : sp[x].due = sq[x].due
    BY DEF SameDue
  <1>3. DueIn(sp, turn, c) = IF P = {} THEN <<>> ELSE sp[CHOOSE x \in P : TRUE].due
    BY DEF DueIn
  <1>4. DueIn(sq, turn, c) = IF Q = {} THEN <<>> ELSE sq[CHOOSE x \in Q : TRUE].due
    BY DEF DueIn
  <1> HIDE DEF P, Q
  <1>5. P # {} => (CHOOSE x \in P : TRUE) \in P
    OBVIOUS
  <1>6. QED BY <1>1, <1>2, <1>3, <1>4, <1>5

LEMMA DueOne ==
  ASSUME NEW sp, NEW x \in Speakers, NEW turn, NEW c, AloneDue(sp, x, turn, c)
  PROVE  DueIn(sp, turn, c) = sp[x].due
  <1> DEFINE P == {y \in Speakers : sp[y].turn = turn /\ sp[y].talk = c}
  <1>1. P = {x}
    BY DEF AloneDue
  <1>2. DueIn(sp, turn, c) = IF P = {} THEN <<>> ELSE sp[CHOOSE y \in P : TRUE].due
    BY DEF DueIn
  <1>3. (CHOOSE y \in {x} : TRUE) = x
    OBVIOUS
  <1> HIDE DEF P
  <1>4. QED BY <1>1, <1>2, <1>3

LEMMA DueNone ==
  ASSUME NEW sp, NEW turn, NEW c, \A x \in Speakers : sp[x].turn = turn => sp[x].talk # c
  PROVE  DueIn(sp, turn, c) = <<>>
  BY DEF DueIn

\* What is on its way is a list of frames.
LEMMA ComingType ==
  ASSUME PassedFit, SpeechesFit, NEW w \in Seq(AF), NEW k \in TurnIds, NEW c
  PROVE  Only(w, OfTurn(k, c)) \in Seq(AF) /\ DueIn(speech, k, c) \in Seq(AF)
  <1>1. Only(w, OfTurn(k, c)) \in Seq(AF)
    BY OnlyType
  <1>2. DueIn(speech, k, c) \in Seq(AF)
    <2>1. \A x \in Speakers : speech[x].due \in Seq(AF)
      BY DEF SpeechesFit, Speech
    <2>2. <<>> \in Seq(AF)
      OBVIOUS
    <2> DEFINE P == {y \in Speakers : speech[y].turn = k /\ speech[y].talk = c}
    <2>3. DueIn(speech, k, c) = IF P = {} THEN <<>> ELSE speech[CHOOSE y \in P : TRUE].due
      BY DEF DueIn
    <2>4. P # {} => (CHOOSE y \in P : TRUE) \in Speakers
      <3>1. P \subseteq Speakers
        OBVIOUS
      <3> HIDE DEF P
      <3>2. QED BY <3>1
    <2> HIDE DEF P
    <2>5. QED BY <2>1, <2>2, <2>3, <2>4
  <1>3. QED BY <1>1, <1>2

\* A speaker that goes on with its turn and says what it tells.
LEMMA SaysStreamed ==
  ASSUME DeliveryInv, NEW x \in Speakers, speech[x] # Silent, speech[x].due = <<>>,
         NEW r, speech' = [speech EXCEPT ![x] = r], r.turn = speech[x].turn, r.talk = speech[x].talk,
         r.due \in Seq(AF), Tells(x, r.due), UNCHANGED <<socket, wire, listens, crossed>>
  PROVE  Streamed'
  <1> DEFINE t == speech[x].turn
             c == speech[x].talk
  <1>0. PassedFit /\ SpeechesFit /\ WiresFit /\ Streamed /\ PlacesFit
    BY DEF DeliveryInv, PlacesFit
  <1>1. t \in TurnIds /\ \A y \in Speakers \ {x} : speech[y].turn # t
    BY <1>0, SpeakerIs
  <1>2. speech'[x] = r /\ \A y \in Speakers \ {x} : speech'[y] = speech[y]
    BY <1>0 DEF SpeechesFit
  <1> SUFFICES ASSUME NEW s \in Sockets, Follows(s)'
               PROVE  owed'[s] = ComingIn(wire'[socket'[s].pod], speech', socket'[s].talk)
    BY StreamedNext
  <1> DEFINE p == socket[s].pod
             d == socket[s].talk
             w == wire[p]
  <1>3. Follows(s) /\ socket' = socket /\ wire' = wire
    BY DEF Follows
  <1>4. owed[s] = ComingIn(w, speech, d)
    BY <1>0, <1>3, StreamedIs
  <1>5. ComingIn(wire'[socket'[s].pod], speech', socket'[s].talk) = ComingIn(w, speech', d)
    BY <1>3
  <1>6. owed'[s] = IF d = c THEN [owed[s] EXCEPT ![t] = @ \o r.due] ELSE owed[s]
    BY <1>3 DEF Tells
  <1>7. w \in Seq(AF)
    <2>1. socket[s] # NoSocket
      BY <1>3 DEF Follows, NoSocket
    <2>2. p \in Pods
      BY <1>0, <2>1, ConnectionIs
    <2>3. QED BY <1>0, <2>2 DEF WiresFit
  <1> HIDE DEF p, d, w, t, c
  <1>8. ASSUME NEW k \in TurnIds, ~(k = t /\ d = c)
        PROVE  DueIn(speech', k, d) = DueIn(speech, k, d)
    <2>1. \A y \in Speakers : speech[y].turn = k /\ speech[y].talk = d <=> speech'[y].turn = k /\ speech'[y].talk = d
      BY <1>2 DEF t, c
    <2>2. \A y \in Speakers : speech[y].turn = k /\ speech[y].talk = d => speech[y].due = speech'[y].due
      BY <1>2, <1>8 DEF t, c
    <2>3. SameDue(speech, speech', k, d)
      BY <2>1, <2>2 DEF SameDue
    <2>4. QED BY <2>3, DueSame
  <1>9. CASE d # c
    <2>1. ComingIn(w, speech', d) = ComingIn(w, speech, d)
      BY <1>8, <1>9 DEF ComingIn
    <2>2. QED BY <1>4, <1>5, <1>6, <1>9, <2>1
  <1>10. CASE d = c
    <2>1. DueIn(speech, t, d) = <<>>
      <3>1. AloneDue(speech, x, t, d)
        BY <1>1, <1>10 DEF t, c, AloneDue
      <3>2. QED BY <3>1, DueOne
    <2>2. DueIn(speech', t, d) = r.due
      <3>1. AloneDue(speech', x, t, d)
        BY <1>1, <1>2, <1>10 DEF t, c, AloneDue
      <3>2. PICK sq : sq = speech'
        OBVIOUS
      <3>3. AloneDue(sq, x, t, d)
        BY <3>1, <3>2
      <3>4. DueIn(sq, t, d) = sq[x].due
        BY <3>3, DueOne
      <3>5. QED BY <1>2, <3>2, <3>4
    <2>3. Only(w, OfTurn(t, d)) \in Seq(AF)
      BY <1>7, OnlyType
    <2> DEFINE C == ComingIn(w, speech, d)
               E == ComingIn(w, speech', d)
    <2>4. /\ C = [k \in TurnIds |-> C[k]] /\ E = [k \in TurnIds |-> E[k]]
          /\ \A k \in TurnIds : C[k] = Only(w, OfTurn(k, d)) \o DueIn(speech, k, d)
          /\ \A k \in TurnIds : E[k] = Only(w, OfTurn(k, d)) \o DueIn(speech', k, d)
      BY DEF ComingIn
    <2>5. C[t] \o r.due = E[t]
      <3>1. C[t] = Only(w, OfTurn(t, d)) \o <<>> /\ E[t] = Only(w, OfTurn(t, d)) \o r.due
        BY <1>1, <2>1, <2>2, <2>4
      <3>2. \A o \in Seq(AF) : o \o <<>> = o
        OBVIOUS
      <3> HIDE DEF C, E
      <3>3. C[t] = Only(w, OfTurn(t, d))
        BY <2>3, <3>1, <3>2
      <3>4. QED BY <3>1, <3>3
    <2>6. \A k \in TurnIds \ {t} : C[k] = E[k]
      BY <1>8, <2>4
    <2> HIDE DEF C, E
    <2>7. [C EXCEPT ![t] = @ \o r.due] = E
      BY <1>1, <2>4, <2>5, <2>6
    <2>8. QED BY <1>4, <1>5, <1>6, <1>10, <2>7 DEF C, E
  <1>11. QED BY <1>9, <1>10

-----------------------------------------------------------------------------
(* Delivery: the steps that say nothing, and those of the connections. *)

\* What a step does that changes nothing of what is on its way to those who follow.
LEMMA KeptStreamed ==
  ASSUME DeliveryInv, NEW sq, speech' = sq,
         \A k \in TurnIds, c \in Talks : DueIn(sq, k, c) = DueIn(speech, k, c),
         \A s \in Sockets : Follows(s)' =>
           /\ Follows(s) /\ socket'[s] = socket[s] /\ owed'[s] = owed[s]
           /\ wire'[socket[s].pod] = wire[socket[s].pod]
  PROVE  Streamed'
  <1>0. PlacesFit /\ Streamed
    BY DEF DeliveryInv
  <1> SUFFICES ASSUME NEW s \in Sockets, Follows(s)'
               PROVE  owed'[s] = ComingIn(wire'[socket'[s].pod], speech', socket'[s].talk)
    BY StreamedNext
  <1> DEFINE w == wire[socket[s].pod]
             c == socket[s].talk
  <1>1. Follows(s) /\ socket'[s] = socket[s] /\ owed'[s] = owed[s] /\ wire'[socket[s].pod] = w
    OBVIOUS
  <1>2. owed[s] = ComingIn(w, speech, c)
    BY <1>0, <1>1, StreamedIs
  <1>3. c \in Talks
    <2>1. socket[s] # NoSocket
      BY <1>1 DEF Follows, NoSocket
    <2>2. QED BY <1>0, <2>1, ConnectionIs
  <1>4. ComingIn(wire'[socket'[s].pod], speech', socket'[s].talk) = ComingIn(w, sq, c)
    BY <1>1
  <1> HIDE DEF w, c
  <1>5. ComingIn(w, sq, c) = ComingIn(w, speech, c)
    BY <1>3 DEF ComingIn
  <1>6. QED BY <1>1, <1>2, <1>4, <1>5

\* A speaker with nothing to publish, before and after.
QuietTurn(sq, x, r) ==
    /\ sq = [speech EXCEPT ![x] = r] /\ speech[x].due = <<>> /\ r.due = <<>>
    /\ \A y \in Speakers \ {x} : speech[y].turn \in TurnIds =>
         speech[y].turn # speech[x].turn /\ speech[y].turn # r.turn

LEMMA DueQuiet ==
  ASSUME SpeechesFit, NEW x \in Speakers, NEW r, NEW sq, QuietTurn(sq, x, r)
  PROVE  \A k \in TurnIds, c \in Talks : DueIn(sq, k, c) = DueIn(speech, k, c)
  <1> SUFFICES ASSUME NEW k \in TurnIds, NEW c \in Talks
               PROVE  DueIn(sq, k, c) = DueIn(speech, k, c)
    OBVIOUS
  <1>1. /\ sq[x] = r /\ \A y \in Speakers \ {x} : sq[y] = speech[y]
        /\ speech[x].due = <<>> /\ r.due = <<>>
        /\ \A y \in Speakers \ {x} : speech[y].turn \in TurnIds =>
             speech[y].turn # speech[x].turn /\ speech[y].turn # r.turn
    BY DEF SpeechesFit, QuietTurn
  <1>2. CASE \E y \in Speakers \ {x} : speech[y].turn = k /\ speech[y].talk = c
    <2>1. speech[x].turn # k /\ r.turn # k
      BY <1>1, <1>2
    <2>2. SameDue(sq, speech, k, c)
      BY <1>1, <2>1 DEF SameDue
    <2>3. QED BY <2>2, DueSame
  <1>3. CASE \A y \in Speakers \ {x} : ~(speech[y].turn = k /\ speech[y].talk = c)
    <2> DEFINE P == {y \in Speakers : speech[y].turn = k /\ speech[y].talk = c}
               Q == {y \in Speakers : sq[y].turn = k /\ sq[y].talk = c}
    <2>1. /\ DueIn(speech, k, c) = IF P = {} THEN <<>> ELSE speech[CHOOSE y \in P : TRUE].due
          /\ DueIn(sq, k, c) = IF Q = {} THEN <<>> ELSE sq[CHOOSE y \in Q : TRUE].due
      BY DEF DueIn
    <2>2. P \in {{}, {x}} /\ Q \in {{}, {x}}
      BY <1>1, <1>3
    <2>3. (CHOOSE y \in {x} : TRUE) = x
      OBVIOUS
    <2> HIDE DEF P, Q
    <2>4. DueIn(speech, k, c) = <<>>
      BY <1>1, <2>1, <2>2, <2>3
    <2>5. DueIn(sq, k, c) = <<>>
      BY <1>1, <2>1, <2>2, <2>3
    <2>6. QED BY <2>4, <2>5
  <1>4. QED BY <1>2, <1>3

LEMMA StreamedStart ==
  ASSUME DeliveryInv, NEW x \in Speakers, NEW c \in Talks, StartSpeech(x, c) \/ StartCall(x)
  PROVE  Streamed'
  <1>0. SpeechesFit /\ PassedFit /\ passed.turns \in Nat
    BY DEF DeliveryInv, PlacesFit, PassedFit
  <1>1. UNCHANGED <<socket, wire, listens, crossed, owed>>
    BY DEF StartSpeech, StartCall, Outside
  <1>2. \A s \in Sockets : Follows(s)' =>
           /\ Follows(s) /\ socket'[s] = socket[s] /\ owed'[s] = owed[s]
           /\ wire'[socket[s].pod] = wire[socket[s].pod]
    BY <1>1 DEF Follows
  <1>3. \A y \in Speakers : speech[y].turn = 0 \/ speech[y].turn \in 1..passed.turns
    BY <1>0, SpeakerIs DEF Silent
  <1>4. \E r : /\ speech' = [speech EXCEPT ![x] = r] /\ speech[x].due = <<>> /\ r.due = <<>>
               /\ \A y \in Speakers \ {x} : speech[y].turn \in TurnIds =>
                    speech[y].turn # speech[x].turn /\ speech[y].turn # r.turn
    <2>1. CASE StartSpeech(x, c)
      <3> DEFINE r == [Silent EXCEPT !.at = "turn", !.talk = c, !.turn = passed.turns + 1]
      <3>1. speech[x] = Silent /\ speech' = [speech EXCEPT ![x] = r]
        BY <2>1 DEF StartSpeech, Speaks
      <3>2. r.due = <<>> /\ r.turn = passed.turns + 1 /\ speech[x].due = <<>> /\ speech[x].turn = 0
        BY <3>1 DEF Silent
      <3>3. 0 \notin TurnIds /\ passed.turns + 1 # 0 /\ passed.turns + 1 \notin 1..passed.turns
        BY <1>0 DEF TurnIds
      <3>4. \A y \in Speakers \ {x} : speech[y].turn \in TurnIds =>
                    speech[y].turn # speech[x].turn /\ speech[y].turn # r.turn
        <4> SUFFICES ASSUME NEW y \in Speakers \ {x}, speech[y].turn \in TurnIds
                     PROVE  speech[y].turn # speech[x].turn /\ speech[y].turn # r.turn
          OBVIOUS
        <4>1. speech[y].turn \in 1..passed.turns
          BY <1>3, <3>3
        <4>2. QED BY <3>2, <3>3, <4>1
      <3> HIDE DEF r
      <3>5. QED BY <3>1, <3>2, <3>4
    <2>2. CASE StartCall(x)
      <3> DEFINE r == [speech[x] EXCEPT !.at = "call", !.inside = FALSE, !.streamed = FALSE,
                                        !.said = <<>>, !.blocks = <<>>]
      <3>1. speech[x].at = "turn" /\ speech[x].due = <<>> /\ speech' = [speech EXCEPT ![x] = r]
        BY <2>2 DEF StartCall, Speaks
      <3>2. speech[x] # Silent /\ speech[x] \in Speech
        BY <1>0, <3>1, SpeakerIs
      <3>3. r.due = <<>> /\ r.turn = speech[x].turn
        BY <3>1, <3>2 DEF Speech
      <3>4. \A y \in Speakers \ {x} : speech[y].turn # speech[x].turn
        BY <1>0, <3>2, SpeakerIs
      <3> HIDE DEF r
      <3>5. QED BY <3>1, <3>3, <3>4
    <2>3. QED BY <2>1, <2>2
  <1>5. PICK sq : sq = speech'
    OBVIOUS
  <1>6. \A k \in TurnIds, d \in Talks : DueIn(sq, k, d) = DueIn(speech, k, d)
    <2>1. PICK r : /\ speech' = [speech EXCEPT ![x] = r] /\ speech[x].due = <<>> /\ r.due = <<>>
                   /\ \A y \in Speakers \ {x} : speech[y].turn \in TurnIds =>
                        speech[y].turn # speech[x].turn /\ speech[y].turn # r.turn
      BY <1>4
    <2>2. QuietTurn(sq, x, r)
      BY <1>5, <2>1 DEF QuietTurn
    <2>3. QED BY <1>0, <2>2, DueQuiet
  <1>7. QED BY <1>2, <1>5, <1>6, KeptStreamed

LEMMA StreamedEnds ==
  ASSUME DeliveryInv, NEW s \in Sockets, Leave(s) \/ HandlerEnds(s) \/ HandlerFails(s)
  PROVE  Streamed'
  <1>0. PlacesFit
    BY DEF DeliveryInv
  <1>1. /\ socket' = [socket EXCEPT ![s].at = "gone"] \/ socket' = [socket EXCEPT ![s] = NoSocket]
        /\ UNCHANGED <<speech, wire, listens>>
        /\ \/ owed' = owed /\ crossed' = crossed
           \/ Lets({s}) /\ crossed' = crossed \ {s}
    BY DEF Leave, HandlerEnds, HandlerFails
  <1>2. socket'[s].at # "open" /\ \A o \in Sockets \ {s} : socket'[o] = socket[o]
    <2>1. socket[s] \in {NoSocket} \cup Connection
      BY <1>0 DEF PlacesFit, TablesFit
    <2>2. QED BY <1>0, <1>1, <2>1 DEF PlacesFit, TablesFit, NoSocket, Connection
  <1>3. \A o \in Sockets : Follows(o)' =>
           /\ Follows(o) /\ socket'[o] = socket[o] /\ owed'[o] = owed[o]
           /\ wire'[socket[o].pod] = wire[socket[o].pod]
    BY <1>1, <1>2 DEF Follows, Lets
  <1>4. PICK sq : sq = speech'
    OBVIOUS
  <1>5. \A k \in TurnIds, d \in Talks : DueIn(sq, k, d) = DueIn(speech, k, d)
    BY <1>1, <1>4
  <1>6. QED BY <1>3, <1>4, <1>5, KeptStreamed

LEMMA StreamedFalls ==
  ASSUME DeliveryInv, NEW p \in Pods, ListenerEnds(p) \/ CloseAll(p)
  PROVE  Streamed'
  <1>0. PlacesFit
    BY DEF DeliveryInv
  <1>1. /\ listens' = listens \ {p} /\ wire' = [wire EXCEPT ![p] = <<>>]
        /\ Lets({s \in Sockets : socket[s].pod = p}) /\ UNCHANGED <<speech, crossed>>
    BY DEF ListenerEnds, CloseAll, PodEnds
  <1>2. \A o \in Sockets : socket'[o].at = "open" /\ socket'[o].pod # p => socket'[o] = socket[o]
    <2>1. CASE ListenerEnds(p)
      BY <2>1 DEF ListenerEnds
    <2>2. CASE CloseAll(p)
      <3> SUFFICES ASSUME NEW o \in Sockets, socket'[o].at = "open", socket'[o].pod # p
                   PROVE  socket'[o] = socket[o]
        OBVIOUS
      <3>1. socket'[o] = IF socket[o].pod = p THEN [socket[o] EXCEPT !.at = "gone"] ELSE socket[o]
        BY <2>2 DEF CloseAll
      <3>2. socket[o] \in {NoSocket} \cup Connection
        BY <1>0 DEF PlacesFit, TablesFit
      <3>3. QED BY <3>1, <3>2 DEF NoSocket, Connection
    <2>3. QED BY <2>1, <2>2
  <1>3. ASSUME NEW o \in Sockets, Follows(o)'
        PROVE  /\ Follows(o) /\ socket'[o] = socket[o] /\ owed'[o] = owed[o]
               /\ wire'[socket[o].pod] = wire[socket[o].pod]
    <2>1. socket'[o].at = "open" /\ socket'[o].pod \in listens' /\ o \notin crossed'
      BY <1>3 DEF Follows
    <2>2. socket'[o] = socket[o] /\ socket[o].pod # p /\ socket[o].pod \in listens
      BY <1>1, <1>2, <2>1
    <2>3. Follows(o)
      BY <1>1, <2>1, <2>2 DEF Follows
    <2>4. owed'[o] = owed[o]
      BY <1>1, <2>2 DEF Lets
    <2>5. wire'[socket[o].pod] = wire[socket[o].pod]
      <3>1. socket[o].pod \in Pods
        <4>1. socket[o] # NoSocket
          BY <2>3 DEF Follows, NoSocket
        <4>2. QED BY <1>0, <4>1, ConnectionIs
      <3>2. QED BY <1>1, <2>2, <3>1 DEF DeliveryInv, WiresFit
    <2>6. QED BY <2>2, <2>3, <2>4, <2>5
  <1>4. PICK sq : sq = speech'
    OBVIOUS
  <1>5. \A k \in TurnIds, d \in Talks : DueIn(sq, k, d) = DueIn(speech, k, d)
    BY <1>1, <1>4
  <1>6. QED BY <1>3, <1>4, <1>5, KeptStreamed

LEMMA StreamedOpen ==
  ASSUME DeliveryInv, NEW s \in Sockets, NEW c \in Talks, NEW p \in Pods, OpenSocket(s, c, p)
  PROVE  Streamed'
  <1> DEFINE fresh == [at |-> "open", talk |-> c, pod |-> p, number |-> passed.connects + 1]
             others == {o \in Sockets \ {s} : socket[o].talk = c /\ socket[o].pod = p}
  <1>0. PlacesFit /\ Streamed
    BY DEF DeliveryInv
  <1>1. /\ socket' = [socket EXCEPT ![s] = fresh] /\ UNCHANGED <<speech, wire, listens>>
        /\ crossed' = IF others = {} THEN crossed \ {s} ELSE crossed \cup others \cup {s}
        /\ owed' = [o \in Sockets |->
                      IF o = s /\ others = {} /\ p \in listens
                      THEN Coming(p, c) ELSE IF o \in others THEN NoneOwed ELSE owed[o]]
    BY DEF OpenSocket
  <1>2. /\ socket'[s] = fresh /\ \A o \in Sockets \ {s} : socket'[o] = socket[o]
        /\ fresh.pod = p /\ fresh.talk = c
    BY <1>0, <1>1 DEF PlacesFit, TablesFit
  <1> HIDE DEF fresh
  <1> SUFFICES ASSUME NEW o \in Sockets, Follows(o)'
               PROVE  owed'[o] = ComingIn(wire'[socket'[o].pod], speech', socket'[o].talk)
    BY StreamedNext
  <1>3. socket'[o].at = "open" /\ o \notin crossed' /\ socket'[o].pod \in listens
    BY <1>1 DEF Follows
  <1>4. CASE o = s
    <2>1. others = {} /\ p \in listens
      BY <1>1, <1>2, <1>3, <1>4
    <2>2. owed'[o] = Coming(p, c)
      BY <1>1, <1>4, <2>1
    <2>3. Coming(p, c) = ComingIn(wire[p], speech, c)
      BY DEF Coming, ComingIn, Due, DueIn, OfTurn
    <2>4. QED BY <1>1, <1>2, <1>4, <2>2, <2>3
  <1>5. CASE o # s
    <2>1. o \notin others /\ o \notin crossed /\ socket'[o] = socket[o]
      BY <1>1, <1>2, <1>3, <1>5
    <2>2. Follows(o)
      BY <1>3, <2>1 DEF Follows
    <2>3. owed[o] = ComingIn(wire[socket[o].pod], speech, socket[o].talk)
      BY <1>0, <2>2, StreamedIs
    <2>4. owed'[o] = owed[o]
      BY <1>1, <1>5, <2>1
    <2>5. QED BY <1>1, <2>1, <2>3, <2>4
  <1>6. QED BY <1>4, <1>5

-----------------------------------------------------------------------------
(* Delivery: what is published, and delivered. *)

\* A frame that is published is on its way in its own turn and conversation.
LEMMA OnlyPublished ==
  ASSUME NEW w \in Seq(AF), NEW f \in AF, NEW k, NEW d
  PROVE  Only(Append(w, f), OfTurn(k, d)) = IF k = f.by /\ d = f.talk THEN Append(Only(w, OfTurn(k, d)), f)
                                        ELSE Only(w, OfTurn(k, d))
  <1>1. f \in OfTurn(k, d) <=> k = f.by /\ d = f.talk
    BY DEF OfTurn, AF, AnyFrame
  <1>2. QED BY <1>1, OnlyAppend

LEMMA OnlyDelivered ==
  ASSUME NEW w \in Seq(AF), w # <<>>, NEW k, NEW d
  PROVE  IF k = Head(w).by /\ d = Head(w).talk
         THEN Only(w, OfTurn(k, d)) # <<>> /\ Head(Only(w, OfTurn(k, d))) = Head(w)
              /\ Tail(Only(w, OfTurn(k, d))) = Only(Tail(w), OfTurn(k, d))
         ELSE Only(w, OfTurn(k, d)) = Only(Tail(w), OfTurn(k, d))
  <1> DEFINE f == Head(w)
             v == Tail(w)
             S == OfTurn(k, d)
  <1>1. f \in AF /\ v \in Seq(AF) /\ <<f>> \in Seq(AF) /\ w = <<f>> \o v
    OBVIOUS
  <1>2. Append(<<>>, f) = <<f>> /\ <<>> \in Seq(AF)
    BY <1>1
  <1> HIDE DEF f, v
  <1>3. f \in S <=> k = f.by /\ d = f.talk
    BY <1>1 DEF OfTurn, AF, AnyFrame
  <1> HIDE DEF S
  <1>4. Only(<<f>>, S) = IF f \in S THEN <<f>> ELSE <<>>
    <2>1. Only(Append(<<>>, f), S) = IF f \in S THEN Append(Only(<<>>, S), f) ELSE Only(<<>>, S)
      BY <1>1, <1>2, OnlyAppend
    <2>2. Only(<<>>, S) = <<>>
      BY OnlyNone
    <2>3. QED BY <1>2, <2>1, <2>2
  <1>5. Only(w, S) = Only(<<f>>, S) \o Only(v, S)
    <2>1. PICK one \in Seq(AF) : one = <<f>>
      BY <1>1
    <2>2. Only(one \o v, S) = Only(one, S) \o Only(v, S)
      BY ONLY <1>1, OnlyConcat
    <2>3. QED BY <1>1, <2>1, <2>2
  <1>6. Only(v, S) \in Seq(AF)
    BY <1>1, OnlyType
  <1>7. \A o \in Seq(AF) : /\ <<>> \o o = o
                           /\ <<f>> \o o # <<>> /\ Head(<<f>> \o o) = f /\ Tail(<<f>> \o o) = o
    BY <1>1
  <1>8. CASE f \in S
    <2>1. Only(w, S) = <<f>> \o Only(v, S)
      BY <1>4, <1>5, <1>8
    <2>2. QED BY <1>3, <1>6, <1>7, <1>8, <2>1 DEF f, v, S
  <1>9. CASE f \notin S
    <2>1. Only(w, S) = <<>> \o Only(v, S)
      BY <1>4, <1>5, <1>9
    <2>2. Only(w, S) = Only(v, S)
      BY <1>6, <1>7, <2>1
    <2>3. QED BY <1>3, <1>9, <2>2 DEF f, v, S
  <1>10. QED BY <1>8, <1>9

\* A turn that publishes a frame: the first of those it has yet to publish, or one it
\* has just said.
PublishedFirst(w, f, rest, more, turn, c) ==
    Append(Only(w, OfTurn(turn, c)), f) \o rest = Only(w, OfTurn(turn, c)) \o more

LEMMA PublishedNext ==
  ASSUME NEW w \in Seq(AF), NEW f \in AF, NEW rest \in Seq(AF), NEW turn, NEW c
  PROVE  PublishedFirst(w, f, rest, <<f>> \o rest, turn, c)
  <1>1. Only(w, OfTurn(turn, c)) \in Seq(AF)
    BY OnlyType
  <1>2. \A o \in Seq(AF) : Append(o, f) \o rest = o \o (<<f>> \o rest)
    <2> SUFFICES ASSUME NEW o \in Seq(AF) PROVE Append(o, f) \o rest = o \o (<<f>> \o rest)
      OBVIOUS
    <2>0. <<f>> \in Seq(AF)
      OBVIOUS
    <2>1. PICK one \in Seq(AF) : one = <<f>>
      BY <2>0
    <2>2. Append(o, f) = o \o one
      BY <2>1
    <2>3. (o \o one) \o rest = o \o (one \o rest)
      BY ONLY o \in Seq(AF), one \in Seq(AF), rest \in Seq(AF)
    <2>4. QED BY <2>1, <2>2, <2>3
  <1>3. QED BY <1>1, <1>2 DEF PublishedFirst

LEMMA StreamedPublish ==
  ASSUME DeliveryInv, NEW x \in Speakers, Publish(x)
  PROVE  Streamed'
  <1> DEFINE t == speech[x].turn
             c == speech[x].talk
             f == Head(speech[x].due)
             rest == Tail(speech[x].due)
             r == [speech[x] EXCEPT !.due = rest]
  <1>0. PlacesFit /\ PassedFit /\ SpeechesFit /\ WiresFit /\ Streamed
    BY DEF DeliveryInv, PlacesFit
  <1>1. /\ speech[x].due # <<>> /\ Published(f) /\ speech' = [speech EXCEPT ![x] = r]
        /\ UNCHANGED <<socket, listens, owed, crossed>>
    BY DEF Publish, Speaks
  <1>2. speech[x] \in Speech /\ speech[x] # Silent
    BY <1>0, <1>1, SpeakerIs
  <1>3. /\ t \in TurnIds /\ speech[x].due \in Seq(OwnFrames(x)) /\ OwnFrames(x) \subseteq AF
        /\ \A y \in Speakers \ {x} : speech[y].turn # t
    BY <1>0, <1>2, SpeakerIs
  <1>4. /\ f \in OwnFrames(x) /\ f \in AF /\ rest \in Seq(AF) /\ speech[x].due = <<f>> \o rest
    BY <1>1, <1>3
  <1>5. f.by = t /\ f.talk = c
    BY <1>4 DEF OwnFrames, AnyFrame
  <1>6. r.turn = t /\ r.talk = c /\ r.due = rest
    BY <1>2 DEF Speech
  <1>7. speech'[x] = r /\ \A y \in Speakers \ {x} : speech'[y] = speech[y]
    BY <1>0, <1>1 DEF SpeechesFit
  <1> HIDE DEF f, rest, r, t, c
  <1> SUFFICES ASSUME NEW s \in Sockets, Follows(s)'
               PROVE  owed'[s] = ComingIn(wire'[socket'[s].pod], speech', socket'[s].talk)
    BY StreamedNext
  <1> DEFINE d == socket[s].talk
             w == wire[socket[s].pod]
  <1>8. Follows(s)
    BY <1>1 DEF Follows
  <1>9. socket[s].pod \in Pods /\ socket[s].pod \in listens
    <2>1. socket[s] # NoSocket
      BY <1>8 DEF Follows, NoSocket
    <2>2. QED BY <1>0, <1>8, <2>1, ConnectionIs DEF Follows
  <1>10. w \in Seq(AF)
    BY <1>0, <1>9 DEF WiresFit
  <1>11. owed'[s] = ComingIn(w, speech, d)
    BY <1>0, <1>1, <1>8, StreamedIs
  <1>12. wire'[socket'[s].pod] = Append(w, f)
    BY <1>1, <1>9 DEF Published
  <1>13. PICK sq : sq = speech'
    OBVIOUS
  <1>14. ComingIn(wire'[socket'[s].pod], speech', socket'[s].talk) = ComingIn(Append(w, f), sq, d)
    BY <1>1, <1>12, <1>13
  <1> HIDE DEF d, w
  <1>15. ASSUME NEW k \in TurnIds
         PROVE  Only(Append(w, f), OfTurn(k, d)) \o DueIn(sq, k, d) = Only(w, OfTurn(k, d)) \o DueIn(speech, k, d)
    <2>1. CASE k = t /\ d = c
      <3>1. Only(Append(w, f), OfTurn(k, d)) = Append(Only(w, OfTurn(k, d)), f)
        BY <1>4, <1>5, <1>10, <2>1, OnlyPublished
      <3>2. DueIn(sq, k, d) = rest
        <4>1. AloneDue(sq, x, k, d)
          BY <1>3, <1>6, <1>7, <1>13, <2>1 DEF AloneDue
        <4>2. DueIn(sq, k, d) = sq[x].due
          BY <4>1, DueOne
        <4>3. QED BY <1>6, <1>7, <1>13, <4>2
      <3>3. DueIn(speech, k, d) = <<f>> \o rest
        <4>1. AloneDue(speech, x, k, d)
          BY <1>3, <2>1 DEF AloneDue, t, c
        <4>2. DueIn(speech, k, d) = speech[x].due
          BY <4>1, DueOne
        <4>3. QED BY <1>4, <4>2
      <3>4. PublishedFirst(w, f, rest, <<f>> \o rest, k, d)
        BY <1>4, <1>10, PublishedNext
      <3>5. QED BY <3>1, <3>2, <3>3, <3>4 DEF PublishedFirst
    <2>2. CASE ~(k = t /\ d = c)
      <3>1. Only(Append(w, f), OfTurn(k, d)) = Only(w, OfTurn(k, d))
        BY <1>4, <1>5, <1>10, <2>2, OnlyPublished
      <3>2. \A y \in Speakers : /\ sq[y].turn = k /\ sq[y].talk = d <=> speech[y].turn = k /\ speech[y].talk = d
                                /\ sq[y].turn = k /\ sq[y].talk = d => sq[y].due = speech[y].due
        BY <1>6, <1>7, <1>13, <2>2 DEF t, c
      <3>3. SameDue(sq, speech, k, d)
        BY <3>2 DEF SameDue
      <3>4. DueIn(sq, k, d) = DueIn(speech, k, d)
        BY <3>3, DueSame
      <3>5. QED BY <3>1, <3>4
    <2>3. QED BY <2>1, <2>2
  <1>16. ComingIn(Append(w, f), sq, d) = ComingIn(w, speech, d)
    BY <1>15 DEF ComingIn
  <1>17. QED BY <1>11, <1>14, <1>16

\* The frame of a speaker's own piece.
LEMMA OnePieceIs ==
  ASSUME NEW x, speech[x].said \in Seq(Pieces), NEW m \in Marks
  PROVE  /\ OnePiece(x, m) = <<[is |-> m, at |-> Len(speech[x].said) + 1]>>
         /\ [is |-> m, at |-> Len(speech[x].said) + 1] \in Pieces
         /\ OnePiece(x, m) \in Seq(Pieces)
  <1>1. /\ Numbered(speech[x].said, <<m>>) = <<[is |-> m, at |-> Len(speech[x].said) + 1]>>
        /\ [is |-> m, at |-> Len(speech[x].said) + 1] \in Pieces
    BY NumberedOne
  <1> DEFINE g == [is |-> m, at |-> Len(speech[x].said) + 1]
  <1>2. OnePiece(x, m) = <<g>> /\ g \in Pieces
    BY <1>1 DEF OnePiece
  <1> HIDE DEF g
  <1>3. OnePiece(x, m) \in Seq(Pieces)
    BY <1>2
  <1>4. QED BY <1>2, <1>3 DEF g

LEMMA StreamedAnswer ==
  ASSUME DeliveryInv, NEW x \in Speakers, Answer(x)
  PROVE  Streamed'
  <1> DEFINE t == speech[x].turn
             c == speech[x].talk
             f == Frame(x, IF speech[x].at = "turn" THEN "chat" ELSE "error", OnePiece(x, "answer"))
  <1>0. PlacesFit /\ PassedFit /\ SpeechesFit /\ WiresFit /\ Streamed
    BY DEF DeliveryInv, PlacesFit
  <1>1. /\ speech[x].at \in {"turn", "call"} /\ speech[x].due = <<>> /\ speech' = [speech EXCEPT ![x] = Silent]
        /\ UNCHANGED <<socket, listens, crossed>>
        /\ IF x = Http THEN UNCHANGED <<wire, owed>> ELSE Published(f) /\ Tells(x, <<f>>)
    BY DEF Answer, Speaks
  <1>2. speech[x] \in Speech /\ speech[x] # Silent
    BY <1>0, <1>1, SpeakerIs
  <1>3. /\ t \in TurnIds /\ OwnFrames(x) \subseteq AF /\ \A y \in Speakers \ {x} : speech[y].turn # t
    BY <1>0, <1>2, SpeakerIs
  <1>4. f \in OwnFrames(x) /\ f \in AF
    <2>1. speech[x].said \in Seq(Pieces) /\ "answer" \in Marks
      BY <1>2 DEF Speech, Marks
    <2>2. OnePiece(x, "answer") \in Seq(Pieces)
      BY <2>1, OnePieceIs
    <2>3. f \in OwnFrames(x)
      BY <2>2, FrameType
    <2>4. QED BY <1>3, <2>3
  <1>5. f.by = t /\ f.talk = c
    BY DEF Frame
  <1> HIDE DEF f, t, c
  <1>6. PICK sq : sq = speech'
    OBVIOUS
  <1>7. \A k \in TurnIds, d \in Talks : DueIn(sq, k, d) = DueIn(speech, k, d)
    <2>1. Silent.turn = 0 /\ Silent.due = <<>> /\ 0 \notin TurnIds
      BY DEF Silent, TurnIds
    <2>2. QuietTurn(sq, x, Silent)
      BY <1>1, <1>3, <1>6, <2>1 DEF QuietTurn, t
    <2>3. QED BY <1>0, <2>2, DueQuiet
  <1>8. CASE x = Http
    <2>1. \A s \in Sockets : Follows(s)' =>
           /\ Follows(s) /\ socket'[s] = socket[s] /\ owed'[s] = owed[s]
           /\ wire'[socket[s].pod] = wire[socket[s].pod]
      BY <1>1, <1>8 DEF Follows
    <2>2. QED BY <1>6, <1>7, <2>1, KeptStreamed
  <1>9. CASE x # Http
    <2> SUFFICES ASSUME NEW s \in Sockets, Follows(s)'
                 PROVE  owed'[s] = ComingIn(wire'[socket'[s].pod], speech', socket'[s].talk)
      BY StreamedNext
    <2> DEFINE d == socket[s].talk
               w == wire[socket[s].pod]
    <2>1. Follows(s)
      BY <1>1 DEF Follows
    <2>2. d \in Talks /\ socket[s].pod \in Pods /\ socket[s].pod \in listens
      <3>1. socket[s] # NoSocket
        BY <2>1 DEF Follows, NoSocket
      <3>2. QED BY <1>0, <2>1, <3>1, ConnectionIs DEF Follows
    <2>3. w \in Seq(AF)
      BY <1>0, <2>2 DEF WiresFit
    <2>4. owed[s] = ComingIn(w, speech, d)
      BY <1>0, <2>1, StreamedIs
    <2>5. owed'[s] = IF d = c THEN [owed[s] EXCEPT ![t] = @ \o <<f>>] ELSE owed[s]
      BY <1>1, <1>9, <2>1 DEF Tells, t, c
    <2>6. wire'[socket'[s].pod] = Append(w, f)
      BY <1>1, <1>9, <2>2 DEF Published
    <2>7. ComingIn(wire'[socket'[s].pod], speech', socket'[s].talk) = ComingIn(Append(w, f), sq, d)
      BY <1>1, <1>6, <2>6
    <2> HIDE DEF d, w
    <2> DEFINE C == ComingIn(w, speech, d)
               E == ComingIn(Append(w, f), sq, d)
    <2>8. /\ C = [k \in TurnIds |-> C[k]] /\ E = [k \in TurnIds |-> E[k]]
          /\ \A k \in TurnIds : C[k] = Only(w, OfTurn(k, d)) \o DueIn(speech, k, d)
          /\ \A k \in TurnIds : E[k] = Only(Append(w, f), OfTurn(k, d)) \o DueIn(speech, k, d)
      BY <1>7, <2>2 DEF ComingIn
    <2>9. ASSUME NEW k \in TurnIds, ~(k = t /\ d = c)
          PROVE  C[k] = E[k]
      <3>1. Only(Append(w, f), OfTurn(k, d)) = Only(w, OfTurn(k, d))
        BY <1>4, <1>5, <2>3, <2>9, OnlyPublished
      <3>2. QED BY <2>8, <3>1
    <2>10. ASSUME d = c PROVE C[t] \o <<f>> = E[t]
      <3>1. DueIn(speech, t, d) = <<>>
        <4>1. AloneDue(speech, x, t, d)
          BY <1>3, <2>10 DEF AloneDue, t, c
        <4>2. QED BY <1>1, <4>1, DueOne
      <3>2. Only(Append(w, f), OfTurn(t, d)) = Append(Only(w, OfTurn(t, d)), f)
        BY <1>4, <1>5, <2>3, <2>10, OnlyPublished
      <3>3. C[t] = Only(w, OfTurn(t, d)) \o <<>> /\ E[t] = Append(Only(w, OfTurn(t, d)), f) \o <<>>
        BY <1>3, <2>8, <3>1, <3>2
      <3>4. Only(w, OfTurn(t, d)) \in Seq(AF)
        BY <2>3, OnlyType
      <3>5. \A o \in Seq(AF) : (o \o <<>>) \o <<f>> = Append(o, f) \o <<>>
        <4> SUFFICES ASSUME NEW o \in Seq(AF) PROVE (o \o <<>>) \o <<f>> = Append(o, f) \o <<>>
          OBVIOUS
        <4>1. o \o <<>> = o /\ Append(o, f) = o \o <<f>> /\ Append(o, f) \in Seq(AF)
          BY <1>4
        <4>2. \A a \in Seq(AF) : a \o <<>> = a
          OBVIOUS
        <4>3. QED BY <4>1, <4>2
      <3> HIDE DEF C, E
      <3>6. QED BY <3>3, <3>4, <3>5
    <2> HIDE DEF C, E
    <2>11. owed'[s] = E
      <3>1. CASE d = c
        <4>1. [C EXCEPT ![t] = @ \o <<f>>] = E
          BY <1>3, <2>8, <2>9, <2>10, <3>1
        <4>2. QED BY <2>4, <2>5, <3>1, <4>1 DEF C
      <3>2. CASE d # c
        <4>1. C = E
          BY <2>8, <2>9, <3>2
        <4>2. QED BY <2>4, <2>5, <3>2, <4>1 DEF C
      <3>3. QED BY <3>1, <3>2
    <2>12. QED BY <2>7, <2>11 DEF E
  <1>10. QED BY <1>8, <1>9

LEMMA StreamedDeliver ==
  ASSUME DeliveryInv, NEW p \in Pods, Deliver(p)
  PROVE  Streamed'
  <1> DEFINE v == wire[p]
             f == Head(v)
  <1>0. PlacesFit /\ PassedFit /\ SpeechesFit /\ WiresFit /\ Streamed
    BY DEF DeliveryInv, PlacesFit
  <1>1. /\ v # <<>> /\ wire' = [wire EXCEPT ![p] = Tail(v)]
        /\ UNCHANGED <<socket, speech, listens, crossed>>
        /\ owed' = [s \in Sockets |->
                      IF s \in Owner(table[p][f.talk]) /\ Follows(s) THEN Expected(s, f) ELSE owed[s]]
    BY DEF Deliver
  <1>2. v \in Seq(AF)
    BY <1>0 DEF WiresFit
  <1>3. f \in AF
    BY <1>1, <1>2
  <1>4. f.by \in TurnIds /\ f.talk \in Talks
    BY <1>3 DEF AF, AnyFrame
  <1> HIDE DEF v, f
  <1> SUFFICES ASSUME NEW s \in Sockets, Follows(s)'
               PROVE  owed'[s] = ComingIn(wire'[socket'[s].pod], speech', socket'[s].talk)
    BY StreamedNext
  <1> DEFINE d == socket[s].talk
             w == wire[socket[s].pod]
  <1>5. Follows(s) /\ socket[s] # NoSocket
    BY <1>1 DEF Follows, NoSocket
  <1>6. d \in Talks /\ socket[s].pod \in Pods
    BY <1>0, <1>5, ConnectionIs
  <1>7. owed[s] = ComingIn(w, speech, d)
    BY <1>0, <1>5, StreamedIs
  <1>8. s \in Owner(table[p][f.talk]) <=> socket[s].pod = p /\ d = f.talk
    <2>1. s \in Owner(table[p][f.talk]) => socket[s].pod = p /\ d = f.talk
      BY <1>0, <1>4, <1>5 DEF Owner, PlacesFit, OwnPlace
    <2>2. table[socket[s].pod][d] = socket[s].number /\ socket[s].at = "open"
      BY <1>0, <1>5 DEF PlacesFit, AloneThere, Follows
    <2>3. QED BY <2>1, <2>2 DEF Owner
  <1>9. owed'[s] = IF socket[s].pod = p /\ d = f.talk THEN Expected(s, f) ELSE owed[s]
    BY <1>1, <1>5, <1>8
  <1>10. CASE socket[s].pod # p
    <2>1. wire'[socket'[s].pod] = w
      BY <1>0, <1>1, <1>6, <1>10 DEF WiresFit
    <2>2. QED BY <1>1, <1>7, <1>9, <1>10, <2>1
  <1>11. CASE socket[s].pod = p
    <2>1. wire'[socket'[s].pod] = Tail(v) /\ w = v
      BY <1>0, <1>1, <1>11 DEF WiresFit, v
    <2>2. ComingIn(wire'[socket'[s].pod], speech', socket'[s].talk) = ComingIn(Tail(v), speech, d)
      BY <1>1, <2>1
    <2> DEFINE C == ComingIn(v, speech, d)
               E == ComingIn(Tail(v), speech, d)
    <2>3. /\ C = [k \in TurnIds |-> C[k]] /\ E = [k \in TurnIds |-> E[k]]
          /\ \A k \in TurnIds : C[k] = Only(v, OfTurn(k, d)) \o DueIn(speech, k, d)
          /\ \A k \in TurnIds : E[k] = Only(Tail(v), OfTurn(k, d)) \o DueIn(speech, k, d)
      BY DEF ComingIn
    <2>4. owed[s] = C
      BY <1>7, <2>1
    <2> HIDE DEF d, w
    <2>5. ASSUME NEW k \in TurnIds, ~(k = f.by /\ d = f.talk)
          PROVE  C[k] = E[k]
      <3>1. Only(v, OfTurn(k, d)) = Only(Tail(v), OfTurn(k, d))
        BY <1>1, <1>2, <2>5, OnlyDelivered DEF f
      <3>2. QED BY <2>3, <3>1
    <2>6. ASSUME d = f.talk
          PROVE  C[f.by] # <<>> /\ Head(C[f.by]) = f /\ Tail(C[f.by]) = E[f.by]
      <3> DEFINE o == Only(v, OfTurn(f.by, d))
                 o2 == Only(Tail(v), OfTurn(f.by, d))
                 q == DueIn(speech, f.by, d)
      <3>1. o # <<>> /\ Head(o) = f /\ Tail(o) = o2
        BY <1>1, <1>2, <2>6, OnlyDelivered DEF f
      <3>2. o \in Seq(AF) /\ q \in Seq(AF)
        BY <1>0, <1>2, <1>4, ComingType
      <3>3. C[f.by] = o \o q /\ E[f.by] = o2 \o q
        BY <1>4, <2>3
      <3> HIDE DEF C, E, o, o2, q
      <3>4. o \o q # <<>> /\ Head(o \o q) = Head(o) /\ Tail(o \o q) = Tail(o) \o q
        BY <3>1, <3>2
      <3>5. QED BY <3>1, <3>3, <3>4
    <2> HIDE DEF C, E
    <2>7. CASE d = f.talk
      <3>1. owed'[s] = [C EXCEPT ![f.by] = Tail(C[f.by])]
        BY <1>9, <1>11, <2>4, <2>6, <2>7 DEF Expected
      <3>2. [C EXCEPT ![f.by] = Tail(C[f.by])] = E
        BY <1>4, <2>3, <2>5, <2>6, <2>7
      <3>3. QED BY <2>2, <3>1, <3>2 DEF E
    <2>8. CASE d # f.talk
      <3>1. C = E
        BY <2>3, <2>5, <2>8
      <3>2. QED BY <1>9, <2>2, <2>4, <2>8, <3>1 DEF E
    <2>9. QED BY <2>7, <2>8
  <1>12. QED BY <1>10, <1>11

-----------------------------------------------------------------------------
(* Delivery: what a turn says. *)

\* A frame that a turn says of itself.
LEMMA SaysOne ==
  ASSUME SpeechesFit, PassedFit, NEW x \in Speakers, speech[x] # Silent, NEW m \in Marks,
         NEW kind \in {"chat_token", "llm_thinking", "chat", "error", "wrong"} \cup Reported
  PROVE  /\ Frame(x, kind, OnePiece(x, m)) \in OwnFrames(x) /\ Frame(x, kind, OnePiece(x, m)) \in AF
         /\ <<Frame(x, kind, OnePiece(x, m))>> \in Seq(OwnFrames(x))
         /\ <<Frame(x, kind, OnePiece(x, m))>> \in Seq(AF)
  <1>1. OwnFrames(x) \subseteq AF /\ speech[x].said \in Seq(Pieces)
    BY SpeakerIs DEF Speech
  <1>2. OnePiece(x, m) \in Seq(Pieces)
    BY <1>1, OnePieceIs
  <1> DEFINE f == Frame(x, kind, OnePiece(x, m))
  <1>3. f \in OwnFrames(x)
    BY <1>2, FrameType
  <1> HIDE DEF f
  <1>4. f \in AF /\ <<f>> \in Seq(OwnFrames(x)) /\ <<f>> \in Seq(AF)
    BY <1>1, <1>3
  <1>5. QED BY <1>3, <1>4 DEF f

\* What a speaker says while it goes on with its turn.
Says(x, r) ==
    /\ speech[x] # Silent /\ speech[x].due = <<>> /\ speech' = [speech EXCEPT ![x] = r]
    /\ r \in Speech /\ r.at \in {"turn", "call"} /\ r.turn = speech[x].turn /\ r.talk = speech[x].talk
    /\ r.blocks \in Seq(OwnFrames(x)) /\ r.due \in Seq(OwnFrames(x))
    /\ r.at = "call" => CallFits(r)
    /\ Tells(x, r.due) /\ UNCHANGED <<socket, wire, listens, crossed>>
    /\ passed'.turns = passed.turns

LEMMA SaysFits ==
  ASSUME DeliveryInv, NEW x \in Speakers, NEW r, Says(x, r)
  PROVE  SpeechesFit' /\ Streamed'
  <1>0. SpeechesFit /\ PassedFit
    BY DEF DeliveryInv, PlacesFit
  <1>1. SpeechesFit'
    BY <1>0, SpeechGoesOn DEF Says
  <1>2. r.due \in Seq(AF)
    <2>1. OwnFrames(x) \subseteq AF
      BY <1>0, SpeakerIs DEF Says
    <2>2. QED BY <2>1 DEF Says
  <1>3. Streamed'
    BY <1>2, SaysStreamed DEF Says
  <1>4. QED BY <1>1, <1>3

LEMMA ReportsSays ==
  ASSUME DeliveryInv, NEW x \in Speakers, NEW kind \in Reported, Reports(x, kind)
  PROVE  \E r : Says(x, r)
  <1> DEFINE f == <<Frame(x, kind, OnePiece(x, "report"))>>
             r == [speech[x] EXCEPT !.due = f]
  <1>0. SpeechesFit /\ PassedFit
    BY DEF DeliveryInv, PlacesFit
  <1>1. /\ speech[x].at = "turn" /\ speech[x].due = <<>> /\ speech' = [speech EXCEPT ![x] = r]
        /\ Tells(x, f) /\ Counts("tokens") /\ UNCHANGED <<socket, wire, listens, crossed>>
    BY DEF Reports, Speaks, Outside
  <1>2. speech[x] # Silent /\ speech[x] \in Speech /\ speech[x].blocks \in Seq(OwnFrames(x))
    BY <1>0, <1>1, SpeakerIs
  <1>3. f \in Seq(OwnFrames(x)) /\ f \in Seq(AF)
    <2>1. "report" \in Marks
      BY DEF Marks
    <2>2. QED BY <1>0, <1>2, <2>1, SaysOne
  <1>4. passed'.turns = passed.turns
    BY <1>0, <1>1, PassedStays
  <1> HIDE DEF f
  <1>5. r \in Speech /\ r.at = "turn" /\ r.turn = speech[x].turn /\ r.talk = speech[x].talk
        /\ r.blocks = speech[x].blocks /\ r.due = f
    BY <1>1, <1>2, <1>3 DEF Speech
  <1> HIDE DEF r
  <1>6. Says(x, r)
    BY <1>1, <1>2, <1>3, <1>4, <1>5 DEF Says
  <1>7. QED BY <1>6

LEMMA EndCallSays ==
  ASSUME DeliveryInv, NEW x \in Speakers, EndCall(x)
  PROVE  \E r : Says(x, r)
  <1>0. SpeechesFit /\ PassedFit
    BY DEF DeliveryInv, PlacesFit
  <1> DEFINE Fresh(b) == IF b THEN <<Frame(x, "llm_thinking", OnePiece(x, "reasoning"))>> ELSE <<>>
  <1>1. /\ speech[x].at = "call" /\ speech[x].due = <<>> /\ passed' = passed
        /\ UNCHANGED <<socket, wire, listens, crossed>>
    BY DEF EndCall, Talking, Outside
  <1>2. PICK reasons \in {FALSE} \cup {speech[x].said = <<>>} :
          /\ Speaks(x, [speech[x] EXCEPT !.at = "turn", !.due = Extracted(x, speech[x].blocks \o Fresh(reasons))])
          /\ Tells(x, Fresh(reasons))
    BY DEF EndCall
  <1> DEFINE fresh == Fresh(reasons)
             r == [speech[x] EXCEPT !.at = "turn", !.due = fresh]
  <1>3. /\ speech[x] # Silent /\ speech[x] \in Speech /\ speech[x].blocks \in Seq(OwnFrames(x))
        /\ CallFits(speech[x])
    BY <1>0, <1>1, SpeakerIs
  <1>4. fresh \in Seq(OwnFrames(x)) /\ fresh \in Seq(AF)
    <2>1. "reasoning" \in Marks
      BY DEF Marks
    <2>2. <<Frame(x, "llm_thinking", OnePiece(x, "reasoning"))>> \in Seq(OwnFrames(x))
          /\ <<Frame(x, "llm_thinking", OnePiece(x, "reasoning"))>> \in Seq(AF)
      BY <1>0, <1>3, <2>1, SaysOne
    <2>3. <<>> \in Seq(OwnFrames(x)) /\ <<>> \in Seq(AF)
      OBVIOUS
    <2>4. QED BY <2>2, <2>3
  <1>5. Extracted(x, speech[x].blocks \o fresh) = fresh
    <2>1. CASE speech[x].streamed
      <3>1. speech[x].said # <<>>
        BY <1>3, <2>1 DEF CallFits
      <3>2. ~reasons
        BY <1>2, <3>1
      <3>3. QED BY <2>1, <3>2 DEF Extracted
    <2>2. CASE ~speech[x].streamed
      <3>1. speech[x].blocks = <<>>
        BY <1>3, <2>2 DEF CallFits
      <3> HIDE DEF fresh
      <3>2. <<>> \o fresh = fresh
        BY <1>4
      <3>3. QED BY <2>2, <3>1, <3>2 DEF Extracted
    <2>3. QED BY <2>1, <2>2
  <1>6. speech' = [speech EXCEPT ![x] = r] /\ Tells(x, fresh)
    BY <1>2, <1>5 DEF Speaks
  <1> HIDE DEF fresh, Fresh
  <1>7. r \in Speech /\ r.at = "turn" /\ r.turn = speech[x].turn /\ r.talk = speech[x].talk
        /\ r.blocks = speech[x].blocks /\ r.due = fresh
    BY <1>3, <1>4 DEF Speech
  <1> HIDE DEF r
  <1>8. Says(x, r)
    BY <1>1, <1>3, <1>4, <1>6, <1>7 DEF Says
  <1>9. QED BY <1>8

LEMMA BlockSays ==
  ASSUME DeliveryInv, NEW x \in Speakers, Block(x)
  PROVE  \E r : Says(x, r)
  <1> DEFINE p == OnePiece(x, "block")
             f == <<Frame(x, "llm_thinking", p)>>
             said == speech[x].said
             r == [speech[x] EXCEPT !.streamed = TRUE, !.said = @ \o p, !.blocks = @ \o f, !.due = f]
             g == [is |-> "block", at |-> Len(said) + 1]
  <1>0. SpeechesFit /\ PassedFit
    BY DEF DeliveryInv, PlacesFit
  <1>1. /\ speech[x].at = "call" /\ speech[x].due = <<>> /\ speech' = [speech EXCEPT ![x] = r]
        /\ Tells(x, f) /\ Counts("tokens") /\ UNCHANGED <<socket, wire, listens, crossed>>
    BY DEF Block, Talking, Speaks, Outside
  <1>2. /\ speech[x] # Silent /\ speech[x] \in Speech /\ speech[x].blocks \in Seq(OwnFrames(x))
        /\ OwnFrames(x) \subseteq AF
    BY <1>0, <1>1, SpeakerIs
  <1>3. said \in Seq(Pieces) /\ "block" \in Marks /\ speech[x].blocks \in Seq(AF)
    BY <1>2 DEF Speech, Marks
  <1>4. f \in Seq(OwnFrames(x)) /\ f \in Seq(AF)
    BY <1>0, <1>2, <1>3, SaysOne
  <1>5. p = <<g>> /\ g \in Pieces
    BY <1>3, OnePieceIs
  <1>6. g.is = "block"
    OBVIOUS
  <1>7. passed'.turns = passed.turns
    BY <1>0, <1>1, PassedStays
  <1> HIDE DEF f, p, g
  <1>8. said \o p \in Seq(Pieces) /\ said \o p # <<>>
    BY <1>3, <1>5
  <1>9. speech[x].blocks \o f \in Seq(OwnFrames(x)) /\ speech[x].blocks \o f \in Seq(AF)
    BY <1>2, <1>3, <1>4
  <1>10. WellFormed(said \o p) => ~Inside(said) /\ WellFormed(said) /\ ~Inside(said \o p)
    <2>1. Inside(said \o p) <=> g.is = "<think>"
      BY <1>3, <1>5, <1>6, ThoughtTag
    <2>2. ASSUME WellFormed(said \o p) PROVE ~Inside(said) /\ WellFormed(said)
      <3>1. p \in Seq(Pieces) /\ <<>> \in Seq(Pieces)
        BY <1>5
      <3>2. WellFormed(said)
        BY <1>3, <2>2, <3>1, WellFormedBefore
      <3>3. said \o p \o <<>> = said \o p
        BY <1>8
      <3>4. WellFormed(said \o <<g>> \o <<>>)
        BY <1>5, <2>2, <3>3
      <3>5. (g.is = "</think>") = Inside(said)
        BY <1>3, <1>5, <1>6, <3>1, <3>4, TagsFit
      <3>6. QED BY <1>6, <3>2, <3>5
    <2>3. QED BY <1>6, <2>1, <2>2
  <1>11. /\ r \in Speech /\ r.at = "call" /\ r.turn = speech[x].turn /\ r.talk = speech[x].talk
         /\ r.blocks = speech[x].blocks \o f /\ r.due = f /\ r.streamed = TRUE
         /\ r.said = said \o p /\ r.inside = speech[x].inside
    BY <1>1, <1>2, <1>4, <1>8, <1>9 DEF Speech
  <1>12. CallFits(r)
    <2>1. CallFits(speech[x])
      BY <1>0, <1>1, SpeakerIs
    <2>2. WellFormed(said) => (speech[x].inside <=> Inside(said))
      BY <2>1 DEF CallFits
    <2> HIDE DEF r, said
    <2>3. WellFormed(r.said) => (r.inside <=> Inside(r.said))
      BY <1>10, <1>11, <2>2
    <2>4. QED BY <1>8, <1>11, <2>3 DEF CallFits
  <1> HIDE DEF r
  <1>13. Says(x, r)
    BY <1>1, <1>2, <1>4, <1>7, <1>9, <1>11, <1>12 DEF Says
  <1>14. QED BY <1>13

LEMMA TokenSays ==
  ASSUME DeliveryInv, NEW x \in Speakers, NEW token \in TokenShapes, Token(x, token)
  PROVE  \E r : Says(x, r)
  <1> DEFINE said == speech[x].said
             t == Numbered(said, token)
             q == SortedToken(x, t)
             all == said \o t
             r == [q EXCEPT !.said = all]
             heard == Heard(x, said, t)
  <1>0. SpeechesFit /\ PassedFit
    BY DEF DeliveryInv, PlacesFit
  <1>1. /\ speech[x].at = "call" /\ speech[x].due = <<>> /\ WellFormed(all)
        /\ speech' = [speech EXCEPT ![x] = r] /\ Tells(x, heard)
        /\ Counts("tokens") /\ UNCHANGED <<socket, wire, listens, crossed>>
    BY DEF Token, Talking, Speaks, Outside
  <1>2. /\ speech[x] # Silent /\ speech[x] \in Speech /\ speech[x].blocks \in Seq(OwnFrames(x))
        /\ OwnFrames(x) \subseteq AF /\ CallFits(speech[x])
    BY <1>0, <1>1, SpeakerIs
  <1>3. said \in Seq(Pieces) /\ (~speech[x].streamed => speech[x].blocks = <<>>)
        /\ (WellFormed(said) => (speech[x].inside <=> Inside(said)))
    BY <1>2 DEF Speech, CallFits
  <1>4. Sorts(x, t) /\ t \in Seq(Pieces) /\ Len(t) >= 1
    BY <1>1, <1>2, <1>3, TokenSorts
  <1>5. /\ q.due = heard /\ (q.inside <=> Inside(all)) /\ q.streamed \in BOOLEAN /\ q.inside \in BOOLEAN
        /\ ~q.streamed => ~speech[x].streamed
        /\ q = [speech[x] EXCEPT !.inside = q.inside, !.streamed = q.streamed, !.due = q.due]
    BY <1>4 DEF Sorts
  <1>6. heard \in Seq(OwnFrames(x)) /\ heard \in Seq(AF)
    <2>1. heard \in Seq(OwnFrames(x))
      BY <1>4, HeardType
    <2> HIDE DEF heard
    <2>2. QED BY <1>2, <2>1
  <1> HIDE DEF heard, t, q
  <1>7. all \in Seq(Pieces) /\ Len(all) # 0
    BY <1>3, <1>4
  <1> HIDE DEF all
  <1>8. /\ q \in Speech /\ q.at = "call" /\ q.turn = speech[x].turn /\ q.talk = speech[x].talk
        /\ q.blocks = speech[x].blocks
    <2>1. PICK i \in BOOLEAN, z \in BOOLEAN, e \in Seq(AF) : i = q.inside /\ z = q.streamed /\ e = q.due
      BY <1>5, <1>6
    <2>2. q = [speech[x] EXCEPT !.inside = i, !.streamed = z, !.due = e]
      BY <1>5, <2>1
    <2>3. QED BY <1>1, <1>2, <2>2 DEF Speech
  <1>9. /\ r \in Speech /\ r.at = "call" /\ r.turn = speech[x].turn /\ r.talk = speech[x].talk
        /\ r.blocks = speech[x].blocks /\ r.due = heard /\ r.said = all
        /\ r.inside = q.inside /\ r.streamed = q.streamed
    BY <1>5, <1>7, <1>8 DEF Speech
  <1> HIDE DEF r
  <1>10. CallFits(r)
    <2>1. r.said # <<>>
      <3>1. \A s : s = <<>> => Len(s) = 0
        OBVIOUS
      <3>2. QED BY <1>7, <1>9, <3>1
    <2>2. QED BY <1>3, <1>5, <1>9, <2>1 DEF CallFits
  <1>11. passed'.turns = passed.turns
    BY <1>0, <1>1, PassedStays
  <1>12. Says(x, r)
    BY <1>1, <1>2, <1>6, <1>9, <1>10, <1>11 DEF Says
  <1>13. QED BY <1>12

-----------------------------------------------------------------------------
(* Delivery: every step keeps the invariant. *)

LEMMA SpeechesTurn ==
  ASSUME DeliveryInv, NEW x \in Speakers, NEW c \in Talks, StartSpeech(x, c)
  PROVE  SpeechesFit'
  <1> DEFINE n == passed.turns + 1
             r == [Silent EXCEPT !.at = "turn", !.talk = c, !.turn = n]
  <1>0. SpeechesFit /\ PassedFit
    BY DEF DeliveryInv, PlacesFit
  <1>1. /\ passed.turns < MaxSpeeches /\ Counts("turns") /\ speech' = [speech EXCEPT ![x] = r]
    BY DEF StartSpeech, Speaks
  <1>2. /\ passed.turns \in 0..MaxSpeeches /\ passed.turns \in Nat /\ n \in 0..MaxSpeeches /\ passed.turns \in 0..n
        /\ passed'.turns = n /\ n \in 1..n /\ n \notin 1..passed.turns /\ n # 0
    BY <1>0, <1>1, DeliveryAssumption DEF PassedFit, Counts
  <1>3. \A y \in Speakers \ {x} : speech[y].turn # n
    <2>1. \A y \in Speakers : speech[y].turn = 0 \/ speech[y].turn \in 1..passed.turns
      BY <1>0, SpeakerIs DEF Silent
    <2>2. QED BY <1>2, <2>1
  <1> HIDE DEF n
  <1>4. r \in Speech /\ r.at = "turn" /\ r.turn = n /\ r.talk = c /\ r.blocks = <<>> /\ r.due = <<>>
    <2>1. /\ Silent \in Speech /\ Silent.blocks = <<>> /\ Silent.due = <<>>
      <3>1. <<>> \in Seq(Pieces) /\ <<>> \in Seq(AF) /\ 0 \in 0..MaxSpeeches
        BY DeliveryAssumption
      <3>2. QED BY <3>1 DEF Silent, Speech
    <2>2. QED BY <1>2, <2>1 DEF Speech
  <1> HIDE DEF r
  <1>5. SpeechFits(r, n)
    <2>1. <<>> \in Seq(AnyFrame({r.turn}, {r.talk}))
      OBVIOUS
    <2>2. TurnFits(r, n)
      BY <1>2, <1>4, <2>1 DEF TurnFits
    <2>3. QED BY <1>4, <2>2 DEF SpeechFits
  <1>6. QED BY <1>0, <1>1, <1>2, <1>3, <1>4, <1>5, SpeechKept

LEMMA SpeechesCall ==
  ASSUME DeliveryInv, NEW x \in Speakers, StartCall(x)
  PROVE  SpeechesFit'
  <1> DEFINE r == [speech[x] EXCEPT !.at = "call", !.inside = FALSE, !.streamed = FALSE,
                                    !.said = <<>>, !.blocks = <<>>]
  <1>0. SpeechesFit /\ PassedFit
    BY DEF DeliveryInv, PlacesFit
  <1>1. speech[x].at = "turn" /\ speech' = [speech EXCEPT ![x] = r] /\ passed'.turns = passed.turns
    BY <1>0, PassedStays DEF StartCall, Speaks
  <1>2. speech[x] # Silent /\ speech[x] \in Speech /\ speech[x].due \in Seq(OwnFrames(x))
    BY <1>0, <1>1, SpeakerIs
  <1>3. <<>> \in Seq(Pieces) /\ <<>> \in Seq(AF) /\ <<>> \in Seq(OwnFrames(x))
    OBVIOUS
  <1>4. /\ r \in Speech /\ r.at = "call" /\ r.turn = speech[x].turn /\ r.talk = speech[x].talk
        /\ r.due = speech[x].due /\ r.blocks = <<>> /\ r.said = <<>>
        /\ r.inside = FALSE /\ r.streamed = FALSE
    BY <1>2, <1>3 DEF Speech
  <1> HIDE DEF r
  <1>5. CallFits(r)
    <2>1. ~Inside(<<>>)
      BY DEF Inside, Thought
    <2>2. QED BY <1>4, <2>1 DEF CallFits
  <1>6. QED BY <1>0, <1>1, <1>2, <1>3, <1>4, <1>5, SpeechGoesOn

LEMMA SpeechesPublish ==
  ASSUME DeliveryInv, NEW x \in Speakers, Publish(x)
  PROVE  SpeechesFit' /\ WiresFit'
  <1> DEFINE rest == Tail(speech[x].due)
             f == Head(speech[x].due)
             r == [speech[x] EXCEPT !.due = rest]
  <1>0. SpeechesFit /\ PassedFit /\ WiresFit
    BY DEF DeliveryInv, PlacesFit
  <1>1. /\ speech[x].due # <<>> /\ speech' = [speech EXCEPT ![x] = r] /\ Published(f)
        /\ passed'.turns = passed.turns
    BY DEF Publish, Speaks
  <1>2. /\ speech[x] # Silent /\ speech[x] \in Speech /\ OwnFrames(x) \subseteq AF
        /\ speech[x].due \in Seq(OwnFrames(x)) /\ speech[x].blocks \in Seq(OwnFrames(x))
    BY <1>0, <1>1, SpeakerIs
  <1>3. rest \in Seq(OwnFrames(x)) /\ rest \in Seq(AF) /\ f \in AF
    BY <1>1, <1>2
  <1> HIDE DEF rest, f
  <1>4. /\ r \in Speech /\ r.turn = speech[x].turn /\ r.talk = speech[x].talk
        /\ r.at = speech[x].at /\ r.inside = speech[x].inside /\ r.streamed = speech[x].streamed
        /\ r.said = speech[x].said /\ r.blocks = speech[x].blocks /\ r.due = rest
    BY <1>2, <1>3 DEF Speech
  <1>5. speech[x].at \in {"turn", "call"}
    <2>1. SpeechFits(speech[x], passed.turns)
      BY <1>0 DEF SpeechesFit
    <2>2. QED BY <1>2, <2>1 DEF SpeechFits, Speech
  <1>6. r.at = "call" => CallFits(r)
    <2>1. speech[x].at = "call" => CallFits(speech[x])
      BY <1>0, SpeakerIs
    <2> HIDE DEF r
    <2>2. QED BY <1>4, <2>1 DEF CallFits
  <1> HIDE DEF r
  <1>7. SpeechesFit'
    BY <1>0, <1>1, <1>2, <1>3, <1>4, <1>5, <1>6, SpeechGoesOn
  <1>8. WiresFit'
    BY <1>0, <1>1, <1>3 DEF WiresFit, Published
  <1>9. QED BY <1>7, <1>8

LEMMA SpeechesAnswer ==
  ASSUME DeliveryInv, NEW x \in Speakers, Answer(x)
  PROVE  SpeechesFit' /\ WiresFit'
  <1> DEFINE f == Frame(x, IF speech[x].at = "turn" THEN "chat" ELSE "error", OnePiece(x, "answer"))
  <1>0. SpeechesFit /\ PassedFit /\ WiresFit
    BY DEF DeliveryInv, PlacesFit
  <1>1. /\ speech[x].at \in {"turn", "call"} /\ speech' = [speech EXCEPT ![x] = Silent] /\ passed' = passed
        /\ wire' = wire \/ Published(f)
    BY DEF Answer, Speaks
  <1>2. speech[x] # Silent
    BY <1>0, <1>1, SpeakerIs
  <1>3. SpeechFits(Silent, passed.turns)
    <2>1. <<>> \in Seq(Pieces) /\ <<>> \in Seq(AF) /\ 0 \in 0..MaxSpeeches
      BY DeliveryAssumption
    <2>2. Silent \in Speech /\ Silent.at = "quiet"
      BY <2>1 DEF Silent, Speech
    <2>3. QED BY <2>2 DEF SpeechFits
  <1>4. passed.turns \in 0..MaxSpeeches /\ passed.turns \in 0..passed.turns /\ passed'.turns = passed.turns
    BY <1>0, <1>1, DeliveryAssumption DEF PassedFit
  <1>5. SpeechesFit'
    BY <1>0, <1>1, <1>3, <1>4, SpeechKept
  <1>6. f \in AF
    <2>1. "answer" \in Marks
      BY DEF Marks
    <2>2. QED BY <1>0, <1>2, <2>1, SaysOne
  <1> HIDE DEF f
  <1>7. WiresFit'
    <2>1. CASE wire' = wire
      BY <1>0, <2>1 DEF WiresFit
    <2>2. CASE Published(f)
      BY <1>0, <1>6, <2>2 DEF WiresFit, Published
    <2>3. QED BY <1>1, <2>1, <2>2
  <1>8. QED BY <1>5, <1>7

LEMMA DeliveryInit == dlInit => DeliveryInv
  <1> SUFFICES ASSUME dlInit PROVE DeliveryInv
    OBVIOUS
  <1>1. PlacesFit
    BY PlacesInit
  <1>2. SpeechesFit
    <2>1. <<>> \in Seq(Pieces) /\ <<>> \in Seq(AF) /\ 0 \in 0..MaxSpeeches
      BY DeliveryAssumption
    <2>2. Silent \in Speech /\ Silent.at = "quiet"
      BY <2>1 DEF Silent, Speech
    <2>3. \A x \in Speakers : speech[x] = Silent
      BY DEF dlInit
    <2>4. speech \in [Speakers -> Speech]
      BY <2>2 DEF dlInit
    <2>5. QED BY <2>2, <2>3, <2>4 DEF SpeechesFit, SpeechFits
  <1>3. WiresFit
    BY DEF dlInit, WiresFit
  <1>4. Streamed
    BY DEF dlInit, Streamed, Follows, NoSocket
  <1>5. QED BY <1>1, <1>2, <1>3, <1>4 DEF DeliveryInv

\* A step of a speaker changes no connection.
LEMMA SpeakerStep ==
  ASSUME DeliveryInv, NEW x \in Speakers,
         \/ \E c \in Talks : StartSpeech(x, c)
         \/ StartCall(x) \/ Block(x) \/ EndCall(x) \/ Publish(x) \/ Answer(x)
         \/ \E t \in TokenShapes : Token(x, t)
         \/ \E kind \in Reported : Reports(x, kind)
  PROVE  DeliveryInv'
  <1>0. PlacesFit /\ PassedFit /\ WiresFit /\ passed.turns \in 0..MaxSpeeches
    BY DEF DeliveryInv, PlacesFit, PassedFit
  <1>1. PassedFit' /\ passed'.connects = passed.connects
    <2>1. \/ Counts("asked") \/ Counts("tokens") \/ passed' = passed
          \/ Counts("turns") /\ passed.turns < MaxSpeeches
      BY DEF StartSpeech, StartCall, Block, EndCall, Publish, Answer, Token, Reports
    <2>2. CASE Counts("asked") \/ Counts("tokens")
      BY <1>0, <2>2, PassedStays
    <2>3. CASE passed' = passed
      BY <1>0, <2>3 DEF PassedFit
    <2>4. CASE Counts("turns") /\ passed.turns < MaxSpeeches
      BY <1>0, <2>4, DeliveryAssumption DEF PassedFit, Counts
    <2>5. QED BY <2>1, <2>2, <2>3, <2>4
  <1>2. UNCHANGED <<socket, table, crossed>>
    BY DEF StartSpeech, StartCall, Block, EndCall, Publish, Answer, Token, Reports, Outside
  <1>3. PlacesFit'
    BY <1>0, <1>1, <1>2, PlacesStay
  <1>4. SpeechesFit' /\ WiresFit' /\ Streamed'
    <2>1. CASE \E c \in Talks : StartSpeech(x, c)
      <3>1. wire' = wire
        BY <2>1 DEF StartSpeech, Outside
      <3>2. QED BY <1>0, <2>1, <3>1, SpeechesTurn, StreamedStart DEF WiresFit
    <2>2. CASE StartCall(x)
      <3>1. wire' = wire
        BY <2>2 DEF StartCall, Outside
      <3>2. Streamed'
        <4>1. speech[x] # Silent
          BY <2>2, SpeakerIs DEF StartCall, DeliveryInv, PlacesFit
        <4>2. speech[x].talk \in Talks
          BY <4>1, SpeakerIs DEF DeliveryInv, PlacesFit
        <4>3. QED BY <2>2, <4>2, StreamedStart
      <3>3. QED BY <1>0, <2>2, <3>1, <3>2, SpeechesCall DEF WiresFit
    <2>3. CASE Publish(x)
      BY <2>3, SpeechesPublish, StreamedPublish
    <2>4. CASE Answer(x)
      BY <2>4, SpeechesAnswer, StreamedAnswer
    <2>5. CASE \E r : Says(x, r)
      <3>1. WiresFit'
        BY <1>0, <2>5 DEF Says, WiresFit
      <3>2. QED BY <2>5, <3>1, SaysFits
    <2>6. QED BY <2>1, <2>2, <2>3, <2>4, <2>5, BlockSays, EndCallSays, TokenSays, ReportsSays
  <1>5. QED BY <1>3, <1>4 DEF DeliveryInv

LEMMA SocketStep ==
  ASSUME DeliveryInv, NEW s \in Sockets,
         \/ \E c \in Talks, p \in Pods : OpenSocket(s, c, p)
         \/ Leave(s) \/ HandlerEnds(s) \/ HandlerFails(s)
  PROVE  DeliveryInv'
  <1>0. PlacesFit /\ SpeechesFit /\ WiresFit
    BY DEF DeliveryInv
  <1>1. PlacesFit'
    BY <1>0, PlacesOpen, PlacesLeave, PlacesHandler
  <1>2. Streamed'
    BY StreamedOpen, StreamedEnds
  <1>3. speech' = speech /\ wire' = wire /\ passed'.turns = passed.turns
    <2>1. speech' = speech /\ wire' = wire
      BY DEF OpenSocket, Leave, HandlerEnds, HandlerFails
    <2>2. passed' = passed \/ Counts("cuts") \/ Counts("connects")
      BY DEF OpenSocket, Leave, HandlerEnds, HandlerFails
    <2>3. QED BY <1>0, <2>1, <2>2 DEF Counts, PlacesFit, PassedFit
  <1>4. SpeechesFit' /\ WiresFit'
    BY <1>0, <1>3 DEF SpeechesFit, WiresFit
  <1>5. QED BY <1>1, <1>2, <1>4 DEF DeliveryInv

LEMMA PodStep ==
  ASSUME DeliveryInv, NEW p \in Pods, Deliver(p) \/ ListenerEnds(p) \/ CloseAll(p)
  PROVE  DeliveryInv'
  <1>0. PlacesFit /\ SpeechesFit /\ WiresFit /\ PassedFit
    BY DEF DeliveryInv, PlacesFit
  <1>1. PlacesFit' /\ passed'.turns = passed.turns
    <2>1. CASE Deliver(p)
      <3>1. passed' = passed /\ UNCHANGED <<socket, table, crossed>>
        BY <2>1 DEF Deliver
      <3>2. PassedFit'
        BY <1>0, <3>1 DEF PassedFit
      <3>3. QED BY <1>0, <3>1, <3>2, PlacesStay
    <2>2. CASE ListenerEnds(p)
      <3>1. Counts("cuts") /\ UNCHANGED <<socket, table, crossed>>
        BY <2>2 DEF ListenerEnds, PodEnds
      <3>2. PassedFit' /\ passed'.connects = passed.connects /\ passed'.turns = passed.turns
        BY <1>0, <3>1, PassedStays
      <3>3. QED BY <1>0, <3>1, <3>2, PlacesStay
    <2>3. CASE CloseAll(p)
      <3>1. passed'.turns = passed.turns
        BY <1>0, <2>3, PassedStays DEF CloseAll, PodEnds
      <3>2. QED BY <1>0, <2>3, <3>1, PlacesClose
    <2>4. QED BY <2>1, <2>2, <2>3
  <1>2. Streamed'
    BY StreamedDeliver, StreamedFalls
  <1>3. speech' = speech
    BY DEF Deliver, ListenerEnds, CloseAll
  <1>4. SpeechesFit'
    BY <1>0, <1>1, <1>3 DEF SpeechesFit
  <1>5. WiresFit'
    <2>1. CASE Deliver(p)
      <3>1. wire[p] # <<>> /\ wire[p] \in Seq(AF) /\ wire' = [wire EXCEPT ![p] = Tail(wire[p])]
        BY <1>0, <2>1 DEF Deliver, WiresFit
      <3>2. Tail(wire[p]) \in Seq(AF)
        BY <3>1
      <3>3. QED BY <1>0, <3>1, <3>2 DEF WiresFit
    <2>2. CASE ListenerEnds(p) \/ CloseAll(p)
      <3>1. wire' = [wire EXCEPT ![p] = <<>>] /\ <<>> \in Seq(AF)
        BY <2>2 DEF ListenerEnds, CloseAll, PodEnds
      <3>2. QED BY <1>0, <3>1 DEF WiresFit
    <2>3. QED BY <2>1, <2>2
  <1>6. QED BY <1>1, <1>2, <1>4, <1>5 DEF DeliveryInv

LEMMA DeliveryStays == DeliveryInv /\ UNCHANGED dlVars => DeliveryInv'
  <1> SUFFICES ASSUME DeliveryInv, UNCHANGED dlVars PROVE DeliveryInv'
    OBVIOUS
  <1>1. UNCHANGED <<socket, table, speech, wire, listens, owed, crossed, passed>>
    BY DEF dlVars
  <1>2. PlacesFit' /\ SpeechesFit' /\ WiresFit'
    <2>1. PassedFit'
      BY <1>1 DEF DeliveryInv, PlacesFit, PassedFit
    <2>2. PlacesFit'
      BY <1>1, <2>1, PlacesStay DEF DeliveryInv
    <2>3. QED BY <1>1, <2>2 DEF DeliveryInv, SpeechesFit, WiresFit
  <1>3. Streamed'
    <2>1. PICK sq : sq = speech'
      OBVIOUS
    <2>2. \A k \in TurnIds, d \in Talks : DueIn(sq, k, d) = DueIn(speech, k, d)
      BY <1>1, <2>1
    <2>3. \A o \in Sockets : Follows(o)' =>
           /\ Follows(o) /\ socket'[o] = socket[o] /\ owed'[o] = owed[o]
           /\ wire'[socket[o].pod] = wire[socket[o].pod]
      BY <1>1 DEF Follows
    <2>4. QED BY <2>1, <2>2, <2>3, KeptStreamed
  <1>4. QED BY <1>2, <1>3 DEF DeliveryInv

\* Whatever a turn says while a client is connected comes to its socket, or is on its
\* way to it, once, in the order in which the model said it, a word of the answer as a
\* chat token and a word inside the tags of a thought as thinking: for any clients,
\* replicas and conversations, and any of the ways in which a token may hold the tags
\* of one thought (StreamingCallbackHandler, publish_ws_message, _deliver_to_local).
THEOREM DeliveryStreams == dlSpec => []Streamed
  <1>1. DeliveryInv /\ [dlNext]_dlVars => DeliveryInv'
    <2> SUFFICES ASSUME DeliveryInv, [dlNext]_dlVars PROVE DeliveryInv'
      OBVIOUS
    <2>1. CASE UNCHANGED dlVars
      BY <2>1, DeliveryStays
    <2>2. CASE dlNext
      BY <2>2, SpeakerStep, SocketStep, PodStep DEF dlNext
    <2>3. QED BY <2>1, <2>2
  <1>2. DeliveryInv => Streamed
    BY DEF DeliveryInv
  <1>3. QED BY <1>1, <1>2, DeliveryInit, PTL DEF dlSpec
=============================================================================
