---- MODULE AgentStore_proofs ----
(* Proofs about AgentStore: a selection stays a saved one, an agent that a   *)
(* request got is registered, and what destroying, resetting and cloning an  *)
(* agent leave behind, for every set of agents, kinds, categories and tasks. *)
EXTENDS AgentStore, FiniteSetTheorems, SequenceTheorems, TLAPS

-----------------------------------------------------------------------------
(* Sets of numbers and finite sets. *)

\* A set of numbers has a least one; with it, what holds of 0 and of the
\* successor of each number it holds of holds of every number.
LEMMA LeastNumber ==
  ASSUME NEW S \in SUBSET Nat, S # {}
  PROVE  \E n \in S : \A m \in S : n <= m
  <1> DEFINE Less == {p \in Nat \X Nat : p[1] < p[2]}
  <1>1. IsWellFoundedOn(Less, Nat)
    BY NatLessThanWellFounded DEF OpToRel
  <1>2. PICK n \in S : \A m \in S : <<m, n>> \notin Less
    <2> HIDE DEF Less
    <2> QED BY <1>1, WFMin
  <1>3. ASSUME NEW m \in S PROVE n <= m
    <2>1. <<m, n>> \in Nat \X Nat /\ <<m, n>>[1] = m /\ <<m, n>>[2] = n
      OBVIOUS
    <2>2. ~(m < n)
      BY <1>2, <2>1
    <2>3. QED BY <2>2
  <1>4. QED BY <1>3

LEMMA FromZero ==
  ASSUME NEW H, 0 \in H, \A n \in Nat : n \in H => n + 1 \in H
  PROVE  Nat \subseteq H
  <1> SUFFICES ASSUME Nat \ H # {} PROVE FALSE
    OBVIOUS
  <1>1. PICK n \in Nat \ H : \A m \in Nat \ H : n <= m
    BY LeastNumber
  <1>2. n # 0 /\ n - 1 \in Nat
    BY <1>1
  <1>3. n - 1 \in H
    BY <1>1, <1>2
  <1>4. n - 1 + 1 = n
    OBVIOUS
  <1>5. QED BY <1>2, <1>3, <1>4

LEMMA SeqOfSet ==
  ASSUME NEW S, IsFiniteSet(S)
  PROVE  /\ SetToSeq(S) \in Seq(S)
         /\ \A x \in S : \E i \in DOMAIN SetToSeq(S) : SetToSeq(S)[i] = x
         /\ \A i, j \in DOMAIN SetToSeq(S) : SetToSeq(S)[i] = SetToSeq(S)[j] => i = j
  <1> DEFINE n == Cardinality(S)
  <1>1. n \in Nat /\ ExistsBijection(1..n, S)
    BY FS_CardinalityType
  <1>2. PICK g \in Bijection(1..n, S) : TRUE
    BY <1>1 DEF ExistsBijection
  <1>3. g \in [1..n -> S] /\ IsInjective(g)
    BY <1>2 DEF Bijection, Injection
  <1> DEFINE f == SetToSeq(S)
  <1>4. f \in [1..n -> S] /\ IsInjective(f)
    BY <1>3 DEF SetToSeq
  <1> HIDE DEF f
  <1>5. f \in Injection(1..n, S) /\ IsFiniteSet(1..n) /\ Cardinality(1..n) = n
    BY <1>1, <1>4, FS_Interval DEF Injection
  <1>6. f \in Surjection(1..n, S)
    BY <1>5, FS_Injection
  <1>7. f \in Seq(S) /\ DOMAIN f = 1..n
    <2> HIDE DEF n
    <2> QED BY <1>1, <1>4, SeqDef
  <1>8. \A x \in S : \E i \in DOMAIN f : f[i] = x
    BY <1>6, <1>7 DEF Surjection
  <1>9. \A i, j \in DOMAIN f : f[i] = f[j] => i = j
    BY <1>4 DEF IsInjective
  <1>10. QED BY <1>7, <1>8, <1>9 DEF f

-----------------------------------------------------------------------------
(* What a request may hold. *)

Entry == [key : Categories, impl : {"default", "custom"}]
           \union [key : {"plugins", "metadata"}, impl : {"default"}]
Chosen == [key : Categories, impl : {"default", "custom"}]

Loads == {"exists", "settings", "activate", "name", "ensure", "select", "reselect"}
Dos == Loads \union Destroying
         \union {"check", "built", "initialize", "procedures", "supported", "category",
                 "use", "free", "scan", "copy", "copyPoints", "copyFiles", "mark", "flush"}
Call == [key : Keys \union Kinds \union {"settings", "optional", None},
         impl : {"default", "custom", None}, do : Dos, agent : Agents \union {None}]

\* What an item is about, and which requests have it.
Fits(i, op, a, b) ==
    /\ i.do # "flush" => i.agent \in Agents
    /\ op # "factory" => i.agent \in {a, b}
    /\ i.do \in {"ensure", "select", "reselect", "supported", "category"}
         => i.key \in Categories
    /\ i.do = "name" => i.key \in Keys /\ i.impl = "default"
    /\ i.do = "category" => op = "replace" /\ i.impl \in {"default", "custom"}
    /\ i.do = "memory" => i.key \in {"points", "procedures"}
    /\ i.do = "drop" => i.key \in LockKeys
    /\ i.do = "use" => i.key \in Uses
    /\ i.do \in {"scan", "copy", "copyPoints", "copyFiles"} => op = "clone" /\ i.agent = a
    /\ i.do = "copy" => i.key \in {"settings", "plugins", "users", "rows"}
    /\ i.do \in {"check", "built"} => op \in {"create", "reset"} /\ i.agent = a
    /\ i.do \in {"mark", "flush"} => op = "factory"
    /\ op = "factory" => i.do \in Loads \union Destroying \union {"mark", "flush"}
Held(op, a, b) == {i \in Call : Fits(i, op, a, b)}

\* In a factory reset every item has a mark after it.
Marked(p) ==
    \A n \in DOMAIN p : p[n].do \notin {"mark", "flush"} =>
        \E m \in DOMAIN p : n < m /\ p[m].do = "mark"

RequestKinds == {"create", "destroy", "reset", "replace", "use", "update", "clone", "factory"}
Places == {"start", "absent", "chosen", "found", "list", "cleared", "empty", "read"}
Answers == {None, "failed", "refused"}
Requested ==
    [agent : Agents \union {None}, op : RequestKinds \union {"idle"},
     to : Agents \union {None}, prog : Seq(Call), at : Places, seen : Seq(Entry),
     got : SUBSET Chosen, alone : BOOLEAN, built : BOOLEAN, answer : Answers]

Sound(T) ==
    /\ T.op = "idle" => T.prog = <<>>
    /\ T.op # "idle" => T.prog \in Seq(Held(T.op, T.agent, T.to))
    /\ T.op \notin {"idle", "factory"} => T.agent \in Agents
    /\ T.op = "clone" => T.to \in Agents /\ T.to # T.agent
    /\ T.op # "clone" => T.to = None
    /\ T.built => T.op \in {"create", "reset"}
    /\ T.op = "factory" => Marked(T.prog)
    /\ T.at = "chosen" =>
         /\ T.prog # <<>> /\ Head(T.prog).do \in {"select", "reselect"}
         /\ \E s \in Chosen : T.seen = <<s>> /\ s.key = Head(T.prog).key

Documents == Seq(Entry) \union {None}
Stores ==
    /\ doc \in [Agents -> Documents]
    /\ data \in [Agents -> SUBSET Kinds]
    /\ locks \in [Agents -> [LockKeys -> Tasks \union {None}]]
    /\ acked \in [Agents -> [Categories -> {"default", "custom", None}]]
    /\ offered \subseteq Categories
    /\ raced \subseteq Agents

Shapes ==
    /\ Stores
    /\ task \in [Tasks -> Requested]
    /\ \A t \in Tasks : Sound(task[t])

-----------------------------------------------------------------------------
(* The record of a request after a step. *)

Turned(T, p, g, bu, an) ==
    [T EXCEPT !.prog = p, !.at = "start", !.seen = <<>>, !.got = g, !.built = bu,
              !.answer = an]

LEMMA TurnedIs ==
  ASSUME NEW T \in Requested, NEW p \in Seq(Call), NEW g \in SUBSET Chosen,
         NEW bu \in BOOLEAN, NEW an \in Answers
  PROVE  LET r == Turned(T, p, g, bu, an) IN
         /\ r \in Requested
         /\ r.agent = T.agent /\ r.op = T.op /\ r.to = T.to /\ r.alone = T.alone
         /\ r.prog = p /\ r.at = "start" /\ r.seen = <<>> /\ r.got = g
         /\ r.built = bu /\ r.answer = an
  <1>1. <<>> \in Seq(Entry) /\ "start" \in Places
    BY EmptySeq DEF Places
  <1>2. QED BY <1>1 DEF Turned, Requested

LEMMA StayIs ==
  ASSUME NEW t \in Tasks, task[t] \in Requested, NEW at \in Places, NEW s \in Seq(Entry)
  PROVE  LET r == Stay(t, at, s) IN
         /\ r \in Requested
         /\ r.agent = task[t].agent /\ r.op = task[t].op /\ r.to = task[t].to
         /\ r.alone = task[t].alone /\ r.prog = task[t].prog /\ r.got = task[t].got
         /\ r.built = task[t].built /\ r.answer = task[t].answer
         /\ r.at = at /\ r.seen = s
  BY DEF Stay, Requested

LEMMA Forms ==
  ASSUME NEW t \in Tasks, task[t] \in Requested, NEW p
  PROVE  LET T == task[t] IN
         /\ Then(t, p) = Turned(T, p, T.got, T.built, T.answer)
         /\ Next1(t) = Turned(T, Tail(T.prog), T.got, T.built, T.answer)
  BY DEF Then, Next1, Turned, Requested

LEMMA HeldAreCalls ==
  ASSUME NEW op, NEW a, NEW b
  PROVE  Seq(Held(op, a, b)) \subseteq Seq(Call)
  <1>1. Held(op, a, b) \subseteq Call
    BY DEF Held
  <1>2. QED BY <1>1, SeqMonotonic

\* A request that goes on with another program is sound.
LEMMA TurnedSound ==
  ASSUME NEW T \in Requested, Sound(T), T.op # "idle",
         NEW p \in Seq(Held(T.op, T.agent, T.to)), NEW g \in SUBSET Chosen,
         NEW bu \in BOOLEAN, NEW an \in Answers,
         bu => T.op \in {"create", "reset"},
         T.op = "factory" => Marked(p)
  PROVE  Turned(T, p, g, bu, an) \in Requested /\ Sound(Turned(T, p, g, bu, an))
  <1> DEFINE r == Turned(T, p, g, bu, an)
  <1>0. p \in Seq(Call)
    BY HeldAreCalls
  <1>1. /\ r \in Requested
        /\ r.agent = T.agent /\ r.op = T.op /\ r.to = T.to
        /\ r.prog = p /\ r.at = "start" /\ r.built = bu
    BY <1>0, TurnedIs
  <1> HIDE DEF r
  <1>2. Sound(r)
    BY <1>1 DEF Sound
  <1>3. QED BY <1>1, <1>2 DEF r

-----------------------------------------------------------------------------
(* Programs. *)

LEMMA HeadOf ==
  ASSUME Shapes, NEW t \in Tasks, task[t].prog # <<>>
  PROVE  LET T == task[t] IN
         /\ T \in Requested /\ Sound(T) /\ T.op # "idle"
         /\ T.prog \in Seq(Held(T.op, T.agent, T.to))
         /\ Item(t) \in Held(T.op, T.agent, T.to)
         /\ Item(t) \in Call /\ Fits(Item(t), T.op, T.agent, T.to)
         /\ Tail(T.prog) \in Seq(Held(T.op, T.agent, T.to))
         /\ Item(t) = T.prog[1]
         /\ Len(T.prog) \in Nat \ {0} /\ Len(Tail(T.prog)) = Len(T.prog) - 1
         /\ \A n \in 1..Len(Tail(T.prog)) : Tail(T.prog)[n] = T.prog[n + 1]
  <1> DEFINE T == task[t]
             S == Held(T.op, T.agent, T.to)
  <1>1. T \in Requested /\ Sound(T)
    BY DEF Shapes
  <1>2. T.op # "idle" /\ T.prog \in Seq(S)
    BY <1>1 DEF Sound
  <1> HIDE DEF S
  <1>3. Head(T.prog) \in S /\ Tail(T.prog) \in Seq(S)
        /\ Len(Tail(T.prog)) = Len(T.prog) - 1
        /\ \A n \in 1..Len(Tail(T.prog)) : Tail(T.prog)[n] = T.prog[n + 1]
    BY <1>2, HeadTailProperties
  <1>4. Len(T.prog) \in Nat \ {0} /\ Head(T.prog) = T.prog[1]
    BY <1>2, EmptySeq
  <1>5. QED BY <1>1, <1>2, <1>3, <1>4 DEF Item, S, Held

\* Items put before the rest of a program, as a step does.
LEMMA MarkedMore ==
  ASSUME NEW S \in SUBSET Call, NEW p \in Seq(S), p # <<>>, Marked(p),
         p[1].do \notin {"mark", "flush"}, NEW q \in Seq(S)
  PROVE  Marked(q \o Tail(p))
  <1> DEFINE r == q \o Tail(p)
  <1>1. /\ Tail(p) \in Seq(S) /\ Len(Tail(p)) = Len(p) - 1
        /\ \A n \in 1..Len(Tail(p)) : Tail(p)[n] = p[n + 1]
    BY HeadTailProperties
  <1>2. Len(q) \in Nat /\ Len(p) \in Nat /\ DOMAIN p = 1..Len(p)
    BY LenProperties
  <1>3. /\ r \in Seq(S) /\ Len(r) = Len(q) + (Len(p) - 1)
        /\ \A n \in 1..Len(r) : r[n] = IF n <= Len(q) THEN q[n] ELSE Tail(p)[n - Len(q)]
    BY <1>1, ConcatProperties
  <1>4. DOMAIN r = 1..Len(r)
    BY <1>3, LenProperties
  <1> HIDE DEF r
  <1>5. \A m \in DOMAIN p : m # 1 => r[Len(q) + (m - 1)] = p[m] /\ Len(q) + (m - 1) \in DOMAIN r
    BY <1>1, <1>2, <1>3, <1>4
  <1>6. Len(p) # 0
    BY <1>2, EmptySeq
  <1>7. ASSUME NEW n \in DOMAIN r, r[n].do \notin {"mark", "flush"}
        PROVE  \E m \in DOMAIN r : n < m /\ r[m].do = "mark"
    <2>1. CASE n <= Len(q)
      <3>1. PICK m \in DOMAIN p : 1 < m /\ p[m].do = "mark"
        BY <1>2, <1>6 DEF Marked
      <3>2. n < Len(q) + (m - 1)
        BY <2>1, <3>1, <1>2, <1>4
      <3>3. QED BY <1>5, <3>1, <3>2
    <2>2. CASE ~(n <= Len(q))
      <3> DEFINE k == n - Len(q) + 1
      <3>1. n \in 1..Len(r) /\ n - Len(q) \in 1..Len(Tail(p))
        BY <2>2, <1>1, <1>2, <1>3, <1>4
      <3>2. k \in DOMAIN p /\ r[n] = p[k]
        <4>1. k \in DOMAIN p
          BY <3>1, <1>1, <1>2
        <4>2. r[n] = Tail(p)[n - Len(q)]
          BY <3>1, <1>3, <2>2
        <4>3. Tail(p)[n - Len(q)] = p[k]
          BY <3>1, <1>1
        <4>4. QED BY <4>1, <4>2, <4>3
      <3>3. PICK m \in DOMAIN p : k < m /\ p[m].do = "mark"
        BY <3>2, <1>7 DEF Marked
      <3>4. m # 1 /\ n < Len(q) + (m - 1)
        BY <3>2, <3>3, <1>2, <1>4
      <3>5. QED BY <1>5, <3>3, <3>4
    <2>3. QED BY <2>1, <2>2
  <1>8. QED BY <1>7 DEF Marked, r

LEMMA MarkedTail ==
  ASSUME NEW S \in SUBSET Call, NEW p \in Seq(S), p # <<>>, Marked(p)
  PROVE  Marked(Tail(p))
  <1>1. /\ Tail(p) \in Seq(S) /\ Len(Tail(p)) = Len(p) - 1
        /\ \A n \in 1..Len(Tail(p)) : Tail(p)[n] = p[n + 1]
    BY HeadTailProperties
  <1>2. Len(p) \in Nat /\ DOMAIN p = 1..Len(p) /\ DOMAIN Tail(p) = 1..(Len(p) - 1)
    BY <1>1, LenProperties
  <1>3. ASSUME NEW n \in DOMAIN Tail(p), Tail(p)[n].do \notin {"mark", "flush"}
        PROVE  \E m \in DOMAIN Tail(p) : n < m /\ Tail(p)[m].do = "mark"
    <2>1. n + 1 \in DOMAIN p /\ p[n + 1] = Tail(p)[n]
      BY <1>1, <1>2
    <2>2. PICK m \in DOMAIN p : n + 1 < m /\ p[m].do = "mark"
      BY <2>1, <1>3 DEF Marked
    <2>3. m - 1 \in DOMAIN Tail(p) /\ Tail(p)[m - 1] = p[m] /\ n < m - 1
      BY <1>1, <1>2, <2>2
    <2>4. QED BY <2>2, <2>3
  <1>4. QED BY <1>3 DEF Marked

\* What is left of a program after its first mark.
LEMMA AfterMarkIs ==
  ASSUME NEW S \in SUBSET Call, NEW p \in Seq(S), p # <<>>, Marked(p),
         p[1].do \notin {"mark", "flush"}
  PROVE  AfterMark(p) \in Seq(S) /\ Marked(AfterMark(p))
  <1> DEFINE M == {j \in DOMAIN p : p[j].do = "mark"}
             First(j) == /\ p[j].do = "mark"
                         /\ \A k \in 1..(j - 1) : p[k].do # "mark"
             i == CHOOSE j \in DOMAIN p : First(j)
             r == SubSeq(p, i + 1, Len(p))
  <1>1. Len(p) \in Nat \ {0} /\ DOMAIN p = 1..Len(p)
    <2>1. Len(p) \in Nat \ {0}
      BY EmptySeq
    <2>2. DOMAIN p = 1..Len(p)
      BY LenProperties
    <2>3. QED BY <2>1, <2>2
  <1>2. M # {} /\ M \subseteq Nat
    <2>1. 1 \in DOMAIN p
      BY <1>1
    <2>2. PICK m \in DOMAIN p : p[m].do = "mark"
      BY <2>1 DEF Marked
    <2>3. QED BY <1>1, <2>2
  <1>3. PICK j \in M : \A k \in M : j <= k
    BY <1>2, LeastNumber
  <1>4. j \in DOMAIN p /\ First(j)
    <2>1. ASSUME NEW k \in 1..(j - 1) PROVE p[k].do # "mark"
      <3>1. k \in DOMAIN p /\ ~(j <= k)
        BY <1>1, <1>3
      <3>2. QED BY <3>1, <1>3
    <2>2. QED BY <2>1, <1>3
  <1>5. i \in DOMAIN p /\ First(i)
    BY <1>4
  <1>6. AfterMark(p) = r
    BY DEF AfterMark
  <1> HIDE DEF i
  <1>7. i \in 1..Len(p)
    BY <1>1, <1>5
  <1>8. \A k \in (i + 1)..Len(p) : p[k] \in S
    BY <1>7, ElementOfSeq
  <1>9. /\ r \in Seq(S) /\ Len(r) = IF i + 1 <= Len(p) THEN Len(p) - (i + 1) + 1 ELSE 0
        /\ \A k \in 1..(Len(p) - (i + 1) + 1) : r[k] = p[(i + 1) + k - 1]
    BY <1>1, <1>7, <1>8, SubSeqProperties
  <1>10. DOMAIN r = 1..Len(r)
    BY <1>9, LenProperties
  <1> HIDE DEF r, First, M
  <1>a. i \in Nat /\ Len(p) \in Nat /\ i <= Len(p)
    BY <1>1, <1>7
  <1>b. Len(r) = Len(p) - i
    BY <1>a, <1>9
  <1>11. ASSUME NEW k \in DOMAIN r PROVE i + k \in DOMAIN p /\ r[k] = p[i + k]
    <2>1. k \in 1..(Len(p) - i)
      BY <1>b, <1>10
    <2>2. i + k \in 1..Len(p) /\ k \in 1..(Len(p) - (i + 1) + 1) /\ (i + 1) + k - 1 = i + k
      BY <2>1, <1>a
    <2>3. QED BY <2>2, <1>9, <1>1
  <1>12. ASSUME NEW m \in DOMAIN p, i < m
         PROVE  m - i \in DOMAIN r /\ r[m - i] = p[m]
    <2>1. m \in 1..Len(p)
      BY <1>1
    <2>2. m - i \in 1..(Len(p) - i) /\ i + (m - i) = m
      BY <2>1, <1>a, <1>12
    <2>3. QED BY <2>2, <1>b, <1>10, <1>11
  <1>13. ASSUME NEW n \in DOMAIN r, r[n].do \notin {"mark", "flush"}
         PROVE  \E m \in DOMAIN r : n < m /\ r[m].do = "mark"
    <2>1. PICK m \in DOMAIN p : i + n < m /\ p[m].do = "mark"
      BY <1>11, <1>13 DEF Marked
    <2>2. i < m /\ n < m - i
      <3>1. n \in Nat \ {0} /\ m \in Nat
        BY <1>1, <1>10, <1>a, <1>b
      <3>2. QED BY <2>1, <3>1, <1>a
    <2>3. QED BY <2>1, <2>2, <1>12
  <1>14. QED BY <1>6, <1>9, <1>13 DEF Marked

-----------------------------------------------------------------------------
(* The programs of the requests. *)

LEMMA CategorySeqIs ==
  /\ CategorySeq \in Seq(Categories)
  /\ \A c \in Categories : \E i \in DOMAIN CategorySeq : CategorySeq[i] = c
  /\ \A i, j \in DOMAIN CategorySeq : CategorySeq[i] = CategorySeq[j] => i = j
  BY AgentsAssumption, SeqOfSet DEF CategorySeq

LEMMA PerCategoryIs ==
  ASSUME NEW S, NEW d, NEW a, \A c \in Categories : On(d, a, c) \in S
  PROVE  /\ PerCategory(d, a) \in Seq(S)
         /\ DOMAIN PerCategory(d, a) = DOMAIN CategorySeq
         /\ \A i \in DOMAIN CategorySeq : PerCategory(d, a)[i] = On(d, a, CategorySeq[i])
  <1> DEFINE n == Len(CategorySeq)
             f == PerCategory(d, a)
  <1>1. n \in Nat /\ DOMAIN CategorySeq = 1..n
        /\ \A i \in DOMAIN CategorySeq : CategorySeq[i] \in Categories
    BY CategorySeqIs, LenProperties
  <1>2. f = [i \in DOMAIN CategorySeq |-> On(d, a, CategorySeq[i])]
    BY DEF PerCategory
  <1> HIDE DEF n, f
  <1>3. f \in [1..n -> S]
    BY <1>1, <1>2
  <1>4. f \in Seq(S)
    BY <1>1, <1>3, SeqDef
  <1>5. QED BY <1>1, <1>2, <1>4 DEF f

LEMMA BuildProgIs ==
  ASSUME NEW S, NEW a, Do("activate", a) \in S, Upsert("name", a, "plugins", "default") \in S,
         \A c \in Categories : On("ensure", a, c) \in S /\ On("select", a, c) \in S
  PROVE  BuildProg(a) \in Seq(S)
  <1>1. PerCategory("ensure", a) \in Seq(S) /\ PerCategory("select", a) \in Seq(S)
    BY PerCategoryIs
  <1>2. <<Do("activate", a), Upsert("name", a, "plugins", "default")>> \in Seq(S)
    OBVIOUS
  <1>3. QED BY <1>1, <1>2, ConcatProperties DEF BuildProg

\* The items with which an agent is loaded.
LoadsOf(a) ==
    {i \in Call : /\ i.do \in Loads /\ i.agent = a
                  /\ i.do \in {"ensure", "select", "reselect"} => i.key \in Categories
                  /\ i.do = "name" => i.key \in Keys \ {"metadata"} /\ i.impl = "default"}

LEMMA LoadItems ==
  ASSUME NEW a \in Agents
  PROVE  /\ Do("exists", a) \in LoadsOf(a) /\ Do("settings", a) \in LoadsOf(a)
         /\ On("settings", a, "optional") \in LoadsOf(a)
         /\ Do("activate", a) \in LoadsOf(a)
         /\ Upsert("name", a, "plugins", "default") \in LoadsOf(a)
         /\ \A c \in Categories :
              /\ On("ensure", a, c) \in LoadsOf(a) /\ On("select", a, c) \in LoadsOf(a)
              /\ On("reselect", a, c) \in LoadsOf(a)
              /\ Upsert("name", a, c, "default") \in LoadsOf(a)
  BY AgentsAssumption
     DEF LoadsOf, Call, Dos, Loads, Kinds, RedisKinds, Keys, Do, On, Upsert

LEMMA LoadProgIs ==
  ASSUME NEW a \in Agents
  PROVE  BuildProg(a) \in Seq(LoadsOf(a)) /\ LoadProg(a) \in Seq(LoadsOf(a))
  <1>1. BuildProg(a) \in Seq(LoadsOf(a))
    BY LoadItems, BuildProgIs
  <1>2. <<Do("exists", a), Do("settings", a)>> \in Seq(LoadsOf(a))
    BY LoadItems
  <1>3. QED BY <1>1, <1>2, ConcatProperties DEF LoadProg

LEMMA LoadsHeld ==
  ASSUME NEW op \in RequestKinds, NEW a \in Agents \union {None},
         NEW b \in Agents \union {None}, NEW x \in Agents,
         op # "factory" => x \in {a, b}
  PROVE  LoadsOf(x) \subseteq Held(op, a, b)
  BY DEF LoadsOf, Held, Fits, Loads, Dos, Keys

Destructive(a) ==
    {i \in Call : /\ i.do \in Destroying /\ i.agent = a
                  /\ i.do = "memory" => i.key \in {"points", "procedures"}
                  /\ i.do = "drop" => i.key \in LockKeys}

LEMMA DestroyProgIs ==
  ASSUME NEW a \in Agents
  PROVE  DestroyProg(a) \in Seq(Destructive(a))
  <1>1. \A k \in {"points", "procedures"} : On("memory", a, k) \in Destructive(a)
    BY DEF Destructive, Call, Dos, Destroying, Kinds, RedisKinds, On
  <1>2. \A k \in LockKeys : On("drop", a, k) \in Destructive(a)
    BY DEF Destructive, Call, Dos, Destroying, Kinds, RedisKinds, On, LockKeys
  <1>3. Do("folder", a) \in Destructive(a) /\ Do("purge", a) \in Destructive(a)
    BY DEF Destructive, Call, Dos, Destroying, Do
  <1>4. QED BY <1>1, <1>2, <1>3 DEF DestroyProg, LockKeys

LEMMA DestructiveHeld ==
  ASSUME NEW op \in RequestKinds, NEW a \in Agents \union {None},
         NEW b \in Agents \union {None}, NEW x \in Agents,
         op # "factory" => x \in {a, b}
  PROVE  Destructive(x) \subseteq Held(op, a, b)
  BY DEF Destructive, Held, Fits, Loads, Destroying, Dos

-----------------------------------------------------------------------------
(* The shapes after a step. *)

LEMMA TaskStep ==
  ASSUME Shapes, NEW t \in Tasks, NEW r \in Requested, Sound(r), Becomes(t, r), Stores'
  PROVE  Shapes'
  <1>1. task' \in [Tasks -> Requested]
    BY DEF Shapes, Becomes
  <1>2. ASSUME NEW u \in Tasks PROVE Sound(task'[u])
    BY DEF Shapes, Becomes
  <1>3. QED BY <1>1, <1>2 DEF Shapes

LEMMA QuietStores ==
  ASSUME Shapes, UNCHANGED_store, UNCHANGED offered
  PROVE  Stores'
  BY DEF Shapes, Stores, UNCHANGED_store, Documents

LEMMA AdvanceKeeps ==
  ASSUME Shapes, NEW t \in Tasks, task[t].prog # <<>>, Advance(t), Stores'
  PROVE  Shapes'
  <1> DEFINE T == task[t]
  <1>1. T \in Requested /\ Sound(T) /\ T.op # "idle"
        /\ Tail(T.prog) \in Seq(Held(T.op, T.agent, T.to))
    BY HeadOf
  <1>2. T.op = "factory" => Marked(Tail(T.prog))
    <2>1. Held(T.op, T.agent, T.to) \subseteq Call
      BY DEF Held
    <2>2. T.prog \in Seq(Held(T.op, T.agent, T.to))
      BY HeadOf
    <2>3. QED BY <1>1, <2>1, <2>2, MarkedTail DEF Sound
  <1>3. T.got \in SUBSET Chosen /\ T.built \in BOOLEAN /\ T.answer \in Answers
        /\ (T.built => T.op \in {"create", "reset"})
    BY <1>1 DEF Requested, Sound
  <1>4. Next1(t) = Turned(T, Tail(T.prog), T.got, T.built, T.answer)
    BY <1>1, Forms
  <1>5. Next1(t) \in Requested /\ Sound(Next1(t))
    BY <1>1, <1>2, <1>3, <1>4, TurnedSound
  <1>6. QED BY <1>5, TaskStep DEF Advance

LEMMA StayKeeps ==
  ASSUME Shapes, NEW t \in Tasks, task[t].prog # <<>>, NEW at \in Places \ {"chosen"},
         NEW s \in Seq(Entry), Becomes(t, Stay(t, at, s)), Stores'
  PROVE  Shapes'
  <1> DEFINE r == Stay(t, at, s)
  <1>1. /\ r \in Requested
        /\ r.agent = task[t].agent /\ r.op = task[t].op /\ r.to = task[t].to
        /\ r.prog = task[t].prog /\ r.built = task[t].built /\ r.at = at
    BY StayIs DEF Shapes
  <1> HIDE DEF r
  <1>2. Sound(r)
    BY <1>1 DEF Shapes, Sound
  <1>3. QED BY <1>1, <1>2, TaskStep DEF r

\* A step that puts other items in the place of its own.
LEMMA MoreKeeps ==
  ASSUME Shapes, NEW t \in Tasks, task[t].prog # <<>>,
         NEW q \in Seq(Held(task[t].op, task[t].agent, task[t].to)),
         Item(t).do \notin {"mark", "flush"},
         Becomes(t, Then(t, q \o Tail(task[t].prog))), Stores'
  PROVE  Shapes'
  <1> DEFINE T == task[t]
             S == Held(T.op, T.agent, T.to)
             p == q \o Tail(T.prog)
  <1>1. /\ T \in Requested /\ Sound(T) /\ T.op # "idle" /\ T.prog \in Seq(S)
        /\ Tail(T.prog) \in Seq(S) /\ Item(t) = T.prog[1]
    BY HeadOf
  <1>2. p \in Seq(S)
    BY <1>1, ConcatProperties
  <1>3. T.op = "factory" => Marked(p)
    <2>1. S \in SUBSET Call
      BY DEF Held
    <2> HIDE DEF S
    <2>2. QED BY <1>1, <2>1, MarkedMore DEF Sound, S
  <1>4. T.got \in SUBSET Chosen /\ T.built \in BOOLEAN /\ T.answer \in Answers
        /\ (T.built => T.op \in {"create", "reset"})
    BY <1>1 DEF Requested, Sound
  <1>5. Then(t, p) = Turned(T, p, T.got, T.built, T.answer)
    BY <1>1, Forms
  <1> HIDE DEF p
  <1>6. Then(t, p) \in Requested /\ Sound(Then(t, p))
    BY <1>1, <1>2, <1>3, <1>4, <1>5, TurnedSound
  <1>7. QED BY <1>6, TaskStep DEF p

\* A request that ends, and one that fails.
LEMMA EndKeeps ==
  ASSUME Shapes, NEW t \in Tasks, task[t].prog # <<>>, NEW an \in Answers,
         NEW r, r = Turned(task[t], <<>>, task[t].got, task[t].built, an),
         Becomes(t, r), Stores'
  PROVE  Shapes'
  <1> DEFINE T == task[t]
  <1>1. T \in Requested /\ Sound(T) /\ T.op # "idle"
    BY HeadOf
  <1>2. <<>> \in Seq(Held(T.op, T.agent, T.to)) /\ Marked(<<>>)
    BY EmptySeq DEF Marked
  <1>3. T.got \in SUBSET Chosen /\ T.built \in BOOLEAN
        /\ (T.built => T.op \in {"create", "reset"})
    BY <1>1 DEF Requested, Sound
  <1>4. r \in Requested /\ Sound(r)
    BY <1>1, <1>2, <1>3, TurnedSound
  <1>5. QED BY <1>4, TaskStep

LEMMA FailKeeps ==
  ASSUME Shapes, NEW t \in Tasks, task[t].prog # <<>>, Fail(t), Stores'
  PROVE  Shapes'
  <1> DEFINE T == task[t]
             S == Held(T.op, T.agent, T.to)
  <1>1. /\ T \in Requested /\ Sound(T) /\ T.op # "idle" /\ T.prog \in Seq(S)
        /\ Item(t) = T.prog[1]
    BY HeadOf
  <1>2. T.got \in SUBSET Chosen /\ T.built \in BOOLEAN /\ T.answer \in Answers
        /\ (T.built => T.op \in {"create", "reset"}) /\ T.op \in RequestKinds
        /\ T.agent \in Agents \union {None} /\ T.to \in Agents \union {None}
        /\ "failed" \in Answers
    BY <1>1 DEF Requested, Sound, Answers
  <1>3. CASE T.built
    <2>1. Becomes(t, Turned(T, DestroyProg(T.agent), T.got, FALSE, "failed"))
      <3> DEFINE p == DestroyProg(T.agent)
      <3>1. AfterFailure(t) = [Then(t, p) EXCEPT !.built = FALSE, !.answer = "failed"]
        BY <1>3 DEF AfterFailure
      <3> HIDE DEF p
      <3>2. AfterFailure(t) = Turned(T, p, T.got, FALSE, "failed")
        BY <1>1, <3>1 DEF Then, Turned, Requested
      <3>3. QED BY <3>2 DEF Fail, p
    <2>2. T.op \in {"create", "reset"} /\ T.agent \in Agents
      BY <1>1, <1>3 DEF Sound
    <2>3. DestroyProg(T.agent) \in Seq(S)
      BY <2>2, <1>2, DestroyProgIs, DestructiveHeld, SeqMonotonic
    <2>4. QED
      BY <1>1, <1>2, <2>1, <2>2, <2>3, TurnedSound, TaskStep
  <1>4. CASE ~T.built /\ T.op = "factory" /\ Item(t).do \in Destroying
    <2>1. Becomes(t, Turned(T, AfterMark(T.prog), T.got, T.built, T.answer))
      BY <1>1, <1>4, Forms DEF Fail, AfterFailure
    <2>2. S \in SUBSET Call
      BY DEF Held
    <2>3. AfterMark(T.prog) \in Seq(S) /\ Marked(AfterMark(T.prog))
      <3>1. Marked(T.prog)
        BY <1>1, <1>4 DEF Sound
      <3> HIDE DEF S
      <3>2. T.prog[1].do \notin {"mark", "flush"}
        BY <1>1, <1>4 DEF Destroying
      <3>3. QED BY <1>1, <2>2, <3>1, <3>2, AfterMarkIs
    <2>4. QED
      BY <1>1, <1>2, <1>4, <2>1, <2>3, TurnedSound, TaskStep
  <1>5. CASE ~T.built /\ ~(T.op = "factory" /\ Item(t).do \in Destroying)
    <2>1. Becomes(t, Turned(T, <<>>, T.got, T.built, "failed"))
      <3>1. AfterFailure(t) = [Then(t, <<>>) EXCEPT !.answer = "failed"]
        BY <1>5 DEF AfterFailure
      <3>2. AfterFailure(t) = Turned(T, <<>>, T.got, T.built, "failed")
        BY <1>1, <3>1 DEF Then, Turned, Requested
      <3>3. QED BY <3>2 DEF Fail
    <2>2. QED BY <1>2, <2>1, EndKeeps
  <1>6. QED BY <1>3, <1>4, <1>5

-----------------------------------------------------------------------------
(* The shapes are kept: the steps that load an agent. *)

LEMMA EntriesIs ==
  ASSUME Shapes, NEW a \in Agents
  PROVE  Entries(doc[a]) \in Seq(Entry)
  BY EmptySeq DEF Shapes, Stores, Documents, Entries

LEMMA ItemKind ==
  ASSUME Shapes, NEW t \in Tasks, task[t].prog # <<>>
  PROVE  /\ Item(t) \in Call /\ Fits(Item(t), task[t].op, task[t].agent, task[t].to)
         /\ task[t].op \in RequestKinds
         /\ task[t].agent \in Agents \union {None} /\ task[t].to \in Agents \union {None}
         /\ Item(t).do # "flush" => Item(t).agent \in Agents
         /\ task[t].op # "factory" => Item(t).agent \in {task[t].agent, task[t].to}
  <1>1. task[t] \in Requested /\ task[t].op # "idle" /\ Item(t) \in Call
        /\ Fits(Item(t), task[t].op, task[t].agent, task[t].to)
    BY HeadOf
  <1>2. QED BY <1>1 DEF Requested, Fits

\* An item of loading the agent of the head item may be held, too.
LEMMA LoadsOfItem ==
  ASSUME Shapes, NEW t \in Tasks, task[t].prog # <<>>, Item(t).do # "flush"
  PROVE  LoadsOf(Item(t).agent) \subseteq Held(task[t].op, task[t].agent, task[t].to)
  BY ItemKind, LoadsHeld

LEMMA ExistsKeeps ==
  ASSUME Shapes, NEW t \in Tasks, Exists(t)
  PROVE  Shapes'
  <1>1. task[t].prog # <<>> /\ Stores'
    BY QuietStores DEF Exists, At, UNCHANGED_world
  <1>2. QED BY <1>1, AdvanceKeeps, FailKeeps DEF Exists

LEMMA SettingsKeeps ==
  ASSUME Shapes, NEW t \in Tasks, Settings(t)
  PROVE  Shapes'
  <1> DEFINE T == task[t]
             S == Held(T.op, T.agent, T.to)
  <1>1. T.prog # <<>> /\ Stores' /\ Item(t).do = "settings"
    BY QuietStores DEF Settings, At, UNCHANGED_world
  <1>2. T \in Requested /\ Sound(T) /\ T.op # "idle" /\ T.answer \in Answers
    BY <1>1, HeadOf DEF Requested
  <1>3. CASE Advance(t) \/ Fail(t)
    BY <1>1, <1>3, AdvanceKeeps, FailKeeps
  <1>4. CASE Becomes(t, Then(t, <<>>))
    BY <1>1, <1>2, <1>4, Forms, EndKeeps
  <1>5. CASE T.op = "factory" /\ Becomes(t, Then(t, AfterMark(T.prog)))
    <2>1. S \in SUBSET Call /\ T.prog \in Seq(S) /\ T.prog[1].do \notin {"mark", "flush"}
          /\ Marked(T.prog)
      BY <1>1, <1>2, <1>5, HeadOf DEF Held, Sound
    <2>2. AfterMark(T.prog) \in Seq(S) /\ Marked(AfterMark(T.prog))
      <3> HIDE DEF S
      <3> QED BY <1>1, <2>1, AfterMarkIs
    <2>3. T.got \in SUBSET Chosen /\ T.built \in BOOLEAN
          /\ (T.built => T.op \in {"create", "reset"})
      BY <1>2 DEF Requested, Sound
    <2> DEFINE r == Then(t, AfterMark(T.prog))
    <2>4. r = Turned(T, AfterMark(T.prog), T.got, T.built, T.answer)
      BY <1>2, Forms
    <2>5. r \in Requested /\ Sound(r)
      BY <1>2, <2>2, <2>3, <2>4, TurnedSound
    <2>6. QED BY <1>1, <1>5, <2>5, TaskStep
  <1>6. QED BY <1>3, <1>4, <1>5 DEF Settings

LEMMA ActivateKeeps ==
  ASSUME Shapes, NEW t \in Tasks, Activate(t) \/ ActivateStore(t)
  PROVE  Shapes'
  <1>1. CASE Activate(t)
    <2>1. task[t].prog # <<>> /\ Stores'
      BY <1>1, QuietStores DEF Activate, At, UNCHANGED_world
    <2>2. "absent" \in Places \ {"chosen"} /\ <<>> \in Seq(Entry)
      BY EmptySeq DEF Places
    <2>3. QED BY <1>1, <2>1, <2>2, AdvanceKeeps, StayKeeps DEF Activate
  <1>2. CASE ActivateStore(t)
    <2>1. task[t].prog # <<>> /\ Item(t).do = "activate"
      BY <1>2 DEF ActivateStore, At
    <2>2. Stores'
      BY <1>2, <2>1, ItemKind
         DEF ActivateStore, Shapes, Stores, Kinds, RedisKinds, UNCHANGED_world
    <2>3. QED BY <1>2, <2>1, <2>2, AdvanceKeeps DEF ActivateStore
  <1>3. QED BY <1>1, <1>2

LEMMA EnsureKeeps ==
  ASSUME Shapes, NEW t \in Tasks, Ensure(t)
  PROVE  Shapes'
  <1> DEFINE i == Item(t)
             q == <<Upsert("name", i.agent, i.key, "default")>>
  <1>1. task[t].prog # <<>> /\ Stores' /\ i.do = "ensure"
    BY QuietStores DEF Ensure, At, UNCHANGED_world
  <1>2. i.agent \in Agents /\ i.key \in Categories
    BY <1>1, ItemKind DEF Fits
  <1>3. q \in Seq(Held(task[t].op, task[t].agent, task[t].to))
    BY <1>1, <1>2, LoadItems, LoadsOfItem
  <1>4. CASE Advance(t)
    BY <1>1, <1>4, AdvanceKeeps
  <1>5. CASE Becomes(t, Then(t, q \o Tail(task[t].prog)))
    BY <1>1, <1>3, <1>5, MoreKeeps
  <1>6. QED BY <1>4, <1>5 DEF Ensure

\* The setting that is selected of a category.
LEMMA SelectedIs ==
  ASSUME NEW d \in Documents, NEW c
  PROVE  LET n == Selected(d, c)
             E == Entries(d)
         IN \/ /\ n = 0
               /\ \A j \in DOMAIN E : E[j].key # c
            \/ /\ n \in DOMAIN E /\ E[n].key = c
               /\ \A j \in DOMAIN E : E[j].key = c => n <= j
  <1> DEFINE E == Entries(d)
             I == {j \in 1..Len(E) : E[j].key = c}
             n == Selected(d, c)
  <1>1. E \in Seq(Entry)
    BY EmptySeq DEF Entries, Documents
  <1>2. DOMAIN E = 1..Len(E) /\ Len(E) \in Nat
    BY <1>1, LenProperties
  <1>3. n = IF I # {} THEN Min(I) ELSE 0
    BY DEF Selected, SelectInSeq
  <1>4. CASE I = {}
    BY <1>2, <1>3, <1>4
  <1>5. CASE I # {}
    <2>1. I \in SUBSET Nat
      BY <1>2
    <2>2. \E x \in I : \A y \in I : x <= y
      <3> HIDE DEF I
      <3> QED BY <1>5, <2>1, LeastNumber
    <2>3. Min(I) \in I /\ \A y \in I : Min(I) <= y
      <3> HIDE DEF I
      <3> QED BY <2>2 DEF Min
    <2>4. QED BY <1>2, <1>3, <1>5, <2>3
  <1>6. QED BY <1>4, <1>5

LEMMA SelectKeeps ==
  ASSUME Shapes, NEW t \in Tasks, Select(t)
  PROVE  Shapes'
  <1> DEFINE T == task[t]
             i == Item(t)
             n == Selected(doc[i.agent], i.key)
             q == <<Upsert("name", i.agent, i.key, "default"),
                    On("reselect", i.agent, i.key)>>
  <1>1. T.prog # <<>> /\ Stores' /\ i.do \in {"select", "reselect"}
    BY QuietStores DEF Select, At, UNCHANGED_world
  <1>2. i.agent \in Agents /\ i.key \in Categories
    BY <1>1, ItemKind DEF Fits
  <1>3. CASE Fail(t)
    BY <1>1, <1>3, FailKeeps
  <1>4. CASE Becomes(t, Then(t, q \o Tail(T.prog)))
    <2>1. q \in Seq(Held(T.op, T.agent, T.to))
      BY <1>1, <1>2, LoadItems, LoadsOfItem
    <2>2. QED BY <1>1, <1>4, <2>1, MoreKeeps
  <1>5. CASE n # 0 /\ Becomes(t, Stay(t, "chosen", <<doc[i.agent][n]>>))
    <2> DEFINE s == doc[i.agent][n]
               r == Stay(t, "chosen", <<s>>)
    <2>1. doc[i.agent] \in Documents /\ Entries(doc[i.agent]) \in Seq(Entry)
      BY <1>2, EntriesIs DEF Shapes, Stores
    <2>2. n \in DOMAIN Entries(doc[i.agent]) /\ Entries(doc[i.agent])[n].key = i.key
      BY <1>5, <2>1, SelectedIs
    <2>3. Entries(doc[i.agent]) = doc[i.agent]
      BY <2>2 DEF Entries
    <2>4. s \in Entry /\ s.key = i.key
      BY <2>1, <2>2, <2>3, ElementOfSeq, LenProperties
    <2>5. s \in Chosen /\ <<s>> \in Seq(Entry)
      BY <2>4, <1>2 DEF Entry, Chosen
    <2>6. /\ r \in Requested
          /\ r.agent = T.agent /\ r.op = T.op /\ r.to = T.to /\ r.prog = T.prog
          /\ r.built = T.built /\ r.at = "chosen" /\ r.seen = <<s>>
      <3>1. "chosen" \in Places /\ T \in Requested
        BY DEF Places, Shapes
      <3> DEFINE w == <<s>>
      <3>2. w \in Seq(Entry)
        BY <2>5
      <3>3. r = Stay(t, "chosen", w)
        OBVIOUS
      <3> HIDE DEF w, r
      <3>4. /\ r \in Requested
            /\ r.agent = T.agent /\ r.op = T.op /\ r.to = T.to /\ r.prog = T.prog
            /\ r.built = T.built /\ r.at = "chosen" /\ r.seen = w
        BY <3>1, <3>2, <3>3, StayIs
      <3>5. QED BY <3>4 DEF w
    <2> HIDE DEF r
    <2>7. Sound(T) /\ i = Head(T.prog)
      BY DEF Shapes, Item
    <2>8. Sound(r)
      <3> HIDE DEF s, i
      <3> QED BY <1>1, <2>4, <2>5, <2>6, <2>7 DEF Sound
    <2>9. QED BY <1>1, <1>5, <2>6, <2>8, TaskStep DEF r
  <1>6. QED BY <1>3, <1>4, <1>5 DEF Select

LEMMA InstantiateKeeps ==
  ASSUME Shapes, NEW t \in Tasks, Instantiate(t)
  PROVE  Shapes'
  <1> DEFINE T == task[t]
             i == Item(t)
             s == T.seen[1]
             usable == /\ s.impl = "custom" => i.key \in offered
                       /\ Has(doc[i.agent], "name", s)
             x == IF usable THEN s ELSE Setting(i.key, "default")
             r == [Next1(t) EXCEPT !.got = @ \union {x}]
  <1>1. T.prog # <<>> /\ Stores' /\ i.do \in {"select", "reselect"} /\ T.at = "chosen"
    BY QuietStores DEF Instantiate, At, UNCHANGED_world
  <1>2. T \in Requested /\ Sound(T) /\ T.op # "idle"
        /\ Tail(T.prog) \in Seq(Held(T.op, T.agent, T.to))
        /\ T.prog \in Seq(Held(T.op, T.agent, T.to))
    BY <1>1, HeadOf
  <1>3. s \in Chosen /\ s.key = i.key /\ i.key \in Categories
    BY <1>1, <1>2, ItemKind DEF Sound, Fits, Item
  <1>4. x \in Chosen
    BY <1>3 DEF Chosen, Setting
  <1>5. Becomes(t, r)
    BY DEF Instantiate
  <1> HIDE DEF x
  <1>6. T.got \union {x} \in SUBSET Chosen /\ T.built \in BOOLEAN /\ T.answer \in Answers
        /\ (T.built => T.op \in {"create", "reset"})
    BY <1>2, <1>4 DEF Requested, Sound
  <1>7. r = Turned(T, Tail(T.prog), T.got \union {x}, T.built, T.answer)
    BY <1>2 DEF Next1, Then, Turned, Requested
  <1>8. T.op = "factory" => Marked(Tail(T.prog))
    <2>1. Held(T.op, T.agent, T.to) \in SUBSET Call
      BY DEF Held
    <2>2. QED BY <1>1, <1>2, <2>1, MarkedTail DEF Sound
  <1>9. r \in Requested /\ Sound(r)
    <2> DEFINE g == T.got \union {x}
               p == Tail(T.prog)
    <2>1. g \in SUBSET Chosen /\ p \in Seq(Held(T.op, T.agent, T.to))
          /\ (T.op = "factory" => Marked(p)) /\ r = Turned(T, p, g, T.built, T.answer)
      BY <1>2, <1>6, <1>7, <1>8
    <2> HIDE DEF g, p, r
    <2>2. QED BY <1>2, <1>6, <2>1, TurnedSound
  <1>10. QED BY <1>1, <1>5, <1>9, TaskStep

-----------------------------------------------------------------------------
(* The shapes are kept: upserts. *)

LEMMA UpsertIs ==
  ASSUME Shapes, NEW t \in Tasks, NEW at, IsUpsert(t, at)
  PROVE  LET i == Item(t) IN
         /\ task[t].prog # <<>> /\ task[t].at = at /\ i.do \in {"name", "category"}
         /\ i.agent \in Agents /\ i.key \in Keys /\ i.impl \in {"default", "custom"}
         /\ Setting(i.key, i.impl) \in Entry
         /\ i.do = "category" => task[t].op = "replace" /\ i.key \in Categories
         /\ i.do = "name" => i.impl = "default"
  <1>1. task[t].prog # <<>> /\ task[t].at = at /\ Item(t).do \in {"name", "category"}
    BY DEF IsUpsert, At
  <1>2. QED BY <1>1, ItemKind DEF Fits, Setting, Entry, Keys

LEMMA PathSetIs ==
  ASSUME NEW d \in Seq(Entry), NEW by, NEW e \in Entry
  PROVE  /\ PathSet(d, by, e) \in Seq(Entry)
         /\ DOMAIN PathSet(d, by, e) = DOMAIN d
         /\ \A i \in DOMAIN d : PathSet(d, by, e)[i] = IF Same(by, d[i], e) THEN e ELSE d[i]
  <1> DEFINE n == Len(d)
             f == PathSet(d, by, e)
  <1>1. n \in Nat /\ DOMAIN d = 1..n /\ d \in [1..n -> Entry]
    BY LenProperties
  <1>2. f = [i \in DOMAIN d |-> IF Same(by, d[i], e) THEN e ELSE d[i]]
    BY DEF PathSet
  <1> HIDE DEF n, f
  <1>3. f \in [1..n -> Entry]
    BY <1>1, <1>2
  <1>4. f \in Seq(Entry)
    BY <1>1, <1>3, SeqDef
  <1>5. QED BY <1>1, <1>2, <1>4 DEF f

LEMMA AckIs ==
  ASSUME Shapes, NEW t \in Tasks, NEW at, IsUpsert(t, at), Ack(t)
  PROVE  acked' \in [Agents -> [Categories -> {"default", "custom", None}]]
  <1>1. CASE Acknowledges(t)
    <2>1. /\ Item(t).agent \in Agents /\ Item(t).key \in Categories
          /\ Item(t).impl \in {"default", "custom"}
      BY <1>1, UpsertIs DEF Acknowledges
    <2>2. QED BY <1>1, <2>1 DEF Ack, Shapes, Stores
  <1>2. CASE ~Acknowledges(t)
    BY <1>2 DEF Ack, Shapes, Stores
  <1>3. QED BY <1>1, <1>2

LEMMA DocTyped ==
  ASSUME Shapes, NEW a \in Agents, NEW d \in Documents,
         doc' = [doc EXCEPT ![a] = d]
  PROVE  doc' \in [Agents -> Documents]
  BY DEF Shapes, Stores

LEMMA LookupKeeps ==
  ASSUME Shapes, NEW t \in Tasks, Lookup(t)
  PROVE  Shapes'
  <1>1. task[t].prog # <<>> /\ Stores'
    BY QuietStores, UpsertIs DEF Lookup, UNCHANGED_world
  <1>2. "found" \in Places \ {"chosen"} /\ "absent" \in Places \ {"chosen"}
        /\ <<>> \in Seq(Entry)
    BY EmptySeq DEF Places
  <1>3. CASE Becomes(t, Stay(t, "found", <<>>))
    BY <1>1, <1>2, <1>3, StayKeeps
  <1>4. CASE Becomes(t, Stay(t, "absent", <<>>))
    BY <1>1, <1>2, <1>4, StayKeeps
  <1>5. QED BY <1>3, <1>4 DEF Lookup

LEMMA StorePathKeeps ==
  ASSUME Shapes, NEW t \in Tasks, StorePath(t)
  PROVE  Shapes'
  <1> DEFINE i == Item(t)
             e == Setting(i.key, i.impl)
  <1>0. IsUpsert(t, "found")
    BY DEF StorePath
  <1>1. task[t].prog # <<>> /\ i.agent \in Agents /\ e \in Entry
    BY <1>0, UpsertIs
  <1>2. UNCHANGED <<data, locks, raced, offered>>
    BY DEF StorePath, UNCHANGED_world
  <1>3. CASE Fail(t) /\ UNCHANGED <<doc, acked>>
    <2>1. Stores'
      BY <1>2, <1>3 DEF Shapes, Stores, Documents
    <2>2. QED BY <1>1, <1>3, <2>1, FailKeeps
  <1>4. CASE /\ doc[i.agent] # None
             /\ doc' = [doc EXCEPT ![i.agent] = PathSet(@, i.do, e)]
             /\ Advance(t)
             /\ Ack(t) \/ UNCHANGED acked
    <2> DEFINE d == PathSet(doc[i.agent], i.do, e)
    <2>1. doc[i.agent] \in Seq(Entry)
      BY <1>1, <1>4 DEF Shapes, Stores, Documents
    <2>2. d \in Documents
      BY <1>1, <2>1, PathSetIs DEF Documents
    <2>3. doc' = [doc EXCEPT ![i.agent] = d]
      BY <1>4
    <2> HIDE DEF d
    <2>4. doc' \in [Agents -> Documents]
      BY <1>1, <2>2, <2>3, DocTyped
    <2>5. acked' \in [Agents -> [Categories -> {"default", "custom", None}]]
      BY <1>0, <1>4, AckIs DEF Shapes, Stores
    <2>6. Stores'
      BY <1>2, <2>4, <2>5 DEF Shapes, Stores
    <2>7. QED BY <1>1, <1>4, <2>6, AdvanceKeeps
  <1>5. QED BY <1>3, <1>4 DEF StorePath

LEMMA ReadListKeeps ==
  ASSUME Shapes, NEW t \in Tasks, ReadList(t)
  PROVE  Shapes'
  <1>1. IsUpsert(t, "absent") /\ Stores'
    BY QuietStores DEF ReadList, UNCHANGED_world
  <1>2. task[t].prog # <<>> /\ Item(t).agent \in Agents
    BY <1>1, UpsertIs
  <1>3. Entries(doc[Item(t).agent]) \in Seq(Entry) /\ "list" \in Places \ {"chosen"}
    BY <1>2, EntriesIs DEF Places
  <1>4. QED BY <1>1, <1>2, <1>3, StayKeeps DEF ReadList

LEMMA StoreListKeeps ==
  ASSUME Shapes, NEW t \in Tasks, StoreList(t)
  PROVE  Shapes'
  <1> DEFINE i == Item(t)
             e == Setting(i.key, i.impl)
             d == Append(task[t].seen, e)
  <1>0. IsUpsert(t, "list") /\ Ack(t) /\ Advance(t) /\ UNCHANGED <<data, locks, offered>>
    BY DEF StoreList, UNCHANGED_world
  <1>1. task[t].prog # <<>> /\ i.agent \in Agents /\ e \in Entry
    BY <1>0, UpsertIs
  <1>2. task[t].seen \in Seq(Entry)
    BY DEF Shapes, Requested
  <1>3. d \in Documents
    BY <1>1, <1>2, AppendProperties DEF Documents
  <1>4. doc' = [doc EXCEPT ![i.agent] = d]
    BY DEF StoreList
  <1> HIDE DEF d
  <1>5. doc' \in [Agents -> Documents]
    BY <1>1, <1>3, <1>4, DocTyped
  <1>6. acked' \in [Agents -> [Categories -> {"default", "custom", None}]]
    BY <1>0, AckIs
  <1>7. raced' \subseteq Agents
    BY <1>1 DEF StoreList, Shapes, Stores
  <1>8. Stores'
    BY <1>0, <1>5, <1>6, <1>7 DEF Shapes, Stores
  <1>9. QED BY <1>0, <1>1, <1>8, AdvanceKeeps

-----------------------------------------------------------------------------
(* The shapes are kept: the other steps. *)

LEMMA PassKeeps ==
  ASSUME Shapes, NEW t \in Tasks,
         Supported(t) \/ Initialize(t) \/ LockTimeout(t) \/ Mark(t)
  PROVE  Shapes'
  <1>1. task[t].prog # <<>> /\ Stores' /\ (Advance(t) \/ Fail(t))
    BY QuietStores DEF Supported, Initialize, LockTimeout, Mark, At, UNCHANGED_world
  <1>2. QED BY <1>1, AdvanceKeeps, FailKeeps

LEMMA CheckKeeps ==
  ASSUME Shapes, NEW t \in Tasks, Check(t)
  PROVE  Shapes'
  <1> DEFINE a == Item(t).agent
             q == <<Do("exists", a), On("settings", a, "optional")>> \o BuildProg(a)
             S == Held(task[t].op, task[t].agent, task[t].to)
  <1>1. task[t].prog # <<>> /\ Stores' /\ Item(t).do = "check"
    BY QuietStores DEF Check, At, UNCHANGED_world
  <1>2. a \in Agents
    BY <1>1, ItemKind
  <1>3. q \in Seq(LoadsOf(a))
    <2>1. <<Do("exists", a), On("settings", a, "optional")>> \in Seq(LoadsOf(a))
      BY <1>2, LoadItems
    <2>2. QED BY <1>2, <2>1, LoadProgIs, ConcatProperties
  <1>4. q \in Seq(S)
    BY <1>1, <1>3, LoadsOfItem, SeqMonotonic
  <1>5. CASE Advance(t)
    BY <1>1, <1>5, AdvanceKeeps
  <1>6. CASE Becomes(t, Then(t, q))
    <2> DEFINE T == task[t]
    <2>1. T \in Requested /\ Sound(T) /\ T.op # "idle" /\ T.op \in {"create", "reset"}
      BY <1>1, HeadOf, ItemKind DEF Fits
    <2>2. T.got \in SUBSET Chosen /\ T.built \in BOOLEAN /\ T.answer \in Answers
      BY <2>1 DEF Requested
    <2>3. Then(t, q) = Turned(T, q, T.got, T.built, T.answer)
      BY <2>1, Forms
    <2> HIDE DEF q
    <2>4. Then(t, q) \in Requested /\ Sound(Then(t, q))
      BY <1>4, <2>1, <2>2, <2>3, TurnedSound
    <2>5. QED BY <1>1, <1>6, <2>4, TaskStep
  <1>7. Advance(t) \/ Becomes(t, Then(t, q))
    BY DEF Check
  <1>8. QED BY <1>5, <1>6, <1>7

LEMMA BuiltKeeps ==
  ASSUME Shapes, NEW t \in Tasks, Built(t)
  PROVE  Shapes'
  <1> DEFINE T == task[t]
             p == Tail(T.prog)
             r == [Next1(t) EXCEPT !.built = TRUE]
  <1>1. T.prog # <<>> /\ Stores' /\ Item(t).do = "built"
    BY QuietStores DEF Built, At, UNCHANGED_world
  <1>2. T \in Requested /\ Sound(T) /\ T.op # "idle" /\ p \in Seq(Held(T.op, T.agent, T.to))
    BY <1>1, HeadOf
  <1>3. T.op \in {"create", "reset"}
    BY <1>1, ItemKind DEF Fits
  <1>4. r = Turned(T, p, T.got, TRUE, T.answer)
    BY <1>2 DEF Next1, Then, Turned, Requested
  <1>5. T.got \in SUBSET Chosen /\ T.answer \in Answers /\ TRUE \in BOOLEAN
    BY <1>2 DEF Requested
  <1> HIDE DEF p, r
  <1>6. r \in Requested /\ Sound(r)
    BY <1>2, <1>3, <1>4, <1>5, TurnedSound
  <1>7. QED BY <1>1, <1>6, TaskStep DEF Built, r

\* The steps that store or remove data of an agent.
LEMMA DataTyped ==
  ASSUME Shapes, NEW a \in Agents, NEW D \in SUBSET Kinds,
         data' = [data EXCEPT ![a] = D], UNCHANGED <<doc, locks, acked, raced, offered>>
  PROVE  Stores'
  BY DEF Shapes, Stores, Documents

LEMMA ClearKeeps ==
  ASSUME Shapes, NEW t \in Tasks, ClearProcedures(t)
  PROVE  Shapes'
  <1>1. task[t].prog # <<>> /\ Item(t).agent \in Agents
    BY ItemKind DEF ClearProcedures, At
  <1>2. data[Item(t).agent] \ {"procedures"} \in SUBSET Kinds
    BY <1>1 DEF Shapes, Stores
  <1>3. Stores'
    BY <1>1, <1>2, DataTyped DEF ClearProcedures, UNCHANGED_world
  <1>4. "cleared" \in Places \ {"chosen"} /\ <<>> \in Seq(Entry)
    BY EmptySeq DEF Places
  <1>5. QED BY <1>1, <1>3, <1>4, StayKeeps DEF ClearProcedures

LEMMA DataKeeps ==
  ASSUME Shapes, NEW t \in Tasks,
         \/ EmbedProcedures(t) \/ Use(t) \/ Memory(t) \/ Folder(t) \/ Purge(t)
         \/ AddPoints(t) \/ CopyFiles(t)
  PROVE  Shapes'
  <1>1. task[t].prog # <<>> /\ Advance(t) /\ UNCHANGED <<doc, locks, acked, raced, offered>>
    BY DEF EmbedProcedures, Use, Memory, Folder, Purge, AddPoints, CopyFiles, At,
           UNCHANGED_world
  <1>2. CASE EmbedProcedures(t) \/ Use(t) \/ Memory(t) \/ Folder(t) \/ Purge(t)
    <2>1. Item(t).agent \in Agents
      BY <1>1, <1>2, ItemKind DEF EmbedProcedures, Use, Memory, Folder, Purge, At
    <2>2. Item(t).do = "use" => Item(t).key \in Kinds
      BY <1>1, ItemKind, AgentsAssumption DEF Fits
    <2>3. PICK D \in SUBSET Kinds : data' = [data EXCEPT ![Item(t).agent] = D]
      <3>1. data[Item(t).agent] \in SUBSET Kinds /\ "procedures" \in Kinds
        BY <2>1 DEF Shapes, Stores, Kinds
      <3>2. QED
        BY <1>2, <2>2, <3>1 DEF EmbedProcedures, Use, Memory, Folder, Purge, At
    <2>4. Stores'
      BY <1>1, <2>1, <2>3, DataTyped
    <2>5. QED BY <1>1, <2>4, AdvanceKeeps
  <1>3. CASE AddPoints(t) \/ CopyFiles(t)
    <2>1. task[t].op = "clone"
      BY <1>1, <1>3, ItemKind DEF AddPoints, CopyFiles, At, Fits
    <2>2. task[t].to \in Agents
      BY <2>1 DEF Shapes, Sound
    <2>3. PICK D \in SUBSET Kinds : data' = [data EXCEPT ![task[t].to] = D]
      <3>1. data[task[t].to] \in SUBSET Kinds /\ "points" \in Kinds /\ "files" \in Kinds
        BY <2>2 DEF Shapes, Stores, Kinds
      <3>2. QED BY <1>3, <3>1 DEF AddPoints, CopyFiles
    <2>4. Stores'
      BY <1>1, <2>2, <2>3, DataTyped
    <2>5. QED BY <1>1, <2>4, AdvanceKeeps
  <1>4. QED BY <1>2, <1>3

LEMMA CollectKeeps ==
  ASSUME Shapes, NEW t \in Tasks, Collect(t)
  PROVE  Shapes'
  <1>1. task[t].prog # <<>> /\ Item(t).do = "drop" /\ UNCHANGED <<doc, data, acked, raced, offered>>
    BY DEF Collect, At, UNCHANGED_world
  <1>2. Item(t).agent \in Agents /\ Item(t).key \in LockKeys
    BY <1>1, ItemKind DEF Fits
  <1>3. Stores'
    BY <1>1, <1>2 DEF Collect, Shapes, Stores
  <1>4. "found" \in Places \ {"chosen"} /\ "empty" \in Places \ {"chosen"}
        /\ <<>> \in Seq(Entry)
    BY EmptySeq DEF Places
  <1>5. CASE Becomes(t, Stay(t, "found", <<>>))
    BY <1>1, <1>3, <1>4, <1>5, StayKeeps
  <1>6. CASE Becomes(t, Stay(t, "empty", <<>>))
    BY <1>1, <1>3, <1>4, <1>6, StayKeeps
  <1>7. QED BY <1>5, <1>6 DEF Collect

LEMMA DeleteKeeps ==
  ASSUME Shapes, NEW t \in Tasks, Delete(t)
  PROVE  Shapes'
  <1> DEFINE a == Item(t).agent
             k == Item(t).key
  <1>1. task[t].prog # <<>> /\ Item(t).do = "drop" /\ UNCHANGED <<raced, offered>>
        /\ Advance(t)
    BY DEF Delete, At, UNCHANGED_world
  <1>2. a \in Agents /\ k \in LockKeys
    BY <1>1, ItemKind DEF Fits
  <1>3. doc' \in [Agents -> Documents]
    BY <1>2 DEF Delete, Shapes, Stores, Documents
  <1>4. acked' \in [Agents -> [Categories -> {"default", "custom", None}]]
    BY <1>2 DEF Delete, Shapes, Stores, NoAck
  <1>5. data' \in [Agents -> SUBSET Kinds]
    <2>1. PICK D \in SUBSET Kinds : data' = [data EXCEPT ![a] = D]
      <3>1. data[a] \in SUBSET Kinds
        BY <1>2 DEF Shapes, Stores
      <3>2. QED BY <3>1 DEF Delete
    <2>2. QED BY <1>2, <2>1 DEF Shapes, Stores
  <1>6. locks' \in [Agents -> [LockKeys -> Tasks \union {None}]]
    <2>1. locks' = [locks EXCEPT ![a][k] = IF @ = t THEN None ELSE @]
      BY DEF Delete
    <2>2. QED BY <1>2, <2>1 DEF Shapes, Stores
  <1>7. Stores'
    BY <1>1, <1>3, <1>4, <1>5, <1>6 DEF Shapes, Stores
  <1>8. QED BY <1>1, <1>7, AdvanceKeeps

-----------------------------------------------------------------------------
(* The shapes are kept: cloning, the factory reset, ends and failures. *)

LEMMA FreeKeeps ==
  ASSUME Shapes, NEW t \in Tasks, Free(t)
  PROVE  Shapes'
  <1> DEFINE T == task[t]
             r == [Then(t, <<>>) EXCEPT !.answer = "refused"]
  <1>1. T.prog # <<>> /\ Stores'
    BY QuietStores DEF Free, At, UNCHANGED_world
  <1>2. T \in Requested
    BY DEF Shapes
  <1>3. CASE Advance(t)
    BY <1>1, <1>3, AdvanceKeeps
  <1>4. CASE Becomes(t, r)
    <2>1. r = Turned(T, <<>>, T.got, T.built, "refused") /\ "refused" \in Answers
      BY <1>2 DEF Then, Turned, Requested, Answers
    <2> HIDE DEF r
    <2>2. QED BY <1>1, <1>4, <2>1, EndKeeps
  <1>5. QED BY <1>3, <1>4 DEF Free

\* What a clone copies of an agent.
LEMMA CopiesAre ==
  ASSUME NEW a, NEW K \in SUBSET {"settings", "plugins", "users", "rows"}
  PROVE  LET q == SetToSeq(K)
             p == [i \in DOMAIN q |-> On("copy", a, q[i])]
         IN /\ p \in Seq({On("copy", a, k) : k \in K})
            /\ \A k \in K : \E i \in DOMAIN p : p[i] = On("copy", a, k)
  <1> DEFINE q == SetToSeq(K)
             p == [i \in DOMAIN q |-> On("copy", a, q[i])]
             n == Len(q)
  <1>1. IsFiniteSet(K)
    <2>1. IsFiniteSet({}) /\ IsFiniteSet({} \union {"settings"})
      BY FS_EmptySet, FS_AddElement
    <2>2. IsFiniteSet({} \union {"settings"} \union {"plugins"})
      BY <2>1, FS_AddElement
    <2>3. IsFiniteSet({} \union {"settings"} \union {"plugins"} \union {"users"})
      BY <2>2, FS_AddElement
    <2>4. IsFiniteSet({} \union {"settings"} \union {"plugins"} \union {"users"}
                        \union {"rows"})
      BY <2>3, FS_AddElement
    <2>5. {} \union {"settings"} \union {"plugins"} \union {"users"} \union {"rows"}
            = {"settings", "plugins", "users", "rows"}
      OBVIOUS
    <2>6. QED BY <2>4, <2>5, FS_Subset
  <1>2. q \in Seq(K) /\ \A k \in K : \E i \in DOMAIN q : q[i] = k
    BY <1>1, SeqOfSet
  <1> HIDE DEF q
  <1>3. n \in Nat /\ DOMAIN q = 1..n /\ q \in [1..n -> K]
    BY <1>2, LenProperties
  <1> HIDE DEF n
  <1>4. p \in [1..n -> {On("copy", a, k) : k \in K}]
    BY <1>3
  <1>5. p \in Seq({On("copy", a, k) : k \in K})
    BY <1>3, <1>4, SeqDef
  <1>6. \A k \in K : \E i \in DOMAIN p : p[i] = On("copy", a, k)
    BY <1>2
  <1>7. QED BY <1>5, <1>6 DEF q

LEMMA ScanKeeps ==
  ASSUME Shapes, NEW t \in Tasks, Scan(t)
  PROVE  Shapes'
  <1> DEFINE a == Item(t).agent
             T == task[t]
             K == {k \in {"settings", "plugins", "users", "rows"} : Stored(a, k)}
             seq == SetToSeq(K)
             p == [i \in DOMAIN seq |-> On("copy", a, seq[i])]
  <1>1. T.prog # <<>> /\ Stores' /\ Item(t).do = "scan"
    BY QuietStores DEF Scan, At, UNCHANGED_world
  <1>2. T.op = "clone" /\ a = T.agent /\ a \in Agents
    BY <1>1, ItemKind DEF Fits
  <1>3. {On("copy", a, k) : k \in K} \subseteq Held(T.op, T.agent, T.to)
    <2> HIDE DEF a
    <2>1. ASSUME NEW k \in {"settings", "plugins", "users", "rows"}
          PROVE  On("copy", a, k) \in Held(T.op, T.agent, T.to)
      BY <1>2 DEF Held, Fits, On, Call, Dos, Kinds, RedisKinds
    <2>2. QED BY <2>1
  <1>4. p \in Seq({On("copy", a, k) : k \in K})
    <2>1. K \in SUBSET {"settings", "plugins", "users", "rows"}
      OBVIOUS
    <2> HIDE DEF K, a
    <2>2. QED BY <2>1, CopiesAre
  <1>5. p \in Seq(Held(T.op, T.agent, T.to))
    <2> HIDE DEF K, p
    <2> QED BY <1>3, <1>4, SeqMonotonic
  <1>6. Becomes(t, Then(t, p \o Tail(T.prog)))
    BY DEF Scan
  <1> HIDE DEF p
  <1>7. QED BY <1>1, <1>5, <1>6, MoreKeeps

LEMMA CopyReadKeeps ==
  ASSUME Shapes, NEW t \in Tasks, CopyRead(t) \/ CopyPoints(t)
  PROVE  Shapes'
  <1>1. task[t].prog # <<>> /\ Stores' /\ Item(t).do \in {"copy", "copyPoints"}
    BY QuietStores DEF CopyRead, CopyPoints, At, UNCHANGED_world
  <1>2. Item(t).agent \in Agents
    BY <1>1, ItemKind
  <1>3. Entries(doc[Item(t).agent]) \in Seq(Entry) /\ <<>> \in Seq(Entry)
        /\ "read" \in Places \ {"chosen"}
    BY <1>2, EntriesIs, EmptySeq DEF Places
  <1>4. \/ Advance(t) \/ Becomes(t, Stay(t, "read", <<>>))
        \/ Becomes(t, Stay(t, "read", Entries(doc[Item(t).agent])))
    BY DEF CopyRead, CopyPoints
  <1>5. CASE Advance(t)
    BY <1>1, <1>5, AdvanceKeeps
  <1>6. CASE Becomes(t, Stay(t, "read", <<>>))
    BY <1>1, <1>3, <1>6, StayKeeps
  <1>7. CASE Becomes(t, Stay(t, "read", Entries(doc[Item(t).agent])))
    BY <1>1, <1>3, <1>7, StayKeeps
  <1>8. QED BY <1>4, <1>5, <1>6, <1>7

LEMMA CopyWriteKeeps ==
  ASSUME Shapes, NEW t \in Tasks, CopyWrite(t)
  PROVE  Shapes'
  <1> DEFINE b == task[t].to
             k == Item(t).key
  <1>1. task[t].prog # <<>> /\ Item(t).do = "copy" /\ Advance(t)
        /\ UNCHANGED <<locks, raced, offered>>
    BY DEF CopyWrite, At, UNCHANGED_world
  <1>2. task[t].op = "clone" /\ k \in {"settings", "plugins", "users", "rows"}
    BY <1>1, ItemKind DEF Fits
  <1>3. b \in Agents /\ task[t].seen \in Seq(Entry)
    BY <1>2 DEF Shapes, Sound, Requested
  <1>4. doc' \in [Agents -> Documents] /\
        acked' \in [Agents -> [Categories -> {"default", "custom", None}]]
    <2>1. CASE UNCHANGED <<doc, acked>>
      BY <2>1 DEF Shapes, Stores
    <2>2. CASE doc' = [doc EXCEPT ![b] = task[t].seen] /\ acked' = NoAck(b)
      <3>1. task[t].seen \in Documents
        BY <1>3 DEF Documents
      <3>2. doc' \in [Agents -> Documents]
        BY <1>3, <2>2, <3>1, DocTyped
      <3>3. QED BY <2>2, <3>2, <1>3 DEF Shapes, Stores, NoAck
    <2>3. QED BY <2>1, <2>2 DEF CopyWrite
  <1>5. data' \in [Agents -> SUBSET Kinds]
    <2>1. PICK D \in SUBSET Kinds : data' = [data EXCEPT ![b] = D]
      <3>1. data[b] \in SUBSET Kinds /\ (k # "settings" => k \in Kinds)
        BY <1>2, <1>3 DEF Shapes, Stores, Kinds, RedisKinds
      <3>2. QED BY <3>1 DEF CopyWrite
    <2>2. QED BY <1>3, <2>1 DEF Shapes, Stores
  <1>6. Stores'
    BY <1>1, <1>4, <1>5 DEF Shapes, Stores
  <1>7. QED BY <1>1, <1>6, AdvanceKeeps

LEMMA FlushKeeps ==
  ASSUME Shapes, NEW t \in Tasks, Flush(t)
  PROVE  Shapes'
  <1>1. task[t].prog # <<>> /\ Advance(t)
    BY DEF Flush, At
  <1>2. Stores'
    BY DEF Flush, Shapes, Stores, Documents
  <1>3. QED BY <1>1, <1>2, AdvanceKeeps

LEMMA IdleIs == Idle \in Requested /\ Sound(Idle)
  <1>1. <<>> \in Seq(Call) /\ <<>> \in Seq(Entry)
    BY EmptySeq
  <1>2. QED BY <1>1 DEF Idle, Requested, Sound, Places, Answers

LEMMA EndsKeep ==
  ASSUME Shapes, NEW t \in Tasks, Finish(t) \/ Crash(t)
  PROVE  Shapes'
  <1>1. Stores' /\ Becomes(t, Idle)
    BY QuietStores DEF Finish, Crash, UNCHANGED_world, Becomes
  <1>2. QED BY <1>1, IdleIs, TaskStep

LEMMA StoreFailsKeeps ==
  ASSUME Shapes, NEW t \in Tasks, StoreFails(t)
  PROVE  Shapes'
  BY QuietStores, FailKeeps DEF StoreFails

LEMMA WorldKeeps ==
  ASSUME Shapes,
         \/ \E a \in Agents, k \in LockKeys : LockExpires(a, k)
         \/ \E c \in Categories : Offer(c)
  PROVE  Shapes'
  <1>1. UNCHANGED task
    BY DEF LockExpires, Offer
  <1>2. Stores'
    <2>1. CASE \E a \in Agents, k \in LockKeys : LockExpires(a, k)
      BY <2>1 DEF LockExpires, Shapes, Stores, UNCHANGED_world, Documents
    <2>2. CASE \E c \in Categories : Offer(c)
      BY <2>2 DEF Offer, Shapes, Stores, Documents
    <2>3. QED BY <2>1, <2>2
  <1>3. QED BY <1>1, <1>2 DEF Shapes

-----------------------------------------------------------------------------
(* The shapes are kept: requests. *)

\* What flattening a sequence of sequences returns.
LEMMA FlattenIs ==
  ASSUME NEW S, NEW ss \in Seq(Seq(S))
  PROVE  \/ ss = <<>> /\ FlattenSeq(ss) = <<>>
         \/ \E f : /\ FlattenSeq(ss) = f[Len(ss)]
                   /\ \A i \in 1..Len(ss) :
                        f[i] = IF i = 1 THEN ss[i] ELSE f[i - 1] \o ss[i]
  <1> DEFINE L == Len(ss)
             Upto(n, f) == \A i \in 1..n : f[i] = IF i = 1 THEN ss[i] ELSE f[i - 1] \o ss[i]
             H == {n \in Nat : n <= L => \E f : Upto(n, f)}
  <1>1. L \in Nat
    BY LenProperties
  <1>2. CASE L = 0
    <2>1. ss = <<>>
      BY <1>2, EmptySeq
    <2>2. QED BY <2>1 DEF FlattenSeq
  <1>3. CASE L # 0
    <2>1. 0 \in H
      OBVIOUS
    <2>2. ASSUME NEW n \in Nat, n \in H PROVE n + 1 \in H
      <3> SUFFICES ASSUME n + 1 <= L PROVE \E f : Upto(n + 1, f)
        OBVIOUS
      <3>1. PICK g : Upto(n, g)
        BY <2>2, <1>1
      <3> DEFINE f == [i \in 1..(n + 1) |->
                         IF i = n + 1 THEN IF i = 1 THEN ss[i] ELSE g[i - 1] \o ss[i]
                         ELSE g[i]]
      <3>2. ASSUME NEW i \in 1..(n + 1)
            PROVE  f[i] = IF i = 1 THEN ss[i] ELSE f[i - 1] \o ss[i]
        <4>1. CASE i = n + 1
          <5>1. i # 1 => i - 1 \in 1..(n + 1) /\ i - 1 # n + 1
            BY <4>1
          <5>2. QED BY <4>1, <5>1
        <4>2. CASE i # n + 1
          <5>1. i \in 1..n /\ (i # 1 => i - 1 \in 1..(n + 1) /\ i - 1 # n + 1)
            BY <4>2
          <5>2. f[i] = g[i] /\ (i # 1 => f[i - 1] = g[i - 1])
            BY <5>1, <4>2
          <5>3. QED BY <5>1, <5>2, <3>1
        <4>3. QED BY <4>1, <4>2
      <3>3. QED BY <3>2
    <2>3. Nat \subseteq H
      <3> HIDE DEF H
      <3> QED BY <2>1, <2>2, FromZero
    <2>4. PICK g : Upto(L, g)
      <3>1. L \in H
        <4> HIDE DEF H
        <4> QED BY <1>1, <2>3
      <3>2. QED BY <3>1, <1>1
    <2> DEFINE F(h) == [i \in 1..L |-> IF i = 1 THEN ss[i] ELSE h[i - 1] \o ss[i]]
               f == CHOOSE h : h = F(h)
               k == [i \in 1..L |-> g[i]]
    <2>5. k = F(k)
      <3>1. ASSUME NEW i \in 1..L
            PROVE  k[i] = IF i = 1 THEN ss[i] ELSE k[i - 1] \o ss[i]
        <4>1. i # 1 => i - 1 \in 1..L
          BY <1>1
        <4>2. QED BY <4>1, <2>4
      <3> HIDE DEF Upto
      <3>2. QED BY <3>1
    <2> HIDE DEF k, F
    <2>6. f = F(f)
      BY <2>5
    <2>7. FlattenSeq(ss) = f[L]
      BY <1>3 DEF FlattenSeq, F
    <2> HIDE DEF f
    <2>8. \A i \in 1..L : f[i] = IF i = 1 THEN ss[i] ELSE f[i - 1] \o ss[i]
      BY <2>6 DEF F
    <2>9. QED BY <2>7, <2>8
  <1>4. QED BY <1>2, <1>3

LEMMA MarkedConcat ==
  ASSUME NEW S \in SUBSET Call, NEW p \in Seq(S), NEW q \in Seq(S), Marked(q),
         Marked(p) \/ (q # <<>> /\ q[Len(q)].do = "mark")
  PROVE  Marked(p \o q)
  <1> DEFINE r == p \o q
  <1>1. Len(p) \in Nat /\ DOMAIN p = 1..Len(p) /\ Len(q) \in Nat /\ DOMAIN q = 1..Len(q)
        /\ (q # <<>> => Len(q) # 0)
    BY LenProperties, EmptySeq
  <1>2. /\ r \in Seq(S) /\ Len(r) = Len(p) + Len(q)
        /\ \A n \in 1..(Len(p) + Len(q)) : r[n] = IF n <= Len(p) THEN p[n] ELSE q[n - Len(p)]
    BY ConcatProperties
  <1>3. DOMAIN r = 1..(Len(p) + Len(q))
    BY <1>2, LenProperties
  <1> HIDE DEF r
  <1>4. ASSUME NEW m \in DOMAIN q
        PROVE  Len(p) + m \in DOMAIN r /\ r[Len(p) + m] = q[m]
    <2>1. /\ Len(p) + m \in 1..(Len(p) + Len(q)) /\ ~(Len(p) + m <= Len(p))
          /\ Len(p) + m - Len(p) = m
      BY <1>1
    <2>2. QED BY <2>1, <1>2, <1>3
  <1>5. \A m \in DOMAIN p : m \in DOMAIN r /\ r[m] = p[m]
    BY <1>1, <1>2, <1>3
  <1>6. ASSUME NEW n \in DOMAIN r, r[n].do \notin {"mark", "flush"}
        PROVE  \E m \in DOMAIN r : n < m /\ r[m].do = "mark"
    <2>1. CASE n <= Len(p)
      <3>1. n \in DOMAIN p /\ r[n] = p[n]
        BY <1>1, <1>2, <1>3, <2>1
      <3>2. CASE Marked(p)
        <4>1. PICK m \in DOMAIN p : n < m /\ p[m].do = "mark"
          BY <1>6, <3>1, <3>2 DEF Marked
        <4>2. QED BY <1>5, <4>1
      <3>3. CASE q # <<>> /\ q[Len(q)].do = "mark"
        <4>1. Len(q) \in DOMAIN q /\ n < Len(p) + Len(q)
          BY <1>1, <3>1, <3>3
        <4>2. QED BY <1>4, <3>3, <4>1
      <3>4. QED BY <3>2, <3>3
    <2>2. CASE ~(n <= Len(p))
      <3>1. n - Len(p) \in DOMAIN q /\ r[n] = q[n - Len(p)]
        BY <1>1, <1>2, <1>3, <2>2
      <3>2. PICK m \in DOMAIN q : n - Len(p) < m /\ q[m].do = "mark"
        BY <1>6, <3>1 DEF Marked
      <3>3. n < Len(p) + m
        BY <1>1, <1>3, <3>2
      <3>4. QED BY <1>4, <3>2, <3>3
    <2>3. QED BY <2>1, <2>2
  <1>7. QED BY <1>6 DEF Marked, r

\* The program of a factory reset: every agent is loaded, destroyed and marked.
LEMMA FactoryProgIs ==
  ASSUME Shapes, NEW as \in SetToSeqs(MainKeys)
  PROVE  FactoryProg(as) \in Seq(Held("factory", None, None)) /\ Marked(FactoryProg(as))
  <1> DEFINE S == Held("factory", None, None)
             Part(a) == LoadProg(a) \o DestroyProg(a) \o <<Do("mark", a)>>
             ss == [i \in DOMAIN as |-> Part(as[i])]
             n == Cardinality(MainKeys)
  <1>1. n \in Nat /\ as \in [1..n -> Agents] /\ DOMAIN as = 1..n
    <2>1. MainKeys \subseteq Agents
      BY DEF MainKeys
    <2>2. IsFiniteSet(MainKeys)
      BY <2>1, AgentsAssumption, FS_Subset
    <2>3. n \in Nat
      BY <2>2, FS_CardinalityType
    <2> HIDE DEF n
    <2>4. QED BY <2>1, <2>3 DEF SetToSeqs, n
  <1>2. S \in SUBSET Call
    BY DEF Held
  <1>3. ASSUME NEW a \in Agents
        PROVE  /\ Part(a) \in Seq(S) /\ Part(a) # <<>> /\ Marked(Part(a))
               /\ Part(a)[Len(Part(a))].do = "mark"
    <2> DEFINE p == LoadProg(a) \o DestroyProg(a)
               q == <<Do("mark", a)>>
    <2>1. LoadsOf(a) \subseteq S /\ Destructive(a) \subseteq S
      BY LoadsHeld, DestructiveHeld DEF RequestKinds
    <2>2. LoadProg(a) \in Seq(S) /\ DestroyProg(a) \in Seq(S)
      BY <2>1, LoadProgIs, DestroyProgIs, SeqMonotonic
    <2>3. p \in Seq(S)
      BY <2>2, ConcatProperties
    <2>4. Do("mark", a) \in S
      BY DEF Held, Fits, Call, Dos, Do, Destroying, Loads
    <2>5. q \in Seq(S) /\ q # <<>> /\ Len(q) = 1 /\ q[1].do = "mark" /\ DOMAIN q = {1}
      BY <2>4 DEF Do
    <2>6. Marked(q)
      BY <2>5 DEF Marked
    <2> HIDE DEF p, q
    <2>7. Marked(p \o q)
      BY <1>2, <2>3, <2>5, <2>6, MarkedConcat
    <2>8. p \o q \in Seq(S) /\ Len(p \o q) = Len(p) + 1 /\ Len(p) \in Nat
          /\ (p \o q)[Len(p) + 1] = q[1]
      <3>1. p \o q \in Seq(S) /\ Len(p \o q) = Len(p) + 1 /\ Len(p) \in Nat
        BY <2>3, <2>5, ConcatProperties, LenProperties
      <3>2. \A i \in 1..(Len(p) + Len(q)) :
              (p \o q)[i] = IF i <= Len(p) THEN p[i] ELSE q[i - Len(p)]
        BY <2>3, <2>5, ConcatProperties
      <3>3. Len(p) + 1 \in 1..(Len(p) + Len(q)) /\ ~(Len(p) + 1 <= Len(p))
            /\ Len(p) + 1 - Len(p) = 1
        BY <3>1, <2>5
      <3>4. QED BY <3>1, <3>2, <3>3
    <2>9. p \o q # <<>>
      BY <2>8, EmptySeq
    <2>10. QED BY <2>5, <2>7, <2>8, <2>9 DEF p, q
  <1> HIDE DEF Part, n, S
  <1>4. ss \in [1..n -> Seq(S)]
    BY <1>1, <1>3
  <1>5. ss \in Seq(Seq(S)) /\ Len(ss) = n
    <2> HIDE DEF ss
    <2>1. ss \in Seq(Seq(S))
      BY <1>1, <1>4, SeqDef
    <2>2. DOMAIN ss = 1..Len(ss) /\ Len(ss) \in Nat
      BY <2>1, LenProperties
    <2>3. QED BY <1>1, <1>4, <2>1, <2>2
  <1>6. \A i \in 1..n : ss[i] = Part(as[i]) /\ as[i] \in Agents
    BY <1>1
  <1> HIDE DEF ss
  <1>7. FlattenSeq(ss) \in Seq(S) /\ Marked(FlattenSeq(ss))
    <2>1. CASE ss = <<>> /\ FlattenSeq(ss) = <<>>
      <3>1. <<>> \in Seq(S) /\ DOMAIN <<>> = {}
        BY EmptySeq
      <3>2. QED BY <2>1, <3>1 DEF Marked
    <2>2. CASE ss # <<>> \/ FlattenSeq(ss) # <<>>
      <3>1. PICK f : /\ FlattenSeq(ss) = f[n]
                     /\ \A i \in 1..n : f[i] = IF i = 1 THEN ss[i] ELSE f[i - 1] \o ss[i]
        BY <1>5, <2>2, FlattenIs
      <3> DEFINE H == {k \in Nat : k \in 1..n => f[k] \in Seq(S) /\ Marked(f[k])}
      <3>2. 0 \in H
        OBVIOUS
      <3>3. ASSUME NEW k \in Nat, k \in H PROVE k + 1 \in H
        <4> SUFFICES ASSUME k + 1 \in 1..n PROVE f[k + 1] \in Seq(S) /\ Marked(f[k + 1])
          OBVIOUS
        <4>1. /\ ss[k + 1] \in Seq(S) /\ Marked(ss[k + 1]) /\ ss[k + 1] # <<>>
              /\ ss[k + 1][Len(ss[k + 1])].do = "mark"
          BY <1>3, <1>6
        <4>2. CASE k = 0
          BY <3>1, <4>1, <4>2
        <4>3. CASE k # 0
          <5>1. k \in 1..n /\ k + 1 # 1 /\ k + 1 - 1 = k
            BY <1>1, <4>3
          <5>2. f[k] \in Seq(S) /\ Marked(f[k])
            BY <3>3, <5>1
          <5>3. f[k + 1] = f[(k + 1) - 1] \o ss[k + 1]
            BY <3>1, <5>1
          <5>4. f[k + 1] = f[k] \o ss[k + 1]
            <6>1. f[(k + 1) - 1] = f[k]
              BY <5>1
            <6>2. QED BY <5>3, <6>1
          <5>5. QED BY <1>2, <4>1, <5>2, <5>4, MarkedConcat, ConcatProperties
        <4>4. QED BY <4>2, <4>3
      <3>4. Nat \subseteq H
        <4> HIDE DEF H
        <4> QED BY <3>2, <3>3, FromZero
      <3>5. n \in 1..n
        <4>1. n # 0
          <5>1. CASE ss # <<>>
            BY <1>5, <5>1, EmptySeq
          <5>2. CASE ss = <<>>
            BY <2>2, <5>2 DEF FlattenSeq
          <5>3. QED BY <5>1, <5>2
        <4>2. QED BY <1>1, <4>1
      <3>6. n \in H
        <4> HIDE DEF H
        <4> QED BY <1>1, <3>4
      <3>7. QED BY <3>1, <3>5, <3>6
    <2>3. QED BY <2>1, <2>2
  <1> DEFINE last == <<Do("flush", None)>>
  <1>8. last \in Seq(S) /\ Marked(last)
    <2>1. Do("flush", None) \in S
      BY DEF S, Held, Fits, Call, Dos, Do, Destroying, Loads
    <2>2. DOMAIN last = {1} /\ last[1].do = "flush"
      BY DEF Do
    <2>3. QED BY <2>1, <2>2 DEF Marked
  <1> HIDE DEF last
  <1>9. FlattenSeq(ss) \o last \in Seq(S) /\ Marked(FlattenSeq(ss) \o last)
    BY <1>2, <1>7, <1>8, MarkedConcat, ConcatProperties
  <1>10. FactoryProg(as) = FlattenSeq(ss) \o last
    BY DEF FactoryProg, ss, last, Part
  <1>11. QED BY <1>9, <1>10 DEF S

Others(t, op, a, b) ==
    {u \in Tasks \ {t} : task[u].op # "idle" /\ Overlaps({a, b}, op, task[u])}
Begun(t, op, a, b, prog) ==
    [Idle EXCEPT !.op = op, !.agent = a, !.to = b, !.prog = prog,
                 !.alone = (Others(t, op, a, b) = {})]

LEMMA BegunIs ==
  ASSUME NEW t \in Tasks, NEW op \in RequestKinds, NEW a \in Agents \union {None},
         NEW b \in Agents \union {None}, NEW prog \in Seq(Call)
  PROVE  LET r == Begun(t, op, a, b, prog) IN
         /\ r \in Requested
         /\ r.op = op /\ r.agent = a /\ r.to = b /\ r.prog = prog /\ r.at = "start"
         /\ r.seen = <<>> /\ r.got = {} /\ ~r.built /\ r.answer = None
  <1>1. Idle \in Requested
    BY IdleIs
  <1> DEFINE al == (Others(t, op, a, b) = {})
  <1>2. al \in BOOLEAN
    OBVIOUS
  <1> HIDE DEF al
  <1>3. Begun(t, op, a, b, prog)
          = [Idle EXCEPT !.op = op, !.agent = a, !.to = b, !.prog = prog, !.alone = al]
    BY DEF Begun, al
  <1>4. <<>> \in Seq(Entry) /\ "start" \in Places /\ None \in Answers
    BY EmptySeq DEF Places, Answers
  <1>5. QED BY <1>2, <1>3, <1>4 DEF Idle, Requested, al

LEMMA BegunAlone ==
  ASSUME NEW t, NEW op, NEW a, NEW b, NEW prog, Begun(t, op, a, b, prog).alone
  PROVE  Others(t, op, a, b) = {}
  BY DEF Begun, Idle

\* The tasks after a request has begun.
LEMMA StartIs ==
  ASSUME Shapes, NEW t \in Tasks, NEW op, NEW a, NEW b, NEW prog, Start(t, op, a, b, prog)
  PROVE  /\ task[t].op = "idle" /\ op \in Ops
         /\ task'[t] = Begun(t, op, a, b, prog)
         /\ \A u \in Others(t, op, a, b) : task'[u] = [task[u] EXCEPT !.alone = FALSE]
         /\ \A u \in Tasks \ {t} : u \notin Others(t, op, a, b) => task'[u] = task[u]
         /\ DOMAIN task' = Tasks /\ task' = [u \in Tasks |-> task'[u]]
         /\ UNCHANGED <<doc, data, locks, offered, acked, raced, faults, offers>>
  BY DEF Start, Begun, Others

LEMMA LessAlone ==
  ASSUME NEW T \in Requested, Sound(T)
  PROVE  LET r == [T EXCEPT !.alone = FALSE] IN
         /\ r \in Requested /\ Sound(r)
         /\ r.op = T.op /\ r.agent = T.agent /\ r.to = T.to /\ r.prog = T.prog
         /\ r.at = T.at /\ r.seen = T.seen /\ r.got = T.got /\ r.built = T.built
         /\ r.answer = T.answer /\ ~r.alone
  <1> DEFINE r == [T EXCEPT !.alone = FALSE]
  <1>1. /\ r \in Requested
        /\ r.op = T.op /\ r.agent = T.agent /\ r.to = T.to /\ r.prog = T.prog
        /\ r.at = T.at /\ r.seen = T.seen /\ r.got = T.got /\ r.built = T.built
        /\ r.answer = T.answer /\ ~r.alone
    BY DEF Requested
  <1> HIDE DEF r
  <1>2. Sound(r)
    BY <1>1 DEF Sound
  <1>3. QED BY <1>1, <1>2 DEF r

LEMMA BegunSound ==
  ASSUME NEW t \in Tasks, NEW op \in RequestKinds, NEW a \in Agents \union {None},
         NEW b \in Agents \union {None}, NEW prog \in Seq(Held(op, a, b)),
         op # "factory" => a \in Agents, op = "clone" => b \in Agents /\ b # a,
         op # "clone" => b = None, op = "factory" => Marked(prog)
  PROVE  Begun(t, op, a, b, prog) \in Requested /\ Sound(Begun(t, op, a, b, prog))
  <1> DEFINE r == Begun(t, op, a, b, prog)
  <1>1. prog \in Seq(Call)
    BY HeldAreCalls
  <1>2. r \in Requested
    BY <1>1, BegunIs
  <1>3. r.op = op /\ r.agent = a /\ r.to = b /\ r.prog = prog
        /\ r.at = "start" /\ ~r.built
    BY DEF Begun, Idle
  <1> HIDE DEF r
  <1>4. Sound(r)
    BY <1>3 DEF Sound, RequestKinds
  <1>5. QED BY <1>2, <1>4 DEF r

LEMMA StartKeeps ==
  ASSUME Shapes, NEW t \in Tasks, NEW op \in RequestKinds, NEW a \in Agents \union {None},
         NEW b \in Agents \union {None}, NEW prog \in Seq(Held(op, a, b)),
         op # "factory" => a \in Agents, op = "clone" => b \in Agents /\ b # a,
         op # "clone" => b = None, op = "factory" => Marked(prog),
         Start(t, op, a, b, prog)
  PROVE  Shapes'
  <1> DEFINE r == Begun(t, op, a, b, prog)
  <1>3. r \in Requested /\ Sound(r)
    BY BegunSound
  <1> HIDE DEF r
  <1>4. Stores'
    BY StartIs DEF Shapes, Stores, Documents
  <1>5. \A u \in Tasks : task'[u] \in Requested /\ Sound(task'[u])
    <2> TAKE u \in Tasks
    <2>1. CASE u = t
      BY <1>3, <2>1, StartIs DEF r
    <2>2. CASE u # t /\ u \in Others(t, op, a, b)
      <3>1. task[u] \in Requested /\ Sound(task[u])
        BY DEF Shapes
      <3>2. task'[u] = [task[u] EXCEPT !.alone = FALSE]
        BY <2>2, StartIs
      <3>3. QED BY <3>1, <3>2, LessAlone
    <2>3. CASE u # t /\ u \notin Others(t, op, a, b)
      BY <2>3, StartIs DEF Shapes
    <2>4. QED BY <2>1, <2>2, <2>3
  <1>6. task' \in [Tasks -> Requested]
    BY <1>5, StartIs
  <1>7. QED BY <1>4, <1>5, <1>6 DEF Shapes

\* The programs of the requests, by what they hold.
LEMMA CreateProgIs ==
  ASSUME NEW a \in Agents, NEW op \in {"create", "reset"}, NEW meta \in BOOLEAN
  PROVE  CreateProg(a, meta) \in Seq(Held(op, a, None))
  <1> DEFINE S == Held(op, a, None)
             m == IF meta THEN <<Upsert("name", a, "metadata", "default")>> ELSE <<>>
  <1>1. /\ Do("check", a) \in S /\ Do("built", a) \in S /\ Do("initialize", a) \in S
        /\ Do("procedures", a) \in S /\ Upsert("name", a, "metadata", "default") \in S
    BY DEF Held, Fits, Do, Upsert, Call, Dos, Keys, Kinds, Loads
  <1>2. BuildProg(a) \in Seq(S)
    BY LoadProgIs, LoadsHeld, SeqMonotonic DEF RequestKinds
  <1> HIDE DEF S
  <1>3. <<Do("check", a)>> \in Seq(S) /\ <<Do("built", a)>> \in Seq(S)
        /\ <<Do("initialize", a), Do("procedures", a)>> \in Seq(S)
        /\ <<Upsert("name", a, "metadata", "default")>> \in Seq(S)
    BY <1>1
  <1>4. m \in Seq(S)
    BY <1>3, EmptySeq
  <1> HIDE DEF m
  <1>5. <<Do("check", a)>> \o BuildProg(a) \in Seq(S)
    BY <1>2, <1>3, ConcatProperties
  <1>6. <<Do("check", a)>> \o BuildProg(a) \o <<Do("built", a)>> \in Seq(S)
    BY <1>3, <1>5, ConcatProperties
  <1>7. <<Do("check", a)>> \o BuildProg(a) \o <<Do("built", a)>> \o m \in Seq(S)
    BY <1>4, <1>6, ConcatProperties
  <1>8. <<Do("check", a)>> \o BuildProg(a) \o <<Do("built", a)>> \o m
          \o <<Do("initialize", a), Do("procedures", a)>> \in Seq(S)
    BY <1>3, <1>7, ConcatProperties
  <1>9. QED BY <1>8 DEF CreateProg, S, m

LEMMA RequestKeeps ==
  ASSUME Shapes, NEW t \in Tasks, Request(t)
  PROVE  Shapes'
  <1>0. \A a \in Agents, op \in RequestKinds, b \in Agents \union {None} :
           /\ op # "factory" => LoadProg(a) \in Seq(Held(op, a, b))
           /\ DestroyProg(a) \in Seq(Held(op, a, b))
    BY LoadProgIs, DestroyProgIs, LoadsHeld, DestructiveHeld, SeqMonotonic
  <1>1. ASSUME NEW a \in Agents, Create(t, a) PROVE Shapes'
    <2>1. PICK meta \in BOOLEAN : Start(t, "create", a, None, CreateProg(a, meta))
      BY <1>1 DEF Create
    <2>2. CreateProg(a, meta) \in Seq(Held("create", a, None))
      BY CreateProgIs
    <2> DEFINE p == CreateProg(a, meta)
    <2> HIDE DEF p
    <2>3. QED BY <2>1, <2>2, StartKeeps DEF RequestKinds, p
  <1>2. ASSUME NEW a \in Agents, Destroy(t, a) PROVE Shapes'
    <2> DEFINE p == LoadProg(a) \o DestroyProg(a)
    <2>1. p \in Seq(Held("destroy", a, None)) /\ Start(t, "destroy", a, None, p)
      BY <1>0, <1>2, ConcatProperties DEF RequestKinds, Destroy
    <2> HIDE DEF p
    <2>2. QED BY <2>1, StartKeeps DEF RequestKinds
  <1>3. ASSUME NEW a \in Agents, Reset(t, a) PROVE Shapes'
    <2> DEFINE p == LoadProg(a) \o DestroyProg(a) \o CreateProg(a, FALSE)
    <2>1. LoadProg(a) \o DestroyProg(a) \in Seq(Held("reset", a, None))
      BY <1>0, ConcatProperties DEF RequestKinds
    <2>2. p \in Seq(Held("reset", a, None)) /\ Start(t, "reset", a, None, p)
      BY <1>3, <2>1, CreateProgIs, ConcatProperties DEF Reset
    <2> HIDE DEF p
    <2>3. QED BY <2>2, StartKeeps DEF RequestKinds
  <1>4. ASSUME NEW a \in Agents, Update(t, a) PROVE Shapes'
    <2> DEFINE q == <<Upsert("name", a, "metadata", "default")>>
               p == LoadProg(a) \o q
    <2>1. Upsert("name", a, "metadata", "default") \in Held("update", a, None)
      BY DEF Held, Fits, Upsert, Call, Dos, Keys, Kinds, Loads
    <2>2. p \in Seq(Held("update", a, None)) /\ Start(t, "update", a, None, p)
      BY <1>0, <1>4, <2>1, ConcatProperties DEF RequestKinds, Update
    <2> HIDE DEF p
    <2>3. QED BY <2>2, StartKeeps DEF RequestKinds
  <1>5. ASSUME NEW a \in Agents, NEW b \in Agents \ {a}, Clone(t, a, b) PROVE Shapes'
    <2> DEFINE S == Held("clone", a, b)
               q1 == <<Do("free", b), Do("scan", a)>>
               q2 == <<Do("initialize", b), Do("copyPoints", a), Do("procedures", b),
                       Do("copyFiles", a)>>
               p == LoadProg(a) \o (q1 \o LoadProg(b) \o q2)
    <2>1. q1 \in Seq(S) /\ q2 \in Seq(S)
      <3>1. /\ Do("free", b) \in S /\ Do("scan", a) \in S /\ Do("initialize", b) \in S
            /\ Do("copyPoints", a) \in S /\ Do("procedures", b) \in S
            /\ Do("copyFiles", a) \in S
        BY DEF Held, Fits, Do, Call, Dos
      <3> HIDE DEF S
      <3>2. QED BY <3>1
    <2>2. LoadProg(b) \in Seq(S) /\ LoadProg(a) \in Seq(S)
      BY LoadProgIs, LoadsHeld, SeqMonotonic DEF RequestKinds
    <2>3. Start(t, "clone", a, b, p)
      BY <1>5 DEF Clone, CloneProg
    <2> HIDE DEF q1, q2, S
    <2>4. q1 \o LoadProg(b) \in Seq(S)
      BY <2>1, <2>2, ConcatProperties
    <2>5. q1 \o LoadProg(b) \o q2 \in Seq(S)
      BY <2>1, <2>4, ConcatProperties
    <2>6. p \in Seq(S)
      BY <2>2, <2>5, ConcatProperties
    <2> HIDE DEF p
    <2>7. QED BY <2>3, <2>6, StartKeeps DEF RequestKinds, S
  <1>6. ASSUME NEW a \in Agents, NEW c \in Categories, NEW i \in {"default", "custom"},
               Replace(t, a, c, i)
        PROVE  Shapes'
    <2> DEFINE q == <<Upsert("supported", a, c, i), Upsert("category", a, c, i)>>
               p == LoadProg(a) \o q
    <2>1. Upsert("supported", a, c, i) \in Held("replace", a, None)
          /\ Upsert("category", a, c, i) \in Held("replace", a, None)
      BY DEF Held, Fits, Upsert, Call, Dos, Keys, Kinds, Loads
    <2>2. p \in Seq(Held("replace", a, None)) /\ Start(t, "replace", a, None, p)
      BY <1>0, <1>6, <2>1, ConcatProperties DEF RequestKinds, Replace
    <2> HIDE DEF p
    <2>3. QED BY <2>2, StartKeeps DEF RequestKinds
  <1>7. ASSUME NEW a \in Agents, NEW k \in Uses, UseAgent(t, a, k) PROVE Shapes'
    <2> DEFINE q == <<On("use", a, k)>>
               p == LoadProg(a) \o q
    <2>1. On("use", a, k) \in Held("use", a, None)
      BY AgentsAssumption DEF Held, Fits, On, Call, Dos
    <2>2. p \in Seq(Held("use", a, None)) /\ Start(t, "use", a, None, p)
      BY <1>0, <1>7, <2>1, ConcatProperties DEF RequestKinds, UseAgent
    <2> HIDE DEF p
    <2>3. QED BY <2>2, StartKeeps DEF RequestKinds
  <1>8. ASSUME FactoryReset(t) PROVE Shapes'
    <2>1. PICK as \in SetToSeqs(MainKeys) : Start(t, "factory", None, None, FactoryProg(as))
      BY <1>8 DEF FactoryReset
    <2> DEFINE p == FactoryProg(as)
    <2>2. p \in Seq(Held("factory", None, None)) /\ Marked(p)
      BY FactoryProgIs
    <2> HIDE DEF p
    <2>3. QED BY <2>1, <2>2, StartKeeps DEF RequestKinds, p
  <1>9. QED BY <1>1, <1>2, <1>3, <1>4, <1>5, <1>6, <1>7, <1>8 DEF Request

LEMMA ShapesStart ==
  ASSUME Init
  PROVE  Shapes
  <1>1. NewDoc \in Documents
    <2> DEFINE n == Len(CategorySeq)
               f == [i \in DOMAIN CategorySeq |-> Setting(CategorySeq[i], "default")]
    <2>1. n \in Nat /\ DOMAIN CategorySeq = 1..n /\ CategorySeq \in [1..n -> Categories]
      BY CategorySeqIs, LenProperties
    <2> HIDE DEF n
    <2>2. f \in [1..n -> Entry]
      BY <2>1 DEF Setting, Entry, Keys
    <2>3. f \in Seq(Entry)
      <3> HIDE DEF f
      <3> QED BY <2>1, <2>2, SeqDef
    <2>4. <<Setting("plugins", "default")>> \in Seq(Entry)
      BY DEF Setting, Entry, Keys
    <2> HIDE DEF f
    <2>5. <<Setting("plugins", "default")>> \o f \in Seq(Entry)
      BY <2>3, <2>4, ConcatProperties
    <2>6. QED BY <2>5 DEF NewDoc, Documents, f
  <1>2. Stores
    <2>1. doc \in [Agents -> Documents] /\ data \in [Agents -> SUBSET Kinds]
      BY <1>1 DEF Init, Documents
    <2>2. QED BY <2>1 DEF Init, Stores
  <1>3. task \in [Tasks -> Requested] /\ \A t \in Tasks : Sound(task[t])
    BY IdleIs DEF Init
  <1>4. QED BY <1>2, <1>3 DEF Shapes

LEMMA ShapesStep ==
  ASSUME Shapes, [Next]_vars
  PROVE  Shapes'
  <1>1. ASSUME NEW t \in Tasks, Step(t) PROVE Shapes'
    BY <1>1, ExistsKeeps, SettingsKeeps, ActivateKeeps, EnsureKeeps, SelectKeeps,
       InstantiateKeeps, LookupKeeps, StorePathKeeps, ReadListKeeps, StoreListKeeps,
       PassKeeps, CheckKeeps, BuiltKeeps, ClearKeeps, DataKeeps, CollectKeeps, DeleteKeeps,
       FreeKeeps, ScanKeeps, CopyReadKeeps, CopyWriteKeeps, FlushKeeps, EndsKeep
       DEF Step
  <1>2. CASE UNCHANGED vars
    BY <1>2 DEF vars, Shapes, Stores, Documents
  <1>3. QED BY <1>1, <1>2, RequestKeeps, StoreFailsKeeps, EndsKeep, WorldKeeps DEF Next

-----------------------------------------------------------------------------
(* Acknowledged selections stay. *)

LEMMA SeqNotNone == None \notin Seq(Entry)
  <1>1. Entry \subseteq [key : Categories \union {"plugins", "metadata"},
                        impl : {"default", "custom"}]
    BY DEF Entry
  <1>2. QED BY <1>1, AgentsAssumption, SeqMonotonic

\* The first setting of a category has this class.
FirstIs(d, c, x) ==
    \E n \in DOMAIN d : /\ d[n].key = c /\ d[n].impl = x
                        /\ \A j \in DOMAIN d : d[j].key = c => n <= j

LEMMA FirstIsSelected ==
  ASSUME NEW d \in Documents, NEW c, NEW x
  PROVE  (Selected(d, c) # 0 /\ d[Selected(d, c)].impl = x)
           <=> (d # None /\ FirstIs(d, c, x))
  <1> DEFINE n == Selected(d, c)
             E == Entries(d)
  <1>1. \/ /\ n = 0
           /\ \A j \in DOMAIN E : E[j].key # c
        \/ /\ n \in DOMAIN E /\ E[n].key = c
           /\ \A j \in DOMAIN E : E[j].key = c => n <= j
    BY SelectedIs
  <1>2. d # None => E = d /\ d \in Seq(Entry)
    BY DEF Entries, Documents
  <1>3. d = None => E = <<>> /\ DOMAIN E = {}
    BY DEF Entries
  <1>4. \A j \in DOMAIN E : j \in Nat \ {0}
    <2>1. E \in Seq(Entry)
      BY <1>2, <1>3, EmptySeq
    <2>2. QED BY <2>1, LenProperties
  <1> HIDE DEF n, E
  <1>5. CASE n = 0
    BY <1>1, <1>2, <1>4, <1>5 DEF FirstIs, n
  <1>6. CASE n # 0
    <2>1. n \in DOMAIN E /\ E[n].key = c /\ \A j \in DOMAIN E : E[j].key = c => n <= j
      BY <1>1, <1>6
    <2>2. d # None /\ E = d
      BY <1>2, <1>3, <2>1
    <2>3. ASSUME NEW m \in DOMAIN d, d[m].key = c, \A j \in DOMAIN d : d[j].key = c => m <= j
          PROVE  m = n
      <3>1. m <= n /\ n <= m
        BY <2>1, <2>2, <2>3
      <3>2. m \in Nat /\ n \in Nat
        BY <1>4, <2>1, <2>2
      <3>3. QED BY <3>1, <3>2
    <2>4. FirstIs(d, c, x) <=> d[n].impl = x
      BY <2>1, <2>2, <2>3 DEF FirstIs
    <2>5. QED BY <1>6, <2>2, <2>4 DEF n
  <1>7. QED BY <1>5, <1>6

\* Overwriting a path by name leaves every category's first setting what it is.
LEMMA PathByName ==
  ASSUME NEW d \in Seq(Entry), NEW e \in Entry, NEW c \in Categories, NEW x,
         FirstIs(d, c, x)
  PROVE  FirstIs(PathSet(d, "name", e), c, x)
  <1> DEFINE f == PathSet(d, "name", e)
  <1>1. /\ DOMAIN f = DOMAIN d
        /\ \A i \in DOMAIN d : f[i] = IF Same("name", d[i], e) THEN e ELSE d[i]
    BY PathSetIs
  <1> HIDE DEF f
  <1>2. ASSUME NEW i \in DOMAIN d
        PROVE  f[i].key = d[i].key /\ (d[i].key = c => f[i].impl = d[i].impl)
    BY <1>1, <1>2 DEF Same
  <1>3. QED BY <1>1, <1>2 DEF FirstIs, f

\* Overwriting a path by category selects the class of that category only.
LEMMA PathByCategory ==
  ASSUME NEW d \in Seq(Entry), NEW e \in Entry, NEW c \in Categories, NEW x
  PROVE  /\ FirstIs(d, c, x) /\ (e.key # c \/ ~Has(d, "category", e))
              => FirstIs(PathSet(d, "category", e), c, x)
         /\ e.key = c /\ d # None /\ Has(d, "category", e)
              => FirstIs(PathSet(d, "category", e), c, e.impl)
  <1> DEFINE f == PathSet(d, "category", e)
  <1>1. /\ DOMAIN f = DOMAIN d
        /\ \A i \in DOMAIN d : f[i] = IF d[i].key = e.key THEN e ELSE d[i]
    BY PathSetIs DEF Same
  <1> HIDE DEF f
  <1>2. d # None => Entries(d) = d
    BY DEF Entries
  <1>3. d # None
    BY SeqNotNone
  <1>4. Has(d, "category", e) <=> \E i \in DOMAIN d : d[i].key = e.key
    BY <1>2, <1>3 DEF Has, Same
  <1>5. ASSUME FirstIs(d, c, x), e.key # c \/ ~Has(d, "category", e)
        PROVE  FirstIs(f, c, x)
    <2>1. ASSUME NEW i \in DOMAIN d
          PROVE  (f[i].key = c <=> d[i].key = c) /\ (d[i].key = c => f[i] = d[i])
      BY <1>1, <1>4, <1>5
    <2>2. QED BY <1>1, <1>5, <2>1 DEF FirstIs
  <1>6. ASSUME e.key = c, Has(d, "category", e)
        PROVE  FirstIs(f, c, e.impl)
    <2> DEFINE I == {i \in DOMAIN d : d[i].key = c}
    <2>1. I # {} /\ I \in SUBSET Nat
      <3>1. DOMAIN d = 1..Len(d) /\ Len(d) \in Nat
        BY LenProperties
      <3>2. QED BY <1>4, <1>6, <3>1
    <2>2. PICK n \in I : \A m \in I : n <= m
      <3> HIDE DEF I
      <3> QED BY <2>1, LeastNumber
    <2>3. \A i \in DOMAIN d : f[i].key = c <=> d[i].key = c
      BY <1>1, <1>6
    <2>4. n \in DOMAIN f /\ f[n] = e
      BY <1>1, <1>6, <2>2
    <2>5. QED BY <1>1, <1>6, <2>2, <2>3, <2>4 DEF FirstIs
  <1>7. QED BY <1>5, <1>6 DEF f

LEMMA Appended ==
  ASSUME NEW d \in Seq(Entry), NEW e \in Entry, NEW c \in Categories, NEW x
  PROVE  /\ FirstIs(d, c, x) => FirstIs(Append(d, e), c, x)
         /\ e.key = c /\ (\A i \in DOMAIN d : d[i].key # c)
              => FirstIs(Append(d, e), c, e.impl)
  <1> DEFINE f == Append(d, e)
             n == Len(d)
  <1>1. /\ n \in Nat /\ DOMAIN d = 1..n
        /\ f \in Seq(Entry) /\ Len(f) = n + 1
        /\ (\A i \in 1..n : f[i] = d[i]) /\ f[n + 1] = e
    BY LenProperties, AppendProperties
  <1>2. DOMAIN f = 1..(n + 1)
    BY <1>1, LenProperties
  <1> HIDE DEF f, n
  <1>3. ASSUME FirstIs(d, c, x) PROVE FirstIs(f, c, x)
    <2>1. PICK m \in DOMAIN d : /\ d[m].key = c /\ d[m].impl = x
                                /\ \A j \in DOMAIN d : d[j].key = c => m <= j
      BY <1>3 DEF FirstIs
    <2>2. m \in DOMAIN f /\ f[m] = d[m]
      BY <1>1, <1>2
    <2>3. ASSUME NEW j \in DOMAIN f, f[j].key = c PROVE m <= j
      BY <1>1, <1>2, <2>1, <2>3
    <2>4. QED BY <2>1, <2>2, <2>3 DEF FirstIs
  <1>4. ASSUME e.key = c, \A i \in DOMAIN d : d[i].key # c PROVE FirstIs(f, c, e.impl)
    <2>1. n + 1 \in DOMAIN f /\ f[n + 1] = e
      BY <1>1, <1>2
    <2>2. ASSUME NEW j \in DOMAIN f, f[j].key = c PROVE n + 1 <= j
      BY <1>1, <1>2, <1>4, <2>2
    <2>3. QED BY <1>4, <2>1, <2>2 DEF FirstIs
  <1>5. QED BY <1>3, <1>4 DEF f

\* What is acknowledged is what comes first.
Kept(a, c) ==
    a \in raced \/ acked[a][c] = None \/ (doc[a] # None /\ FirstIs(doc[a], c, acked[a][c]))

LEMMA KeptIsKept ==
  ASSUME Stores
  PROVE  SelectionKept <=> \A a \in Agents, c \in Categories : Kept(a, c)
  <1>1. ASSUME NEW a \in Agents, NEW c \in Categories
        PROVE  Kept(a, c) <=> (a \notin raced /\ acked[a][c] # None =>
                 LET n == Selected(doc[a], c) IN n # 0 /\ doc[a][n].impl = acked[a][c])
    <2>1. doc[a] \in Documents
      BY DEF Stores
    <2> DEFINE x == acked[a][c]
               n == Selected(doc[a], c)
    <2>2. (n # 0 /\ doc[a][n].impl = x) <=> (doc[a] # None /\ FirstIs(doc[a], c, x))
      BY <2>1, FirstIsSelected
    <2>3. QED BY <2>2 DEF Kept
  <1>2. QED BY <1>1 DEF SelectionKept

KeptInv == Shapes /\ \A a \in Agents, c \in Categories : Kept(a, c)

LEMMA KeptStorePath ==
  ASSUME KeptInv, NEW t \in Tasks, StorePath(t), NEW a \in Agents, NEW c \in Categories
  PROVE  Kept(a, c)'
  <1> DEFINE i == Item(t)
             e == Setting(i.key, i.impl)
  <1>1. /\ IsUpsert(t, "found") /\ UNCHANGED raced /\ Shapes /\ Kept(a, c)
    BY DEF StorePath, KeptInv
  <1>0. e.key = i.key /\ e.impl = i.impl
    BY DEF Setting
  <1>2. /\ i.do \in {"name", "category"} /\ i.agent \in Agents /\ e \in Entry
        /\ e.key = i.key /\ e.impl = i.impl
        /\ i.do = "category" => task[t].op = "replace" /\ i.key \in Categories
    BY <1>0, <1>1, UpsertIs
  <1>3. CASE UNCHANGED <<doc, acked>>
    BY <1>1, <1>3 DEF Kept
  <1>4. CASE /\ doc[i.agent] # None
             /\ doc' = [doc EXCEPT ![i.agent] = PathSet(@, i.do, e)]
             /\ IF Has(doc[i.agent], i.do, e) THEN Ack(t) ELSE UNCHANGED acked
    <2> DEFINE d == doc[i.agent]
               f == PathSet(d, i.do, e)
    <2>1. d \in Seq(Entry) /\ doc'[i.agent] = f /\ DOMAIN doc = Agents
          /\ \A b \in Agents \ {i.agent} : doc'[b] = doc[b]
      BY <1>1, <1>2, <1>4 DEF Shapes, Stores, Documents
    <2>2. f # None
      <3>1. f \in Seq(Entry)
        BY <1>2, <2>1, PathSetIs
      <3>2. QED BY <3>1, SeqNotNone
    <2> HIDE DEF f
    <2>3. CASE Acknowledges(t) /\ Has(d, i.do, e)
      <3>1. i.do = "category" /\ i.key \in Categories
        BY <1>2, <2>3 DEF Acknowledges
      <3>2. acked' = [acked EXCEPT ![i.agent][i.key] = i.impl]
        BY <1>4, <2>3 DEF Ack
      <3>3. CASE a = i.agent /\ c = i.key
        <4>1. acked'[a][c] = e.impl
          BY <1>1, <1>2, <3>1, <3>2, <3>3 DEF Shapes, Stores
        <4>2. FirstIs(f, c, e.impl)
          BY <1>2, <1>4, <2>1, <2>3, <3>1, <3>3, PathByCategory DEF f
        <4>3. QED BY <2>1, <2>2, <3>3, <4>1, <4>2 DEF Kept
      <3>4. CASE ~(a = i.agent /\ c = i.key)
        <4>1. acked'[a][c] = acked[a][c]
          BY <1>1, <1>2, <3>1, <3>2, <3>4 DEF Shapes, Stores
        <4>2. CASE a = i.agent
          <5>1. \A x : FirstIs(d, c, x) => FirstIs(f, c, x)
            BY <1>2, <2>1, <3>1, <3>4, <4>2, PathByCategory DEF f
          <5>2. QED BY <1>1, <2>1, <2>2, <4>1, <4>2, <5>1 DEF Kept
        <4>3. CASE a # i.agent
          BY <1>1, <2>1, <4>1, <4>3 DEF Kept
        <4>4. QED BY <4>2, <4>3
      <3>5. QED BY <3>3, <3>4
    <2>4. CASE ~(Acknowledges(t) /\ Has(d, i.do, e))
      <3>1. acked' = acked
        BY <1>4, <2>4 DEF Ack
      <3>2. CASE a = i.agent
        <4>1. \A x : FirstIs(d, c, x) => FirstIs(f, c, x)
          <5>1. CASE i.do = "name"
            BY <1>2, <2>1, <5>1, PathByName DEF f
          <5>2. CASE i.do = "category"
            <6>1. ~Has(d, "category", e)
              BY <1>2, <2>4, <5>2 DEF Acknowledges
            <6>2. QED BY <1>2, <2>1, <5>2, <6>1, PathByCategory DEF f
          <5>3. QED BY <1>2, <5>1, <5>2
        <4>2. QED BY <1>1, <2>1, <2>2, <3>1, <3>2, <4>1 DEF Kept
      <3>3. CASE a # i.agent
        BY <1>1, <2>1, <3>1, <3>3 DEF Kept
      <3>4. QED BY <3>2, <3>3
    <2>5. QED BY <2>3, <2>4
  <1>5. QED BY <1>3, <1>4 DEF StorePath

LEMMA KeptStoreList ==
  ASSUME KeptInv, NEW t \in Tasks, StoreList(t), NEW a \in Agents, NEW c \in Categories
  PROVE  Kept(a, c)'
  <1> DEFINE i == Item(t)
             e == Setting(i.key, i.impl)
             d == doc[i.agent]
             f == Append(task[t].seen, e)
  <1>1. /\ IsUpsert(t, "list") /\ Ack(t) /\ Shapes /\ Kept(a, c)
        /\ doc' = [doc EXCEPT ![i.agent] = f]
        /\ raced' = IF Stale(t) THEN raced \union {i.agent} ELSE raced
    BY DEF StoreList, KeptInv
  <1>0. e.key = i.key /\ e.impl = i.impl
    BY DEF Setting
  <1>2. /\ i.do \in {"name", "category"} /\ i.agent \in Agents /\ e \in Entry
        /\ e.key = i.key /\ e.impl = i.impl
        /\ i.do = "category" => task[t].op = "replace" /\ i.key \in Categories
    BY <1>0, <1>1, UpsertIs
  <1>3. /\ task[t].seen \in Seq(Entry) /\ doc'[i.agent] = f
        /\ \A b \in Agents \ {i.agent} : doc'[b] = doc[b]
    BY <1>1, <1>2 DEF Shapes, Stores, Requested
  <1>4. f \in Seq(Entry) /\ f # None
    <2>1. f \in Seq(Entry)
      BY <1>2, <1>3, AppendProperties
    <2>2. QED BY <2>1, SeqNotNone
  <1>5. CASE a # i.agent
    <2>1. acked'[a] = acked[a]
      BY <1>1, <1>2, <1>5 DEF Ack, Acknowledges, Shapes, Stores
    <2>2. QED BY <1>1, <1>3, <1>5, <2>1 DEF Kept
  <1>6. CASE a = i.agent /\ Stale(t)
    BY <1>1, <1>6 DEF Kept
  <1>7. CASE a = i.agent /\ ~Stale(t)
    <2>1. task[t].seen = Entries(d) /\ ~Has(d, i.do, e) /\ raced' = raced
      BY <1>1, <1>7 DEF Stale
    <2> DEFINE s == task[t].seen
    <2>2. CASE Acknowledges(t) /\ c = i.key
      <3>1. i.do = "category" /\ i.key \in Categories
        BY <1>2, <2>2 DEF Acknowledges
      <3>2. acked'[a][c] = e.impl
        BY <1>1, <1>2, <1>7, <2>2, <3>1 DEF Ack, Shapes, Stores
      <3>3. \A j \in DOMAIN s : s[j].key # c
        BY <1>2, <2>1, <2>2, <3>1 DEF Has, Same
      <3>4. FirstIs(f, c, e.impl)
        BY <1>2, <1>3, <2>2, <3>3, Appended
      <3>5. QED BY <1>3, <1>4, <1>7, <3>2, <3>4 DEF Kept
    <2>3. CASE ~(Acknowledges(t) /\ c = i.key)
      <3>1. acked'[a][c] = acked[a][c]
        BY <1>1, <1>2, <2>3 DEF Ack, Acknowledges, Shapes, Stores
      <3>2. ASSUME d # None, NEW x, FirstIs(d, c, x) PROVE FirstIs(f, c, x)
        <4>1. s = d
          BY <2>1, <3>2 DEF Entries
        <4>2. QED BY <1>2, <1>3, <3>2, <4>1, Appended
      <3>3. QED BY <1>1, <1>3, <1>4, <1>7, <2>1, <3>1, <3>2 DEF Kept
    <2>4. QED BY <2>2, <2>3
  <1>8. QED BY <1>5, <1>6, <1>7

\* Where the document goes, so do the acknowledgements.
LEMMA KeptElse ==
  ASSUME KeptInv, NEW t \in Tasks, Delete(t) \/ CopyWrite(t) \/ Flush(t),
         NEW a \in Agents, NEW c \in Categories
  PROVE  Kept(a, c)'
  <1>1. Shapes /\ Kept(a, c) /\ raced' = raced
    BY DEF KeptInv, Delete, CopyWrite, Flush
  <1>2. CASE Flush(t)
    BY <1>2 DEF Flush, Kept
  <1>3. CASE UNCHANGED <<doc, acked>>
    BY <1>1, <1>3 DEF Kept
  <1>4. ASSUME NEW b \in Agents, NEW d, doc' = [doc EXCEPT ![b] = d], acked' = NoAck(b)
        PROVE  Kept(a, c)'
    BY <1>1, <1>4 DEF NoAck, Kept, Shapes, Stores
  <1>5. CASE Delete(t)
    <2>1. task[t].prog # <<>> /\ Item(t).do = "drop"
      BY <1>5 DEF Delete, At
    <2>2. Item(t).agent \in Agents
      BY <1>1, <2>1, ItemKind
    <2>3. QED BY <1>3, <1>4, <1>5, <2>2 DEF Delete
  <1>6. CASE CopyWrite(t)
    <2>1. task[t].prog # <<>> /\ Item(t).do = "copy"
      BY <1>6 DEF CopyWrite, At
    <2>2. task[t].op = "clone"
      BY <1>1, <2>1, ItemKind DEF Fits
    <2>3. task[t].to \in Agents
      BY <1>1, <2>2 DEF Shapes, Sound
    <2>4. QED BY <1>3, <1>4, <1>6, <2>3 DEF CopyWrite
  <1>7. QED BY <1>2, <1>5, <1>6

LEMMA KeptStep ==
  ASSUME KeptInv, [Next]_vars
  PROVE  KeptInv'
  <1>1. Shapes'
    BY ShapesStep DEF KeptInv
  <1>2. CASE UNCHANGED <<doc, acked, raced>>
    BY <1>1, <1>2 DEF KeptInv, Kept
  <1>3. ASSUME NEW t \in Tasks, Step(t),
               ~(StorePath(t) \/ StoreList(t) \/ Delete(t) \/ CopyWrite(t) \/ Flush(t))
        PROVE  UNCHANGED <<doc, acked, raced>>
    BY <1>3 DEF Step, Exists, Settings, Activate, ActivateStore, Ensure, Select,
         Instantiate, Lookup, ReadList, Supported, Check, Built, Initialize, ClearProcedures,
         EmbedProcedures, Use, Memory, Folder, Collect, LockTimeout, Purge, Free, Scan,
         CopyRead, CopyPoints, AddPoints, CopyFiles, Mark, Finish, UNCHANGED_store
  <1>4. ASSUME NEW t \in Tasks,
               StorePath(t) \/ StoreList(t) \/ Delete(t) \/ CopyWrite(t) \/ Flush(t)
        PROVE  KeptInv'
    BY <1>1, <1>4, KeptStorePath, KeptStoreList, KeptElse DEF KeptInv
  <1>5. ASSUME NEW t \in Tasks, Request(t) \/ StoreFails(t) \/ Crash(t)
        PROVE  UNCHANGED <<doc, acked, raced>>
    BY <1>5 DEF Request, Create, Destroy, Reset, Update, Clone, Replace, UseAgent,
         FactoryReset, Start, StoreFails, Crash, UNCHANGED_store
  <1>6. ASSUME (\E a \in Agents, k \in LockKeys : LockExpires(a, k))
               \/ (\E c \in Categories : Offer(c))
        PROVE  UNCHANGED <<doc, acked, raced>>
    BY <1>6 DEF LockExpires, Offer
  <1>7. CASE UNCHANGED vars
    BY <1>2, <1>7 DEF vars
  <1>8. QED BY <1>2, <1>3, <1>4, <1>5, <1>6, <1>7 DEF Next

\* An acknowledged selection stays in place (SelectionKept), for any number of
\* agents, categories and requests, in any interleaving and with any failures.
THEOREM SelectionStays == Spec => []SelectionKept
  <1>1. Init => KeptInv
    <2> SUFFICES ASSUME Init PROVE KeptInv
      OBVIOUS
    <2>1. Shapes
      BY ShapesStart
    <2>2. QED BY <2>1 DEF KeptInv, Kept, Init
  <1>2. KeptInv /\ [Next]_vars => KeptInv'
    BY KeptStep
  <1>3. KeptInv => SelectionKept
    BY KeptIsKept DEF KeptInv, Shapes
  <1>4. QED BY <1>1, <1>2, <1>3, PTL DEF Spec

-----------------------------------------------------------------------------
(* What a step leaves alone. *)

\* A request stays the request it is.
Like(r, T) == r.op = T.op /\ r.agent = T.agent /\ r.to = T.to /\ r.alone = T.alone

LEMMA FormsLike ==
  ASSUME NEW t \in Tasks, task[t] \in Requested
  PROVE  /\ \A p : Like(Then(t, p), task[t])
         /\ \A p, x : Like([Then(t, p) EXCEPT !.answer = x], task[t])
         /\ \A x : Like([Next1(t) EXCEPT !.got = x], task[t])
         /\ \A x : Like([Next1(t) EXCEPT !.built = x], task[t])
         /\ \A at, s : Like(Stay(t, at, s), task[t])
         /\ Like(Next1(t), task[t]) /\ Like(AfterFailure(t), task[t])
  <1>1. /\ \A p : Like(Then(t, p), task[t])
        /\ \A p, x : Like([Then(t, p) EXCEPT !.answer = x], task[t])
        /\ \A p, x, y : Like([Then(t, p) EXCEPT !.built = x, !.answer = y], task[t])
    BY DEF Like, Then, Requested
  <1>2. /\ Like(Next1(t), task[t])
        /\ \A x : Like([Next1(t) EXCEPT !.got = x], task[t])
        /\ \A x : Like([Next1(t) EXCEPT !.built = x], task[t])
    BY DEF Like, Next1, Then, Requested
  <1>3. \A at, s : Like(Stay(t, at, s), task[t])
    BY DEF Like, Stay, Requested
  <1>4. Like(AfterFailure(t), task[t])
    <2>1. \/ AfterFailure(t) = [Then(t, DestroyProg(task[t].agent))
                                  EXCEPT !.built = FALSE, !.answer = "failed"]
          \/ AfterFailure(t) = Then(t, AfterMark(task[t].prog))
          \/ AfterFailure(t) = [Then(t, <<>>) EXCEPT !.answer = "failed"]
      BY DEF AfterFailure
    <2> DEFINE p == DestroyProg(task[t].agent)
    <2>2. Like([Then(t, p) EXCEPT !.built = FALSE, !.answer = "failed"], task[t])
      <3> HIDE DEF p
      <3> QED BY DEF Like, Then, Requested
    <2>3. Like([Then(t, <<>>) EXCEPT !.answer = "failed"], task[t])
      BY DEF Like, Then, Requested
    <2>4. Like(Then(t, AfterMark(task[t].prog)), task[t])
      BY <1>1
    <2>5. QED
      <3> HIDE DEF p
      <3>1. AfterFailure(t) \in {[Then(t, p) EXCEPT !.built = FALSE, !.answer = "failed"],
                                 Then(t, AfterMark(task[t].prog)),
                                 [Then(t, <<>>) EXCEPT !.answer = "failed"]}
        BY <2>1 DEF p
      <3>2. QED BY <2>2, <2>3, <2>4, <3>1
  <1>5. QED BY <1>1, <1>2, <1>3, <1>4

LEMMA StepFrame ==
  ASSUME Shapes, NEW t \in Tasks, Step(t) \/ StoreFails(t) \/ Crash(t)
  PROVE  /\ task' = [task EXCEPT ![t] = task'[t]]
         /\ task'[t] = Idle \/ Like(task'[t], task[t])
  <1> DEFINE Goes == \E r : Becomes(t, r) /\ Like(r, task[t])
  <1>0. task[t] \in Requested /\ DOMAIN task = Tasks
    BY DEF Shapes
  <1>1. ASSUME Exists(t) \/ Settings(t) \/ Activate(t) \/ ActivateStore(t) \/ Ensure(t)
               \/ Select(t) PROVE Goes
    BY <1>0, <1>1, FormsLike
       DEF Exists, Settings, Activate, ActivateStore, Ensure, Select, Advance, Fail
  <1>2. ASSUME Instantiate(t) \/ Built(t) PROVE Goes
    <2>1. PICK x : \/ Becomes(t, [Next1(t) EXCEPT !.got = x])
                   \/ Becomes(t, [Next1(t) EXCEPT !.built = x])
      <3>1. CASE Instantiate(t)
        <4>1. Next1(t).got = task[t].got /\ "got" \in DOMAIN Next1(t)
          BY <1>0 DEF Next1, Then, Requested
        <4>2. PICK y : Becomes(t, [Next1(t) EXCEPT !.got = @ \union y])
          BY <3>1 DEF Instantiate
        <4>3. QED BY <4>2
      <3>2. CASE Built(t)
        BY <3>2 DEF Built
      <3>3. QED BY <1>2, <3>1, <3>2
    <2>2. QED BY <1>0, <2>1, FormsLike
  <1>3. ASSUME Lookup(t) \/ StorePath(t) \/ ReadList(t) \/ StoreList(t) \/ Supported(t)
               \/ Check(t) \/ Initialize(t) \/ ClearProcedures(t) \/ EmbedProcedures(t)
               \/ Use(t) PROVE Goes
    BY <1>0, <1>3, FormsLike
       DEF Lookup, StorePath, ReadList, StoreList, Supported, Check, Initialize,
           ClearProcedures, EmbedProcedures, Use, Advance, Fail
  <1>4. ASSUME Memory(t) \/ Folder(t) \/ Collect(t) \/ Delete(t) \/ LockTimeout(t)
               \/ Purge(t) \/ Free(t) \/ Scan(t) \/ CopyRead(t) \/ CopyWrite(t)
               \/ CopyPoints(t) \/ AddPoints(t) \/ CopyFiles(t) \/ Mark(t) \/ Flush(t)
               \/ StoreFails(t) PROVE Goes
    BY <1>0, <1>4, FormsLike
       DEF Memory, Folder, Collect, Delete, LockTimeout, Purge, Free, Scan, CopyRead,
           CopyWrite, CopyPoints, AddPoints, CopyFiles, Mark, Flush, StoreFails,
           Advance, Fail
  <1>5. CASE Goes
    BY <1>0, <1>5 DEF Becomes
  <1>6. CASE Finish(t) \/ Crash(t)
    BY <1>0, <1>6 DEF Finish, Crash
  <1>7. QED BY <1>1, <1>2, <1>3, <1>4, <1>5, <1>6 DEF Step

\* The agents a request may touch are apart from those of the request that is
\* alone.
Apart(T, U) ==
    /\ T.op # "factory" /\ U.op # "factory"
    /\ ({T.agent, T.to} \ {None}) \cap {U.agent, U.to} = {}
AloneInv ==
    \A t, u \in Tasks : t # u /\ task[t].op # "idle" /\ task[u].op # "idle" /\ task[t].alone
        => Apart(task[t], task[u])

LEMMA AloneStep ==
  ASSUME Shapes, AloneInv, [Next]_vars
  PROVE  AloneInv'
  <1> SUFFICES ASSUME NEW t \in Tasks, NEW u \in Tasks, t # u, task'[t].op # "idle",
                      task'[u].op # "idle", task'[t].alone
               PROVE  Apart(task'[t], task'[u])
    BY DEF AloneInv
  <1> DEFINE Was(v) == Like(task'[v], task[v])
  <1>0. Idle.op = "idle"
    BY DEF Idle
  <1>1. ASSUME Was(t), Was(u) PROVE Apart(task'[t], task'[u])
    BY <1>1 DEF Like, AloneInv, Apart
  <1>2. ASSUME NEW v \in Tasks, Step(v) \/ StoreFails(v) \/ Crash(v)
        PROVE  Apart(task'[t], task'[u])
    <2>1. \A w \in Tasks : task'[w] = Idle \/ Was(w)
      BY <1>2, StepFrame DEF Shapes, Like
    <2>2. QED BY <1>0, <1>1, <2>1
  <1>3. CASE UNCHANGED task
    BY <1>1, <1>3 DEF Like
  <1>4. ASSUME NEW v \in Tasks, Request(v) PROVE Apart(task'[t], task'[u])
    <2>1. PICK op, a, b, prog : Start(v, op, a, b, prog)
      BY <1>4 DEF Request, Create, Destroy, Reset, Clone, Update, Replace, UseAgent,
                  FactoryReset
    <2> DEFINE O == Others(v, op, a, b)
    <2>2. /\ task[v].op = "idle"
          /\ task'[v] = Begun(v, op, a, b, prog)
          /\ \A w \in O : task'[w] = [task[w] EXCEPT !.alone = FALSE]
          /\ \A w \in Tasks \ {v} : w \notin O => task'[w] = task[w]
      BY <2>1, StartIs
    <2>3. task'[v].op = op /\ task'[v].agent = a /\ task'[v].to = b
          /\ (task'[v].alone => O = {})
      <3>1. task'[v].op = op /\ task'[v].agent = a /\ task'[v].to = b
        BY <2>2 DEF Begun, Idle
      <3>2. QED BY <2>2, <3>1, BegunAlone
    <2>4. O = {w \in Tasks \ {v} : task[w].op # "idle" /\ Overlaps({a, b}, op, task[w])}
      BY DEF Others
    <2> HIDE DEF O
    <2>5. \A w \in O : ~task'[w].alone
      BY <2>2, <2>4 DEF Shapes, Requested
    <2>6. CASE t = v
      <3>1. u \notin O /\ u # v /\ task'[u] = task[u]
        BY <2>2, <2>3, <2>6
      <3>2. ~Overlaps({a, b}, op, task[u])
        BY <2>4, <3>1
      <3>3. QED BY <2>3, <2>6, <3>1, <3>2 DEF Overlaps, Touches, Apart
    <2>7. CASE u = v
      <3>1. t \notin O /\ t # v /\ task'[t] = task[t]
        BY <2>2, <2>5, <2>7
      <3>2. ~Overlaps({a, b}, op, task[t])
        BY <2>4, <3>1
      <3>3. QED BY <2>3, <2>7, <3>1, <3>2 DEF Overlaps, Touches, Apart
    <2>8. CASE t # v /\ u # v
      <3>2. t \notin O /\ task'[t] = task[t]
        BY <2>2, <2>5, <2>8
      <3>3. task'[u].op = task[u].op /\ task'[u].agent = task[u].agent
            /\ task'[u].to = task[u].to
        <4>1. CASE u \in O
          <5>1. task'[u] = [task[u] EXCEPT !.alone = FALSE] /\ task[u] \in Requested
            BY <2>2, <4>1 DEF Shapes
          <5>2. QED BY <5>1 DEF Requested
        <4>2. QED BY <2>2, <2>8, <4>1
      <3>4. QED BY <3>2, <3>3 DEF AloneInv, Apart
    <2>9. QED BY <2>6, <2>7, <2>8
  <1>5. ASSUME \/ \E a \in Agents, k \in LockKeys : LockExpires(a, k)
               \/ \E c \in Categories : Offer(c)
        PROVE  UNCHANGED task
    BY <1>5 DEF LockExpires, Offer
  <1>6. QED BY <1>2, <1>3, <1>4, <1>5 DEF Next, vars

\* A request stores of its own agents only, but for the factory reset.
LEMMA Touched ==
  ASSUME Shapes, NEW u \in Tasks, Step(u) \/ StoreFails(u) \/ Crash(u),
         task[u].op # "factory", NEW x \in Agents, x \notin {task[u].agent, task[u].to}
  PROVE  doc'[x] = doc[x] /\ data'[x] = data[x]
  <1> DEFINE i == Item(u)
  <1>1. CASE UNCHANGED <<doc, data>>
    BY <1>1
  <1>2. ASSUME task[u].prog # <<>>
        PROVE  /\ i.do # "flush" => i.agent \in Agents /\ i.agent # x
               /\ i.do # "flush"
               /\ i.do \in {"copy", "copyPoints", "copyFiles"} => task[u].to \in Agents
    <2>1. Fits(i, task[u].op, task[u].agent, task[u].to)
      BY <1>2, ItemKind
    <2>2. Sound(task[u])
      BY DEF Shapes
    <2>3. QED BY <2>1, <2>2 DEF Fits, Sound
  <1>3. \/ UNCHANGED <<doc, data>>
        \/ ActivateStore(u) \/ StorePath(u) \/ StoreList(u) \/ ClearProcedures(u)
        \/ EmbedProcedures(u) \/ Use(u) \/ Memory(u) \/ Folder(u) \/ Delete(u) \/ Purge(u)
        \/ CopyWrite(u) \/ AddPoints(u) \/ CopyFiles(u) \/ Flush(u)
    BY DEF Step, Exists, Settings, Activate, Ensure, Select, Instantiate, Lookup, ReadList,
           Supported, Check, Built, Initialize, Collect, LockTimeout, Free, Scan, CopyRead,
           CopyPoints, Mark, Finish, StoreFails, Crash, UNCHANGED_store
  <1>4. doc \in [Agents -> Documents] /\ data \in [Agents -> SUBSET Kinds]
    BY DEF Shapes, Stores
  <1>5. CASE StorePath(u) \/ StoreList(u)
    <2>1. task[u].prog # <<>> /\ i.do # "flush"
      BY <1>5, UpsertIs DEF StorePath, StoreList
    <2>2. QED BY <1>2, <1>4, <1>5, <2>1 DEF StorePath, StoreList
  <1>6. CASE ActivateStore(u) \/ ClearProcedures(u) \/ EmbedProcedures(u) \/ Use(u)
    BY <1>2, <1>4, <1>6 DEF ActivateStore, ClearProcedures, EmbedProcedures, Use, At
  <1>7. CASE Memory(u) \/ Folder(u) \/ Purge(u) \/ Delete(u)
    BY <1>2, <1>4, <1>7 DEF Memory, Folder, Purge, Delete, At
  <1>8. CASE CopyWrite(u) \/ AddPoints(u) \/ CopyFiles(u)
    BY <1>2, <1>4, <1>8 DEF CopyWrite, AddPoints, CopyFiles, At
  <1>9. CASE Flush(u)
    BY <1>2, <1>9 DEF Flush, At
  <1>10. QED BY <1>1, <1>3, <1>5, <1>6, <1>7, <1>8, <1>9

\* What is stored of the agents of a request that is alone is its own work.
Own(t) == {task[t].agent, task[t].to} \cap Agents

LEMMA OthersApart ==
  ASSUME Shapes, AloneInv, NEW t \in Tasks, task[t].op # "idle", task[t].alone,
         NEW u \in Tasks, u # t, Step(u) \/ StoreFails(u) \/ Crash(u), NEW x \in Own(t)
  PROVE  doc'[x] = doc[x] /\ data'[x] = data[x]
  <1>1. x \in Agents /\ x # None
    BY AgentsAssumption DEF Own
  <1>2. task[u].op # "idle" => /\ task[u].op # "factory"
                               /\ x \notin {task[u].agent, task[u].to}
    BY <1>1 DEF AloneInv, Apart, Own
  <1>3. CASE task[u].op = "idle"
    <2>1. task[u].prog = <<>>
      BY <1>3 DEF Shapes, Sound
    <2>2. Finish(u) => UNCHANGED <<doc, data>>
      BY DEF Finish, UNCHANGED_store
    <2>3. ~Step(u) /\ ~StoreFails(u) /\ ~Crash(u)
      BY <1>3, <2>1 DEF Step, At, IsUpsert, Exists, Settings, Activate, ActivateStore,
         Ensure, Select, Instantiate, Lookup, StorePath, ReadList, StoreList, Supported,
         Check, Built, Initialize, ClearProcedures, EmbedProcedures, Use, Memory, Folder,
         Collect, Delete, LockTimeout, Purge, Free, Scan, CopyRead, CopyWrite, CopyPoints,
         AddPoints, CopyFiles, Mark, Flush, Finish, StoreFails, Crash
    <2>4. QED BY <2>3
  <1>4. QED BY <1>1, <1>2, <1>3, Touched

\* A task that is not the one of the step.
LEMMA OtherTask ==
  ASSUME Shapes, NEW t \in Tasks, NEW u \in Tasks, u # t,
         Step(u) \/ StoreFails(u) \/ Crash(u)
  PROVE  task'[t] = task[t]
  <1>1. task' = [task EXCEPT ![u] = task'[u]] /\ DOMAIN task = Tasks
    BY StepFrame DEF Shapes
  <1>2. QED BY <1>1

-----------------------------------------------------------------------------
(* Each request gets one service of every category. *)

LEMMA ThenIs ==
  ASSUME NEW t \in Tasks, task[t] \in Requested, NEW p
  PROVE  LET r == Then(t, p)
             T == task[t]
         IN /\ r.prog = p /\ r.at = "start" /\ r.seen = <<>> /\ r.got = T.got
            /\ r.built = T.built /\ r.answer = T.answer /\ Like(r, T)
  BY DEF Then, Requested, Like

LEMMA StayForms ==
  ASSUME NEW t \in Tasks, task[t] \in Requested, NEW at, NEW s
  PROVE  LET r == Stay(t, at, s)
             T == task[t]
         IN /\ r.prog = T.prog /\ r.at = at /\ r.seen = s /\ r.got = T.got
            /\ r.built = T.built /\ r.answer = T.answer /\ Like(r, T)
  BY DEF Stay, Requested, Like

LEMMA FailIs ==
  ASSUME NEW t \in Tasks, task[t] \in Requested, task[t].op # "factory"
  PROVE  /\ AfterFailure(t).answer = "failed"
         /\ ~task[t].built => AfterFailure(t).prog = <<>>
  <1>1. CASE task[t].built
    <2>1. AfterFailure(t) = [Then(t, DestroyProg(task[t].agent))
                               EXCEPT !.built = FALSE, !.answer = "failed"]
      BY <1>1 DEF AfterFailure
    <2>2. AfterFailure(t).answer = "failed"
      BY <2>1 DEF Then, Requested
    <2>3. QED BY <1>1, <2>2
  <1>2. CASE ~task[t].built
    <2>1. AfterFailure(t) = [Then(t, <<>>) EXCEPT !.answer = "failed"]
      BY <1>2 DEF AfterFailure
    <2>2. QED BY <2>1 DEF Then, Requested
  <1>3. QED BY <1>1, <1>2

Sel(i, c) == i.do \in {"select", "reselect"} /\ i.key = c
Left(p, c) == \E n \in DOMAIN p : Sel(p[n], c)
Once(p, c) == \A m, n \in DOMAIN p : Sel(p[m], c) /\ Sel(p[n], c) => m = n
Plain(p) == \A n \in DOMAIN p : p[n].do = "settings" => p[n].key # "optional"

\* What a step makes of a request that loads and uses its agent.
Moved(t, r) ==
    LET T == task[t]
        i == Item(t)
        same == r.got = T.got /\ r.answer = T.answer
        name == Upsert("name", i.agent, i.key, "default")
    IN \/ r = Idle
       \/ r.answer \in {"failed", "refused"}
       \/ r.prog = T.prog /\ same
       \/ T.prog # <<>> /\
           \/ i.do \notin {"select", "reselect"} /\ r.prog = Tail(T.prog) /\ same
           \/ i.do = "ensure" /\ r.prog = <<name>> \o Tail(T.prog) /\ same
           \/ /\ i.do = "select" /\ same
              /\ r.prog = <<name, On("reselect", i.agent, i.key)>> \o Tail(T.prog)
           \/ /\ i.do \in {"select", "reselect"} /\ r.prog = Tail(T.prog)
              /\ r.answer = T.answer
              /\ \E x \in Chosen : x.key = i.key /\ r.got = T.got \union {x}
           \/ i.do = "settings" /\ i.key = "optional" /\ r.answer = T.answer

LEMMA UseMoves ==
  ASSUME Shapes, NEW t \in Tasks, Step(t) \/ StoreFails(t) \/ Crash(t),
         task[t].op # "factory",
         task[t].op = "use" \/ (task[t].prog # <<>> /\ Item(t).do \in Loads)
  PROVE  Moved(t, task'[t])
  <1> DEFINE T == task[t]
             i == Item(t)
             r == task'[t]
             same == r.got = T.got /\ r.answer = T.answer
             name == Upsert("name", i.agent, i.key, "default")
             Adv == T.prog # <<>> /\ i.do \notin {"select", "reselect"}
                    /\ r.prog = Tail(T.prog) /\ same
             Failed == r.answer \in {"failed", "refused"}
             Stays == r.prog = T.prog /\ same
  <1> SUFFICES
         \/ r = Idle
         \/ Failed \/ Stays
         \/ T.prog # <<>> /\
             \/ i.do \notin {"select", "reselect"} /\ r.prog = Tail(T.prog) /\ same
             \/ i.do = "ensure" /\ r.prog = <<name>> \o Tail(T.prog) /\ same
             \/ /\ i.do = "select" /\ same
                /\ r.prog = <<name, On("reselect", i.agent, i.key)>> \o Tail(T.prog)
             \/ /\ i.do \in {"select", "reselect"} /\ r.prog = Tail(T.prog)
                /\ r.answer = T.answer
                /\ \E x \in Chosen : x.key = i.key /\ r.got = T.got \union {x}
             \/ i.do = "settings" /\ i.key = "optional" /\ r.answer = T.answer
    BY DEF Moved
  <1>0. T \in Requested /\ DOMAIN task = Tasks
    BY DEF Shapes
  <1>1. Advance(t) /\ T.prog # <<>> /\ i.do \notin {"select", "reselect"} => Adv
    BY <1>0, ThenIs DEF Advance, Becomes, Next1
  <1>2. Fail(t) => Failed
    BY <1>0, FailIs DEF Fail, Becomes
  <1>3. \A at, s : Becomes(t, Stay(t, at, s)) => Stays
    <2> TAKE at, s
    <2>1. QED BY <1>0, StayForms DEF Becomes
  <1>4. \A p : Becomes(t, Then(t, p)) => r.prog = p /\ same
    <2> TAKE p
    <2>1. QED BY <1>0, ThenIs DEF Becomes
  <1>5. T.prog # <<>> => Fits(i, T.op, T.agent, T.to)
    BY ItemKind
  <1>6. ASSUME Exists(t) \/ Activate(t) \/ ActivateStore(t) \/ Lookup(t) \/ StorePath(t)
               \/ ReadList(t) \/ StoreList(t) \/ Supported(t) \/ Initialize(t)
               \/ ClearProcedures(t) \/ EmbedProcedures(t) \/ Use(t)
        PROVE  Adv \/ Failed \/ Stays
    BY <1>1, <1>2, <1>3, <1>6
       DEF Exists, Activate, ActivateStore, Lookup, StorePath, ReadList, StoreList,
           Supported, Initialize, ClearProcedures, EmbedProcedures, Use, At, IsUpsert
  <1>7. ASSUME Memory(t) \/ Folder(t) \/ Collect(t) \/ Delete(t) \/ LockTimeout(t)
               \/ Purge(t) \/ StoreFails(t)
        PROVE  Adv \/ Failed \/ Stays
    BY <1>1, <1>2, <1>3, <1>7
       DEF Memory, Folder, Collect, Delete, LockTimeout, Purge, StoreFails, At
  <1>8. ASSUME Check(t) \/ Built(t) \/ Scan(t) \/ CopyRead(t) \/ CopyWrite(t)
               \/ CopyPoints(t) \/ AddPoints(t) \/ CopyFiles(t) \/ Mark(t) \/ Flush(t)
        PROVE  FALSE
    BY <1>5, <1>8
       DEF Check, Built, Scan, CopyRead, CopyWrite, CopyPoints, AddPoints, CopyFiles, Mark,
           Flush, At, Fits, Loads
  <1>9. CASE Finish(t) \/ Crash(t)
    BY <1>0, <1>9 DEF Finish, Crash
  <1>10. CASE Settings(t)
    BY <1>0, <1>1, <1>2, <1>4, <1>10 DEF Settings, At
  <1>11. CASE Ensure(t)
    BY <1>1, <1>4, <1>11 DEF Ensure, At
  <1>12. CASE Select(t)
    <2> DEFINE p == <<name, On("reselect", i.agent, i.key)>> \o Tail(T.prog)
    <2>1. T.prog # <<>> /\ i.do \in {"select", "reselect"}
      BY <1>12 DEF Select, At
    <2>2. CASE i.do = "select" /\ Becomes(t, Then(t, p))
      BY <1>4, <2>1, <2>2
    <2>3. CASE ~(i.do = "select" /\ Becomes(t, Then(t, p)))
      <3>1. Failed \/ Stays
        BY <1>2, <1>3, <1>12, <2>1, <2>3 DEF Select
      <3>2. QED BY <3>1
    <2>4. QED BY <2>2, <2>3
  <1>13. CASE Instantiate(t)
    <2> DEFINE s == T.seen[1]
               usable == /\ s.impl = "custom" => i.key \in offered
                         /\ Has(doc[i.agent], "name", s)
               x == IF usable THEN s ELSE Setting(i.key, "default")
    <2>1. T.prog # <<>> /\ i.do \in {"select", "reselect"} /\ T.at = "chosen"
      BY <1>13 DEF Instantiate, At
    <2>2. s \in Chosen /\ s.key = i.key /\ i.key \in Categories
      BY <1>5, <2>1 DEF Shapes, Sound, Fits, Item
    <2>3. x \in Chosen /\ x.key = i.key
      BY <2>2 DEF Setting, Chosen
    <2>4. r = [Next1(t) EXCEPT !.got = @ \union {x}]
      BY <1>0, <1>13 DEF Instantiate, Becomes
    <2> HIDE DEF x
    <2>5. r.prog = Tail(T.prog) /\ r.got = T.got \union {x} /\ r.answer = T.answer
      BY <1>0, <2>4 DEF Next1, Then, Requested
    <2>6. QED BY <2>1, <2>3, <2>5
  <1>14. CASE Free(t)
    <2>1. CASE Becomes(t, [Then(t, <<>>) EXCEPT !.answer = "refused"])
      <3>1. r.answer = "refused"
        BY <1>0, <2>1 DEF Becomes, Then, Requested
      <3>2. QED BY <3>1
    <2>2. QED BY <1>1, <1>14, <2>1 DEF Free, At
  <1>15. CASE Adv \/ Failed \/ Stays
    BY <1>15
  <1>16. QED BY <1>6, <1>7, <1>8, <1>9, <1>10, <1>11, <1>12, <1>13, <1>14, <1>15 DEF Step

\* Programs put together.
LEMMA ConcatIs ==
  ASSUME NEW S, NEW p \in Seq(S), NEW q \in Seq(S)
  PROVE  /\ p \o q \in Seq(S)
         /\ \A n \in DOMAIN p : n \in DOMAIN (p \o q) /\ (p \o q)[n] = p[n]
         /\ \A n \in DOMAIN q : /\ Len(p) + n \in DOMAIN (p \o q)
                                /\ (p \o q)[Len(p) + n] = q[n]
         /\ \A n \in DOMAIN (p \o q) :
              \/ n \in DOMAIN p
              \/ \E m \in DOMAIN q : n = Len(p) + m
         /\ DOMAIN p = 1..Len(p) /\ DOMAIN q = 1..Len(q) /\ Len(p) \in Nat /\ Len(q) \in Nat
  <1> DEFINE r == p \o q
             P == Len(p)
             Q == Len(q)
  <1>1. /\ r \in Seq(S) /\ Len(r) = P + Q
        /\ \A n \in 1..(P + Q) : r[n] = IF n <= P THEN p[n] ELSE q[n - P]
    BY ConcatProperties
  <1>2. /\ P \in Nat /\ Q \in Nat /\ DOMAIN p = 1..P /\ DOMAIN q = 1..Q
        /\ DOMAIN r = 1..(P + Q)
    BY <1>1, LenProperties
  <1> HIDE DEF r, P, Q
  <1>3. ASSUME NEW n \in 1..P PROVE n \in 1..(P + Q) /\ r[n] = p[n]
    BY <1>1, <1>2
  <1>4. ASSUME NEW n \in 1..Q PROVE P + n \in 1..(P + Q) /\ r[P + n] = q[n]
    <2> DEFINE k == P + n
    <2>2. k \in 1..(P + Q) /\ ~(k <= P) /\ k - P = n
      BY <1>2
    <2> HIDE DEF k
    <2>3. r[k] = q[k - P]
      BY <1>1, <2>2
    <2>4. r[k] = q[n]
      BY <2>2, <2>3
    <2>5. QED BY <2>2, <2>4 DEF k
  <1>5. ASSUME NEW n \in 1..(P + Q) PROVE n \in 1..P \/ \E m \in 1..Q : n = P + m
    <2>1. CASE ~(n <= P)
      <3>1. n \in Int /\ P < n /\ n <= P + Q
        BY <1>2, <2>1
      <3>2. n - P \in 1..Q /\ n = P + (n - P)
        BY <1>2, <3>1
      <3>3. QED BY <3>2
    <2>2. QED BY <1>2, <2>1
  <1>6. QED BY <1>1, <1>2, <1>3, <1>4, <1>5 DEF r, P, Q

LEMMA SelConcat ==
  ASSUME NEW p \in Seq(Call), NEW q \in Seq(Call), NEW c
  PROVE  /\ Left(p \o q, c) <=> Left(p, c) \/ Left(q, c)
         /\ Once(p \o q, c) <=> Once(p, c) /\ Once(q, c) /\ ~(Left(p, c) /\ Left(q, c))
         /\ Plain(p \o q) <=> Plain(p) /\ Plain(q)
  <1> DEFINE r == p \o q
             P == Len(p)
             Q == Len(q)
  <1>0. DOMAIN p = 1..P /\ DOMAIN q = 1..Q /\ P \in Nat /\ Q \in Nat
    BY LenProperties
  <1>1. /\ \A n \in 1..P : n \in DOMAIN r /\ r[n] = p[n]
        /\ \A n \in 1..Q : P + n \in DOMAIN r /\ r[P + n] = q[n]
        /\ \A n \in DOMAIN r : n \in 1..P \/ \E m \in 1..Q : n = P + m
        /\ DOMAIN p = 1..P /\ DOMAIN q = 1..Q /\ P \in Nat /\ Q \in Nat
    <2>1. /\ \A n \in DOMAIN p : n \in DOMAIN r /\ r[n] = p[n]
          /\ \A n \in DOMAIN q : Len(p) + n \in DOMAIN r /\ r[Len(p) + n] = q[n]
          /\ \A n \in DOMAIN r : n \in DOMAIN p \/ \E m \in DOMAIN q : n = Len(p) + m
      BY ConcatIs
    <2> HIDE DEF r
    <2>2. QED BY <1>0, <2>1
  <1> HIDE DEF r, P, Q
  <1>2. Left(r, c) <=> Left(p, c) \/ Left(q, c)
    BY <1>1 DEF Left
  <1>3. Plain(r) <=> Plain(p) /\ Plain(q)
    <2>1. ASSUME Plain(r) PROVE Plain(p) /\ Plain(q)
      <3>1. ASSUME NEW n \in 1..Q, q[n].do = "settings" PROVE q[n].key # "optional"
        <4>1. P + n \in DOMAIN r /\ r[P + n] = q[n]
          BY <1>1
        <4>2. QED BY <2>1, <3>1, <4>1 DEF Plain
      <3>2. QED BY <1>1, <2>1, <3>1 DEF Plain
    <2>2. ASSUME Plain(p), Plain(q) PROVE Plain(r)
      <3>1. ASSUME NEW n \in DOMAIN r, r[n].do = "settings" PROVE r[n].key # "optional"
        <4>1. CASE n \in 1..P
          BY <1>1, <2>2, <3>1, <4>1 DEF Plain
        <4>2. CASE \E m \in 1..Q : n = P + m
          <5>1. PICK m \in 1..Q : n = P + m
            BY <4>2
          <5>2. r[n] = q[m] /\ m \in DOMAIN q
            BY <1>1, <5>1
          <5>3. QED BY <2>2, <3>1, <5>2 DEF Plain
        <4>3. QED BY <1>1, <4>1, <4>2
      <3>2. QED BY <3>1 DEF Plain
    <2>3. QED BY <2>1, <2>2
  <1>4. ASSUME Once(r, c) PROVE Once(p, c) /\ Once(q, c) /\ ~(Left(p, c) /\ Left(q, c))
    <2>1. Once(p, c)
      BY <1>1, <1>4 DEF Once
    <2>2. Once(q, c)
      <3>1. ASSUME NEW m \in 1..Q, NEW n \in 1..Q, Sel(q[m], c), Sel(q[n], c) PROVE m = n
        <4>1. P + m = P + n
          BY <1>1, <1>4, <3>1 DEF Once
        <4>2. QED BY <1>1, <4>1
      <3>2. QED BY <1>1, <3>1 DEF Once
    <2>3. ASSUME NEW m \in 1..P, NEW n \in 1..Q, Sel(p[m], c), Sel(q[n], c) PROVE FALSE
      <3>1. m = P + n
        BY <1>1, <1>4, <2>3 DEF Once
      <3>2. QED BY <1>1, <3>1
    <2>4. QED BY <1>1, <2>1, <2>2, <2>3 DEF Left
  <1>5. ASSUME Once(p, c), Once(q, c), ~(Left(p, c) /\ Left(q, c)) PROVE Once(r, c)
    <2> SUFFICES ASSUME NEW m \in DOMAIN r, NEW n \in DOMAIN r, Sel(r[m], c), Sel(r[n], c)
                 PROVE  m = n
      BY DEF Once
    <2>1. CASE m \in 1..P /\ n \in 1..P
      BY <1>1, <1>5, <2>1 DEF Once
    <2>2. CASE (\E k \in 1..Q : m = P + k) /\ (\E k \in 1..Q : n = P + k)
      BY <1>1, <1>5, <2>2 DEF Once
    <2>3. m \in 1..P => Left(p, c)
      BY <1>1 DEF Left
    <2>4. n \in 1..P => Left(p, c)
      BY <1>1 DEF Left
    <2>0. ASSUME NEW k \in 1..Q, Sel(r[P + k], c) PROVE Left(q, c)
      <3>1. r[P + k] = q[k] /\ k \in DOMAIN q
        BY <1>1
      <3>2. QED BY <2>0, <3>1 DEF Left
    <2>5. (\E k \in 1..Q : m = P + k) => Left(q, c)
      BY <2>0
    <2>6. (\E k \in 1..Q : n = P + k) => Left(q, c)
      BY <2>0
    <2>7. QED BY <1>1, <1>5, <2>1, <2>2, <2>3, <2>4, <2>5, <2>6
  <1>6. QED BY <1>2, <1>3, <1>4, <1>5 DEF r

LEMMA HeadAndTail ==
  ASSUME NEW S, NEW p \in Seq(S), p # <<>>
  PROVE  /\ Head(p) \in S /\ <<Head(p)>> \in Seq(S) /\ Tail(p) \in Seq(S)
         /\ p = <<Head(p)>> \o Tail(p)
  <1> DEFINE q == <<Head(p)>>
             r == q \o Tail(p)
  <1>1. /\ Head(p) \in S /\ Tail(p) \in Seq(S) /\ Len(Tail(p)) = Len(p) - 1
        /\ \A n \in 1..Len(Tail(p)) : Tail(p)[n] = p[n + 1]
    BY HeadTailProperties
  <1>2. Len(p) \in Nat \ {0} /\ Head(p) = p[1]
    BY EmptySeq
  <1>3. q \in Seq(S) /\ Len(q) = 1 /\ q[1] = p[1]
    BY <1>1, <1>2
  <1> HIDE DEF q
  <1>4. /\ r \in Seq(S) /\ Len(r) = 1 + (Len(p) - 1)
        /\ \A n \in 1..(1 + (Len(p) - 1)) : r[n] = IF n <= 1 THEN q[n] ELSE Tail(p)[n - 1]
    <2> DEFINE w == Tail(p)
    <2>1. w \in Seq(S) /\ Len(w) = Len(p) - 1
      BY <1>1
    <2> HIDE DEF w
    <2>2. /\ q \o w \in Seq(S) /\ Len(q \o w) = Len(q) + Len(w)
          /\ \A n \in 1..(Len(q) + Len(w)) :
               (q \o w)[n] = IF n <= Len(q) THEN q[n] ELSE w[n - Len(q)]
      BY <1>3, <2>1, ConcatProperties
    <2>3. QED BY <1>3, <2>1, <2>2 DEF w
  <1> HIDE DEF r
  <1>5. Len(r) = Len(p)
    BY <1>2, <1>4
  <1>6. ASSUME NEW n \in 1..Len(p) PROVE r[n] = p[n]
    <2>1. CASE n = 1
      BY <1>2, <1>3, <1>4, <2>1
    <2>2. CASE n # 1
      <3>1. n \in 1..(1 + (Len(p) - 1)) /\ ~(n <= 1) /\ n - 1 \in 1..Len(Tail(p))
        BY <1>1, <1>2, <2>2
      <3>2. n - 1 + 1 = n
        BY <1>2
      <3>3. r[n] = Tail(p)[n - 1] /\ Tail(p)[n - 1] = p[n - 1 + 1]
        BY <3>1, <1>1, <1>4
      <3>4. QED BY <3>2, <3>3
    <2>3. QED BY <2>1, <2>2
  <1>7. r = p
    BY <1>4, <1>5, <1>6, SeqEqual
  <1>8. QED BY <1>1, <1>3, <1>7 DEF r, q

LEMMA Pair ==
  ASSUME NEW S, NEW x \in S, NEW y \in S
  PROVE  <<x>> \o <<y>> = <<x, y>>
  <1>1. <<x>> \in Seq(S) /\ <<y>> \in Seq(S) /\ <<x, y>> \in Seq(S)
    OBVIOUS
  <1>2. Len(<<x>>) = 1 /\ Len(<<y>>) = 1 /\ Len(<<x, y>>) = 2
    OBVIOUS
  <1> DEFINE p == <<x>>
             q == <<y>>
             r == <<x, y>>
  <1>3. p[1] = x /\ q[1] = y /\ r[1] = x /\ r[2] = y
    OBVIOUS
  <1> HIDE DEF p, q, r
  <1>4. /\ p \o q \in Seq(S) /\ Len(p \o q) = 2
        /\ \A n \in 1..2 : (p \o q)[n] = IF n <= 1 THEN p[n] ELSE q[n - 1]
    BY <1>1, <1>2, ConcatProperties DEF p, q, r
  <1>5. \A n \in 1..2 : (p \o q)[n] = r[n]
    BY <1>3, <1>4
  <1>6. Len(r) = 2 /\ r \in Seq(S)
    BY <1>1, <1>2 DEF r
  <1>7. p \o q = r
    BY <1>4, <1>5, <1>6, SeqEqual
  <1>8. QED BY <1>7 DEF p, q, r

LEMMA SelOne ==
  ASSUME NEW i \in Call, NEW c
  PROVE  /\ <<i>> \in Seq(Call)
         /\ Left(<<i>>, c) <=> Sel(i, c)
         /\ Once(<<i>>, c)
         /\ Plain(<<i>>) <=> (i.do = "settings" => i.key # "optional")
  <1>1. DOMAIN <<i>> = {1} /\ <<i>>[1] = i /\ <<i>> \in Seq(Call)
    OBVIOUS
  <1> DEFINE p == <<i>>
  <1> HIDE DEF p
  <1>2. DOMAIN p = {1} /\ p[1] = i
    BY <1>1 DEF p
  <1>3. (Left(p, c) <=> Sel(i, c)) /\ Once(p, c)
    BY <1>2 DEF Left, Once
  <1>4. Plain(p) <=> (i.do = "settings" => i.key # "optional")
    BY <1>2 DEF Plain
  <1>5. QED BY <1>1, <1>3, <1>4 DEF p

\* What is left of a program, by its head.
LEMMA SelHead ==
  ASSUME Shapes, NEW t \in Tasks, task[t].prog # <<>>, NEW c
  PROVE  LET p == task[t].prog
             i == Item(t)
         IN /\ p \in Seq(Call) /\ Tail(p) \in Seq(Call) /\ i \in Call
            /\ Left(p, c) <=> Sel(i, c) \/ Left(Tail(p), c)
            /\ Once(p, c) <=> Once(Tail(p), c) /\ ~(Sel(i, c) /\ Left(Tail(p), c))
            /\ Plain(p) <=> (i.do = "settings" => i.key # "optional") /\ Plain(Tail(p))
  <1> DEFINE p == task[t].prog
             i == Item(t)
             q == <<i>>
             w == Tail(p)
  <1>1. p \in Seq(Call)
    BY DEF Shapes, Requested
  <1>2. i \in Call /\ w \in Seq(Call) /\ p = q \o w
    BY <1>1, HeadAndTail DEF Item
  <1> HIDE DEF w, i, p
  <1>3. q \in Seq(Call) /\ (Left(q, c) <=> Sel(i, c)) /\ Once(q, c)
        /\ (Plain(q) <=> (i.do = "settings" => i.key # "optional"))
    BY <1>2, SelOne
  <1> HIDE DEF q
  <1>4. /\ Left(q \o w, c) <=> Left(q, c) \/ Left(w, c)
        /\ Once(q \o w, c) <=> Once(q, c) /\ Once(w, c) /\ ~(Left(q, c) /\ Left(w, c))
        /\ Plain(q \o w) <=> Plain(q) /\ Plain(w)
    BY <1>2, <1>3, SelConcat
  <1>5. QED BY <1>1, <1>2, <1>3, <1>4 DEF w, i, p

\* The services a request has got, and those it still has to get.
Got(T, c) == {s \in T.got : s.key = c}
Awaits(p, G, c) ==
    Once(p, c) /\ (Left(p, c) <=> G = {}) /\ \A r, s \in G : r = s
UseInv(T) ==
    T.op = "use" /\ T.answer = None =>
        Plain(T.prog) /\ \A c \in Categories : Awaits(T.prog, Got(T, c), c)

LEMMA UseStep ==
  ASSUME Shapes, NEW t \in Tasks, Step(t) \/ StoreFails(t) \/ Crash(t), UseInv(task[t])
  PROVE  UseInv(task'[t])
  <1> DEFINE T == task[t]
             r == task'[t]
             i == Item(t)
             p == T.prog
             same == r.got = T.got /\ r.answer = T.answer
             name == Upsert("name", i.agent, i.key, "default")
             again == On("reselect", i.agent, i.key)
  <1>0. task[t].op = "use" => Moved(t, task'[t])
    BY UseMoves
  <1> SUFFICES ASSUME r.op = "use", r.answer = None
               PROVE  Plain(r.prog) /\ \A c \in Categories : Awaits(r.prog, Got(r, c), c)
    BY DEF UseInv
  <1>1. r # Idle /\ T.op = "use" /\ T.op # "factory"
    BY StepFrame DEF Idle, Like
  <1>2. T.answer = None => Plain(p) /\ \A c \in Categories : Awaits(p, Got(T, c), c)
    BY <1>1 DEF UseInv
  <1>3. None \notin {"failed", "refused"}
    BY AgentsAssumption
  <1>4. CASE r.prog = p /\ same
    BY <1>2, <1>4 DEF Got
  <1>5. ASSUME p # <<>>
        PROVE  /\ i \in Call /\ Tail(p) \in Seq(Call)
               /\ i.do \in {"ensure", "select", "reselect"} => i.key \in Categories
               /\ i.do \in {"ensure", "select", "reselect"} => i.agent \in Agents
    BY <1>5, SelHead, ItemKind DEF Fits
  <1>6. ASSUME i.do \in {"ensure", "select", "reselect"}, p # <<>>, NEW c
        PROVE  /\ <<name>> \in Seq(Call) /\ ~Left(<<name>>, c) /\ Once(<<name>>, c)
               /\ Plain(<<name>>)
               /\ <<name, again>> \in Seq(Call) /\ (Left(<<name, again>>, c) <=> c = i.key)
               /\ Once(<<name, again>>, c) /\ Plain(<<name, again>>)
    <2>1. name \in Call /\ again \in Call
      BY <1>5, <1>6, LoadItems DEF LoadsOf
    <2>2. name.do = "name" /\ again.do = "reselect" /\ again.key = i.key
      BY DEF Upsert, On
    <2> HIDE DEF name, again
    <2>3. <<name>> \o <<again>> = <<name, again>>
      BY <2>1, Pair
    <2>4. /\ <<name>> \in Seq(Call) /\ ~Left(<<name>>, c) /\ Once(<<name>>, c)
          /\ Plain(<<name>>)
      BY <2>1, <2>2, SelOne DEF Sel
    <2>5. /\ <<again>> \in Seq(Call) /\ (Left(<<again>>, c) <=> c = i.key)
          /\ Once(<<again>>, c) /\ Plain(<<again>>)
      BY <2>1, <2>2, SelOne DEF Sel
    <2> DEFINE x == <<name>>
               y == <<again>>
    <2>6. x \o y \in Seq(Call) /\ (Left(x \o y, c) <=> c = i.key) /\ Once(x \o y, c)
          /\ Plain(x \o y)
      <3> HIDE DEF x, y
      <3> QED BY <2>4, <2>5, SelConcat, ConcatProperties DEF x, y
    <2>7. QED BY <2>3, <2>4, <2>6
  <1>7. CASE p # <<>> /\ i.do \notin {"select", "reselect"} /\ r.prog = Tail(p) /\ same
    BY <1>2, <1>7, SelHead DEF Got, Awaits, Sel
  <1>8. CASE p # <<>> /\ i.do = "ensure" /\ r.prog = <<name>> \o Tail(p) /\ same
    <2>1. Plain(p) /\ \A c \in Categories : Awaits(p, Got(T, c), c)
      BY <1>2, <1>8
    <2>2. ASSUME NEW c
          PROVE  /\ Left(r.prog, c) <=> Left(p, c)
                 /\ Once(r.prog, c) <=> Once(p, c)
                 /\ Plain(r.prog) <=> Plain(p)
      <3> DEFINE q == <<name>>
                 w == Tail(p)
      <3>1. q \in Seq(Call) /\ ~Left(q, c) /\ Once(q, c) /\ Plain(q) /\ w \in Seq(Call)
        BY <1>5, <1>6, <1>8
      <3>2. (Left(p, c) <=> Left(w, c)) /\ (Once(p, c) <=> Once(w, c))
            /\ (Plain(p) <=> Plain(w))
        BY <1>8, SelHead DEF Sel
      <3>3. r.prog = q \o w
        BY <1>8
      <3> HIDE DEF q, w
      <3>4. QED BY <3>1, <3>2, <3>3, SelConcat
    <2>3. QED BY <1>8, <2>1, <2>2 DEF Got, Awaits
  <1>9. CASE p # <<>> /\ i.do = "select" /\ same /\ r.prog = <<name, again>> \o Tail(p)
    <2>1. Plain(p) /\ \A c \in Categories : Awaits(p, Got(T, c), c)
      BY <1>2, <1>9
    <2>2. ASSUME NEW c
          PROVE  /\ Left(r.prog, c) <=> Left(p, c)
                 /\ Once(r.prog, c) <=> Once(p, c)
                 /\ Plain(r.prog) <=> Plain(p)
      <3> DEFINE q == <<name, again>>
                 w == Tail(p)
      <3>1. q \in Seq(Call) /\ (Left(q, c) <=> c = i.key) /\ Once(q, c) /\ Plain(q)
            /\ w \in Seq(Call)
        BY <1>5, <1>6, <1>9
      <3>2. /\ Left(p, c) <=> c = i.key \/ Left(w, c)
            /\ Once(p, c) <=> Once(w, c) /\ ~(c = i.key /\ Left(w, c))
            /\ (Plain(p) <=> Plain(w))
        BY <1>9, SelHead DEF Sel
      <3>3. r.prog = q \o w
        BY <1>9
      <3> HIDE DEF q, w
      <3>4. QED BY <3>1, <3>2, <3>3, SelConcat
    <2>3. QED BY <1>9, <2>1, <2>2 DEF Got, Awaits
  <1>10. CASE /\ p # <<>> /\ i.do \in {"select", "reselect"} /\ r.prog = Tail(p)
              /\ r.answer = T.answer
              /\ \E x \in Chosen : x.key = i.key /\ r.got = T.got \union {x}
    <2>1. PICK x \in Chosen : x.key = i.key /\ r.got = T.got \union {x}
      BY <1>10
    <2>2. Plain(p) /\ \A c \in Categories : Awaits(p, Got(T, c), c)
      BY <1>2, <1>10
    <2>3. Plain(r.prog)
      BY <1>10, <2>2, SelHead
    <2>4. ASSUME NEW c \in Categories PROVE Awaits(r.prog, Got(r, c), c)
      <3> DEFINE w == Tail(p)
      <3>1. /\ Left(p, c) <=> c = i.key \/ Left(w, c)
            /\ Once(p, c) <=> Once(w, c) /\ ~(c = i.key /\ Left(w, c))
        BY <1>10, SelHead DEF Sel
      <3>2. Got(r, c) = IF c = i.key THEN Got(T, c) \union {x} ELSE Got(T, c)
        BY <2>1 DEF Got
      <3>3. r.prog = w
        BY <1>10
      <3> HIDE DEF w
      <3>4. Awaits(p, Got(T, c), c)
        BY <2>2
      <3>5. CASE c = i.key
        BY <3>1, <3>2, <3>3, <3>4, <3>5 DEF Awaits
      <3>6. CASE c # i.key
        BY <3>1, <3>2, <3>3, <3>4, <3>6 DEF Awaits
      <3>7. QED BY <3>5, <3>6
    <2>5. QED BY <2>3, <2>4
  <1>11. CASE p # <<>> /\ i.do = "settings" /\ i.key = "optional" /\ r.answer = T.answer
    BY <1>2, <1>11, SelHead
  <1>12. \/ r = Idle
         \/ r.answer \in {"failed", "refused"}
         \/ r.prog = p /\ same
         \/ p # <<>> /\
             \/ i.do \notin {"select", "reselect"} /\ r.prog = Tail(p) /\ same
             \/ i.do = "ensure" /\ r.prog = <<name>> \o Tail(p) /\ same
             \/ i.do = "select" /\ same /\ r.prog = <<name, again>> \o Tail(p)
             \/ /\ i.do \in {"select", "reselect"} /\ r.prog = Tail(p)
                /\ r.answer = T.answer
                /\ \E x \in Chosen : x.key = i.key /\ r.got = T.got \union {x}
             \/ i.do = "settings" /\ i.key = "optional" /\ r.answer = T.answer
    <2>1. Moved(t, r)
      BY <1>0, <1>1
    <2>2. QED BY <2>1 DEF Moved
  <1>13. QED BY <1>1, <1>3, <1>4, <1>7, <1>8, <1>9, <1>10, <1>11, <1>12

LEMMA LoadsAreCalls ==
  ASSUME NEW a \in Agents
  PROVE  /\ BuildProg(a) \in Seq(Call) /\ LoadProg(a) \in Seq(Call)
         /\ PerCategory("ensure", a) \in Seq(Call) /\ PerCategory("select", a) \in Seq(Call)
  <1>1. LoadsOf(a) \subseteq Call
    BY DEF LoadsOf
  <1>2. Seq(LoadsOf(a)) \subseteq Seq(Call)
    BY <1>1, SeqMonotonic
  <1>3. PerCategory("ensure", a) \in Seq(LoadsOf(a)) /\ PerCategory("select", a) \in Seq(LoadsOf(a))
    BY LoadItems, PerCategoryIs
  <1>4. QED BY <1>2, <1>3, LoadProgIs

\* Loading an agent selects a service of every category.
LEMMA LoadSels ==
  ASSUME NEW a \in Agents, NEW c
  PROVE  /\ c \in Categories => Left(LoadProg(a), c)
         /\ Once(LoadProg(a), c) /\ Plain(LoadProg(a))
  <1> DEFINE E == PerCategory("ensure", a)
             S == PerCategory("select", a)
             p == <<Do("exists", a), Do("settings", a)>>
             q == <<Do("activate", a), Upsert("name", a, "plugins", "default")>>
  <1>1. /\ E \in Seq(Call) /\ S \in Seq(Call)
        /\ DOMAIN E = DOMAIN CategorySeq /\ DOMAIN S = DOMAIN CategorySeq
        /\ \A i \in DOMAIN CategorySeq :
             E[i] = On("ensure", a, CategorySeq[i]) /\ S[i] = On("select", a, CategorySeq[i])
    <2>1. \A x \in Categories : On("ensure", a, x) \in LoadsOf(a)
                               /\ On("select", a, x) \in LoadsOf(a)
      BY LoadItems
    <2>2. /\ E \in Seq(LoadsOf(a)) /\ DOMAIN E = DOMAIN CategorySeq
          /\ \A i \in DOMAIN CategorySeq : E[i] = On("ensure", a, CategorySeq[i])
      BY <2>1, PerCategoryIs
    <2>3. /\ S \in Seq(LoadsOf(a)) /\ DOMAIN S = DOMAIN CategorySeq
          /\ \A i \in DOMAIN CategorySeq : S[i] = On("select", a, CategorySeq[i])
      BY <2>1, PerCategoryIs
    <2>4. QED BY <2>2, <2>3, LoadsAreCalls
  <1>2. /\ \A i \in DOMAIN E : E[i].do = "ensure"
        /\ \A i \in DOMAIN S : S[i].do = "select" /\ S[i].key = CategorySeq[i]
    <2> HIDE DEF E, S
    <2> QED BY <1>1 DEF On
  <1>3. ~Left(E, c) /\ Once(E, c) /\ Plain(E)
    <2> HIDE DEF E
    <2> QED BY <1>2 DEF Left, Once, Plain, Sel
  <1>4. (c \in Categories => Left(S, c)) /\ Once(S, c) /\ Plain(S)
    <2>2. \A i, j \in DOMAIN CategorySeq : CategorySeq[i] = CategorySeq[j] => i = j
      BY CategorySeqIs
    <2> HIDE DEF S
    <2>3. ASSUME c \in Categories PROVE Left(S, c)
      <3>1. PICK n \in DOMAIN CategorySeq : CategorySeq[n] = c
        BY <2>3, CategorySeqIs
      <3>2. QED BY <1>1, <1>2, <3>1 DEF Left, Sel
    <2>4. Once(S, c)
      BY <1>1, <1>2, <2>2 DEF Once, Sel
    <2>5. Plain(S)
      BY <1>2 DEF Plain
    <2>6. QED BY <2>3, <2>4, <2>5
  <1>5. ASSUME NEW x \in Call, NEW y \in Call, x.do \notin {"select", "reselect"},
               y.do \notin {"select", "reselect"},
               x.do = "settings" => x.key # "optional", y.do = "settings" => y.key # "optional"
        PROVE  <<x, y>> \in Seq(Call) /\ ~Left(<<x, y>>, c) /\ Once(<<x, y>>, c)
               /\ Plain(<<x, y>>)
    <2>1. <<x>> \o <<y>> = <<x, y>> /\ <<x, y>> \in Seq(Call)
      BY Pair
    <2> DEFINE X == <<x>>
               Y == <<y>>
    <2>2. X \in Seq(Call) /\ ~Left(X, c) /\ Once(X, c) /\ Plain(X)
      BY <1>5, SelOne DEF Sel
    <2>3. Y \in Seq(Call) /\ ~Left(Y, c) /\ Once(Y, c) /\ Plain(Y)
      BY <1>5, SelOne DEF Sel
    <2>4. ~Left(X \o Y, c) /\ Once(X \o Y, c) /\ Plain(X \o Y)
      <3> HIDE DEF X, Y
      <3> QED BY <2>2, <2>3, SelConcat
    <2>5. QED BY <2>1, <2>4
  <1>6. /\ p \in Seq(Call) /\ ~Left(p, c) /\ Once(p, c) /\ Plain(p)
        /\ q \in Seq(Call) /\ ~Left(q, c) /\ Once(q, c) /\ Plain(q)
    <2> DEFINE x1 == Do("exists", a)
               x2 == Do("settings", a)
               x3 == Do("activate", a)
               x4 == Upsert("name", a, "plugins", "default")
    <2>1. x1 \in Call /\ x2 \in Call /\ x3 \in Call /\ x4 \in Call
      BY LoadItems DEF LoadsOf
    <2>2. x1.do = "exists" /\ x2.do = "settings" /\ x3.do = "activate" /\ x4.do = "name"
          /\ x2.key # "optional"
      BY AgentsAssumption DEF Do, Upsert
    <2> HIDE DEF x1, x2, x3, x4
    <2>3. QED BY <1>5, <2>1, <2>2 DEF x1, x2, x3, x4
  <1> HIDE DEF E, S, p, q
  <1>7. /\ q \o E \in Seq(Call) /\ ~Left(q \o E, c) /\ Once(q \o E, c) /\ Plain(q \o E)
    BY <1>1, <1>3, <1>6, SelConcat, ConcatProperties
  <1>8. /\ q \o E \o S \in Seq(Call)
        /\ c \in Categories => Left(q \o E \o S, c)
        /\ Once(q \o E \o S, c)
        /\ Plain(q \o E \o S)
    BY <1>1, <1>4, <1>7, SelConcat, ConcatProperties
  <1>9. LET w == p \o (q \o E \o S) IN (c \in Categories => Left(w, c)) /\ Once(w, c) /\ Plain(w)
    BY <1>6, <1>8, SelConcat
  <1>10. LoadProg(a) = p \o (q \o E \o S)
    BY DEF LoadProg, BuildProg, E, S, p, q
  <1>11. QED BY <1>9, <1>10

LEMMA UseStart ==
  ASSUME Shapes, NEW v \in Tasks, Request(v), \A t \in Tasks : UseInv(task[t])
  PROVE  \A t \in Tasks : UseInv(task'[t])
  <1>1. PICK op, a, b, prog :
           /\ Start(v, op, a, b, prog)
           /\ op = "use" => /\ a \in Agents
                            /\ \E k \in Uses : prog = LoadProg(a) \o <<On("use", a, k)>>
    <2> DEFINE Other == \E op, a, b, prog : Start(v, op, a, b, prog) /\ op # "use"
    <2>0. \A op, a, b, prog : Start(v, op, a, b, prog) /\ op # "use" => Other
      OBVIOUS
    <2> HIDE DEF Other
    <2>1. ASSUME NEW a \in Agents, Create(v, a) \/ Destroy(v, a) \/ Reset(v, a) \/ Update(v, a)
          PROVE  Other
      BY <2>0, <2>1 DEF Create, Destroy, Reset, Update
    <2>2. ASSUME NEW a \in Agents, \/ \E b \in Agents \ {a} : Clone(v, a, b)
                                   \/ \E c \in Categories, i \in {"default", "custom"} :
                                        Replace(v, a, c, i)
          PROVE  Other
      BY <2>0, <2>2 DEF Clone, Replace
    <2>3. ASSUME FactoryReset(v) PROVE Other
      BY <2>0, <2>3 DEF FactoryReset
    <2>4. ASSUME NEW a \in Agents, NEW k \in Uses, UseAgent(v, a, k)
          PROVE  Start(v, "use", a, None, LoadProg(a) \o <<On("use", a, k)>>)
      BY <2>4 DEF UseAgent
    <2>5. CASE Other
      BY <2>5 DEF Other
    <2>6. CASE \E a \in Agents, k \in Uses : UseAgent(v, a, k)
      BY <2>4, <2>6
    <2>7. QED BY <2>1, <2>2, <2>3, <2>5, <2>6 DEF Request
  <1> DEFINE O == Others(v, op, a, b)
  <1>2. /\ task'[v] = Begun(v, op, a, b, prog)
        /\ \A w \in O : task'[w] = [task[w] EXCEPT !.alone = FALSE]
        /\ \A w \in Tasks \ {v} : w \notin O => task'[w] = task[w]
    BY <1>1, StartIs
  <1> HIDE DEF O
  <1>3. ASSUME NEW t \in Tasks, t # v PROVE UseInv(task'[t])
    <2>1. CASE t \in O
      <3>1. task'[t] = [task[t] EXCEPT !.alone = FALSE] /\ task[t] \in Requested
        BY <1>2, <2>1 DEF Shapes
      <3>2. /\ task'[t].op = task[t].op /\ task'[t].answer = task[t].answer
            /\ task'[t].prog = task[t].prog /\ task'[t].got = task[t].got
        BY <3>1 DEF Requested
      <3>3. QED BY <3>2 DEF UseInv, Got
    <2>2. QED BY <1>2, <1>3, <2>1
  <1>4. UseInv(task'[v])
    <2> SUFFICES ASSUME op = "use" PROVE UseInv(task'[v])
      <3>1. task'[v].op = op
        BY <1>2 DEF Begun, Idle
      <3>2. QED BY <3>1 DEF UseInv
    <2>1. PICK k \in Uses : prog = LoadProg(a) \o <<On("use", a, k)>>
      BY <1>1
    <2> DEFINE x == On("use", a, k)
               q == <<x>>
    <2>2. x \in Call /\ x.do = "use"
      BY <1>1, AgentsAssumption DEF On, Call, Dos
    <2>3. ASSUME NEW c
          PROVE  (c \in Categories => Left(prog, c)) /\ Once(prog, c) /\ Plain(prog)
      <3> HIDE DEF x
      <3>1. q \in Seq(Call) /\ ~Left(q, c) /\ Once(q, c) /\ Plain(q)
        BY <2>2, SelOne DEF Sel
      <3> DEFINE L == LoadProg(a)
      <3>2. L \in Seq(Call) /\ (c \in Categories => Left(L, c)) /\ Once(L, c) /\ Plain(L)
        BY <1>1, LoadsAreCalls, LoadSels
      <3>3. prog = L \o q
        BY <2>1 DEF x
      <3> HIDE DEF L, q
      <3>4. QED BY <3>1, <3>2, <3>3, SelConcat
    <2>4. Plain(prog)
      BY <2>3
    <2>5. task'[v].prog = prog /\ task'[v].got = {} /\ task'[v].answer = None
      BY <1>2 DEF Begun, Idle
    <2>6. QED BY <2>3, <2>4, <2>5 DEF UseInv, Awaits, Got
  <1>5. QED BY <1>3, <1>4

UsesInv == Shapes /\ \A t \in Tasks : UseInv(task[t])

LEMMA UsesStep ==
  ASSUME UsesInv, [Next]_vars
  PROVE  UsesInv'
  <1>1. Shapes'
    BY ShapesStep DEF UsesInv
  <1>2. ASSUME NEW u \in Tasks, Step(u) \/ StoreFails(u) \/ Crash(u)
        PROVE  \A t \in Tasks : UseInv(task'[t])
    <2>1. UseInv(task'[u])
      BY <1>2, UseStep DEF UsesInv
    <2>2. \A t \in Tasks \ {u} : task'[t] = task[t]
      BY <1>2, OtherTask DEF UsesInv
    <2>3. QED BY <2>1, <2>2 DEF UsesInv
  <1>3. ASSUME UNCHANGED task PROVE \A t \in Tasks : UseInv(task'[t])
    BY <1>3 DEF UsesInv
  <1>4. ASSUME NEW v \in Tasks, Request(v) PROVE \A t \in Tasks : UseInv(task'[t])
    BY <1>4, UseStart DEF UsesInv
  <1>5. ASSUME \/ \E a \in Agents, k \in LockKeys : LockExpires(a, k)
               \/ \E c \in Categories : Offer(c)
        PROVE  UNCHANGED task
    BY <1>5 DEF LockExpires, Offer
  <1>6. \A t \in Tasks : UseInv(task'[t])
    BY <1>2, <1>3, <1>4, <1>5 DEF Next, vars, UsesInv
  <1>7. QED BY <1>1, <1>6 DEF UsesInv

\* A request that uses its agent got one service of every category (GotEach),
\* whatever else goes on: loading asks for each category once, a lookup that
\* finds nothing is repeated in the same place, and every request that goes on
\* has got what it no longer asks for.
THEOREM EachIsGot == Spec => []GotEach
  <1>1. Init => UsesInv
    <2> SUFFICES ASSUME Init PROVE UsesInv
      OBVIOUS
    <2>1. \A t \in Tasks : task[t].op = "idle"
      BY DEF Init, Idle
    <2>2. QED BY <2>1, ShapesStart DEF UsesInv, UseInv
  <1>2. UsesInv /\ [Next]_vars => UsesInv'
    BY UsesStep
  <1>3. UsesInv => GotEach
    <2> SUFFICES ASSUME UsesInv, NEW t \in Tasks, Done(t, "use"), task[t].answer = None,
                        NEW c \in Categories
                 PROVE  Cardinality({s \in task[t].got : s.key = c}) = 1
      BY DEF GotEach
    <2>1. Awaits(task[t].prog, Got(task[t], c), c) /\ task[t].prog = <<>>
      BY DEF UsesInv, UseInv, Done
    <2>2. ~Left(<<>>, c)
      <3>1. DOMAIN <<>> = {}
        BY EmptySeq
      <3>2. QED BY <3>1 DEF Left
    <2> DEFINE G == Got(task[t], c)
    <2>3. PICK s : G = {s}
      <3>1. Awaits(<<>>, G, c)
        BY <2>1
      <3> HIDE DEF G
      <3>2. G # {} /\ \A r, s \in G : r = s
        BY <2>2, <3>1 DEF Awaits
      <3>3. PICK s \in G : TRUE
        BY <3>2
      <3>4. QED BY <3>2, <3>3
    <2>4. Cardinality(G) = 1
      BY <2>3, FS_Singleton
    <2>5. QED BY <2>4 DEF Got
  <1>4. QED BY <1>1, <1>2, <1>3, PTL DEF Spec

-----------------------------------------------------------------------------
(* Destroying an agent removes its parts one after the other. *)

Part == <<"points", "procedures", "files", "settings", "conversations", "plugins",
          "users", "rows">>
From(a, k) == SubSeq(DestroyProg(a), k, 8)
Removed(i) == IF i.do = "folder" THEN "files" ELSE IF i.do = "purge" THEN "rows" ELSE i.key
GoneTo(a, k) == \A j \in 1..(k - 1) : ~Stored(a, Part[j])

LEMMA DestroyItems ==
  ASSUME NEW a \in Agents
  PROVE  /\ Len(DestroyProg(a)) = 8 /\ DestroyProg(a) \in Seq(Call)
         /\ \A k \in 1..8 : /\ DestroyProg(a)[k].agent = a
                            /\ DestroyProg(a)[k].do \in Destroying
                            /\ DestroyProg(a)[k] \in Call
                            /\ Removed(DestroyProg(a)[k]) = Part[k]
  <1> DEFINE D == DestroyProg(a)
  <1>1. D \in Seq(Call)
    <2>1. Destructive(a) \subseteq Call
      BY DEF Destructive
    <2>2. QED BY <2>1, DestroyProgIs, SeqMonotonic
  <1>2. /\ Len(D) = 8
        /\ D[1] = On("memory", a, "points") /\ D[2] = On("memory", a, "procedures")
        /\ D[3] = Do("folder", a) /\ D[4] = On("drop", a, "settings")
        /\ D[5] = On("drop", a, "conversations") /\ D[6] = On("drop", a, "plugins")
        /\ D[7] = On("drop", a, "users") /\ D[8] = Do("purge", a)
    BY DEF DestroyProg
  <1>3. /\ Part[1] = "points" /\ Part[2] = "procedures" /\ Part[3] = "files"
        /\ Part[4] = "settings" /\ Part[5] = "conversations" /\ Part[6] = "plugins"
        /\ Part[7] = "users" /\ Part[8] = "rows"
    BY DEF Part
  <1> HIDE DEF D
  <1>4. \A k \in 1..8 : k \in {1, 2, 3, 4, 5, 6, 7, 8}
    OBVIOUS
  <1>5. \A k \in {1, 2, 3, 4, 5, 6, 7, 8} :
           D[k].agent = a /\ D[k].do \in Destroying /\ Removed(D[k]) = Part[k]
    <2>1. /\ \A x, k : On(x, a, k).agent = a /\ On(x, a, k).do = x /\ On(x, a, k).key = k
          /\ \A x : Do(x, a).agent = a /\ Do(x, a).do = x
      BY DEF On, Do
    <2>2. QED BY <1>2, <1>3, <2>1 DEF Removed, Destroying
  <1>6. \A k \in 1..8 : D[k] \in Call
    BY <1>1, <1>2, ElementOfSeq
  <1>7. QED BY <1>1, <1>2, <1>4, <1>5, <1>6 DEF D

LEMMA FromIs ==
  ASSUME NEW a \in Agents
  PROVE  /\ From(a, 1) = DestroyProg(a) /\ From(a, 9) = <<>>
         /\ \A k \in 1..9 : From(a, k) \in Seq(Call)
         /\ \A k \in 1..8 : From(a, k) = <<DestroyProg(a)[k]>> \o From(a, k + 1)
  <1> DEFINE D == DestroyProg(a)
  <1>1. D \in Seq(Call) /\ Len(D) = 8 /\ \A k \in 1..8 : D[k] \in Call
    BY DestroyItems
  <1> HIDE DEF D
  <1>2. ASSUME NEW k \in 1..9
        PROVE  LET s == SubSeq(D, k, 8) IN
               /\ s \in Seq(Call) /\ Len(s) = 9 - k
               /\ \A n \in 1..(9 - k) : s[n] = D[k + n - 1]
    <2>1. k \in 1..9 /\ 8 \in (k - 1)..8
      OBVIOUS
    <2>2. \A i \in k..8 : D[i] \in Call
      BY <1>1
    <2> DEFINE s == SubSeq(D, k, 8)
    <2>3. /\ s \in Seq(Call) /\ Len(s) = IF k <= 8 THEN 8 - k + 1 ELSE 0
          /\ \A n \in 1..(8 - k + 1) : s[n] = D[k + n - 1]
      BY <2>2, SubSeqProperties
    <2> HIDE DEF s
    <2>4. Len(s) = 9 - k /\ 8 - k + 1 = 9 - k
      BY <2>3
    <2>5. QED BY <2>3, <2>4 DEF s
  <1>3. SubSeq(D, 1, 8) = D
    <2> DEFINE s == SubSeq(D, 1, 8)
    <2>1. s \in Seq(Call) /\ Len(s) = 8 /\ \A n \in 1..8 : s[n] = D[1 + n - 1]
      BY <1>2
    <2> HIDE DEF s
    <2>2. \A n \in 1..8 : s[n] = D[n]
      BY <2>1
    <2>3. s = D
      BY <1>1, <2>1, <2>2, SeqEqual
    <2>4. QED BY <2>3 DEF s
  <1>4. SubSeq(D, 9, 8) = <<>>
    <2> DEFINE s == SubSeq(D, 9, 8)
    <2>1. s \in Seq(Call) /\ Len(s) = 0
      BY <1>2
    <2> HIDE DEF s
    <2>2. QED BY <2>1, EmptySeq DEF s
  <1>5. ASSUME NEW k \in 1..8
        PROVE  SubSeq(D, k, 8) = <<D[k]>> \o SubSeq(D, k + 1, 8)
    <2> DEFINE x == D[k]
               q == <<x>>
               s == SubSeq(D, k, 8)
               w == SubSeq(D, k + 1, 8)
    <2>1. s \in Seq(Call) /\ Len(s) = 9 - k /\ \A n \in 1..(9 - k) : s[n] = D[k + n - 1]
      BY <1>2
    <2>2. /\ w \in Seq(Call) /\ Len(w) = 8 - k
          /\ \A n \in 1..(8 - k) : w[n] = D[k + 1 + n - 1]
      <3> DEFINE m == k + 1
      <3>1. m \in 1..9 /\ 9 - m = 8 - k
        OBVIOUS
      <3> HIDE DEF m
      <3>2. LET z == SubSeq(D, m, 8) IN
            /\ z \in Seq(Call) /\ Len(z) = 9 - m
            /\ \A n \in 1..(9 - m) : z[n] = D[m + n - 1]
        BY <1>2, <3>1
      <3>3. QED BY <3>1, <3>2 DEF m
    <2>3. q \in Seq(Call) /\ Len(q) = 1 /\ q[1] = D[k]
      BY <1>1
    <2> HIDE DEF x, q, s, w
    <2>4. /\ q \o w \in Seq(Call) /\ Len(q \o w) = Len(q) + Len(w)
          /\ \A n \in 1..(Len(q) + Len(w)) :
               (q \o w)[n] = IF n <= Len(q) THEN q[n] ELSE w[n - Len(q)]
      BY <2>2, <2>3, ConcatProperties
    <2>5. Len(q \o w) = Len(s) /\ Len(s) = 9 - k /\ Len(q) + Len(w) = 9 - k
      BY <2>1, <2>2, <2>3, <2>4
    <2>6. ASSUME NEW n \in 1..(9 - k) PROVE (q \o w)[n] = s[n]
      <3>1. CASE n = 1
        <4>1. s[n] = D[k + n - 1] /\ k + n - 1 = k
          BY <2>1, <3>1
        <4>2. (q \o w)[n] = q[1]
          BY <2>3, <2>4, <2>5, <3>1
        <4>3. QED BY <2>3, <4>1, <4>2
      <3>2. CASE n # 1
        <4> DEFINE j == n - 1
        <4>1. j \in 1..(8 - k) /\ ~(n <= 1) /\ k + 1 + j - 1 = k + n - 1
          BY <3>2
        <4>2. (q \o w)[n] = w[j]
          BY <2>3, <2>4, <2>5, <4>1
        <4> HIDE DEF j
        <4>3. w[j] = D[k + 1 + j - 1]
          BY <2>2, <4>1
        <4>4. w[j] = D[k + n - 1]
          BY <4>1, <4>3
        <4>5. QED BY <2>1, <4>2, <4>4
      <3>3. QED BY <3>1, <3>2
    <2>7. s = q \o w
      BY <2>1, <2>4, <2>5, <2>6, SeqEqual
    <2>8. QED BY <2>7 DEF q, s, w, x
  <1>6. QED BY <1>2, <1>3, <1>4, <1>5 DEF From, D

\* The head and the rest of items put before others.
LEMMA HeadOfConcat ==
  ASSUME NEW S, NEW x \in S, NEW q \in Seq(S), NEW z \in Seq(S)
  PROVE  \A p : p = (<<x>> \o q) \o z => p # <<>> /\ Head(p) = x /\ Tail(p) = q \o z
  <1> DEFINE y == <<x>>
             w == q \o z
  <1>1. y \in Seq(S) /\ Len(y) = 1 /\ y[1] = x
    OBVIOUS
  <1>2. w \in Seq(S) /\ Len(w) \in Nat
    BY ConcatProperties, LenProperties
  <1> HIDE DEF y
  <1>3. (y \o q) \o z = y \o w
    BY <1>1, ConcatAssociative
  <1> HIDE DEF w
  <1> DEFINE p == y \o w
  <1>4. /\ p \in Seq(S) /\ Len(p) = Len(y) + Len(w)
        /\ \A n \in 1..(Len(y) + Len(w)) : p[n] = IF n <= Len(y) THEN y[n] ELSE w[n - Len(y)]
    BY <1>1, <1>2, ConcatProperties
  <1> HIDE DEF p
  <1>5. Len(p) = 1 + Len(w) /\ p # <<>>
    BY <1>1, <1>2, <1>4, EmptySeq
  <1>6. Head(p) = x
    <2>1. Head(p) = p[1]
      BY <1>4, <1>5, HeadTailProperties, EmptySeq
    <2>2. p[1] = y[1]
      BY <1>1, <1>2, <1>4
    <2>3. QED BY <1>1, <2>1, <2>2
  <1>7. Tail(p) = w
    <2>1. /\ Tail(p) \in Seq(S) /\ Len(Tail(p)) = Len(w)
          /\ \A n \in 1..Len(w) : Tail(p)[n] = p[n + 1]
      <3>1. /\ Tail(p) \in Seq(S) /\ Len(Tail(p)) = Len(p) - 1
            /\ \A n \in 1..Len(Tail(p)) : Tail(p)[n] = p[n + 1]
        BY <1>4, <1>5, HeadTailProperties
      <3>2. Len(p) - 1 = Len(w)
        BY <1>2, <1>5
      <3>3. QED BY <3>1, <3>2
    <2>2. ASSUME NEW n \in 1..Len(w) PROVE p[n + 1] = w[n]
      <3> DEFINE m == n + 1
      <3>1. m \in 1..(Len(y) + Len(w)) /\ ~(m <= Len(y)) /\ m - Len(y) = n
        BY <1>1, <1>2
      <3> HIDE DEF m
      <3>2. p[m] = w[n]
        BY <1>4, <3>1
      <3>3. QED BY <3>2 DEF m
    <2>3. QED BY <1>2, <2>1, <2>2, SeqEqual
  <1>8. QED BY <1>3, <1>5, <1>6, <1>7 DEF p, w, y

LEMMA HeadOfCalls ==
  \A x \in Call, q, z \in Seq(Call) : \A p :
     p = (<<x>> \o q) \o z => p # <<>> /\ Head(p) = x /\ Tail(p) = q \o z
  <1> SUFFICES ASSUME NEW x \in Call, NEW q \in Seq(Call), NEW z \in Seq(Call)
               PROVE  \A p : p = (<<x>> \o q) \o z
                         => p # <<>> /\ Head(p) = x /\ Tail(p) = q \o z
    OBVIOUS
  <1> HIDE DEF Call
  <1>1. QED BY HeadOfConcat

\* One step of a destruction.
LEMMA RemoveStep ==
  ASSUME Shapes, NEW t \in Tasks, Step(t) \/ StoreFails(t) \/ Crash(t),
         task[t].prog # <<>>, task[t].op # "factory", Item(t).do \in Destroying,
         NEW a, Item(t).agent = a, NEW k, Removed(Item(t)) = k
  PROVE  LET T == task[t]
             r == task'[t]
         IN \/ r = Idle \/ r.answer = "failed"
            \/ /\ r.prog = T.prog /\ r.answer = T.answer /\ doc' = doc /\ data' = data
               /\ r.at = "empty" => ~Stored(a, k)
            \/ /\ r.prog = Tail(T.prog) /\ r.answer = T.answer /\ r.at = "start"
               /\ \A x : Stored(a, x)' => Stored(a, x)
               /\ T.at # "empty" \/ Item(t).do # "drop" \/ ~Stored(a, k) => ~Stored(a, k)'
  <1> DEFINE T == task[t]
             r == task'[t]
             i == Item(t)
             Stays == /\ r.prog = T.prog /\ r.answer = T.answer /\ doc' = doc /\ data' = data
                      /\ r.at = "empty" => ~Stored(a, k)
             Goes == /\ r.prog = Tail(T.prog) /\ r.answer = T.answer /\ r.at = "start"
                     /\ \A x : Stored(a, x)' => Stored(a, x)
                     /\ T.at # "empty" \/ i.do # "drop" \/ ~Stored(a, k) => ~Stored(a, k)'
  <1> SUFFICES r = Idle \/ r.answer = "failed" \/ Stays \/ Goes
    OBVIOUS
  <1>0. T \in Requested /\ DOMAIN task = Tasks
    BY DEF Shapes
  <1>1. Fits(i, T.op, T.agent, T.to) /\ a \in Agents
    BY ItemKind DEF Destroying
  <1>2. doc \in [Agents -> Documents] /\ data \in [Agents -> SUBSET Kinds]
    BY DEF Shapes, Stores
  <1>3. Advance(t) => r.prog = Tail(T.prog) /\ r.answer = T.answer /\ r.at = "start"
    BY <1>0, ThenIs DEF Advance, Becomes, Next1
  <1>4. Fail(t) => r.answer = "failed"
    BY <1>0, FailIs DEF Fail, Becomes
  <1>5. CASE Memory(t)
    <2>1. i.do = "memory" /\ i.key \in {"points", "procedures"}
      BY <1>1, <1>5 DEF Memory, At, Fits
    <2>2. /\ data' = [data EXCEPT ![a] = @ \ {i.key}] /\ doc' = doc /\ Advance(t)
      BY <1>5 DEF Memory
    <2>3. QED BY <1>1, <1>2, <1>3, <2>1, <2>2 DEF Stored, Removed
  <1>6. CASE Folder(t)
    <2>1. i.do = "folder" /\ data' = [data EXCEPT ![a] = @ \ {"files"}] /\ doc' = doc
          /\ Advance(t)
      BY <1>6 DEF Folder, At
    <2>2. QED BY <1>1, <1>2, <1>3, <2>1 DEF Stored, Removed
  <1>7. CASE Purge(t)
    <2>1. i.do = "purge" /\ data' = [data EXCEPT ![a] = @ \ {"rows"}] /\ doc' = doc
          /\ Advance(t)
      BY <1>7 DEF Purge, At
    <2>2. QED BY <1>1, <1>2, <1>3, <2>1 DEF Stored, Removed
  <1>8. CASE Collect(t)
    <2>1. i.do = "drop" /\ doc' = doc /\ data' = data
          /\ Becomes(t, Stay(t, IF Stored(a, i.key) THEN "found" ELSE "empty", <<>>))
      BY <1>8 DEF Collect, At
    <2>2. r.prog = T.prog /\ r.answer = T.answer
          /\ r.at = (IF Stored(a, i.key) THEN "found" ELSE "empty")
      BY <1>0, <2>1, StayForms DEF Becomes
    <2>3. QED BY <2>1, <2>2 DEF Removed
  <1>9. CASE Delete(t)
    <2>1. /\ i.do = "drop" /\ Advance(t) /\ T.at \in {"found", "empty"}
          /\ IF T.at = "found" /\ i.key = "settings" THEN doc' = [doc EXCEPT ![a] = None]
             ELSE doc' = doc
          /\ data' = [data EXCEPT ![a] = IF T.at = "found" THEN @ \ {i.key} ELSE @]
      BY <1>9 DEF Delete, At
    <2>2. k = i.key
      BY <2>1 DEF Removed
    <2>3. /\ r.prog = Tail(T.prog) /\ r.answer = T.answer /\ r.at = "start"
      BY <1>3, <2>1
    <2>4. \A x : Stored(a, x)' => Stored(a, x)
      BY <1>1, <1>2, <2>1 DEF Stored
    <2>5. CASE T.at = "found"
      <3>1. ~Stored(a, k)'
        <4>1. CASE k = "settings"
          <5>1. doc' = [doc EXCEPT ![a] = None]
            BY <2>1, <2>2, <2>5, <4>1
          <5>2. QED BY <1>1, <1>2, <4>1, <5>1 DEF Stored
        <4>2. CASE k # "settings"
          <5>1. data' = [data EXCEPT ![a] = @ \ {k}]
            BY <2>1, <2>2, <2>5
          <5>2. QED BY <1>1, <1>2, <4>2, <5>1 DEF Stored
        <4>3. QED BY <4>1, <4>2
      <3>2. QED BY <2>2, <2>3, <2>4, <3>1
    <2>6. CASE T.at = "empty"
      <3>1. ~Stored(a, k) => ~Stored(a, k)'
        BY <2>4
      <3>2. QED BY <2>1, <2>2, <2>3, <2>4, <2>6, <3>1
    <2>7. QED BY <2>1, <2>5, <2>6
  <1>10. CASE LockTimeout(t) \/ StoreFails(t)
    BY <1>4, <1>10 DEF LockTimeout, StoreFails
  <1>11. CASE Crash(t)
    BY <1>0, <1>11 DEF Crash
  <1>12. Step(t) => Memory(t) \/ Folder(t) \/ Collect(t) \/ Delete(t) \/ LockTimeout(t)
                    \/ Purge(t)
    BY DEF Step, At, IsUpsert, Exists, Settings, Activate, ActivateStore,
         Ensure, Select, Instantiate, Lookup, StorePath, ReadList, StoreList, Supported,
         Check, Built, Initialize, ClearProcedures, EmbedProcedures, Use, Free, Scan,
         CopyRead, CopyWrite, CopyPoints, AddPoints, CopyFiles, Mark, Flush, Finish,
         Destroying
  <1> HIDE DEF Stays, Goes
  <1>13. QED BY <1>5, <1>6, <1>7, <1>8, <1>9, <1>10, <1>11, <1>12

\* The items that load an agent which has to be there.
PlainLoads(a) == {i \in LoadsOf(a) : i.do = "settings" => i.key # "optional"}

LEMMA PlainLoadItems ==
  ASSUME NEW a \in Agents
  PROVE  /\ PlainLoads(a) \subseteq Call /\ Seq(PlainLoads(a)) \subseteq Seq(Call)
         /\ \A c \in Categories :
              /\ Upsert("name", a, c, "default") \in PlainLoads(a)
              /\ On("reselect", a, c) \in PlainLoads(a)
         /\ LoadProg(a) \in Seq(PlainLoads(a)) /\ BuildProg(a) \in Seq(PlainLoads(a))
  <1> DEFINE S == PlainLoads(a)
  <1>1. S \subseteq Call
    BY DEF PlainLoads, LoadsOf
  <1>2. Seq(S) \subseteq Seq(Call)
    BY <1>1, SeqMonotonic
  <1>3. /\ Do("exists", a) \in S /\ Do("settings", a) \in S /\ Do("activate", a) \in S
        /\ Upsert("name", a, "plugins", "default") \in S
        /\ \A c \in Categories :
             /\ On("ensure", a, c) \in S /\ On("select", a, c) \in S
             /\ On("reselect", a, c) \in S /\ Upsert("name", a, c, "default") \in S
    BY LoadItems, AgentsAssumption DEF PlainLoads, Do, On, Upsert
  <1> HIDE DEF S
  <1>4. BuildProg(a) \in Seq(S)
    BY <1>3, BuildProgIs
  <1>5. <<Do("exists", a), Do("settings", a)>> \in Seq(S)
    BY <1>3
  <1>6. LoadProg(a) \in Seq(S)
    BY <1>4, <1>5, ConcatProperties DEF LoadProg
  <1>7. QED BY <1>1, <1>2, <1>3, <1>4, <1>6 DEF S

\* One step of loading an agent, whatever comes after it.
Loading(p, a, z) == \E L \in Seq(PlainLoads(a)) : p = L \o z

LEMMA LoadingStep ==
  ASSUME Shapes, NEW t \in Tasks, Step(t) \/ StoreFails(t) \/ Crash(t),
         task[t].op # "factory", NEW a \in Agents, NEW L \in Seq(PlainLoads(a)), L # <<>>,
         NEW z \in Seq(Call), task[t].prog = L \o z
  PROVE  LET T == task[t]
             r == task'[t]
         IN \/ r = Idle \/ r.answer \in {"failed", "refused"}
            \/ r.answer = T.answer /\ Loading(r.prog, a, z)
  <1> DEFINE T == task[t]
             r == task'[t]
             i == Head(L)
             w == Tail(L)
             S == PlainLoads(a)
             name == Upsert("name", i.agent, i.key, "default")
             again == On("reselect", i.agent, i.key)
  <1>1. i \in S /\ <<i>> \in Seq(S) /\ w \in Seq(S) /\ L = <<i>> \o w
    BY HeadAndTail
  <1>2. S \subseteq Call /\ Seq(S) \subseteq Seq(Call)
    BY PlainLoadItems
  <1>3. T.prog # <<>> /\ Item(t) = i /\ Tail(T.prog) = w \o z
    <2> HIDE DEF i, w, S
    <2>1. i \in Call /\ w \in Seq(Call)
      BY <1>1, <1>2
    <2>2. T.prog = (<<i>> \o w) \o z
      BY <1>1
    <2>3. QED BY <2>1, <2>2, HeadOfCalls DEF Item
  <1>4. /\ i.agent = a /\ i.do \in Loads
        /\ i.do \in {"ensure", "select", "reselect"} => i.key \in Categories
        /\ i.do = "settings" => i.key # "optional"
    BY <1>1 DEF PlainLoads, LoadsOf
  <1>5. Moved(t, r)
    BY <1>3, <1>4, UseMoves
  <1>6. ASSUME NEW q \in Seq(S), r.prog = q \o (w \o z), r.answer = T.answer
        PROVE  r.answer = T.answer /\ Loading(r.prog, a, z)
    <2> HIDE DEF S, w, r
    <2>1. q \in Seq(Call) /\ w \in Seq(Call) /\ q \o w \in Seq(S)
      BY <1>1, <1>2, <1>6, ConcatProperties
    <2>2. q \o (w \o z) = (q \o w) \o z
      BY <2>1, ConcatAssociative
    <2>3. QED BY <1>6, <2>1, <2>2 DEF Loading, S
  <1>7. CASE r.prog = Tail(T.prog) /\ r.answer = T.answer
    <2> HIDE DEF S, w, r
    <2>1. w \o z = <<>> \o (w \o z) /\ <<>> \in Seq(S)
      <3>1. w \o z \in Seq(Call)
        BY <1>1, <1>2, ConcatProperties
      <3>2. QED BY <3>1, ConcatEmptySeq, EmptySeq
    <2> DEFINE q == <<>>
    <2>2. q \in Seq(S) /\ r.prog = q \o (w \o z)
      BY <1>3, <1>7, <2>1
    <2> HIDE DEF q
    <2>3. r.answer = T.answer /\ Loading(r.prog, a, z)
      BY <1>6, <1>7, <2>2
    <2>4. QED BY <2>3 DEF r
  <1>8. CASE r.prog = T.prog /\ r.answer = T.answer
    BY <1>8 DEF Loading
  <1>9. CASE i.do = "ensure" /\ r.prog = <<name>> \o Tail(T.prog) /\ r.answer = T.answer
    <2>1. name \in S
      BY <1>4, <1>9, PlainLoadItems
    <2>2. <<name>> \in Seq(S)
      BY <2>1
    <2>3. QED BY <1>3, <1>6, <1>9, <2>2
  <1>10. CASE /\ i.do = "select" /\ r.answer = T.answer
              /\ r.prog = <<name, again>> \o Tail(T.prog)
    <2>1. name \in S /\ again \in S
      BY <1>4, <1>10, PlainLoadItems
    <2>2. <<name, again>> \in Seq(S)
      BY <2>1
    <2>3. QED BY <1>3, <1>6, <1>10, <2>2
  <1>11. QED BY <1>3, <1>4, <1>5, <1>7, <1>8, <1>9, <1>10 DEF Moved

\* Where a destruction is, which has the items z after it: the agent is loaded,
\* then its parts go one by one, and what is gone stays gone.
Drops(a, k) == DestroyProg(a)[k].do = "drop"
Removing(T, a, z) ==
    \/ Loading(T.prog, a, From(a, 1) \o z)
    \/ \E k \in 1..8 : /\ T.prog = From(a, k) \o z /\ GoneTo(a, k)
                       /\ T.at = "empty" /\ Drops(a, k) => ~Stored(a, Part[k])

LEMMA AllGone ==
  ASSUME Shapes, NEW a \in Agents, GoneTo(a, 9)
  PROVE  Gone(a)
  <1>1. \A j \in {1, 2, 3, 4, 5, 6, 7, 8} : ~Stored(a, Part[j])
    BY DEF GoneTo
  <1>2. ~Stored(a, "settings") /\ \A k \in Kinds \ OtherKeys : ~Stored(a, k)
    BY <1>1 DEF Part, Kinds, RedisKinds
  <1>3. data[a] \subseteq Kinds
    BY DEF Shapes, Stores
  <1>4. QED BY <1>2, <1>3 DEF Stored, Gone, Kinds, RedisKinds

LEMMA RemovingOn ==
  ASSUME Shapes, NEW t \in Tasks, Step(t) \/ StoreFails(t) \/ Crash(t),
         task[t].op # "factory", NEW a \in Agents, NEW z \in Seq(Call), NEW k \in 1..8,
         task[t].prog = From(a, k) \o z, GoneTo(a, k),
         task[t].at = "empty" /\ Drops(a, k) => ~Stored(a, Part[k])
  PROVE  LET T == task[t]
             r == task'[t]
         IN \/ r = Idle \/ r.answer \in {"failed", "refused"}
            \/ r.answer = T.answer /\ Removing(task[t], a, z)'
            \/ r.answer = T.answer /\ k = 8 /\ r.prog = z /\ r.at = "start" /\ GoneTo(a, 9)'
  <1> DEFINE T == task[t]
             r == task'[t]
             x == DestroyProg(a)[k]
             w == From(a, k + 1)
  <1>1. /\ x \in Call /\ x.agent = a /\ x.do \in Destroying /\ Removed(x) = Part[k]
    BY DestroyItems
  <1>2. w \in Seq(Call) /\ From(a, k) = <<x>> \o w
    <2> DEFINE m == k + 1
    <2>1. m \in 1..9
      OBVIOUS
    <2> HIDE DEF m
    <2>2. From(a, m) \in Seq(Call)
      BY <2>1, FromIs
    <2>3. QED BY <2>2, FromIs DEF m
  <1> HIDE DEF x, w
  <1>3. T.prog # <<>> /\ Item(t) = x /\ Tail(T.prog) = w \o z
    <2>1. T.prog = (<<x>> \o w) \o z
      BY <1>2
    <2>2. QED BY <1>1, <1>2, <2>1, HeadOfCalls DEF Item
  <1>4. \/ r = Idle \/ r.answer = "failed"
        \/ /\ r.prog = T.prog /\ r.answer = T.answer /\ doc' = doc /\ data' = data
           /\ r.at = "empty" => ~Stored(a, Part[k])
        \/ /\ r.prog = Tail(T.prog) /\ r.answer = T.answer /\ r.at = "start"
           /\ \A y : Stored(a, y)' => Stored(a, y)
           /\ T.at # "empty" \/ x.do # "drop" \/ ~Stored(a, Part[k]) => ~Stored(a, Part[k])'
    <2> DEFINE y == Part[k]
    <2>1. Item(t).do \in Destroying /\ Item(t).agent = a /\ Removed(Item(t)) = y
      BY <1>1, <1>3
    <2> HIDE DEF y
    <2>2. QED BY <1>3, <2>1, RemoveStep DEF y
  <1>5. CASE /\ r.prog = T.prog /\ r.answer = T.answer /\ doc' = doc /\ data' = data
             /\ r.at = "empty" => ~Stored(a, Part[k])
    <2>1. GoneTo(a, k)' /\ (r.at = "empty" => ~Stored(a, Part[k])')
      BY <1>5 DEF GoneTo, Stored
    <2>2. r.prog = From(a, k) \o z
      BY <1>5
    <2>3. Removing(task[t], a, z)'
      BY <2>1, <2>2 DEF Removing
    <2>4. QED BY <1>5, <2>3
  <1>6. CASE /\ r.prog = Tail(T.prog) /\ r.answer = T.answer /\ r.at = "start"
             /\ \A y : Stored(a, y)' => Stored(a, y)
             /\ T.at # "empty" \/ x.do # "drop" \/ ~Stored(a, Part[k]) => ~Stored(a, Part[k])'
    <2>1. ~Stored(a, Part[k])'
      BY <1>6 DEF Drops, x
    <2>2. \A j \in 1..k : ~Stored(a, Part[j])'
      <3>1. \A j \in 1..k : j = k \/ j \in 1..(k - 1)
        OBVIOUS
      <3>2. QED BY <1>6, <2>1, <3>1 DEF GoneTo
    <2>3. r.prog = From(a, k + 1) \o z
      BY <1>3, <1>6 DEF w
    <2> DEFINE m == k + 1
    <2>4. m - 1 = k /\ (m \in 1..8 \/ (m = 9 /\ k = 8))
      OBVIOUS
    <2>5. r.prog = From(a, m) \o z
      BY <2>3
    <2> HIDE DEF m
    <2>6. GoneTo(a, m)'
      BY <2>2, <2>4 DEF GoneTo
    <2>7. CASE m \in 1..8
      <3>1. Removing(task[t], a, z)'
        BY <1>6, <2>5, <2>6, <2>7 DEF Removing
      <3>2. QED BY <1>6, <3>1
    <2>8. CASE m = 9 /\ k = 8
      <3>1. r.prog = z
        <4>1. From(a, 9) = <<>>
          BY FromIs
        <4>2. QED BY <2>5, <2>8, <4>1, ConcatEmptySeq, FromIs
      <3>2. QED BY <1>6, <2>6, <2>8, <3>1
    <2>9. QED BY <2>4, <2>7, <2>8
  <1>7. QED BY <1>4, <1>5, <1>6

LEMMA RemovingStep ==
  ASSUME Shapes, NEW t \in Tasks, Step(t) \/ StoreFails(t) \/ Crash(t),
         task[t].op # "factory", NEW a \in Agents, NEW z \in Seq(Call),
         Removing(task[t], a, z)
  PROVE  LET T == task[t]
             r == task'[t]
         IN \/ r = Idle \/ r.answer \in {"failed", "refused"}
            \/ r.answer = T.answer /\ Removing(task[t], a, z)'
            \/ r.answer = T.answer /\ r.prog = z /\ r.at = "start" /\ Gone(a)'
  <1> DEFINE T == task[t]
             r == task'[t]
             y == From(a, 1) \o z
  <1>0. y \in Seq(Call) /\ From(a, 1) \in Seq(Call)
    <2>1. From(a, 1) \in Seq(Call)
      <3>1. From(a, 1) = DestroyProg(a)
        BY FromIs
      <3>2. DestroyProg(a) \in Seq(Call)
        BY DestroyItems
      <3>3. QED BY <3>1, <3>2
    <2>2. QED BY <2>1, ConcatProperties
  <1>1. ASSUME NEW L \in Seq(PlainLoads(a)), L # <<>>, T.prog = L \o y
        PROVE  \/ r = Idle \/ r.answer \in {"failed", "refused"}
               \/ r.answer = T.answer /\ Removing(task[t], a, z)'
    <2> HIDE DEF y
    <2>1. \/ r = Idle \/ r.answer \in {"failed", "refused"}
          \/ r.answer = T.answer /\ Loading(r.prog, a, y)
      BY <1>0, <1>1, LoadingStep
    <2>2. Loading(r.prog, a, y) => Removing(task[t], a, z)'
      BY DEF Removing, y, Loading
    <2>3. QED BY <2>1, <2>2
  <1>2. ASSUME NEW k \in 1..8, T.prog = From(a, k) \o z, GoneTo(a, k),
               T.at = "empty" /\ Drops(a, k) => ~Stored(a, Part[k])
        PROVE  \/ r = Idle \/ r.answer \in {"failed", "refused"}
               \/ r.answer = T.answer /\ Removing(task[t], a, z)'
               \/ r.answer = T.answer /\ r.prog = z /\ r.at = "start" /\ Gone(a)'
    <2>1. GoneTo(a, 9)' => Gone(a)'
      <3>1. Shapes'
        BY ShapesStep DEF Next
      <3>2. QED BY <3>1, AllGone, PTL
    <2>2. QED BY <1>2, <2>1, RemovingOn
  <1>3. CASE \E L \in Seq(PlainLoads(a)) : L # <<>> /\ T.prog = L \o y
    BY <1>1, <1>3
  <1>4. CASE T.prog = y
    <2>1. GoneTo(a, 1)
      BY DEF GoneTo
    <2>2. ~Drops(a, 1)
      BY DEF Drops, DestroyProg, On
    <2> DEFINE k == 1
    <2>3. k \in 1..8 /\ T.prog = From(a, k) \o z /\ GoneTo(a, k) /\ ~Drops(a, k)
      BY <1>4, <2>1, <2>2
    <2> HIDE DEF k
    <2>4. QED BY <1>2, <2>3
  <1>5. Loading(T.prog, a, y)
          => T.prog = y \/ \E L \in Seq(PlainLoads(a)) : L # <<>> /\ T.prog = L \o y
    <2> HIDE DEF y
    <2>1. <<>> \o y = y
      BY <1>0, ConcatEmptySeq
    <2>2. QED BY <2>1 DEF Loading
  <1>6. QED BY <1>2, <1>3, <1>4, <1>5 DEF Removing

-----------------------------------------------------------------------------
(* Loading fills an agent: what is missing is added, what is there stays. *)

HasKey(d, k) == \E n \in DOMAIN Entries(d) : Entries(d)[n].key = k
BuiltKeys == Categories \union {"plugins"}

LEMMA SelectedHas ==
  ASSUME NEW d \in Documents, NEW c
  PROVE  Selected(d, c) # 0 <=> HasKey(d, c)
  <1> DEFINE E == Entries(d)
             n == Selected(d, c)
  <1>1. \/ n = 0 /\ \A j \in DOMAIN E : E[j].key # c
        \/ n \in DOMAIN E /\ E[n].key = c
    BY SelectedIs
  <1>2. 0 \notin DOMAIN E
    <2>1. E \in Seq(Entry)
      BY EmptySeq DEF Entries, Documents
    <2> HIDE DEF E
    <2>2. DOMAIN E = 1..Len(E) /\ Len(E) \in Nat
      BY <2>1, LenProperties
    <2>3. QED BY <2>2
  <1>3. QED BY <1>1, <1>2 DEF HasKey

LEMMA NameHas ==
  ASSUME NEW d \in Documents, NEW k \in BuiltKeys
  PROVE  /\ Has(d, "name", Setting(k, "default")) => HasKey(d, k)
         /\ k = "plugins" /\ ~Has(d, "name", Setting(k, "default")) => ~HasKey(d, k)
  <1>1. "plugins" \notin Categories
    BY AgentsAssumption
  <1>2. QED BY <1>1 DEF Has, HasKey, Same, Setting

\* Where the head of a program that loads the agent a is.
Heads(T, a, i) ==
    i.do = "name" => /\ i.key \in Categories => ~HasKey(doc[a], i.key)
                     /\ T.at \in {"absent", "list"} => ~HasKey(doc[a], i.key)
                     /\ T.at = "list" => T.seen = Entries(doc[a])
                     /\ T.at = "found" => HasKey(doc[a], i.key)

\* What one step of loading does, by the item at its head.
Loaded(t, r, a) ==
    LET T == task[t]
        i == Item(t)
        w == Tail(T.prog)
        e == Setting(i.key, "default")
        name == Upsert("name", a, i.key, "default")
        keep == doc' = doc /\ data' = data
        goes == r.prog = w /\ r.at = "start"
    IN \/ /\ goes /\ keep /\ i.do # "name"
          /\ i.do = "ensure" => HasKey(doc[a], i.key)
          /\ i.do = "activate" => "plugins" \in data[a]
       \/ /\ r.prog = T.prog /\ keep
          /\ i.do = "name" =>
               \/ r.at = "found" /\ Has(doc[a], "name", e)
               \/ r.at = "absent" /\ ~Has(doc[a], "name", e)
               \/ r.at = "list" /\ T.at = "absent" /\ r.seen = Entries(doc[a])
       \/ /\ i.do = "activate" /\ goes /\ doc' = doc
          /\ data' = [data EXCEPT ![a] = @ \union {"plugins"}]
       \/ /\ i.do = "ensure" /\ keep /\ ~HasKey(doc[a], i.key)
          /\ r.prog = <<name>> \o w /\ r.at = "start"
       \/ /\ i.do = "select" /\ keep /\ ~HasKey(doc[a], i.key)
          /\ r.prog = <<name, On("reselect", a, i.key)>> \o w /\ r.at = "start"
       \/ /\ i.do = "name" /\ goes /\ T.at = "found" /\ data' = data /\ doc[a] # None
          /\ doc' = [doc EXCEPT ![a] = PathSet(@, "name", e)]
       \/ /\ i.do = "name" /\ goes /\ T.at = "list" /\ data' = data
          /\ doc' = [doc EXCEPT ![a] = Append(T.seen, e)]

LEMMA LoadedBy ==
  ASSUME Shapes, NEW t \in Tasks, Step(t) \/ StoreFails(t) \/ Crash(t),
         task[t].op # "factory", task[t].prog # <<>>, NEW a \in Agents,
         Item(t) \in PlainLoads(a)
  PROVE  LET r == task'[t] IN
         \/ r = Idle \/ r.answer \in {"failed", "refused"}
         \/ r.answer = task[t].answer /\ Loaded(t, r, a)
  <1> DEFINE T == task[t]
             i == Item(t)
             r == task'[t]
             w == Tail(T.prog)
             e == Setting(i.key, "default")
             name == Upsert("name", a, i.key, "default")
             keep == doc' = doc /\ data' = data
             goes == r.prog = w /\ r.at = "start"
             Failed == r.answer = "failed"
             Same1 == r.answer = T.answer
             Goes == /\ goes /\ keep /\ i.do # "name" /\ Same1
                     /\ i.do = "ensure" => HasKey(doc[a], i.key)
                     /\ i.do = "activate" => "plugins" \in data[a]
             Stays == /\ r.prog = T.prog /\ keep /\ Same1
                      /\ i.do = "name" =>
                           \/ r.at = "found" /\ Has(doc[a], "name", e)
                           \/ r.at = "absent" /\ ~Has(doc[a], "name", e)
                           \/ r.at = "list" /\ T.at = "absent" /\ r.seen = Entries(doc[a])
             Activates == /\ i.do = "activate" /\ goes /\ doc' = doc /\ Same1
                          /\ data' = [data EXCEPT ![a] = @ \union {"plugins"}]
             Ensures == /\ i.do = "ensure" /\ keep /\ ~HasKey(doc[a], i.key) /\ Same1
                        /\ r.prog = <<name>> \o w /\ r.at = "start"
             Selects == /\ i.do = "select" /\ keep /\ ~HasKey(doc[a], i.key) /\ Same1
                        /\ r.prog = <<name, On("reselect", a, i.key)>> \o w /\ r.at = "start"
             Sets == /\ i.do = "name" /\ goes /\ T.at = "found" /\ data' = data /\ Same1
                     /\ doc[a] # None /\ doc' = [doc EXCEPT ![a] = PathSet(@, "name", e)]
             Appends == /\ i.do = "name" /\ goes /\ T.at = "list" /\ data' = data /\ Same1
                        /\ doc' = [doc EXCEPT ![a] = Append(T.seen, e)]
  <1> SUFFICES \/ r = Idle \/ Failed \/ Goes \/ Stays \/ Activates \/ Ensures \/ Selects
               \/ Sets \/ Appends
    BY DEF Loaded
  <1>0. T \in Requested /\ DOMAIN task = Tasks /\ doc[a] \in Documents
    BY DEF Shapes, Stores
  <1>1. /\ i.agent = a /\ i.do \in Loads
        /\ i.do = "settings" => i.key # "optional"
        /\ i.do = "name" => i.impl = "default"
    BY DEF PlainLoads, LoadsOf
  <1>2. Advance(t) => goes /\ Same1
    BY <1>0, ThenIs DEF Advance, Becomes, Next1
  <1>3. Fail(t) => Failed
    BY <1>0, FailIs DEF Fail, Becomes
  <1>4. \A at, s : Becomes(t, Stay(t, at, s))
          => r.prog = T.prog /\ r.at = at /\ r.seen = s /\ Same1
    <2> TAKE at, s
    <2>1. QED BY <1>0, StayForms DEF Becomes
  <1>5. \A p : Becomes(t, Then(t, p)) => r.prog = p /\ r.at = "start" /\ Same1
    <2> TAKE p
    <2>1. QED BY <1>0, ThenIs DEF Becomes
  <1>6. UNCHANGED_store => keep
    BY DEF UNCHANGED_store
  <1> HIDE DEF Goes, Stays, Activates, Ensures, Selects, Sets, Appends
  <1>7. CASE Exists(t)
    <2>1. i.do = "exists" /\ keep /\ (Advance(t) \/ Fail(t))
      BY <1>6, <1>7 DEF Exists, At
    <2>2. QED BY <1>2, <1>3, <2>1 DEF Goes
  <1>8. CASE Settings(t)
    <2>1. i.do = "settings" /\ keep /\ (Advance(t) \/ Fail(t))
      BY <1>1, <1>6, <1>8 DEF Settings, At
    <2>2. QED BY <1>2, <1>3, <2>1 DEF Goes
  <1>9. CASE Activate(t)
    <2>1. i.do = "activate" /\ keep
          /\ IF "plugins" \in data[a] THEN Advance(t) ELSE Becomes(t, Stay(t, "absent", <<>>))
      BY <1>1, <1>6, <1>9 DEF Activate, At
    <2>2. QED BY <1>2, <1>4, <2>1 DEF Goes, Stays
  <1>10. CASE ActivateStore(t)
    BY <1>1, <1>2, <1>10 DEF ActivateStore, At, Activates
  <1>11. CASE Ensure(t)
    <2>1. i.do = "ensure" /\ keep
          /\ IF Selected(doc[a], i.key) # 0 THEN Advance(t)
             ELSE Becomes(t, Then(t, <<name>> \o w))
      BY <1>1, <1>6, <1>11 DEF Ensure, At
    <2>2. QED BY <1>0, <1>2, <1>5, <2>1, SelectedHas DEF Goes, Ensures
  <1>12. CASE Select(t)
    <2> DEFINE n == Selected(doc[a], i.key)
               p == <<name, On("reselect", a, i.key)>> \o w
    <2>1. i.do \in {"select", "reselect"} /\ keep
          /\ IF n # 0 THEN \E s : Becomes(t, Stay(t, "chosen", s))
             ELSE IF i.do = "reselect" THEN Fail(t)
             ELSE Becomes(t, Then(t, p))
      BY <1>1, <1>6, <1>12 DEF Select, At
    <2>2. CASE n # 0
      BY <1>4, <2>1, <2>2 DEF Stays
    <2>3. CASE n = 0 /\ i.do = "reselect"
      BY <1>3, <2>1, <2>3
    <2>4. CASE n = 0 /\ i.do = "select"
      <3>1. ~HasKey(doc[a], i.key)
        BY <1>0, <2>4, SelectedHas
      <3>2. Becomes(t, Then(t, p))
        BY <2>1, <2>4
      <3>3. r.prog = p /\ r.at = "start" /\ Same1
        BY <1>5, <3>2
      <3>4. QED BY <2>1, <2>4, <3>1, <3>3 DEF Selects
    <2>5. QED BY <2>1, <2>2, <2>3, <2>4
  <1>13. CASE Instantiate(t)
    <2>1. i.do \in {"select", "reselect"} /\ keep
      BY <1>6, <1>13 DEF Instantiate, At
    <2>2. Next1(t).got = T.got /\ "got" \in DOMAIN Next1(t)
      BY <1>0 DEF Next1, Then, Requested
    <2>3. PICK y : Becomes(t, [Next1(t) EXCEPT !.got = @ \union y])
      BY <1>13 DEF Instantiate
    <2>4. r = [Next1(t) EXCEPT !.got = @ \union y]
      BY <1>0, <2>3 DEF Becomes
    <2>5. r.prog = w /\ r.at = "start" /\ Same1
      BY <1>0, <2>4 DEF Next1, Then, Requested
    <2>6. QED BY <2>1, <2>5 DEF Goes
  <1>14. ASSUME NEW at, IsUpsert(t, at)
         PROVE  i.do = "name" /\ T.at = at /\ Setting(i.key, i.impl) = e
    <2>1. i.do = "name" /\ T.at = at
      BY <1>1, <1>14 DEF IsUpsert, At, Loads
    <2>2. QED BY <1>1, <2>1
  <1>15. CASE Lookup(t)
    <2>1. keep /\ Becomes(t, Stay(t, IF Has(doc[a], "name", e) THEN "found" ELSE "absent", <<>>))
      BY <1>1, <1>6, <1>14, <1>15 DEF Lookup
    <2>2. QED BY <1>4, <2>1 DEF Stays
  <1>16. CASE StorePath(t)
    <2>1. i.do = "name" /\ T.at = "found" /\ data' = data
          /\ \/ Fail(t)
             \/ /\ doc[a] # None /\ Advance(t)
                /\ doc' = [doc EXCEPT ![a] = PathSet(@, "name", e)]
      BY <1>1, <1>14, <1>16 DEF StorePath
    <2>2. QED BY <1>2, <1>3, <2>1 DEF Sets
  <1>17. CASE ReadList(t)
    <2>1. i.do = "name" /\ T.at = "absent" /\ keep
          /\ Becomes(t, Stay(t, "list", Entries(doc[a])))
      BY <1>1, <1>6, <1>14, <1>17 DEF ReadList
    <2>2. QED BY <1>4, <2>1 DEF Stays
  <1>18. CASE StoreList(t)
    <2>1. i.do = "name" /\ T.at = "list" /\ data' = data /\ Advance(t)
          /\ doc' = [doc EXCEPT ![a] = Append(T.seen, e)]
      BY <1>1, <1>14, <1>18 DEF StoreList
    <2>2. QED BY <1>2, <2>1 DEF Appends
  <1>19. CASE StoreFails(t) \/ Crash(t)
    BY <1>0, <1>3, <1>19 DEF StoreFails, Crash
  <1>20. Step(t) => \/ Exists(t) \/ Settings(t) \/ Activate(t) \/ ActivateStore(t)
                    \/ Ensure(t) \/ Select(t) \/ Instantiate(t) \/ Lookup(t) \/ StorePath(t)
                    \/ ReadList(t) \/ StoreList(t)
    BY <1>1 DEF Step, At, Supported, Check, Built, Initialize, ClearProcedures,
         EmbedProcedures, Use, Memory, Folder, Collect, Delete, LockTimeout, Purge, Free,
         Scan, CopyRead, CopyWrite, CopyPoints, AddPoints, CopyFiles, Mark, Flush, Finish,
         Loads
  <1>21. QED BY <1>7, <1>8, <1>9, <1>10, <1>11, <1>12, <1>13, <1>15, <1>16, <1>17, <1>18,
                <1>19, <1>20

Items(p) == {p[n] : n \in DOMAIN p}

LEMMA ItemsConcat ==
  ASSUME NEW p \in Seq(Call), NEW q \in Seq(Call)
  PROVE  Items(p \o q) = Items(p) \union Items(q)
  <1> DEFINE r == p \o q
  <1>1. /\ \A n \in DOMAIN p : n \in DOMAIN r /\ r[n] = p[n]
        /\ \A n \in DOMAIN q : Len(p) + n \in DOMAIN r /\ r[Len(p) + n] = q[n]
        /\ \A n \in DOMAIN r : n \in DOMAIN p \/ \E m \in DOMAIN q : n = Len(p) + m
    BY ConcatIs
  <1> HIDE DEF r
  <1>2. \A x \in Items(p) \union Items(q) : x \in Items(r)
    BY <1>1 DEF Items
  <1>3. ASSUME NEW n \in DOMAIN r PROVE r[n] \in Items(p) \union Items(q)
    BY <1>1, <1>3 DEF Items
  <1>4. QED BY <1>2, <1>3 DEF Items, r

LEMMA ItemsOne ==
  ASSUME NEW x \in Call
  PROVE  <<x>> \in Seq(Call) /\ Items(<<x>>) = {x} /\ Items(<<>>) = {}
  <1>1. DOMAIN <<x>> = {1} /\ <<x>>[1] = x /\ <<x>> \in Seq(Call)
    OBVIOUS
  <1>2. DOMAIN <<>> = {}
    BY EmptySeq
  <1> DEFINE p == <<x>>
             q == <<>>
  <1> HIDE DEF p, q
  <1>3. Items(p) = {x} /\ Items(q) = {}
    BY <1>1, <1>2 DEF Items, p, q
  <1>4. QED BY <1>1, <1>3 DEF p, q

LEMMA Assoc ==
  \A p, q, r \in Seq(Call) : (p \o q) \o r = p \o (q \o r) /\ q \o r \in Seq(Call)
  <1> SUFFICES ASSUME NEW p \in Seq(Call), NEW q \in Seq(Call), NEW r \in Seq(Call)
               PROVE  (p \o q) \o r = p \o (q \o r) /\ q \o r \in Seq(Call)
    OBVIOUS
  <1> HIDE DEF Call
  <1> QED BY ConcatAssociative, ConcatProperties

\* Two items put before others.
Two(x, y, w) == <<x>> \o (<<y>> \o w)

LEMMA FourParts ==
  \A x, y, p, q \in Seq(Call) : (x \o y) \o (p \o q) = (x \o (y \o p)) \o q
  <1> SUFFICES ASSUME NEW x \in Seq(Call), NEW y \in Seq(Call), NEW p \in Seq(Call),
                      NEW q \in Seq(Call)
               PROVE  (x \o y) \o (p \o q) = (x \o (y \o p)) \o q
    OBVIOUS
  <1> HIDE DEF Call
  <1>1. p \o q \in Seq(Call) /\ y \o p \in Seq(Call)
    BY Assoc
  <1>2. (x \o y) \o (p \o q) = x \o (y \o (p \o q))
    <2> DEFINE u == p \o q
    <2> HIDE DEF u
    <2> QED BY <1>1, Assoc DEF u
  <1>3. y \o (p \o q) = (y \o p) \o q
    BY Assoc
  <1>4. (x \o (y \o p)) \o q = x \o ((y \o p) \o q)
    <2> DEFINE u == y \o p
    <2> HIDE DEF u
    <2> QED BY <1>1, Assoc DEF u
  <1>5. QED BY <1>2, <1>3, <1>4

LEMMA TwoIs ==
  ASSUME NEW x \in Call, NEW y \in Call, NEW w \in Seq(Call), NEW z \in Seq(Call)
  PROVE  <<x, y>> \o (w \o z) = Two(x, y, w) \o z
  <1>1. <<x>> \in Seq(Call) /\ <<y>> \in Seq(Call)
    OBVIOUS
  <1>2. <<x, y>> = <<x>> \o <<y>>
    BY Pair
  <1>3. PICK X, Y : X = <<x>> /\ Y = <<y>>
    OBVIOUS
  <1>4. X \in Seq(Call) /\ Y \in Seq(Call)
    BY <1>1, <1>3
  <1>5. (X \o Y) \o (w \o z) = (X \o (Y \o w)) \o z
    BY <1>4, FourParts, SMTT(60)
  <1>6. QED BY <1>2, <1>3, <1>5 DEF Two

LEMMA HeadOfOne ==
  \A x \in Call, q \in Seq(Call) : \A p :
     p = <<x>> \o q => /\ p # <<>> /\ p \in Seq(Call) /\ Head(p) = x /\ Tail(p) = q
                       /\ Items(p) = {x} \union Items(q)
  <1> SUFFICES ASSUME NEW x \in Call, NEW q \in Seq(Call), NEW p, p = <<x>> \o q
               PROVE  /\ p # <<>> /\ p \in Seq(Call) /\ Head(p) = x /\ Tail(p) = q
                      /\ Items(p) = {x} \union Items(q)
    OBVIOUS
  <1> DEFINE y == <<x>>
             n == <<>>
  <1>1. y \in Seq(Call) /\ Items(y) = {x} /\ n \in Seq(Call) /\ q \o n = q
    BY ItemsOne, ConcatEmptySeq, EmptySeq
  <1> HIDE DEF y, n
  <1>2. p \in Seq(Call) /\ Items(p) = {x} \union Items(q)
    BY <1>1, ItemsConcat, ConcatProperties DEF y
  <1>3. p = (y \o q) \o n
    BY <1>2, ConcatEmptySeq DEF y, n
  <1>4. p # <<>> /\ Head(p) = x /\ Tail(p) = q
    BY <1>1, <1>3, HeadOfCalls DEF y
  <1>5. QED BY <1>2, <1>4

\* Loading the agent a, with the items z after it, from where all that is
\* missing of a is still to come.
Fills(T, a, L) ==
    /\ \A k \in BuiltKeys :
         \/ HasKey(doc[a], k)
         \/ \E i \in Items(L) : i.do \in {"ensure", "name"} /\ i.key = k
    /\ "plugins" \in data[a] \/ \E i \in Items(L) : i.do = "activate"
    /\ L = <<>> => T.at = "start"
    /\ L # <<>> => /\ Heads(T, a, Head(L))
                   /\ \A i \in Items(Tail(L)) : i.do = "name" => i.key = "plugins"
Filling(T, a, z) ==
    \E L \in Seq(PlainLoads(a)) : T.prog = L \o z /\ Fills(T, a, L)

Grows(a) ==
    /\ \/ doc'[a] = doc[a]
       \/ \E k \in BuiltKeys : /\ ~HasKey(doc[a], k)
                               /\ doc'[a] = Append(Entries(doc[a]), Setting(k, "default"))
    /\ data'[a] \in {data[a], data[a] \union {"plugins"}}

LEMMA FillTo ==
  ASSUME NEW t, NEW a, NEW z, NEW q \in Seq(PlainLoads(a)),
         task'[t].prog = q \o z, task'[t].at = "start",
         \A k \in BuiltKeys :
           \/ HasKey(doc[a], k)'
           \/ \E i \in Items(q) : i.do \in {"ensure", "name"} /\ i.key = k,
         "plugins" \in data'[a] \/ \E i \in Items(q) : i.do = "activate",
         q # <<>> => /\ Head(q).do = "name" /\ Head(q).key \in Categories
                          => ~HasKey(doc[a], Head(q).key)'
                     /\ \A i \in Items(Tail(q)) : i.do = "name" => i.key = "plugins"
  PROVE  Filling(task[t], a, z)'
  <1>1. q # <<>> => Heads(task[t], a, Head(q))'
    BY DEF Heads
  <1>2. Fills(task[t], a, q)'
    BY <1>1 DEF Fills
  <1>3. QED BY <1>2 DEF Filling

LEMMA AppendHas ==
  ASSUME NEW d \in Documents, NEW e \in Entry, NEW k
  PROVE  HasKey(Append(Entries(d), e), k) <=> HasKey(d, k) \/ e.key = k
  <1> DEFINE E == Entries(d)
             f == Append(E, e)
             n == Len(E)
  <1>1. E \in Seq(Entry)
    BY EmptySeq DEF Entries, Documents
  <1> HIDE DEF E
  <1>2. /\ f \in Seq(Entry) /\ Len(f) = n + 1
        /\ (\A i \in 1..n : f[i] = E[i]) /\ f[n + 1] = e
    BY <1>1, AppendProperties
  <1>3. n \in Nat /\ DOMAIN E = 1..n /\ DOMAIN f = 1..(n + 1)
    BY <1>1, <1>2, LenProperties
  <1> HIDE DEF f, n
  <1>4. Entries(f) = f
    <2>1. f # None
      BY <1>2, SeqNotNone
    <2>2. QED BY <2>1 DEF Entries
  <1>5. ASSUME HasKey(d, k) PROVE HasKey(f, k)
    <2>1. PICK m \in 1..n : E[m].key = k
      BY <1>3, <1>5 DEF HasKey, E
    <2>2. m \in 1..(n + 1) /\ f[m].key = k
      BY <1>2, <1>3, <2>1
    <2>3. QED BY <1>3, <1>4, <2>2 DEF HasKey
  <1>6. ASSUME e.key = k PROVE HasKey(f, k)
    <2>1. n + 1 \in 1..(n + 1)
      BY <1>3
    <2>2. QED BY <1>2, <1>3, <1>4, <1>6, <2>1 DEF HasKey
  <1>7. ASSUME HasKey(f, k), e.key # k PROVE HasKey(d, k)
    <2>1. PICK m \in 1..(n + 1) : f[m].key = k
      BY <1>3, <1>4, <1>7 DEF HasKey
    <2>2. m # n + 1
      BY <1>2, <1>7, <2>1
    <2>3. m \in 1..n
      BY <1>3, <2>1, <2>2
    <2>4. E[m].key = k
      BY <1>2, <2>1, <2>3
    <2>5. QED BY <1>3, <2>3, <2>4 DEF HasKey, E
  <1>8. QED BY <1>5, <1>6, <1>7 DEF f, E

\* The settings of the plugins have one class: setting them again changes nothing.
LEMMA PathOfPlugins ==
  ASSUME NEW d \in Seq(Entry)
  PROVE  PathSet(d, "name", Setting("plugins", "default")) = d
  <1> DEFINE e == Setting("plugins", "default")
             f == PathSet(d, "name", e)
  <1>1. e \in Entry /\ e.key = "plugins"
    BY DEF Entry, Setting
  <1>2. /\ f \in Seq(Entry) /\ DOMAIN f = DOMAIN d
        /\ \A i \in DOMAIN d : f[i] = IF Same("name", d[i], e) THEN e ELSE d[i]
    BY <1>1, PathSetIs
  <1>3. ASSUME NEW s \in Entry, Same("name", s, e) PROVE s = e
    BY <1>3, AgentsAssumption DEF Same, Entry, Setting
  <1> HIDE DEF f, e
  <1>4. Len(f) = Len(d) /\ DOMAIN d = 1..Len(d)
    BY <1>2, LenProperties
  <1>5. \A i \in DOMAIN d : d[i] \in Entry
    BY ElementOfSeq, <1>4
  <1>6. \A i \in 1..Len(d) : f[i] = d[i]
    BY <1>2, <1>3, <1>4, <1>5
  <1>7. f = d
    BY <1>2, <1>4, <1>6, SeqEqual
  <1>8. QED BY <1>7 DEF f, e

LEMMA FillStep ==
  ASSUME Shapes, NEW t \in Tasks, Step(t) \/ StoreFails(t) \/ Crash(t),
         task[t].op # "factory", NEW a \in Agents, NEW z \in Seq(Call),
         NEW L \in Seq(PlainLoads(a)), L # <<>>, task[t].prog = L \o z, Fills(task[t], a, L)
  PROVE  LET r == task'[t] IN
         \/ r = Idle \/ r.answer \in {"failed", "refused"}
         \/ r.answer = task[t].answer /\ Filling(task[t], a, z)' /\ Grows(a)
  <1> DEFINE T == task[t]
             r == task'[t]
             i == Head(L)
             w == Tail(L)
             S == PlainLoads(a)
             e == Setting(i.key, "default")
             name == Upsert("name", a, i.key, "default")
             again == On("reselect", a, i.key)
             keep == doc' = doc /\ data' = data
             Goal == Filling(task[t], a, z)' /\ Grows(a)
  <1>1. i \in S /\ w \in Seq(S) /\ L = <<i>> \o w
    BY HeadAndTail
  <1>2. S \subseteq Call /\ Seq(S) \subseteq Seq(Call)
    BY PlainLoadItems
  <1>3. T.prog # <<>> /\ Item(t) = i /\ Tail(T.prog) = w \o z
    <2> HIDE DEF i, w, S
    <2>1. i \in Call /\ w \in Seq(Call)
      BY <1>1, <1>2
    <2>2. T.prog = (<<i>> \o w) \o z
      BY <1>1
    <2>3. QED BY <2>1, <2>2, HeadOfCalls DEF Item
  <1>4. Items(L) = {i} \union Items(w)
    <2> HIDE DEF i, w, S
    <2>1. i \in Call /\ w \in Seq(Call)
      BY <1>1, <1>2
    <2>2. QED BY <1>1, <2>1, HeadOfOne
  <1>5. /\ i.agent = a /\ i.do \in Loads
        /\ i.do \in {"ensure", "select", "reselect"} => i.key \in Categories
        /\ i.do = "name" => i.key \in BuiltKeys
    BY <1>1 DEF PlainLoads, LoadsOf, Keys, BuiltKeys
  <1>6. doc \in [Agents -> Documents] /\ data \in [Agents -> SUBSET Kinds]
    BY DEF Shapes, Stores
  <1>7. /\ \A k \in BuiltKeys :
              \/ HasKey(doc[a], k)
              \/ \E x \in {i} \union Items(w) : x.do \in {"ensure", "name"} /\ x.key = k
        /\ "plugins" \in data[a] \/ \E x \in {i} \union Items(w) : x.do = "activate"
        /\ Heads(T, a, i)
        /\ \A x \in Items(w) : x.do = "name" => x.key = "plugins"
    BY <1>4 DEF Fills
  <1>8. "plugins" \notin Categories
    BY AgentsAssumption
  <1> HIDE DEF i, w, S
  <1>9. \A x \in Items(w) : x.do = "name" => x.key \notin Categories
    BY <1>7, <1>8
  <1>10. w \in Seq(Call) /\ w # <<>> => Head(w) \in Items(w) /\ Items(Tail(w)) \subseteq Items(w)
    <2> SUFFICES ASSUME w # <<>> PROVE Head(w) \in Items(w) /\ Items(Tail(w)) \subseteq Items(w)
      BY <1>1, <1>2
    <2>1. w \in Seq(Call)
      BY <1>1, <1>2
    <2>2. Head(w) \in Call /\ Tail(w) \in Seq(Call) /\ w = <<Head(w)>> \o Tail(w)
      BY <2>1, HeadAndTail
    <2> DEFINE h == Head(w)
               v == Tail(w)
    <2> HIDE DEF h, v
    <2>3. Items(w) = {h} \union Items(v)
      BY <2>2, HeadOfOne DEF h, v
    <2>4. QED BY <2>3 DEF h, v
  <1>11. ASSUME r.prog = w \o z, r.at = "start",
                \A k : HasKey(doc[a], k) => HasKey(doc[a], k)',
                i.do \in {"ensure", "name"} => HasKey(doc[a], i.key)',
                data[a] \subseteq data'[a],
                i.do = "activate" => "plugins" \in data'[a]
         PROVE  Filling(task[t], a, z)'
    <2>1. \A k \in BuiltKeys :
            \/ HasKey(doc[a], k)'
            \/ \E x \in Items(w) : x.do \in {"ensure", "name"} /\ x.key = k
      BY <1>7, <1>11
    <2>2. "plugins" \in data'[a] \/ \E x \in Items(w) : x.do = "activate"
      BY <1>7, <1>11
    <2>3. w # <<>> => /\ Head(w).do = "name" /\ Head(w).key \in Categories
                           => ~HasKey(doc[a], Head(w).key)'
                      /\ \A x \in Items(Tail(w)) : x.do = "name" => x.key = "plugins"
      BY <1>1, <1>2, <1>7, <1>9, <1>10
    <2>4. QED BY <1>1, <1>11, <2>1, <2>2, <2>3, FillTo DEF S
  <1>12. keep => Grows(a) /\ \A k : HasKey(doc[a], k)' <=> HasKey(doc[a], k)
    BY DEF Grows, HasKey
  <1>13. ASSUME /\ r.prog = w \o z /\ r.at = "start" /\ keep /\ i.do # "name"
                /\ i.do = "ensure" => HasKey(doc[a], i.key)
                /\ i.do = "activate" => "plugins" \in data[a]
         PROVE  Goal
    <2>1. /\ \A k : HasKey(doc[a], k) => HasKey(doc[a], k)'
          /\ i.do \in {"ensure", "name"} => HasKey(doc[a], i.key)'
          /\ data[a] \subseteq data'[a]
          /\ i.do = "activate" => "plugins" \in data'[a]
      BY <1>12, <1>13
    <2>2. QED BY <1>11, <1>12, <1>13, <2>1
  <1>14. ASSUME /\ r.prog = T.prog /\ keep
                /\ i.do = "name" =>
                     \/ r.at = "found" /\ Has(doc[a], "name", e)
                     \/ r.at = "absent" /\ ~Has(doc[a], "name", e)
                     \/ r.at = "list" /\ T.at = "absent" /\ r.seen = Entries(doc[a])
         PROVE  Goal
    <2>1. ASSUME i.do = "name"
          PROVE  /\ Has(doc[a], "name", e) => HasKey(doc[a], i.key)
                 /\ i.key = "plugins" /\ ~Has(doc[a], "name", e) => ~HasKey(doc[a], i.key)
                 /\ i.key = "plugins" \/ i.key \in Categories
      <3> DEFINE k == i.key
      <3>1. k \in BuiltKeys /\ doc[a] \in Documents
        BY <1>5, <1>6, <2>1
      <3> HIDE DEF k
      <3>2. /\ Has(doc[a], "name", Setting(k, "default")) => HasKey(doc[a], k)
            /\ k = "plugins" /\ ~Has(doc[a], "name", Setting(k, "default")) => ~HasKey(doc[a], k)
        BY <3>1, NameHas
      <3>3. QED BY <3>1, <3>2 DEF k, BuiltKeys
    <2>2. Heads(r, a, i)
      BY <1>7, <1>14, <2>1 DEF Heads
    <2>3. Heads(task[t], a, i)'
      BY <1>14, <2>2 DEF Heads, HasKey
    <2>4. Fills(task[t], a, L)'
      <3>1. /\ \A k \in BuiltKeys :
                 \/ HasKey(doc[a], k)'
                 \/ \E x \in Items(L) : x.do \in {"ensure", "name"} /\ x.key = k
            /\ ("plugins" \in data[a])' \/ \E x \in Items(L) : x.do = "activate"
        BY <1>4, <1>7, <1>12, <1>14
      <3>2. QED BY <1>7, <2>3, <3>1 DEF Fills, i, w
    <2>5. (task[t].prog = L \o z)'
      BY <1>14
    <2>6. QED BY <1>12, <1>14, <2>4, <2>5 DEF Filling
  <1>15. ASSUME /\ i.do = "activate" /\ r.prog = w \o z /\ r.at = "start" /\ doc' = doc
                /\ data' = [data EXCEPT ![a] = @ \union {"plugins"}]
         PROVE  Goal
    <2>1. data'[a] = data[a] \union {"plugins"} /\ Grows(a)
      BY <1>6, <1>15 DEF Grows
    <2>2. \A k : HasKey(doc[a], k) => HasKey(doc[a], k)'
      BY <1>15 DEF HasKey
    <2>3. QED BY <1>11, <1>15, <2>1, <2>2
  <1>16. ASSUME /\ i.do = "ensure" /\ keep /\ ~HasKey(doc[a], i.key)
                /\ r.prog = <<name>> \o (w \o z) /\ r.at = "start"
         PROVE  Goal
    <2> DEFINE q == <<name>> \o w
    <2>1. name \in S /\ name.do = "name" /\ name.key = i.key
      BY <1>5, <1>16, PlainLoadItems DEF S, Upsert
    <2> HIDE DEF name
    <2>2. <<name>> \in Seq(S) /\ q \in Seq(S)
      BY <1>1, <2>1, ConcatProperties
    <2>3. q # <<>> /\ Head(q) = name /\ Tail(q) = w /\ Items(q) = {name} \union Items(w)
      BY <1>1, <1>2, <2>1, HeadOfOne
    <2>4. r.prog = q \o z
      <3>1. <<name>> \in Seq(Call) /\ w \in Seq(Call)
        BY <1>1, <1>2, <2>2
      <3>2. QED BY <1>16, <3>1, ConcatAssociative
    <2> HIDE DEF q
    <2>5. \A k \in BuiltKeys :
            \/ HasKey(doc[a], k)'
            \/ \E x \in Items(q) : x.do \in {"ensure", "name"} /\ x.key = k
      BY <1>7, <1>12, <1>16, <2>1, <2>3
    <2>6. "plugins" \in data'[a] \/ \E x \in Items(q) : x.do = "activate"
      BY <1>7, <1>16, <2>3
    <2>7. /\ Head(q).do = "name" /\ Head(q).key \in Categories
               => ~HasKey(doc[a], Head(q).key)'
          /\ \A x \in Items(Tail(q)) : x.do = "name" => x.key = "plugins"
      BY <1>7, <1>12, <1>16, <2>1, <2>3
    <2>8. Filling(task[t], a, z)'
      BY <1>16, <2>2, <2>4, <2>5, <2>6, <2>7, FillTo DEF S
    <2>9. QED BY <1>12, <1>16, <2>8
  <1>17. ASSUME /\ i.do = "select" /\ keep /\ ~HasKey(doc[a], i.key)
                /\ r.prog = <<name, again>> \o (w \o z) /\ r.at = "start"
         PROVE  Goal
    <2> DEFINE v == <<again>> \o w
               q == <<name>> \o v
    <2>1. /\ name \in S /\ name.do = "name" /\ name.key = i.key
          /\ again \in S /\ again.do = "reselect"
      BY <1>5, <1>17, PlainLoadItems DEF S, Upsert, On
    <2> HIDE DEF name, again
    <2>2. <<name>> \in Seq(S) /\ <<again>> \in Seq(S) /\ v \in Seq(S)
      BY <1>1, <2>1, ConcatProperties
    <2>3. Items(v) = {again} \union Items(w)
      BY <1>1, <1>2, <2>1, HeadOfOne
    <2>4. r.prog = q \o z
      <3>1. name \in Call /\ again \in Call /\ w \in Seq(Call)
        BY <1>1, <1>2, <2>1
      <3> DEFINE p == <<name, again>> \o (w \o z)
      <3>2. p = Two(name, again, w) \o z
        <4> HIDE DEF name, again, w
        <4> QED BY <3>1, TwoIs
      <3>3. Two(name, again, w) = q
        BY DEF Two
      <3>4. r.prog = p
        BY <1>17
      <3> HIDE DEF p, q
      <3>5. QED BY <3>2, <3>3, <3>4
    <2> HIDE DEF v
    <2>5. q \in Seq(S)
      BY <2>2, ConcatProperties
    <2>6. q # <<>> /\ Head(q) = name /\ Tail(q) = v /\ Items(q) = {name} \union Items(v)
      BY <1>2, <2>1, <2>2, HeadOfOne
    <2> HIDE DEF q
    <2>7. \A k \in BuiltKeys :
            \/ HasKey(doc[a], k)'
            \/ \E x \in Items(q) : x.do \in {"ensure", "name"} /\ x.key = k
      BY <1>7, <1>12, <1>17, <2>1, <2>3, <2>6
    <2>8. "plugins" \in data'[a] \/ \E x \in Items(q) : x.do = "activate"
      BY <1>7, <1>17, <2>3, <2>6
    <2>9. /\ Head(q).do = "name" /\ Head(q).key \in Categories
               => ~HasKey(doc[a], Head(q).key)'
          /\ \A x \in Items(Tail(q)) : x.do = "name" => x.key = "plugins"
      BY <1>7, <1>12, <1>17, <2>1, <2>3, <2>6
    <2>10. Filling(task[t], a, z)'
      BY <1>17, <2>4, <2>5, <2>7, <2>8, <2>9, FillTo DEF S
    <2>11. QED BY <1>12, <1>17, <2>10
  <1>18. ASSUME /\ i.do = "name" /\ r.prog = w \o z /\ r.at = "start" /\ T.at = "found"
                /\ data' = data /\ doc[a] # None
                /\ doc' = [doc EXCEPT ![a] = PathSet(@, "name", e)]
         PROVE  Goal
    <2>1. HasKey(doc[a], i.key) /\ i.key = "plugins"
      BY <1>5, <1>7, <1>18 DEF Heads, BuiltKeys
    <2>2. doc'[a] = doc[a]
      <3>1. doc[a] \in Seq(Entry)
        BY <1>6, <1>18 DEF Documents
      <3>2. doc'[a] = PathSet(doc[a], "name", Setting("plugins", "default"))
        BY <1>6, <1>18, <2>1
      <3>3. QED BY <3>1, <3>2, PathOfPlugins
    <2>3. /\ \A k : HasKey(doc[a], k) => HasKey(doc[a], k)'
          /\ Grows(a)
      BY <1>18, <2>2 DEF HasKey, Grows
    <2>4. QED BY <1>11, <1>18, <2>1, <2>3
  <1>19. ASSUME /\ i.do = "name" /\ r.prog = w \o z /\ r.at = "start" /\ T.at = "list"
                /\ data' = data /\ doc' = [doc EXCEPT ![a] = Append(T.seen, e)]
         PROVE  Goal
    <2>1. i.key \in BuiltKeys /\ ~HasKey(doc[a], i.key) /\ T.seen = Entries(doc[a])
      BY <1>5, <1>7, <1>19 DEF Heads
    <2>2. doc'[a] = Append(Entries(doc[a]), e)
      BY <1>6, <1>19, <2>1
    <2>3. Grows(a)
      BY <1>19, <2>1, <2>2 DEF Grows
    <2>4. e \in Entry /\ e.key = i.key /\ doc[a] \in Documents
      BY <1>6, <2>1 DEF Entry, Setting, BuiltKeys
    <2> HIDE DEF e
    <2>5. \A k : HasKey(doc'[a], k) <=> HasKey(doc[a], k) \/ e.key = k
      BY <2>2, <2>4, AppendHas
    <2>6. \A k : HasKey(doc[a], k)' <=> HasKey(doc'[a], k)
      BY DEF HasKey
    <2>7. /\ \A k : HasKey(doc[a], k) => HasKey(doc[a], k)'
          /\ HasKey(doc[a], i.key)'
      BY <2>4, <2>5, <2>6
    <2>8. QED BY <1>11, <1>19, <2>3, <2>7
  <1>20. \/ r = Idle \/ r.answer \in {"failed", "refused"}
         \/ r.answer = T.answer /\ Loaded(t, r, a)
    BY <1>1, <1>3, LoadedBy DEF S
  <1> HIDE DEF Goal
  <1>21. ASSUME Loaded(t, r, a) PROVE Goal
    <2>1. \/ /\ r.prog = w \o z /\ r.at = "start" /\ keep /\ i.do # "name"
             /\ i.do = "ensure" => HasKey(doc[a], i.key)
             /\ i.do = "activate" => "plugins" \in data[a]
          \/ /\ r.prog = T.prog /\ keep
             /\ i.do = "name" =>
                  \/ r.at = "found" /\ Has(doc[a], "name", e)
                  \/ r.at = "absent" /\ ~Has(doc[a], "name", e)
                  \/ r.at = "list" /\ T.at = "absent" /\ r.seen = Entries(doc[a])
          \/ /\ i.do = "activate" /\ r.prog = w \o z /\ r.at = "start" /\ doc' = doc
             /\ data' = [data EXCEPT ![a] = @ \union {"plugins"}]
          \/ /\ i.do = "ensure" /\ keep /\ ~HasKey(doc[a], i.key)
             /\ r.prog = <<name>> \o (w \o z) /\ r.at = "start"
          \/ /\ i.do = "select" /\ keep /\ ~HasKey(doc[a], i.key)
             /\ r.prog = <<name, again>> \o (w \o z) /\ r.at = "start"
          \/ /\ i.do = "name" /\ r.prog = w \o z /\ r.at = "start" /\ T.at = "found"
             /\ data' = data /\ doc[a] # None
             /\ doc' = [doc EXCEPT ![a] = PathSet(@, "name", e)]
          \/ /\ i.do = "name" /\ r.prog = w \o z /\ r.at = "start" /\ T.at = "list"
             /\ data' = data /\ doc' = [doc EXCEPT ![a] = Append(T.seen, e)]
      BY <1>3, <1>21 DEF Loaded
    <2>2. QED BY <1>13, <1>14, <1>15, <1>16, <1>17, <1>18, <1>19, <2>1
  <1>22. QED BY <1>20, <1>21 DEF Goal

LEMMA HeadKept ==
  ASSUME NEW p \in Seq(Call), NEW q \in Seq(Call), p # <<>>
  PROVE  p \o q \in Seq(Call) /\ p \o q # <<>> /\ Head(p \o q) = Head(p)
  <1> DEFINE r == p \o q
  <1>1. Len(p) \in Nat \ {0} /\ Len(q) \in Nat /\ Head(p) = p[1]
    BY LenProperties, EmptySeq, HeadTailProperties
  <1>2. /\ r \in Seq(Call) /\ Len(r) = Len(p) + Len(q)
        /\ \A n \in 1..(Len(p) + Len(q)) : r[n] = IF n <= Len(p) THEN p[n] ELSE q[n - Len(p)]
    BY ConcatProperties
  <1> HIDE DEF r
  <1>3. r # <<>> /\ r[1] = p[1]
    BY <1>1, <1>2, EmptySeq
  <1>4. Head(r) = r[1]
    BY <1>2, <1>3, HeadTailProperties
  <1>5. QED BY <1>1, <1>2, <1>3, <1>4 DEF r

LEMMA ItemsTwo ==
  ASSUME NEW x \in Call, NEW y \in Call
  PROVE  /\ <<x, y>> \in Seq(Call) /\ <<x, y>> # <<>> /\ Head(<<x, y>>) = x
         /\ Items(<<x, y>>) = {x, y}
  <1> DEFINE p == <<x, y>>
  <1>1. p \in Seq(Call) /\ Len(p) = 2 /\ DOMAIN p = 1..2 /\ p[1] = x /\ p[2] = y
    OBVIOUS
  <1> HIDE DEF p
  <1>2. p # <<>> /\ Head(p) = p[1]
    <2>1. p # <<>>
      BY <1>1, EmptySeq
    <2>2. Head(p) = p[1]
      BY <1>1, <2>1, LenProperties, HeadTailProperties
    <2>3. QED BY <2>1, <2>2
  <1>3. Items(p) = {x, y}
    <2>1. DOMAIN p = {1, 2}
      BY <1>1
    <2>2. QED BY <1>1, <2>1 DEF Items
  <1>4. QED BY <1>1, <1>2, <1>3 DEF p

LEMMA BuildItems ==
  ASSUME NEW a \in Agents
  PROVE  /\ Items(BuildProg(a)) =
              {Do("activate", a), Upsert("name", a, "plugins", "default")}
                \union {On("ensure", a, c) : c \in Categories}
                \union {On("select", a, c) : c \in Categories}
         /\ Items(LoadProg(a)) =
              {Do("exists", a), Do("settings", a)} \union Items(BuildProg(a))
         /\ BuildProg(a) # <<>> /\ Head(BuildProg(a)) = Do("activate", a)
         /\ LoadProg(a) # <<>> /\ Head(LoadProg(a)) = Do("exists", a)
  <1> DEFINE x1 == Do("activate", a)
             x2 == Upsert("name", a, "plugins", "default")
             x3 == Do("exists", a)
             x4 == Do("settings", a)
             E == PerCategory("ensure", a)
             S == PerCategory("select", a)
             B == BuildProg(a)
  <1>1. x1 \in Call /\ x2 \in Call /\ x3 \in Call /\ x4 \in Call
    BY LoadItems DEF LoadsOf
  <1>2. /\ E \in Seq(Call) /\ S \in Seq(Call)
        /\ DOMAIN E = DOMAIN CategorySeq /\ DOMAIN S = DOMAIN CategorySeq
        /\ \A i \in DOMAIN CategorySeq :
             E[i] = On("ensure", a, CategorySeq[i]) /\ S[i] = On("select", a, CategorySeq[i])
    <2>1. \A x \in Categories : On("ensure", a, x) \in LoadsOf(a)
                               /\ On("select", a, x) \in LoadsOf(a)
      BY LoadItems
    <2>2. /\ E \in Seq(LoadsOf(a)) /\ DOMAIN E = DOMAIN CategorySeq
          /\ \A i \in DOMAIN CategorySeq : E[i] = On("ensure", a, CategorySeq[i])
      BY <2>1, PerCategoryIs
    <2>3. /\ S \in Seq(LoadsOf(a)) /\ DOMAIN S = DOMAIN CategorySeq
          /\ \A i \in DOMAIN CategorySeq : S[i] = On("select", a, CategorySeq[i])
      BY <2>1, PerCategoryIs
    <2>4. QED BY <2>2, <2>3, LoadsAreCalls
  <1>3. B = ((<<x1, x2>> \o E) \o S) /\ LoadProg(a) = <<x3, x4>> \o B
    BY DEF BuildProg, LoadProg
  <1>4. B \in Seq(Call)
    BY LoadsAreCalls
  <1> HIDE DEF x1, x2, x3, x4, E, S, B
  <1>5. Items(E) = {On("ensure", a, c) : c \in Categories}
        /\ Items(S) = {On("select", a, c) : c \in Categories}
    <2>1. \A c \in Categories : \E i \in DOMAIN CategorySeq : CategorySeq[i] = c
      BY CategorySeqIs
    <2>2. \A i \in DOMAIN CategorySeq : CategorySeq[i] \in Categories
      BY CategorySeqIs, ElementOfSeq, LenProperties
    <2>3. QED BY <1>2, <2>1, <2>2 DEF Items
  <1>6. Items(B) = {x1, x2} \union Items(E) \union Items(S) /\ B # <<>> /\ Head(B) = x1
    <2> DEFINE p == <<x1, x2>>
               q == p \o E
    <2>1. p \in Seq(Call) /\ p # <<>> /\ Head(p) = x1 /\ Items(p) = {x1, x2}
      BY <1>1, ItemsTwo
    <2>2. B = q \o S
      BY <1>3
    <2> HIDE DEF p
    <2>3. q \in Seq(Call) /\ q # <<>> /\ Head(q) = x1 /\ Items(q) = {x1, x2} \union Items(E)
      BY <1>2, <2>1, HeadKept, ItemsConcat
    <2> HIDE DEF q
    <2>4. QED BY <1>2, <2>2, <2>3, HeadKept, ItemsConcat
  <1>7. /\ LoadProg(a) # <<>> /\ Head(LoadProg(a)) = x3
        /\ Items(LoadProg(a)) = {x3, x4} \union Items(B)
    <2> DEFINE p == <<x3, x4>>
    <2>1. p \in Seq(Call) /\ p # <<>> /\ Head(p) = x3 /\ Items(p) = {x3, x4}
      BY <1>1, ItemsTwo
    <2>2. LoadProg(a) = p \o B
      BY <1>3
    <2> HIDE DEF p
    <2>3. QED BY <1>4, <2>1, <2>2, HeadKept, ItemsConcat
  <1>8. QED BY <1>5, <1>6, <1>7 DEF x1, x2, x3, x4, B

\* An agent that is about to be loaded will have all it needs.
LEMMA FillsAtStart ==
  ASSUME NEW t \in Tasks, NEW a \in Agents, NEW L \in {BuildProg(a), LoadProg(a)}
  PROVE  Fills(task[t], a, L) /\ Fills(task[t], a, L)' /\ L \in Seq(PlainLoads(a)) /\ L # <<>>
  <1> DEFINE I == Items(L)
  <1>1. /\ L \in Seq(Call) /\ L # <<>> /\ Head(L).do # "name"
        /\ Do("activate", a) \in I /\ Upsert("name", a, "plugins", "default") \in I
        /\ \A c \in Categories : On("ensure", a, c) \in I
        /\ \A i \in I : i.do = "name" => i.key = "plugins"
    <2>1. L \in Seq(Call)
      BY LoadsAreCalls
    <2>2. L # <<>> /\ Head(L) \in {Do("activate", a), Do("exists", a)}
      BY BuildItems
    <2>3. Head(L).do # "name"
      BY <2>2 DEF Do
    <2> DEFINE B == {Do("activate", a), Upsert("name", a, "plugins", "default")}
                      \union {On("ensure", a, c) : c \in Categories}
                      \union {On("select", a, c) : c \in Categories}
    <2>4. I = B \/ I = {Do("exists", a), Do("settings", a)} \union B
      BY BuildItems
    <2>5. \A i \in B \union {Do("exists", a), Do("settings", a)} : i.do = "name" => i.key = "plugins"
      BY DEF Do, On, Upsert
    <2>6. B \subseteq I
      BY <2>4
    <2>7. \A i \in I : i.do = "name" => i.key = "plugins"
      <3> HIDE DEF I, B
      <3> QED BY <2>4, <2>5
    <2>8. QED BY <2>1, <2>2, <2>3, <2>6, <2>7
  <1>2. Items(Tail(L)) \subseteq I
    <2> DEFINE h == Head(L)
               v == Tail(L)
    <2>1. h \in Call /\ v \in Seq(Call) /\ L = <<h>> \o v
      BY <1>1, HeadAndTail
    <2> HIDE DEF h, v
    <2>2. Items(L) = {h} \union Items(v)
      BY <2>1, HeadOfOne
    <2>3. QED BY <2>2 DEF v
  <1>3. /\ Do("activate", a).do = "activate"
        /\ Upsert("name", a, "plugins", "default").do = "name"
        /\ Upsert("name", a, "plugins", "default").key = "plugins"
        /\ \A c : On("ensure", a, c).do = "ensure" /\ On("ensure", a, c).key = c
    BY DEF Do, On, Upsert
  <1>4. \A k \in BuiltKeys : \E i \in I : i.do \in {"ensure", "name"} /\ i.key = k
    BY <1>1, <1>3 DEF BuiltKeys
  <1>5. \E i \in I : i.do = "activate"
    BY <1>1, <1>3
  <1>6. Heads(task[t], a, Head(L)) /\ Heads(task[t], a, Head(L))'
    BY <1>1 DEF Heads
  <1> HIDE DEF I
  <1>7. \A i \in Items(Tail(L)) : i.do = "name" => i.key = "plugins"
    BY <1>1, <1>2
  <1>8. L \in Seq(PlainLoads(a))
    BY PlainLoadItems
  <1>9. QED BY <1>1, <1>4, <1>5, <1>6, <1>7, <1>8 DEF Fills, I

-----------------------------------------------------------------------------
(* A reset leaves the agent as new. *)

\* What a new agent has got so far: each setting once, at its default.
Young(a) ==
    LET E == Entries(doc[a])
    IN /\ \A n \in DOMAIN E : E[n].impl = "default" /\ E[n].key \in BuiltKeys
       /\ \A m, n \in DOMAIN E : E[m].key = E[n].key => m = n
       /\ data[a] \subseteq {"plugins"} \union OtherKeys
All(a) == (\A k \in BuiltKeys : HasKey(doc[a], k)) /\ "plugins" \in data[a]

LEMMA GoneIsYoung ==
  ASSUME NEW a \in Agents, Gone(a)
  PROVE  Young(a)
  <1>1. DOMAIN <<>> = {}
    BY EmptySeq
  <1>2. Entries(doc[a]) = <<>>
    BY DEF Gone, Entries
  <1> DEFINE E == Entries(doc[a])
  <1>3. DOMAIN E = {}
    BY <1>1, <1>2
  <1> HIDE DEF E
  <1>4. QED BY <1>3 DEF Young, Gone, E

LEMMA YoungGrows ==
  ASSUME Shapes, NEW a \in Agents, Young(a), Grows(a)
  PROVE  Young(a)'
  <1>1. data'[a] \subseteq {"plugins"} \union OtherKeys
    BY DEF Young, Grows
  <1>2. CASE doc'[a] = doc[a]
    BY <1>1, <1>2 DEF Young
  <1>3. CASE doc'[a] # doc[a]
    <2> DEFINE E == Entries(doc[a])
               n == Len(E)
    <2>1. PICK k \in BuiltKeys :
            ~HasKey(doc[a], k) /\ doc'[a] = Append(E, Setting(k, "default"))
      BY <1>3 DEF Grows
    <2> DEFINE e == Setting(k, "default")
               f == Append(E, e)
    <2>2. e \in Entry /\ e.key = k /\ e.impl = "default"
      BY DEF Entry, Setting, BuiltKeys
    <2>3. E \in Seq(Entry)
      BY EntriesIs
    <2>4. \A m \in DOMAIN E : E[m].key # k
      BY <2>1 DEF HasKey
    <2>5. /\ \A m \in DOMAIN E : E[m].impl = "default" /\ E[m].key \in BuiltKeys
          /\ \A m, j \in DOMAIN E : E[m].key = E[j].key => m = j
      BY DEF Young
    <2> HIDE DEF E, e
    <2>6. /\ f \in Seq(Entry) /\ Len(f) = n + 1
          /\ (\A i \in 1..n : f[i] = E[i]) /\ f[n + 1] = e
      BY <2>2, <2>3, AppendProperties
    <2>7. n \in Nat /\ DOMAIN E = 1..n /\ DOMAIN f = 1..(n + 1)
      BY <2>3, <2>6, LenProperties
    <2>8. Entries(doc'[a]) = f
      <3>1. f # None
        BY <2>6, SeqNotNone
      <3>2. QED BY <2>1, <3>1 DEF Entries, e
    <2> HIDE DEF f, n
    <2>9. \A m \in 1..(n + 1) : m \in 1..n \/ m = n + 1
      BY <2>7
    <2>10. \A m \in DOMAIN f : f[m].impl = "default" /\ f[m].key \in BuiltKeys
      BY <2>1, <2>2, <2>5, <2>6, <2>7, <2>9
    <2>11. ASSUME NEW m \in DOMAIN f, NEW j \in DOMAIN f, f[m].key = f[j].key
           PROVE  m = j
      <3>1. CASE m \in 1..n /\ j \in 1..n
        BY <2>5, <2>6, <2>7, <2>11, <3>1
      <3>2. CASE m = n + 1 /\ j = n + 1
        BY <3>2
      <3>3. CASE m \in 1..n /\ j = n + 1
        BY <2>2, <2>4, <2>6, <2>7, <2>11, <3>3
      <3>4. CASE m = n + 1 /\ j \in 1..n
        BY <2>2, <2>4, <2>6, <2>7, <2>11, <3>4
      <3>5. QED BY <2>7, <2>9, <3>1, <3>2, <3>3, <3>4
    <2>12. QED BY <1>1, <2>8, <2>10, <2>11 DEF Young
  <1>4. QED BY <1>2, <1>3

LEMMA YoungIsFresh ==
  ASSUME Shapes, NEW a \in Agents, Young(a), All(a)
  PROVE  Fresh(doc[a])
  <1> DEFINE d == doc[a]
             E == Entries(d)
  <1>1. d # None
    <2>1. HasKey(d, "plugins")
      BY DEF All, BuiltKeys
    <2>2. DOMAIN <<>> = {}
      BY EmptySeq
    <2>3. QED BY <2>1, <2>2 DEF HasKey, Entries
  <1>2. E = d
    BY <1>1 DEF Entries
  <1>3. /\ \A n \in DOMAIN E : E[n].impl = "default" /\ E[n].key \in BuiltKeys
        /\ \A m, n \in DOMAIN E : E[m].key = E[n].key => m = n
    BY DEF Young
  <1>4. \A k \in BuiltKeys : \E n \in DOMAIN E : E[n].key = k
    BY DEF All, HasKey
  <1>5. "metadata" \notin BuiltKeys
    BY AgentsAssumption DEF BuiltKeys
  <1> HIDE DEF E, d
  <1>6. ASSUME NEW c \in Categories \union {"plugins"}
        PROVE  Cardinality({i \in DOMAIN E : E[i].key = c}) = 1
    <2>1. PICK n \in DOMAIN E : E[n].key = c
      BY <1>4 DEF BuiltKeys
    <2>2. {i \in DOMAIN E : E[i].key = c} = {n}
      BY <1>3, <2>1
    <2>3. QED BY <2>2, FS_Singleton
  <1>7. Cardinality({i \in DOMAIN E : E[i].key = "metadata"}) <= 1
    <2>1. {i \in DOMAIN E : E[i].key = "metadata"} = {}
      BY <1>3, <1>5
    <2>2. Cardinality({}) = 0
      BY FS_EmptySet
    <2>3. QED BY <2>1, <2>2
  <1>8. OneEach(d)
    BY <1>6, <1>7 DEF OneEach, E
  <1>9. \A i \in DOMAIN d : d[i].impl = "default" /\ d[i].key # "metadata"
    BY <1>2, <1>3, <1>5
  <1>10. QED BY <1>8, <1>9 DEF Fresh, d

\* The items of a creation that follow the loading, and the check before it.
LEMMA LateMoves ==
  ASSUME Shapes, NEW t \in Tasks, Step(t) \/ StoreFails(t) \/ Crash(t),
         task[t].op # "factory", task[t].prog # <<>>,
         Item(t).do \in {"built", "initialize", "procedures"}, NEW a, Item(t).agent = a
  PROVE  LET T == task[t]
             r == task'[t]
             d == Item(t).do
         IN \/ r = Idle \/ r.answer \in {"failed", "refused"}
            \/ /\ r.answer = T.answer /\ doc' = doc
               /\ \/ r.prog = Tail(T.prog) /\ r.at = "start" /\ data' = data /\ d # "procedures"
                  \/ /\ d = "procedures" /\ r.prog = Tail(T.prog) /\ r.at = "start"
                     /\ data' = [data EXCEPT ![a] = @ \union {"procedures"}]
                  \/ /\ d = "procedures" /\ r.prog = T.prog
                     /\ data' = [data EXCEPT ![a] = @ \ {"procedures"}]
  <1> DEFINE T == task[t]
             r == task'[t]
             i == Item(t)
             d == i.do
             Failed == r = Idle \/ r.answer = "failed"
             Passes == /\ r.answer = T.answer /\ doc' = doc /\ r.prog = Tail(T.prog)
                       /\ r.at = "start" /\ data' = data /\ d # "procedures"
             Embeds == /\ r.answer = T.answer /\ doc' = doc
                       /\ d = "procedures" /\ r.prog = Tail(T.prog) /\ r.at = "start"
                       /\ data' = [data EXCEPT ![a] = @ \union {"procedures"}]
             Clears == /\ r.answer = T.answer /\ doc' = doc
                       /\ d = "procedures" /\ r.prog = T.prog
                       /\ data' = [data EXCEPT ![a] = @ \ {"procedures"}]
  <1> SUFFICES Failed \/ Passes \/ Embeds \/ Clears
    OBVIOUS
  <1>0. T \in Requested /\ DOMAIN task = Tasks
    BY DEF Shapes
  <1>1. Advance(t) => r.prog = Tail(T.prog) /\ r.at = "start" /\ r.answer = T.answer
    BY <1>0, ThenIs DEF Advance, Becomes, Next1
  <1>2. Fail(t) => r.answer = "failed"
    BY <1>0, FailIs DEF Fail, Becomes
  <1>3. CASE Built(t)
    <2>1. d = "built" /\ doc' = doc /\ data' = data
      BY <1>3 DEF Built, At, UNCHANGED_store
    <2>2. r = [Next1(t) EXCEPT !.built = TRUE]
      BY <1>0, <1>3 DEF Built, Becomes
    <2>3. r.prog = Tail(T.prog) /\ r.at = "start" /\ r.answer = T.answer
      BY <1>0, <2>2 DEF Next1, Then, Requested
    <2>4. QED BY <2>1, <2>3
  <1>4. CASE Initialize(t)
    BY <1>1, <1>4 DEF Initialize, At, UNCHANGED_store
  <1>5. CASE ClearProcedures(t)
    <2>1. /\ d = "procedures" /\ doc' = doc
          /\ data' = [data EXCEPT ![a] = @ \ {"procedures"}]
          /\ Becomes(t, Stay(t, "cleared", <<>>))
      BY <1>5 DEF ClearProcedures, At
    <2>2. r.prog = T.prog /\ r.answer = T.answer
      BY <1>0, <2>1, StayForms DEF Becomes
    <2>3. QED BY <2>1, <2>2
  <1>6. CASE EmbedProcedures(t)
    <2>1. /\ d = "procedures" /\ doc' = doc /\ Advance(t)
          /\ data' = [data EXCEPT ![a] = @ \union {"procedures"}]
      BY <1>6 DEF EmbedProcedures, At
    <2>2. QED BY <1>1, <2>1
  <1>8. Step(t) => Built(t) \/ Initialize(t) \/ ClearProcedures(t) \/ EmbedProcedures(t)
    BY DEF Step, At, IsUpsert, Exists, Settings, Activate, ActivateStore, Ensure, Select,
         Instantiate, Lookup, StorePath, ReadList, StoreList, Supported, Check, Use, Memory,
         Folder, Collect, Delete, LockTimeout, Purge, Free, Scan, CopyRead, CopyWrite,
         CopyPoints, AddPoints, CopyFiles, Mark, Flush, Finish
  <1> HIDE DEF Failed, Passes, Embeds, Clears
  <1>9. (StoreFails(t) \/ Crash(t)) => Failed
    BY <1>0, <1>2 DEF StoreFails, Crash, Failed
  <1>10. QED BY <1>3, <1>4, <1>5, <1>6, <1>8, <1>9

LEMMA CheckMoves ==
  ASSUME Shapes, NEW t \in Tasks, Step(t) \/ StoreFails(t) \/ Crash(t),
         task[t].op # "factory", task[t].prog # <<>>, Item(t).do = "check",
         NEW a, Item(t).agent = a, Gone(a)
  PROVE  LET r == task'[t] IN
         \/ r = Idle \/ r.answer \in {"failed", "refused"}
         \/ /\ r.answer = task[t].answer /\ r.prog = Tail(task[t].prog) /\ r.at = "start"
            /\ doc' = doc /\ data' = data
  <1> DEFINE T == task[t]
             r == task'[t]
  <1>0. T \in Requested /\ DOMAIN task = Tasks
    BY DEF Shapes
  <1>1. Advance(t) => r.prog = Tail(T.prog) /\ r.at = "start" /\ r.answer = T.answer
    BY <1>0, ThenIs DEF Advance, Becomes, Next1
  <1>2. Fail(t) => r.answer = "failed"
    BY <1>0, FailIs DEF Fail, Becomes
  <1>3. a \notin MainKeys
    BY DEF MainKeys, Gone, RedisKinds, OtherKeys
  <1>4. CASE Check(t)
    BY <1>1, <1>3, <1>4 DEF Check, UNCHANGED_store
  <1>5. CASE StoreFails(t) \/ Crash(t)
    BY <1>0, <1>2, <1>5 DEF StoreFails, Crash
  <1>6. Step(t) => Check(t)
    BY DEF Step, At, IsUpsert, Exists, Settings, Activate, ActivateStore, Ensure, Select,
         Instantiate, Lookup, StorePath, ReadList, StoreList, Supported, Built, Initialize,
         ClearProcedures, EmbedProcedures, Use, Memory, Folder, Collect, Delete, LockTimeout,
         Purge, Free, Scan, CopyRead, CopyWrite, CopyPoints, AddPoints, CopyFiles, Mark,
         Flush, Finish
  <1>7. QED BY <1>4, <1>5, <1>6

LEMMA DoneMoves ==
  ASSUME Shapes, NEW t \in Tasks, Step(t) \/ StoreFails(t) \/ Crash(t), task[t].prog = <<>>
  PROVE  task'[t] = Idle
  <1>1. DOMAIN task = Tasks
    BY DEF Shapes
  <1>2. Finish(t)
    BY DEF Step, At, IsUpsert, Exists, Settings, Activate, ActivateStore, Ensure, Select,
         Instantiate, Lookup, StorePath, ReadList, StoreList, Supported, Check, Built,
         Initialize, ClearProcedures, EmbedProcedures, Use, Memory, Folder, Collect, Delete,
         LockTimeout, Purge, Free, Scan, CopyRead, CopyWrite, CopyPoints, AddPoints,
         CopyFiles, Mark, Flush, StoreFails, Crash
  <1>3. QED BY <1>1, <1>2 DEF Finish

LEMMA RightFolded ==
  \A c, b, u, v \in Seq(Call) : (((c \o b) \o u) \o <<>>) \o v = c \o (b \o (u \o v))
  <1> SUFFICES ASSUME NEW c \in Seq(Call), NEW b \in Seq(Call), NEW u \in Seq(Call),
                      NEW v \in Seq(Call)
               PROVE  (((c \o b) \o u) \o <<>>) \o v = c \o (b \o (u \o v))
    OBVIOUS
  <1>1. PICK x, y, z : x = c \o b /\ y = x \o u /\ z = u \o v
    OBVIOUS
  <1>2. x \in Seq(Call) /\ y \in Seq(Call) /\ z \in Seq(Call)
    BY <1>1, ConcatProperties
  <1>3. (x \o u) \o v = x \o (u \o v)
    BY <1>2, Assoc, SMTT(60)
  <1>4. (c \o b) \o z = c \o (b \o z)
    BY <1>2, Assoc, SMTT(60)
  <1>5. y \o <<>> = y
    BY <1>2, ConcatEmptySeq
  <1>6. QED BY <1>1, <1>3, <1>4, <1>5

\* What a creation does once the agent is loaded.
Later(a) == <<Do("initialize", a), Do("procedures", a)>>
Late(a) == <<Do("built", a)>> \o Later(a)

LEMMA LateIs ==
  ASSUME NEW a \in Agents
  PROVE  /\ CreateProg(a, FALSE) = <<Do("check", a)>> \o (BuildProg(a) \o Late(a))
         /\ Do("check", a) \in Call /\ Do("built", a) \in Call /\ Do("initialize", a) \in Call
         /\ Do("procedures", a) \in Call
         /\ CreateProg(a, FALSE) \in Seq(Call) /\ Late(a) \in Seq(Call)
         /\ Later(a) \in Seq(Call) /\ BuildProg(a) \in Seq(Call)
         /\ Late(a) # <<>> /\ Head(Late(a)) = Do("built", a) /\ Tail(Late(a)) = Later(a)
         /\ Later(a) # <<>> /\ Head(Later(a)) = Do("initialize", a)
         /\ Tail(Later(a)) = <<Do("procedures", a)>>
         /\ <<Do("procedures", a)>> # <<>> /\ <<Do("procedures", a)>> \in Seq(Call)
         /\ Head(<<Do("procedures", a)>>) = Do("procedures", a)
         /\ Tail(<<Do("procedures", a)>>) = <<>>
         /\ \A d : Do(d, a).do = d /\ Do(d, a).agent = a
  <1> DEFINE x0 == Do("check", a)
             x1 == Do("built", a)
             x2 == Do("initialize", a)
             x3 == Do("procedures", a)
             B == BuildProg(a)
             c == <<x0>>
             u == <<x1>>
             y == <<x3>>
             v == Later(a)
  <1>1. x0 \in Call /\ x1 \in Call /\ x2 \in Call /\ x3 \in Call
    BY DEF Do, Call, Dos
  <1>2. B \in Seq(Call)
    BY LoadsAreCalls
  <1>3. \A d : Do(d, a).do = d /\ Do(d, a).agent = a
    BY DEF Do
  <1>4. v = <<x2, x3>> /\ CreateProg(a, FALSE) = (((c \o B) \o u) \o <<>>) \o v
    BY DEF CreateProg, Later
  <1> HIDE DEF x0, x1, x2, x3, B, v
  <1>5. c \in Seq(Call) /\ u \in Seq(Call) /\ y \in Seq(Call) /\ v \in Seq(Call)
    BY <1>1, <1>4
  <1>6. v = <<x2>> \o y
    BY <1>1, <1>4, Pair
  <1>7. v # <<>> /\ Head(v) = x2 /\ Tail(v) = y
    BY <1>1, <1>5, <1>6, HeadOfOne
  <1>8. y # <<>> /\ Head(y) = x3 /\ Tail(y) = <<>>
    <2>1. y = y \o <<>> /\ <<>> \in Seq(Call)
      BY <1>5, ConcatEmptySeq, EmptySeq
    <2>2. QED BY <1>1, <2>1, HeadOfOne
  <1> DEFINE w == u \o v
  <1>9. w \in Seq(Call) /\ w # <<>> /\ Head(w) = x1 /\ Tail(w) = v
    <2> HIDE DEF v
    <2> QED BY <1>1, <1>5, HeadOfOne
  <1>10. CreateProg(a, FALSE) = c \o (B \o (u \o v))
    <2> HIDE DEF c, u
    <2>1. \A p, q, r, s \in Seq(Call) : (((p \o q) \o r) \o <<>>) \o s = p \o (q \o (r \o s))
      BY RightFolded
    <2>2. (((c \o B) \o u) \o <<>>) \o v = c \o (B \o (u \o v))
      BY <1>2, <1>5, <2>1, SMTT(60)
    <2>3. QED BY <1>4, <2>2 DEF c, u
  <1>11. B \o w \in Seq(Call) /\ c \o (B \o w) \in Seq(Call)
    <2> HIDE DEF c, w
    <2>1. B \o w \in Seq(Call)
      BY <1>2, <1>9, ConcatProperties
    <2> DEFINE s == B \o w
    <2> HIDE DEF s
    <2>2. c \o s \in Seq(Call)
      BY <1>5, <2>1, ConcatProperties DEF s
    <2>3. QED BY <2>1, <2>2 DEF s
  <1>12. Late(a) = w
    BY DEF Late, x1, v
  <1>13. QED BY <1>1, <1>2, <1>3, <1>5, <1>7, <1>8, <1>9, <1>10, <1>11, <1>12
              DEF x0, x1, x2, x3, B, v

\* A request that has an answer keeps one.
Answering(r, T) == r.answer = T.answer \/ r.answer # None

LEMMA FormsAnswer ==
  ASSUME NEW t \in Tasks, task[t] \in Requested
  PROVE  /\ \A p : Answering(Then(t, p), task[t])
         /\ \A p, x : x # None => Answering([Then(t, p) EXCEPT !.answer = x], task[t])
         /\ \A x : Answering([Next1(t) EXCEPT !.got = x], task[t])
         /\ \A x : Answering([Next1(t) EXCEPT !.built = x], task[t])
         /\ \A at, s : Answering(Stay(t, at, s), task[t])
         /\ Answering(Next1(t), task[t]) /\ Answering(AfterFailure(t), task[t])
  <1>1. /\ \A p : Answering(Then(t, p), task[t])
        /\ \A p, x : x # None => Answering([Then(t, p) EXCEPT !.answer = x], task[t])
        /\ \A p, x, y : y # None => Answering([Then(t, p) EXCEPT !.built = x, !.answer = y], task[t])
    BY DEF Answering, Then, Requested
  <1>2. /\ Answering(Next1(t), task[t])
        /\ \A x : Answering([Next1(t) EXCEPT !.got = x], task[t])
        /\ \A x : Answering([Next1(t) EXCEPT !.built = x], task[t])
    BY DEF Answering, Next1, Then, Requested
  <1>3. \A at, s : Answering(Stay(t, at, s), task[t])
    BY DEF Answering, Stay, Requested
  <1>4. Answering(AfterFailure(t), task[t])
    <2>1. \/ AfterFailure(t) = [Then(t, DestroyProg(task[t].agent))
                                  EXCEPT !.built = FALSE, !.answer = "failed"]
          \/ AfterFailure(t) = Then(t, AfterMark(task[t].prog))
          \/ AfterFailure(t) = [Then(t, <<>>) EXCEPT !.answer = "failed"]
      BY DEF AfterFailure
    <2> DEFINE p == DestroyProg(task[t].agent)
    <2>2. Answering([Then(t, p) EXCEPT !.built = FALSE, !.answer = "failed"], task[t])
      <3> HIDE DEF p
      <3> QED BY AgentsAssumption DEF Answering, Then, Requested
    <2>3. Answering([Then(t, <<>>) EXCEPT !.answer = "failed"], task[t])
      BY AgentsAssumption DEF Answering, Then, Requested
    <2>4. Answering(Then(t, AfterMark(task[t].prog)), task[t])
      BY <1>1
    <2>5. QED
      <3> HIDE DEF p
      <3>1. AfterFailure(t) \in {[Then(t, p) EXCEPT !.built = FALSE, !.answer = "failed"],
                                 Then(t, AfterMark(task[t].prog)),
                                 [Then(t, <<>>) EXCEPT !.answer = "failed"]}
        BY <2>1 DEF p
      <3>2. QED BY <2>2, <2>3, <2>4, <3>1
  <1>5. QED BY <1>1, <1>2, <1>3, <1>4

LEMMA AnswerStays ==
  ASSUME Shapes, NEW t \in Tasks, Step(t) \/ StoreFails(t) \/ Crash(t)
  PROVE  task'[t] = Idle \/ Answering(task'[t], task[t])
  <1> DEFINE Goes == \E r : Becomes(t, r) /\ Answering(r, task[t])
  <1>0. task[t] \in Requested /\ DOMAIN task = Tasks
    BY DEF Shapes
  <1>1. ASSUME Exists(t) \/ Settings(t) \/ Activate(t) \/ ActivateStore(t) \/ Ensure(t)
               \/ Select(t) PROVE Goes
    BY <1>0, <1>1, FormsAnswer
       DEF Exists, Settings, Activate, ActivateStore, Ensure, Select, Advance, Fail
  <1>2. ASSUME Instantiate(t) \/ Built(t) PROVE Goes
    <2>1. PICK x : \/ Becomes(t, [Next1(t) EXCEPT !.got = x])
                   \/ Becomes(t, [Next1(t) EXCEPT !.built = x])
      <3>1. CASE Instantiate(t)
        <4>1. Next1(t).got = task[t].got /\ "got" \in DOMAIN Next1(t)
          BY <1>0 DEF Next1, Then, Requested
        <4>2. PICK y : Becomes(t, [Next1(t) EXCEPT !.got = @ \union y])
          BY <3>1 DEF Instantiate
        <4>3. QED BY <4>2
      <3>2. CASE Built(t)
        BY <3>2 DEF Built
      <3>3. QED BY <1>2, <3>1, <3>2
    <2>2. QED BY <1>0, <2>1, FormsAnswer
  <1>3. ASSUME Lookup(t) \/ StorePath(t) \/ ReadList(t) \/ StoreList(t) \/ Supported(t)
               \/ Check(t) \/ Initialize(t) \/ ClearProcedures(t) \/ EmbedProcedures(t)
               \/ Use(t) PROVE Goes
    BY <1>0, <1>3, FormsAnswer
       DEF Lookup, StorePath, ReadList, StoreList, Supported, Check, Initialize,
           ClearProcedures, EmbedProcedures, Use, Advance, Fail
  <1>4. ASSUME Memory(t) \/ Folder(t) \/ Collect(t) \/ Delete(t) \/ LockTimeout(t)
               \/ Purge(t) \/ Free(t) \/ Scan(t) \/ CopyRead(t) \/ CopyWrite(t)
               \/ CopyPoints(t) \/ AddPoints(t) \/ CopyFiles(t) \/ Mark(t) \/ Flush(t)
               \/ StoreFails(t) PROVE Goes
    BY <1>0, <1>4, FormsAnswer, AgentsAssumption
       DEF Memory, Folder, Collect, Delete, LockTimeout, Purge, Free, Scan, CopyRead,
           CopyWrite, CopyPoints, AddPoints, CopyFiles, Mark, Flush, StoreFails,
           Advance, Fail
  <1>5. CASE Goes
    BY <1>0, <1>5 DEF Becomes
  <1>6. CASE Finish(t) \/ Crash(t)
    BY <1>0, <1>6 DEF Finish, Crash
  <1>7. QED BY <1>1, <1>2, <1>3, <1>4, <1>5, <1>6 DEF Step

Made(T, a) ==
    \/ All(a) /\ Young(a) /\ T.prog \in {Late(a), Later(a), <<Do("procedures", a)>>}
    \/ T.prog = <<>> /\ Fresh(doc[a]) /\ data[a] \ OtherKeys = {"plugins", "procedures"}

\* Where a reset is: it removes the agent, or creates it again.
Resetting(T, a) ==
    \/ Removing(T, a, CreateProg(a, FALSE))
    \/ T.prog = CreateProg(a, FALSE) /\ Gone(a)
    \/ Filling(T, a, Late(a)) /\ Young(a)
    \/ Made(T, a)

\* A loading that has nothing left to load has loaded all.
LEMMA FilledIs ==
  ASSUME NEW T, NEW a \in Agents, NEW z \in Seq(Call), Filling(T, a, z)
  PROVE  \/ T.prog = z /\ T.at = "start" /\ All(a)
         \/ \E L \in Seq(PlainLoads(a)) : L # <<>> /\ T.prog = L \o z /\ Fills(T, a, L)
  <1>1. PICK L \in Seq(PlainLoads(a)) : T.prog = L \o z /\ Fills(T, a, L)
    BY DEF Filling
  <1>2. CASE L # <<>>
    BY <1>1, <1>2
  <1>3. CASE L = <<>>
    <2>1. Items(L) = {}
      <3>1. DOMAIN <<>> = {}
        BY EmptySeq
      <3>2. QED BY <1>3, <3>1 DEF Items
    <2>2. T.prog = z
      BY <1>1, <1>3, ConcatEmptySeq
    <2>3. T.at = "start" /\ All(a)
      BY <1>1, <1>3, <2>1 DEF Fills, All
    <2>4. QED BY <2>2, <2>3
  <1>4. QED BY <1>2, <1>3

LEMMA YoungKept ==
  ASSUME NEW a, Young(a), doc'[a] = doc[a], data'[a] = data[a]
  PROVE  Young(a)' /\ (All(a) => All(a)')
  BY DEF Young, All, HasKey

LEMMA MadeStep ==
  ASSUME Shapes, NEW t \in Tasks, Step(t) \/ StoreFails(t) \/ Crash(t),
         task[t].op # "factory", NEW a \in Agents, Made(task[t], a)
  PROVE  LET T == task[t]
             r == task'[t]
         IN \/ r = Idle \/ r.answer \in {"failed", "refused"}
            \/ r.answer = T.answer /\ Made(task[t], a)'
  <1> DEFINE T == task[t]
             r == task'[t]
             y == <<Do("procedures", a)>>
  <1>0. data \in [Agents -> SUBSET Kinds]
    BY DEF Shapes, Stores
  <1>1. CASE T.prog = <<>>
    BY <1>1, DoneMoves
  <1>2. CASE T.prog # <<>>
    <2>1. All(a) /\ Young(a) /\ T.prog \in {Late(a), Later(a), y}
      BY <1>2 DEF Made
    <2> HIDE DEF y
    <2>2. /\ Item(t).do \in {"built", "initialize", "procedures"} /\ Item(t).agent = a
          /\ Item(t).do = "built" => Tail(T.prog) = Later(a)
          /\ Item(t).do = "initialize" => Tail(T.prog) = y
          /\ Item(t).do = "procedures" => Tail(T.prog) = <<>>
      <3>1. /\ Head(Late(a)).do = "built" /\ Head(Late(a)).agent = a /\ Tail(Late(a)) = Later(a)
            /\ Head(Later(a)).do = "initialize" /\ Head(Later(a)).agent = a
            /\ Tail(Later(a)) = y
            /\ Head(y).do = "procedures" /\ Head(y).agent = a /\ Tail(y) = <<>>
        <4>1. /\ Head(Late(a)) = Do("built", a) /\ Tail(Late(a)) = Later(a)
              /\ Head(Later(a)) = Do("initialize", a)
          BY LateIs
        <4>2. Tail(Later(a)) = y /\ Head(y) = Do("procedures", a) /\ Tail(y) = <<>>
          BY LateIs DEF y
        <4>3. \A d : Do(d, a).do = d /\ Do(d, a).agent = a
          BY DEF Do
        <4>4. QED BY <4>1, <4>2, <4>3
      <3>2. QED BY <2>1, <3>1 DEF Item
    <2>3. \/ r = Idle \/ r.answer \in {"failed", "refused"}
          \/ /\ r.answer = T.answer /\ doc' = doc
             /\ \/ r.prog = Tail(T.prog) /\ data' = data /\ Item(t).do # "procedures"
                \/ /\ Item(t).do = "procedures" /\ r.prog = Tail(T.prog)
                   /\ data' = [data EXCEPT ![a] = @ \union {"procedures"}]
                \/ /\ Item(t).do = "procedures" /\ r.prog = T.prog
                   /\ data' = [data EXCEPT ![a] = @ \ {"procedures"}]
      BY <1>2, <2>2, LateMoves
    <2>4. ASSUME doc' = doc, data' = data, r.prog = Tail(T.prog), Item(t).do # "procedures"
          PROVE  Made(task[t], a)'
      <3>1. All(a)' /\ Young(a)'
        BY <2>1, <2>4, YoungKept
      <3>2. r.prog \in {Later(a), y}
        BY <2>2, <2>4
      <3>3. QED BY <3>1, <3>2 DEF Made, y
    <2>5. ASSUME doc' = doc, data' = [data EXCEPT ![a] = @ \union {"procedures"}],
                 r.prog = Tail(T.prog), Item(t).do = "procedures"
          PROVE  Made(task[t], a)'
      <3>1. r.prog = <<>>
        BY <2>2, <2>5
      <3>2. data'[a] \ OtherKeys = {"plugins", "procedures"}
        BY <1>0, <2>1, <2>5 DEF All, Young, OtherKeys
      <3>3. Fresh(doc[a]) /\ doc'[a] = doc[a]
        BY <2>1, <2>5, YoungIsFresh
      <3>4. Fresh(doc[a])'
        BY <3>3 DEF Fresh, OneEach
      <3>5. QED BY <3>1, <3>2, <3>4 DEF Made
    <2>6. ASSUME doc' = doc, data' = [data EXCEPT ![a] = @ \ {"procedures"}],
                 r.prog = T.prog
          PROVE  Made(task[t], a)'
      <3>1. doc'[a] = doc[a] /\ data'[a] = data[a]
        BY <1>0, <2>1, <2>6 DEF Young, OtherKeys
      <3>2. All(a)' /\ Young(a)'
        BY <2>1, <3>1, YoungKept
      <3>3. r.prog \in {Late(a), Later(a), y}
        BY <2>1, <2>6
      <3>4. QED BY <3>2, <3>3 DEF Made, y
    <2>7. QED BY <2>3, <2>4, <2>5, <2>6
  <1>3. QED BY <1>1, <1>2

LEMMA ResettingStep ==
  ASSUME Shapes, NEW t \in Tasks, Step(t) \/ StoreFails(t) \/ Crash(t),
         task[t].op # "factory", NEW a \in Agents, Resetting(task[t], a)
  PROVE  LET T == task[t]
             r == task'[t]
         IN \/ r = Idle \/ r.answer \in {"failed", "refused"}
            \/ r.answer = T.answer /\ Resetting(task[t], a)'
  <1> DEFINE T == task[t]
             r == task'[t]
             Ends == r = Idle \/ r.answer \in {"failed", "refused"}
             Same1 == r.answer = T.answer
  <1>1. /\ CreateProg(a, FALSE) \in Seq(Call) /\ Late(a) \in Seq(Call)
        /\ Do("check", a) \in Call /\ BuildProg(a) \in Seq(Call)
        /\ BuildProg(a) \o Late(a) \in Seq(Call)
        /\ CreateProg(a, FALSE) = <<Do("check", a)>> \o (BuildProg(a) \o Late(a))
        /\ Do("check", a).do = "check" /\ Do("check", a).agent = a
    <2>1. BuildProg(a) \in Seq(Call) /\ Late(a) \in Seq(Call)
      BY LateIs
    <2>2. BuildProg(a) \o Late(a) \in Seq(Call)
      BY <2>1, Assoc, SMTT(60)
    <2>3. QED BY <2>2, LateIs
  <1>2. CASE Removing(T, a, CreateProg(a, FALSE))
    <2>1. \/ Ends
          \/ Same1 /\ Removing(task[t], a, CreateProg(a, FALSE))'
          \/ Same1 /\ r.prog = CreateProg(a, FALSE) /\ Gone(a)'
      BY <1>1, <1>2, RemovingStep
    <2>2. QED BY <2>1 DEF Resetting
  <1>3. CASE T.prog = CreateProg(a, FALSE) /\ Gone(a)
    <2> DEFINE x == Do("check", a)
               w == BuildProg(a) \o Late(a)
    <2>1. T.prog # <<>> /\ Item(t) = x /\ Tail(T.prog) = w
      <3>1. T.prog = <<x>> \o w /\ x \in Call /\ w \in Seq(Call)
        BY <1>1, <1>3
      <3> HIDE DEF x, w
      <3>2. QED BY <3>1, HeadOfOne DEF Item
    <2>2. \/ Ends
          \/ Same1 /\ r.prog = w /\ doc' = doc /\ data' = data
      BY <1>1, <1>3, <2>1, CheckMoves
    <2>3. ASSUME r.prog = w, doc' = doc, data' = data
          PROVE  Filling(task[t], a, Late(a))' /\ Young(a)'
      <3>1. Fills(task[t], a, BuildProg(a)) /\ BuildProg(a) \in Seq(PlainLoads(a))
        BY FillsAtStart
      <3>2. Fills(task[t], a, BuildProg(a))'
        BY FillsAtStart
      <3>3. Filling(task[t], a, Late(a))'
        BY <2>3, <3>1, <3>2 DEF Filling
      <3>4. Young(a)
        BY <1>3, GoneIsYoung
      <3>5. Young(a)'
        BY <2>3, <3>4, YoungKept
      <3>6. QED BY <3>3, <3>5
    <2>4. QED BY <2>2, <2>3 DEF Resetting
  <1>4. CASE Made(T, a)
    BY <1>4, MadeStep DEF Resetting
  <1>5. CASE Filling(T, a, Late(a)) /\ Young(a)
    <2>1. CASE T.prog = Late(a) /\ All(a)
      <3>1. Made(T, a)
        BY <1>5, <2>1 DEF Made
      <3>2. QED BY <1>4, <3>1
    <2>2. ASSUME NEW L \in Seq(PlainLoads(a)), L # <<>>, T.prog = L \o Late(a),
                 Fills(T, a, L)
          PROVE  Ends \/ (Same1 /\ Resetting(task[t], a)')
      <3>1. Ends \/ (Same1 /\ Filling(task[t], a, Late(a))' /\ Grows(a))
        BY <1>1, <2>2, FillStep
      <3>2. Grows(a) => Young(a)'
        BY <1>5, YoungGrows
      <3>3. QED BY <3>1, <3>2 DEF Resetting
    <2>3. QED BY <1>1, <1>5, <2>1, <2>2, FilledIs
  <1>6. QED BY <1>2, <1>3, <1>4, <1>5 DEF Resetting

\* Where a destruction is.
Ending(T, a) == Removing(T, a, <<>>) \/ (T.prog = <<>> /\ Gone(a))

LEMMA EndingStep ==
  ASSUME Shapes, NEW t \in Tasks, Step(t) \/ StoreFails(t) \/ Crash(t),
         task[t].op # "factory", NEW a \in Agents, Ending(task[t], a)
  PROVE  LET T == task[t]
             r == task'[t]
         IN \/ r = Idle \/ r.answer \in {"failed", "refused"}
            \/ r.answer = T.answer /\ Ending(task[t], a)'
  <1> DEFINE T == task[t]
             r == task'[t]
  <1>1. CASE Removing(T, a, <<>>)
    <2>1. <<>> \in Seq(Call)
      BY EmptySeq
    <2>2. \/ r = Idle \/ r.answer \in {"failed", "refused"}
          \/ r.answer = T.answer /\ Removing(task[t], a, <<>>)'
          \/ r.answer = T.answer /\ r.prog = <<>> /\ Gone(a)'
      BY <1>1, <2>1, RemovingStep
    <2>3. QED BY <2>2 DEF Ending
  <1>2. CASE T.prog = <<>>
    BY <1>2, DoneMoves
  <1>3. QED BY <1>1, <1>2 DEF Ending

LEMMA StoredKept ==
  ASSUME NEW a, doc'[a] = doc[a], data'[a] = data[a]
  PROVE  /\ \A k : Stored(a, k)' <=> Stored(a, k)
         /\ \A k : HasKey(doc[a], k)' <=> HasKey(doc[a], k)
         /\ Gone(a)' <=> Gone(a)
         /\ Young(a)' <=> Young(a)
         /\ All(a)' <=> All(a)
         /\ Fresh(doc[a])' <=> Fresh(doc[a])
  BY DEF Stored, HasKey, Gone, Young, All, Fresh, OneEach

\* What another request does leaves a destruction and a reset where they are.
LEMMA RemovingKept ==
  ASSUME NEW t \in Tasks, NEW a, NEW z, task'[t] = task[t], doc'[a] = doc[a],
         data'[a] = data[a], Removing(task[t], a, z)
  PROVE  Removing(task[t], a, z)'
  <1>1. \A k : Stored(a, k)' <=> Stored(a, k)
    BY StoredKept
  <1>2. \A k : GoneTo(a, k) => GoneTo(a, k)'
    BY <1>1 DEF GoneTo
  <1>3. CASE Loading(task[t].prog, a, From(a, 1) \o z)
    BY <1>3 DEF Removing, Loading
  <1>4. ASSUME NEW k \in 1..8, task[t].prog = From(a, k) \o z, GoneTo(a, k),
               task[t].at = "empty" /\ Drops(a, k) => ~Stored(a, Part[k])
        PROVE  Removing(task[t], a, z)'
    <2>1. GoneTo(a, k)' /\ task'[t].prog = From(a, k) \o z
      BY <1>2, <1>4
    <2>2. task'[t].at = "empty" /\ Drops(a, k) => ~Stored(a, Part[k])'
      BY <1>1, <1>4
    <2>3. QED BY <2>1, <2>2 DEF Removing
  <1>5. QED BY <1>3, <1>4 DEF Removing

LEMMA FillingKept ==
  ASSUME NEW t \in Tasks, NEW a, NEW z, task'[t] = task[t], doc'[a] = doc[a],
         data'[a] = data[a], Filling(task[t], a, z)
  PROVE  Filling(task[t], a, z)'
  <1>1. PICK L \in Seq(PlainLoads(a)) : task[t].prog = L \o z /\ Fills(task[t], a, L)
    BY DEF Filling
  <1>2. \A k : HasKey(doc[a], k)' <=> HasKey(doc[a], k)
    BY StoredKept
  <1>3. \A i : Heads(task[t], a, i) => Heads(task[t], a, i)'
    BY <1>2 DEF Heads
  <1>4. Fills(task[t], a, L)'
    BY <1>1, <1>2, <1>3 DEF Fills
  <1>5. QED BY <1>1, <1>4 DEF Filling

LEMMA EndingKept ==
  ASSUME NEW t \in Tasks, NEW a, task'[t] = task[t], doc'[a] = doc[a], data'[a] = data[a]
  PROVE  /\ Ending(task[t], a) => Ending(task[t], a)'
         /\ Resetting(task[t], a) => Resetting(task[t], a)'
  <1>1. \A z : Removing(task[t], a, z) => Removing(task[t], a, z)'
    BY RemovingKept
  <1>2. Filling(task[t], a, Late(a)) => Filling(task[t], a, Late(a))'
    BY FillingKept
  <1>3. /\ Gone(a)' <=> Gone(a)
        /\ Young(a)' <=> Young(a)
        /\ All(a)' <=> All(a)
        /\ Fresh(doc[a])' <=> Fresh(doc[a])
    BY StoredKept
  <1>4. Made(task[t], a) => Made(task[t], a)'
    BY <1>3 DEF Made
  <1>5. Removing(task[t], a, <<>>) => Removing(task[t], a, <<>>)'
    BY RemovingKept
  <1>6. Removing(task[t], a, CreateProg(a, FALSE)) => Removing(task[t], a, CreateProg(a, FALSE))'
    BY RemovingKept
  <1>7. QED BY <1>2, <1>3, <1>4, <1>5, <1>6 DEF Ending, Resetting

\* The program a request starts with.
LEMMA RequestIs ==
  ASSUME NEW v \in Tasks, Request(v)
  PROVE  \E op, a, b, prog :
           /\ Start(v, op, a, b, prog)
           /\ op = "destroy" => a \in Agents /\ prog = LoadProg(a) \o DestroyProg(a)
           /\ op = "reset" => /\ a \in Agents
                              /\ prog = LoadProg(a) \o DestroyProg(a) \o CreateProg(a, FALSE)
           /\ op = "clone" => /\ a \in Agents /\ b \in Agents \ {a}
                              /\ prog = LoadProg(a) \o CloneProg(a, b)
  <1> DEFINE P(op, a, b, prog) ==
               /\ Start(v, op, a, b, prog)
               /\ op = "destroy" => a \in Agents /\ prog = LoadProg(a) \o DestroyProg(a)
               /\ op = "reset" => /\ a \in Agents
                                  /\ prog = LoadProg(a) \o DestroyProg(a) \o CreateProg(a, FALSE)
               /\ op = "clone" => /\ a \in Agents /\ b \in Agents \ {a}
                                  /\ prog = LoadProg(a) \o CloneProg(a, b)
             Is == \E op, a, b, prog : P(op, a, b, prog)
  <1>0. \A op, a, b, prog : P(op, a, b, prog) => Is
    OBVIOUS
  <1>1. \A op, a, b, prog :
          Start(v, op, a, b, prog) /\ op \notin {"destroy", "reset", "clone"} => P(op, a, b, prog)
    OBVIOUS
  <1> DEFINE Other == \E op, x, b, prog : /\ Start(v, op, x, b, prog)
                                         /\ op \notin {"destroy", "reset", "clone"}
  <1>2. \A op, x, b, prog :
          Start(v, op, x, b, prog) /\ op \notin {"destroy", "reset", "clone"} => Other
    OBVIOUS
  <1>3. Other => Is
    BY <1>0, <1>1
  <1> HIDE DEF P, Other, Is
  <1>4. ASSUME NEW a \in Agents, Create(v, a) \/ Update(v, a) \/ (\E k \in Uses : UseAgent(v, a, k))
               \/ \E c \in Categories, i \in {"default", "custom"} : Replace(v, a, c, i)
        PROVE  Other
    <2>1. Create(v, a) \/ Update(v, a) => Other
      BY <1>2 DEF Create, Update
    <2>2. ASSUME NEW k, UseAgent(v, a, k) PROVE Other
      BY <1>2, <2>2 DEF UseAgent
    <2>3. ASSUME NEW c, NEW i, Replace(v, a, c, i) PROVE Other
      BY <1>2, <2>3 DEF Replace
    <2>4. QED BY <1>4, <2>1, <2>2, <2>3
  <1>5. ASSUME FactoryReset(v)
        PROVE  Other
    BY <1>2, <1>5 DEF FactoryReset
  <1>6. ASSUME NEW a \in Agents, Destroy(v, a)
        PROVE  P("destroy", a, None, LoadProg(a) \o DestroyProg(a))
    BY <1>6 DEF Destroy, P
  <1>7. ASSUME NEW a \in Agents, Reset(v, a)
        PROVE  P("reset", a, None, LoadProg(a) \o DestroyProg(a) \o CreateProg(a, FALSE))
    BY <1>7 DEF Reset, P
  <1>8. ASSUME NEW a \in Agents, NEW b \in Agents \ {a}, Clone(v, a, b)
        PROVE  P("clone", a, b, LoadProg(a) \o CloneProg(a, b))
    BY <1>8 DEF Clone, P
  <1>9. Is
    <2>1. \/ \E a \in Agents : \/ Create(v, a) \/ Update(v, a) \/ \E k \in Uses : UseAgent(v, a, k)
                               \/ \E c \in Categories, i \in {"default", "custom"} : Replace(v, a, c, i)
          \/ FactoryReset(v)
          \/ \E a \in Agents : Destroy(v, a)
          \/ \E a \in Agents : Reset(v, a)
          \/ \E a \in Agents : \E b \in Agents \ {a} : Clone(v, a, b)
      BY DEF Request
    <2>2. CASE \E a \in Agents : Destroy(v, a)
      BY <1>0, <1>6, <2>2
    <2>3. CASE \E a \in Agents : Reset(v, a)
      BY <1>0, <1>7, <2>3
    <2>4. CASE \E a \in Agents : \E b \in Agents \ {a} : Clone(v, a, b)
      BY <1>0, <1>8, <2>4
    <2>5. QED BY <1>4, <1>5, <1>3, <2>1, <2>2, <2>3, <2>4
  <1>10. QED BY <1>9 DEF P, Is

LEMMA MoreAfter ==
  \A p, q \in Seq(Call) : q # <<>> => p \o q # <<>> /\ p \o q \in Seq(Call)
  <1> SUFFICES ASSUME NEW p \in Seq(Call), NEW q \in Seq(Call), q # <<>>
               PROVE  p \o q # <<>> /\ p \o q \in Seq(Call)
    OBVIOUS
  <1>1. Len(p) \in Nat /\ Len(q) \in Nat \ {0} /\ Len(<<>>) = 0
    BY LenProperties, EmptySeq
  <1>2. p \o q \in Seq(Call) /\ Len(p \o q) = Len(p) + Len(q)
    BY ConcatProperties
  <1>3. QED BY <1>1, <1>2

\* A destruction under way is not done.
LEMMA RemovingMore ==
  ASSUME NEW T, NEW a \in Agents, NEW z \in Seq(Call), Removing(T, a, z)
  PROVE  T.prog # <<>>
  <1>1. ASSUME NEW k \in 1..8
        PROVE  From(a, k) \o z # <<>> /\ From(a, k) \o z \in Seq(Call)
    <2> DEFINE x == DestroyProg(a)[k]
               m == k + 1
               w == From(a, m)
    <2>1. x \in Call
      BY DestroyItems
    <2>2. m \in 1..9
      OBVIOUS
    <2>3. From(a, k) = <<x>> \o w
      BY FromIs
    <2> HIDE DEF m, x
    <2>4. w \in Seq(Call)
      BY <2>2, FromIs
    <2> HIDE DEF w
    <2> DEFINE p == (<<x>> \o w) \o z
    <2>5. p # <<>>
      <3>1. p = (<<x>> \o w) \o z
        OBVIOUS
      <3> HIDE DEF p
      <3>2. QED BY <2>1, <2>4, <3>1, HeadOfCalls
    <2>6. From(a, k) \in Seq(Call)
      <3>1. k \in 1..9
        OBVIOUS
      <3>2. QED BY <3>1, FromIs
    <2>7. From(a, k) \o z \in Seq(Call)
      BY <2>6, ConcatProperties
    <2>8. QED BY <2>3, <2>5, <2>7
  <1>2. CASE Loading(T.prog, a, From(a, 1) \o z)
    <2> DEFINE y == From(a, 1) \o z
    <2>1. PICK L \in Seq(PlainLoads(a)) : T.prog = L \o y
      BY <1>2 DEF Loading
    <2>2. y # <<>> /\ y \in Seq(Call)
      <3> DEFINE k == 1
      <3>1. k \in 1..8 /\ y = From(a, k) \o z
        OBVIOUS
      <3> HIDE DEF k, y
      <3>2. QED BY <1>1, <3>1
    <2>3. L \in Seq(Call)
      BY PlainLoadItems
    <2> HIDE DEF y
    <2>4. QED BY <2>1, <2>2, <2>3, MoreAfter
  <1>3. QED BY <1>1, <1>2 DEF Removing

-----------------------------------------------------------------------------
(* A clone has what the agent it is made of has. *)

LEMMA FreeMoves ==
  ASSUME Shapes, NEW t \in Tasks, Step(t) \/ StoreFails(t) \/ Crash(t),
         task[t].op # "factory", task[t].prog # <<>>, Item(t).do = "free"
  PROVE  LET T == task[t]
             r == task'[t]
             i == Item(t)
             goes == r.prog = Tail(T.prog) /\ r.at = "start"
             keep == doc' = doc /\ data' = data
         IN \/ r = Idle \/ r.answer \in {"failed", "refused"}
            \/ r.answer = T.answer /\
                 \/ goes /\ keep /\ i.agent \notin MainKeys
  <1> DEFINE T == task[t]
             r == task'[t]
             i == Item(t)
             goes == r.prog = Tail(T.prog) /\ r.at = "start"
             keep == doc' = doc /\ data' = data
             Failed == r = Idle \/ r.answer \in {"failed", "refused"}
             Passes == r.answer = T.answer /\ (goes /\ keep /\ i.agent \notin MainKeys)
  <1> SUFFICES Failed \/ Passes
    OBVIOUS
  <1>0. T \in Requested /\ DOMAIN task = Tasks
    BY DEF Shapes
  <1>1. Advance(t) => goes /\ r.answer = T.answer
    BY <1>0, ThenIs DEF Advance, Becomes, Next1
  <1>2. Fail(t) => Failed
    BY <1>0, FailIs DEF Fail, Becomes
  <1>3. \A at, s : Becomes(t, Stay(t, at, s))
          => r.prog = T.prog /\ r.at = at /\ r.seen = s /\ r.answer = T.answer
    <2> TAKE at, s
    <2>1. QED BY <1>0, StayForms DEF Becomes
  <1>4. \A p : Becomes(t, Then(t, p)) => r.prog = p /\ r.at = "start" /\ r.answer = T.answer
    <2> TAKE p
    <2>1. QED BY <1>0, ThenIs DEF Becomes
  <1>5. CASE Free(t)
    <2>1. CASE i.agent \in MainKeys
      <3>1. r = [Then(t, <<>>) EXCEPT !.answer = "refused"]
        BY <1>0, <1>5, <2>1 DEF Free, Becomes
      <3>2. r.answer = "refused"
        BY <1>0, <3>1 DEF Then, Requested
      <3>3. QED BY <3>2
    <2>2. CASE i.agent \notin MainKeys
      BY <1>1, <1>5, <2>2 DEF Free, UNCHANGED_store
    <2>3. QED BY <2>1, <2>2
  <1>6. Step(t) => Free(t)
    BY DEF Step, At, IsUpsert, Exists, Settings, Activate, ActivateStore, Ensure,
       Select, Instantiate, Lookup, StorePath, ReadList, StoreList, Supported, Check,
       Built, Initialize, ClearProcedures, EmbedProcedures, Use, Memory, Folder,
       Collect, Delete, LockTimeout, Purge, Scan, CopyRead, CopyWrite, CopyPoints,
       AddPoints, CopyFiles, Mark, Flush, Finish
  <1> HIDE DEF Failed, Passes
  <1>7. (StoreFails(t) \/ Crash(t)) => Failed
    BY <1>0, <1>2 DEF StoreFails, Crash, Failed
  <1>8. QED BY <1>5, <1>6, <1>7

CopyKinds == {"settings", "plugins", "users", "rows"}
Scanned(p, w, a) ==
    \E C \in Seq({On("copy", a, k) : k \in CopyKinds}) :
       /\ p = C \o w
       /\ \A k \in CopyKinds : Stored(a, k) => On("copy", a, k) \in Items(C)

LEMMA ScanMoves ==
  ASSUME Shapes, NEW t \in Tasks, Step(t) \/ StoreFails(t) \/ Crash(t),
         task[t].op # "factory", task[t].prog # <<>>, Item(t).do = "scan",
         NEW a, Item(t).agent = a
  PROVE  LET T == task[t]
             r == task'[t]
             i == Item(t)
             goes == r.prog = Tail(T.prog) /\ r.at = "start"
             keep == doc' = doc /\ data' = data
         IN \/ r = Idle \/ r.answer \in {"failed", "refused"}
            \/ r.answer = T.answer /\
                 \/ keep /\ r.at = "start" /\ Scanned(r.prog, Tail(T.prog), a)
  <1> DEFINE T == task[t]
             r == task'[t]
             i == Item(t)
             goes == r.prog = Tail(T.prog) /\ r.at = "start"
             keep == doc' = doc /\ data' = data
             Failed == r = Idle \/ r.answer \in {"failed", "refused"}
             Copies == r.answer = T.answer /\ (keep /\ r.at = "start" /\ Scanned(r.prog, Tail(T.prog), a))
  <1> SUFFICES Failed \/ Copies
    OBVIOUS
  <1>0. T \in Requested /\ DOMAIN task = Tasks
    BY DEF Shapes
  <1>1. Advance(t) => goes /\ r.answer = T.answer
    BY <1>0, ThenIs DEF Advance, Becomes, Next1
  <1>2. Fail(t) => Failed
    BY <1>0, FailIs DEF Fail, Becomes
  <1>3. \A at, s : Becomes(t, Stay(t, at, s))
          => r.prog = T.prog /\ r.at = at /\ r.seen = s /\ r.answer = T.answer
    <2> TAKE at, s
    <2>1. QED BY <1>0, StayForms DEF Becomes
  <1>4. \A p : Becomes(t, Then(t, p)) => r.prog = p /\ r.at = "start" /\ r.answer = T.answer
    <2> TAKE p
    <2>1. QED BY <1>0, ThenIs DEF Becomes
  <1>5. CASE Scan(t)
    <2> DEFINE K == {k \in CopyKinds : Stored(a, k)}
               q == SetToSeq(K)
               C == [n \in DOMAIN q |-> On("copy", a, q[n])]
    <2>1. Becomes(t, Then(t, C \o Tail(T.prog))) /\ keep
      BY <1>5 DEF Scan, CopyKinds, UNCHANGED_store
    <2>2. r.prog = C \o Tail(T.prog) /\ r.at = "start" /\ r.answer = T.answer
      BY <1>4, <2>1
    <2>3. /\ C \in Seq({On("copy", a, k) : k \in K})
          /\ \A k \in K : \E n \in DOMAIN C : C[n] = On("copy", a, k)
      <3>1. K \in SUBSET {"settings", "plugins", "users", "rows"}
        BY DEF CopyKinds
      <3> HIDE DEF K
      <3>2. QED BY <3>1, CopiesAre
    <2>4. {On("copy", a, k) : k \in K} \subseteq {On("copy", a, k) : k \in CopyKinds}
      OBVIOUS
    <2> DEFINE A == {On("copy", a, k) : k \in K}
               B == {On("copy", a, k) : k \in CopyKinds}
    <2>5. C \in Seq(B)
      <3> HIDE DEF C, A, B
      <3>1. C \in Seq(A) /\ A \subseteq B
        BY <2>3, <2>4 DEF A, B
      <3>2. QED BY <3>1, SeqMonotonic
    <2>6. \A k \in CopyKinds : Stored(a, k) => On("copy", a, k) \in Items(C)
      <3> HIDE DEF C
      <3>1. \A k \in CopyKinds : Stored(a, k) => k \in K
        OBVIOUS
      <3>2. QED BY <2>3, <3>1 DEF Items
    <2> HIDE DEF C
    <2>7. Scanned(r.prog, Tail(T.prog), a)
      BY <2>2, <2>5, <2>6 DEF Scanned
    <2>8. QED BY <2>1, <2>2, <2>7
  <1>6. Step(t) => Scan(t)
    BY DEF Step, At, IsUpsert, Exists, Settings, Activate, ActivateStore, Ensure,
       Select, Instantiate, Lookup, StorePath, ReadList, StoreList, Supported, Check,
       Built, Initialize, ClearProcedures, EmbedProcedures, Use, Memory, Folder,
       Collect, Delete, LockTimeout, Purge, Free, CopyRead, CopyWrite, CopyPoints,
       AddPoints, CopyFiles, Mark, Flush, Finish
  <1> HIDE DEF Failed, Copies
  <1>7. (StoreFails(t) \/ Crash(t)) => Failed
    BY <1>0, <1>2 DEF StoreFails, Crash, Failed
  <1>8. QED BY <1>5, <1>6, <1>7

LEMMA CopyMoves ==
  ASSUME Shapes, NEW t \in Tasks, Step(t) \/ StoreFails(t) \/ Crash(t),
         task[t].op # "factory", task[t].prog # <<>>, Item(t).do = "copy", SubstringIds = {}
  PROVE  LET T == task[t]
             r == task'[t]
             i == Item(t)
             goes == r.prog = Tail(T.prog) /\ r.at = "start"
             keep == doc' = doc /\ data' = data
         IN \/ r = Idle \/ r.answer \in {"failed", "refused"}
            \/ r.answer = T.answer /\
                 \/ goes /\ keep /\ ~Stored(i.agent, i.key)
                 \/ /\ r.prog = T.prog /\ r.at = "read" /\ keep
                    /\ i.key = "settings" => r.seen = Entries(doc[i.agent])
                 \/ /\ goes /\ T.at = "read"
                    /\ \/ i.key = "settings" /\ doc' = [doc EXCEPT ![T.to] = T.seen] /\ data' = data
                       \/ /\ i.key # "settings" /\ doc' = doc
                          /\ data' = [data EXCEPT ![T.to] = @ \union {i.key}]
  <1> DEFINE T == task[t]
             r == task'[t]
             i == Item(t)
             goes == r.prog = Tail(T.prog) /\ r.at = "start"
             keep == doc' = doc /\ data' = data
             Failed == r = Idle \/ r.answer \in {"failed", "refused"}
             Skips == r.answer = T.answer /\ (goes /\ keep /\ ~Stored(i.agent, i.key))
             Reads == r.answer = T.answer /\ (
                    /\ r.prog = T.prog /\ r.at = "read" /\ keep
                    /\ i.key = "settings" => r.seen = Entries(doc[i.agent]))
             Writes == r.answer = T.answer /\ (
                    /\ goes /\ T.at = "read"
                    /\ \/ i.key = "settings" /\ doc' = [doc EXCEPT ![T.to] = T.seen] /\ data' = data
                       \/ /\ i.key # "settings" /\ doc' = doc
                          /\ data' = [data EXCEPT ![T.to] = @ \union {i.key}])
  <1> SUFFICES Failed \/ Skips \/ Reads \/ Writes
    OBVIOUS
  <1>0. T \in Requested /\ DOMAIN task = Tasks
    BY DEF Shapes
  <1>1. Advance(t) => goes /\ r.answer = T.answer
    BY <1>0, ThenIs DEF Advance, Becomes, Next1
  <1>2. Fail(t) => Failed
    BY <1>0, FailIs DEF Fail, Becomes
  <1>3. \A at, s : Becomes(t, Stay(t, at, s))
          => r.prog = T.prog /\ r.at = at /\ r.seen = s /\ r.answer = T.answer
    <2> TAKE at, s
    <2>1. QED BY <1>0, StayForms DEF Becomes
  <1>4. \A p : Becomes(t, Then(t, p)) => r.prog = p /\ r.at = "start" /\ r.answer = T.answer
    <2> TAKE p
    <2>1. QED BY <1>0, ThenIs DEF Becomes
  <1>5. CASE CopyRead(t)
    BY <1>1, <1>3, <1>5 DEF CopyRead, UNCHANGED_store
  <1>6. CASE CopyWrite(t)
    <2>1. data = [data EXCEPT ![T.to] = @]
      BY DEF Shapes, Stores
    <2>2. QED BY <1>1, <1>6, <2>1 DEF CopyWrite, At
  <1>7. Step(t) => CopyRead(t) \/ CopyWrite(t)
    BY DEF Step, At, IsUpsert, Exists, Settings, Activate, ActivateStore, Ensure,
       Select, Instantiate, Lookup, StorePath, ReadList, StoreList, Supported, Check,
       Built, Initialize, ClearProcedures, EmbedProcedures, Use, Memory, Folder,
       Collect, Delete, LockTimeout, Purge, Free, Scan, CopyPoints, AddPoints,
       CopyFiles, Mark, Flush, Finish
  <1> HIDE DEF Failed, Skips, Reads, Writes
  <1>8. (StoreFails(t) \/ Crash(t)) => Failed
    BY <1>0, <1>2 DEF StoreFails, Crash, Failed
  <1>9. QED BY <1>5, <1>6, <1>7, <1>8

LEMMA PointsMoves ==
  ASSUME Shapes, NEW t \in Tasks, Step(t) \/ StoreFails(t) \/ Crash(t),
         task[t].op # "factory", task[t].prog # <<>>, Item(t).do = "copyPoints"
  PROVE  LET T == task[t]
             r == task'[t]
             i == Item(t)
             goes == r.prog = Tail(T.prog) /\ r.at = "start"
             keep == doc' = doc /\ data' = data
         IN \/ r = Idle \/ r.answer \in {"failed", "refused"}
            \/ r.answer = T.answer /\
                 \/ goes /\ keep /\ "points" \notin data[i.agent]
                 \/ r.prog = T.prog /\ keep
                 \/ /\ goes /\ doc' = doc
                    /\ data' = [data EXCEPT ![T.to] = @ \union {"points"}]
  <1> DEFINE T == task[t]
             r == task'[t]
             i == Item(t)
             goes == r.prog = Tail(T.prog) /\ r.at = "start"
             keep == doc' = doc /\ data' = data
             Failed == r = Idle \/ r.answer \in {"failed", "refused"}
             Skips == r.answer = T.answer /\ (goes /\ keep /\ "points" \notin data[i.agent])
             Reads == r.answer = T.answer /\ (r.prog = T.prog /\ keep)
             Adds == r.answer = T.answer /\ (
                    /\ goes /\ doc' = doc
                    /\ data' = [data EXCEPT ![T.to] = @ \union {"points"}])
  <1> SUFFICES Failed \/ Skips \/ Reads \/ Adds
    OBVIOUS
  <1>0. T \in Requested /\ DOMAIN task = Tasks
    BY DEF Shapes
  <1>1. Advance(t) => goes /\ r.answer = T.answer
    BY <1>0, ThenIs DEF Advance, Becomes, Next1
  <1>2. Fail(t) => Failed
    BY <1>0, FailIs DEF Fail, Becomes
  <1>3. \A at, s : Becomes(t, Stay(t, at, s))
          => r.prog = T.prog /\ r.at = at /\ r.seen = s /\ r.answer = T.answer
    <2> TAKE at, s
    <2>1. QED BY <1>0, StayForms DEF Becomes
  <1>4. \A p : Becomes(t, Then(t, p)) => r.prog = p /\ r.at = "start" /\ r.answer = T.answer
    <2> TAKE p
    <2>1. QED BY <1>0, ThenIs DEF Becomes
  <1>5. CASE CopyPoints(t)
    BY <1>1, <1>3, <1>5 DEF CopyPoints, UNCHANGED_store
  <1>6. CASE AddPoints(t)
    BY <1>1, <1>6 DEF AddPoints
  <1>7. Step(t) => CopyPoints(t) \/ AddPoints(t)
    BY DEF Step, At, IsUpsert, Exists, Settings, Activate, ActivateStore, Ensure,
       Select, Instantiate, Lookup, StorePath, ReadList, StoreList, Supported, Check,
       Built, Initialize, ClearProcedures, EmbedProcedures, Use, Memory, Folder,
       Collect, Delete, LockTimeout, Purge, Free, Scan, CopyRead, CopyWrite, CopyFiles,
       Mark, Flush, Finish
  <1> HIDE DEF Failed, Skips, Reads, Adds
  <1>8. (StoreFails(t) \/ Crash(t)) => Failed
    BY <1>0, <1>2 DEF StoreFails, Crash, Failed
  <1>9. QED BY <1>5, <1>6, <1>7, <1>8

LEMMA FilesMoves ==
  ASSUME Shapes, NEW t \in Tasks, Step(t) \/ StoreFails(t) \/ Crash(t),
         task[t].op # "factory", task[t].prog # <<>>, Item(t).do = "copyFiles"
  PROVE  LET T == task[t]
             r == task'[t]
             i == Item(t)
             goes == r.prog = Tail(T.prog) /\ r.at = "start"
             keep == doc' = doc /\ data' = data
         IN \/ r = Idle \/ r.answer \in {"failed", "refused"}
            \/ r.answer = T.answer /\
                 \/ /\ goes /\ doc' = doc
                    /\ data' = [data EXCEPT ![T.to] = @ \union (data[i.agent] \cap {"files"})]
  <1> DEFINE T == task[t]
             r == task'[t]
             i == Item(t)
             goes == r.prog = Tail(T.prog) /\ r.at = "start"
             keep == doc' = doc /\ data' = data
             Failed == r = Idle \/ r.answer \in {"failed", "refused"}
             Adds == r.answer = T.answer /\ (
                    /\ goes /\ doc' = doc
                    /\ data' = [data EXCEPT ![T.to] = @ \union (data[i.agent] \cap {"files"})])
  <1> SUFFICES Failed \/ Adds
    OBVIOUS
  <1>0. T \in Requested /\ DOMAIN task = Tasks
    BY DEF Shapes
  <1>1. Advance(t) => goes /\ r.answer = T.answer
    BY <1>0, ThenIs DEF Advance, Becomes, Next1
  <1>2. Fail(t) => Failed
    BY <1>0, FailIs DEF Fail, Becomes
  <1>3. \A at, s : Becomes(t, Stay(t, at, s))
          => r.prog = T.prog /\ r.at = at /\ r.seen = s /\ r.answer = T.answer
    <2> TAKE at, s
    <2>1. QED BY <1>0, StayForms DEF Becomes
  <1>4. \A p : Becomes(t, Then(t, p)) => r.prog = p /\ r.at = "start" /\ r.answer = T.answer
    <2> TAKE p
    <2>1. QED BY <1>0, ThenIs DEF Becomes
  <1>5. CASE CopyFiles(t)
    BY <1>1, <1>5 DEF CopyFiles
  <1>6. Step(t) => CopyFiles(t)
    BY DEF Step, At, IsUpsert, Exists, Settings, Activate, ActivateStore, Ensure,
       Select, Instantiate, Lookup, StorePath, ReadList, StoreList, Supported, Check,
       Built, Initialize, ClearProcedures, EmbedProcedures, Use, Memory, Folder,
       Collect, Delete, LockTimeout, Purge, Free, Scan, CopyRead, CopyWrite, CopyPoints,
       AddPoints, Mark, Flush, Finish
  <1> HIDE DEF Failed, Adds
  <1>7. (StoreFails(t) \/ Crash(t)) => Failed
    BY <1>0, <1>2 DEF StoreFails, Crash, Failed
  <1>8. QED BY <1>5, <1>6, <1>7

\* What a clone does after the copy of the settings: the new agent is loaded,
\* and gets points, procedures and files.
FilesLeft(a, b) == <<Do("copyFiles", a)>>
ProceduresLeft(a, b) == <<Do("procedures", b)>> \o FilesLeft(a, b)
PointsLeft(a, b) == <<Do("copyPoints", a)>> \o ProceduresLeft(a, b)
AfterLoad(a, b) == <<Do("initialize", b)>> \o PointsLeft(a, b)
LoadLeft(a, b) == LoadProg(b) \o AfterLoad(a, b)
ScanLeft(a, b) == <<Do("scan", a)>> \o LoadLeft(a, b)

LEMMA FourIs ==
  \A x1, x2, x3, x4 \in Call :
     <<x1, x2, x3, x4>> = <<x1>> \o (<<x2>> \o (<<x3>> \o <<x4>>))
  <1> SUFFICES ASSUME NEW x1 \in Call, NEW x2 \in Call, NEW x3 \in Call, NEW x4 \in Call
               PROVE  <<x1, x2, x3, x4>> = <<x1>> \o (<<x2>> \o (<<x3>> \o <<x4>>))
    OBVIOUS
  <1> DEFINE p == <<x1, x2, x3, x4>>
             q == <<x2, x3, x4>>
             r == <<x3, x4>>
  <1>1. p \in Seq(Call) /\ p # <<>> /\ Head(p) = x1 /\ Tail(p) = q
    OBVIOUS
  <1>2. q \in Seq(Call) /\ q # <<>> /\ Head(q) = x2 /\ Tail(q) = r
    OBVIOUS
  <1>3. <<x3>> \o <<x4>> = r
    BY Pair
  <1> HIDE DEF p, q, r
  <1>4. p = <<x1>> \o q
    BY <1>1, HeadAndTail
  <1>5. q = <<x2>> \o r
    BY <1>2, HeadAndTail
  <1>6. QED BY <1>3, <1>4, <1>5 DEF p

LEMMA CloneIs ==
  ASSUME NEW a \in Agents, NEW b \in Agents
  PROVE  /\ Do("free", b) \in Call /\ Do("scan", a) \in Call /\ Do("initialize", b) \in Call
         /\ Do("copyPoints", a) \in Call /\ Do("procedures", b) \in Call
         /\ Do("copyFiles", a) \in Call
         /\ FilesLeft(a, b) \in Seq(Call) /\ ProceduresLeft(a, b) \in Seq(Call)
         /\ PointsLeft(a, b) \in Seq(Call) /\ AfterLoad(a, b) \in Seq(Call)
         /\ LoadLeft(a, b) \in Seq(Call) /\ ScanLeft(a, b) \in Seq(Call)
         /\ CloneProg(a, b) = <<Do("free", b)>> \o ScanLeft(a, b)
         /\ CloneProg(a, b) \in Seq(Call)
  <1>1. \A d \in Dos, x \in Agents : Do(d, x) \in Call
    BY DEF Do, Call
  <1> DEFINE f == Do("free", b)
             s == Do("scan", a)
             x1 == Do("initialize", b)
             x2 == Do("copyPoints", a)
             x3 == Do("procedures", b)
             x4 == Do("copyFiles", a)
             B == LoadProg(b)
  <1>2. /\ f \in Call /\ s \in Call /\ x1 \in Call /\ x2 \in Call /\ x3 \in Call /\ x4 \in Call
    BY DEF Do, Call, Dos
  <1>3. B \in Seq(Call)
    BY LoadsAreCalls
  <1>4. CloneProg(a, b) = (<<f, s>> \o B) \o <<x1, x2, x3, x4>>
    BY DEF CloneProg
  <1>5. /\ FilesLeft(a, b) = <<x4>> /\ ProceduresLeft(a, b) = <<x3>> \o FilesLeft(a, b)
        /\ PointsLeft(a, b) = <<x2>> \o ProceduresLeft(a, b)
        /\ AfterLoad(a, b) = <<x1>> \o PointsLeft(a, b)
        /\ LoadLeft(a, b) = B \o AfterLoad(a, b)
        /\ ScanLeft(a, b) = <<s>> \o LoadLeft(a, b)
    BY DEF FilesLeft, ProceduresLeft, PointsLeft, AfterLoad, LoadLeft, ScanLeft
  <1> HIDE DEF f, s, x1, x2, x3, x4, B
  <1>6. /\ FilesLeft(a, b) \in Seq(Call) /\ ProceduresLeft(a, b) \in Seq(Call)
        /\ PointsLeft(a, b) \in Seq(Call) /\ AfterLoad(a, b) \in Seq(Call)
    <2>1. FilesLeft(a, b) \in Seq(Call)
      BY <1>2, <1>5
    <2>2. ProceduresLeft(a, b) \in Seq(Call)
      BY <1>2, <1>5, <2>1, HeadOfOne
    <2>3. PointsLeft(a, b) \in Seq(Call)
      BY <1>2, <1>5, <2>2, HeadOfOne
    <2>4. AfterLoad(a, b) \in Seq(Call)
      BY <1>2, <1>5, <2>3, HeadOfOne
    <2>5. QED BY <2>1, <2>2, <2>3, <2>4
  <1>7. LoadLeft(a, b) \in Seq(Call)
    BY <1>3, <1>5, <1>6, ConcatProperties
  <1>8. ScanLeft(a, b) \in Seq(Call)
    BY <1>2, <1>5, <1>7, HeadOfOne
  <1>9. AfterLoad(a, b) = <<x1, x2, x3, x4>>
    <2>1. <<x1, x2, x3, x4>> = <<x1>> \o (<<x2>> \o (<<x3>> \o <<x4>>))
      <3>1. PICK y1, y2, y3, y4 : y1 = x1 /\ y2 = x2 /\ y3 = x3 /\ y4 = x4
        OBVIOUS
      <3>2. y1 \in Call /\ y2 \in Call /\ y3 \in Call /\ y4 \in Call
        BY <1>2, <3>1
      <3>3. <<y1, y2, y3, y4>> = <<y1>> \o (<<y2>> \o (<<y3>> \o <<y4>>))
        BY <3>2, FourIs, SMTT(60)
      <3>4. QED BY <3>1, <3>3
    <2>2. AfterLoad(a, b) = <<x1>> \o (<<x2>> \o (<<x3>> \o <<x4>>))
      BY <1>5
    <2>3. QED BY <2>1, <2>2
  <1>10. CloneProg(a, b) = <<f>> \o ScanLeft(a, b)
    <2>1. PICK F, S, E : F = <<f>> /\ S = <<s>> /\ E = AfterLoad(a, b)
      OBVIOUS
    <2>2. F \in Seq(Call) /\ S \in Seq(Call) /\ E \in Seq(Call)
      BY <1>2, <1>6, <2>1
    <2>3. <<f, s>> = F \o S
      BY <1>2, <2>1, Pair
    <2>4. \A p, q, r, v \in Seq(Call) : (p \o q) \o (r \o v) = (p \o (q \o r)) \o v
      BY FourParts
    <2>5. (F \o S) \o (B \o E) = (F \o (S \o B)) \o E
      BY <1>3, <2>2, <2>4, SMTT(60)
    <2>6. (F \o S) \o (B \o E) = F \o (S \o (B \o E))
      <3>1. PICK G : G = B \o E
        OBVIOUS
      <3>2. G \in Seq(Call)
        BY <1>3, <2>2, <3>1, ConcatProperties
      <3>3. (F \o S) \o G = F \o (S \o G)
        BY <2>2, <3>2, Assoc, SMTT(60)
      <3>4. QED BY <3>1, <3>3
    <2>7. ((F \o S) \o B) \o E = (F \o S) \o (B \o E)
      <3>1. PICK G : G = F \o S
        OBVIOUS
      <3>2. G \in Seq(Call)
        BY <2>2, <3>1, ConcatProperties
      <3>3. (G \o B) \o E = G \o (B \o E)
        BY <1>3, <2>2, <3>2, Assoc, SMTT(60)
      <3>4. QED BY <3>1, <3>3
    <2>8. QED BY <1>4, <1>5, <1>9, <2>1, <2>3, <2>6, <2>7
  <1>11. CloneProg(a, b) \in Seq(Call)
    BY <1>2, <1>8, <1>10, HeadOfOne
  <1>12. QED BY <1>2, <1>6, <1>7, <1>8, <1>10, <1>11 DEF f, s, x1, x2, x3, x4

\* Loading an agent leaves the others alone.
LEMMA FillLeaves ==
  ASSUME Shapes, NEW t \in Tasks, Step(t) \/ StoreFails(t) \/ Crash(t),
         task[t].op # "factory", NEW a \in Agents, NEW z \in Seq(Call),
         NEW L \in Seq(PlainLoads(a)), L # <<>>, task[t].prog = L \o z,
         NEW x \in Agents, x # a
  PROVE  LET r == task'[t] IN
         \/ r = Idle \/ r.answer \in {"failed", "refused"}
         \/ doc'[x] = doc[x] /\ data'[x] = data[x]
  <1> DEFINE i == Head(L)
             w == Tail(L)
             S == PlainLoads(a)
  <1>1. i \in S /\ w \in Seq(S) /\ L = <<i>> \o w
    BY HeadAndTail
  <1>2. S \subseteq Call /\ Seq(S) \subseteq Seq(Call)
    BY PlainLoadItems
  <1>3. task[t].prog # <<>> /\ Item(t) = i
    <2> HIDE DEF i, w, S
    <2>1. i \in Call /\ w \in Seq(Call)
      BY <1>1, <1>2
    <2>2. task[t].prog = (<<i>> \o w) \o z
      BY <1>1
    <2>3. QED BY <2>1, <2>2, HeadOfCalls DEF Item
  <1>4. \/ task'[t] = Idle \/ task'[t].answer \in {"failed", "refused"}
        \/ Loaded(t, task'[t], a)
    BY <1>1, <1>3, LoadedBy
  <1>5. doc \in [Agents -> Documents] /\ data \in [Agents -> SUBSET Kinds]
    BY DEF Shapes, Stores
  <1>6. \/ doc' = doc /\ data' = data
        \/ doc' = doc /\ \E v : data' = [data EXCEPT ![a] = v]
        \/ data' = data /\ \E v : doc' = [doc EXCEPT ![a] = v]
        => doc'[x] = doc[x] /\ data'[x] = data[x]
    BY <1>5
  <1>7. Loaded(t, task'[t], a) =>
          \/ doc' = doc /\ data' = data
          \/ doc' = doc /\ \E v : data' = [data EXCEPT ![a] = v]
          \/ data' = data /\ \E v : doc' = [doc EXCEPT ![a] = v]
    BY DEF Loaded
  <1>8. QED BY <1>4, <1>6, <1>7

\* The clone has the settings of its original, and its plugins and users.
Alike(a, b) ==
    /\ doc[b] = doc[a] /\ All(b) /\ "conversations" \notin data[b]
    /\ \A k \in {"plugins", "users", "rows"} : k \in data[a] => k \in data[b]
Alike1(a, b) == Alike(a, b) /\ ("points" \in data[a] => "points" \in data[b])
Alike2(a, b) == Alike1(a, b) /\ "procedures" \in data[b]

Copies(a) == {On("copy", a, k) : k \in CopyKinds}
Copied(a, b, k) == IF k = "settings" THEN doc[b] = doc[a] ELSE k \in data[b]
Pending(T, a, b, C) ==
    /\ \A k \in CopyKinds : Stored(a, k) => Copied(a, b, k) \/ On("copy", a, k) \in Items(C)
    /\ C # <<>> /\ T.at = "read" /\ Head(C).key = "settings" => T.seen = Entries(doc[a])
Copying(T, a, b) ==
    /\ All(a) /\ "conversations" \notin data[b]
    /\ \E C \in Seq(Copies(a)) : T.prog = C \o LoadLeft(a, b) /\ Pending(T, a, b, C)

Furnishing(T, a, b) ==
    \/ T.prog \in {AfterLoad(a, b), PointsLeft(a, b)} /\ Alike(a, b)
    \/ T.prog = ProceduresLeft(a, b) /\ Alike1(a, b)
    \/ T.prog = FilesLeft(a, b) /\ Alike2(a, b)
    \/ T.prog = <<>> /\ Alike2(a, b) /\ ("files" \in data[a] => "files" \in data[b])

\* Where a clone is.
Cloning(T, a, b) ==
    \/ Filling(T, a, CloneProg(a, b))
    \/ T.prog = ScanLeft(a, b) /\ All(a) /\ doc[b] = None /\ data[b] \cap RedisKinds = {}
    \/ Copying(T, a, b)
    \/ Filling(T, b, AfterLoad(a, b)) /\ Alike(a, b)
    \/ Furnishing(T, a, b)

LEMMA AlikeKept ==
  ASSUME NEW a, NEW b, doc'[a] = doc[a], doc'[b] = doc[b], data'[a] = data[a],
         data[b] \subseteq data'[b], "conversations" \notin data'[b], Alike(a, b)
  PROVE  /\ Alike(a, b)'
         /\ Alike1(a, b) => Alike1(a, b)'
         /\ Alike2(a, b) => Alike2(a, b)'
  <1>1. All(b)'
    BY DEF Alike, All, HasKey
  <1>2. QED BY <1>1 DEF Alike, Alike1, Alike2

LEMMA FurnishingStep ==
  ASSUME Shapes, NEW t \in Tasks, Step(t) \/ StoreFails(t) \/ Crash(t),
         task[t].op # "factory", NEW a \in Agents, NEW b \in Agents, a # b,
         task[t].to = b, Furnishing(task[t], a, b)
  PROVE  LET r == task'[t] IN
         \/ r = Idle \/ r.answer \in {"failed", "refused"}
         \/ r.answer = task[t].answer /\ Furnishing(task[t], a, b)'
  <1> DEFINE T == task[t]
             r == task'[t]
             Ends == r = Idle \/ r.answer \in {"failed", "refused"}
             Same1 == r.answer = T.answer
             P4 == FilesLeft(a, b)
             P3 == ProceduresLeft(a, b)
             P2 == PointsLeft(a, b)
             P1 == AfterLoad(a, b)
  <1>0. data \in [Agents -> SUBSET Kinds]
    BY DEF Shapes, Stores
  <1>1. /\ P1 # <<>> /\ Head(P1) = Do("initialize", b) /\ Tail(P1) = P2
        /\ P2 # <<>> /\ Head(P2) = Do("copyPoints", a) /\ Tail(P2) = P3
        /\ P3 # <<>> /\ Head(P3) = Do("procedures", b) /\ Tail(P3) = P4
        /\ P4 # <<>> /\ Head(P4) = Do("copyFiles", a) /\ Tail(P4) = <<>>
    <2> DEFINE x1 == Do("initialize", b)
               x2 == Do("copyPoints", a)
               x3 == Do("procedures", b)
               x4 == Do("copyFiles", a)
               n == <<>>
    <2>1. P1 = <<x1>> \o P2 /\ P2 = <<x2>> \o P3 /\ P3 = <<x3>> \o P4 /\ P4 = <<x4>> \o n
      <3>1. P4 = P4 \o n
        BY CloneIs, ConcatEmptySeq
      <3>2. P4 = <<x4>>
        BY DEF FilesLeft
      <3>3. QED BY <3>1, <3>2 DEF AfterLoad, PointsLeft, ProceduresLeft
    <2>2. /\ x1 \in Call /\ x2 \in Call /\ x3 \in Call /\ x4 \in Call /\ n \in Seq(Call)
          /\ P4 \in Seq(Call) /\ P3 \in Seq(Call) /\ P2 \in Seq(Call)
      BY CloneIs, EmptySeq
    <2> HIDE DEF x1, x2, x3, x4, n, P1, P2, P3, P4
    <2>3. P1 # <<>> /\ Head(P1) = x1 /\ Tail(P1) = P2
      BY <2>1, <2>2, HeadOfOne
    <2>4. P2 # <<>> /\ Head(P2) = x2 /\ Tail(P2) = P3
      BY <2>1, <2>2, HeadOfOne
    <2>5. P3 # <<>> /\ Head(P3) = x3 /\ Tail(P3) = P4
      BY <2>1, <2>2, HeadOfOne
    <2>6. P4 # <<>> /\ Head(P4) = x4 /\ Tail(P4) = n
      BY <2>1, <2>2, HeadOfOne
    <2>7. QED BY <2>3, <2>4, <2>5, <2>6 DEF x1, x2, x3, x4, n
  <1>2. \A d, x : Do(d, x).do = d /\ Do(d, x).agent = x
    BY DEF Do
  <1> HIDE DEF P1, P2, P3, P4
  <1>3. CASE T.prog = P1 /\ Alike(a, b)
    <2>1. T.prog # <<>> /\ Item(t).do = "initialize" /\ Item(t).agent = b /\ Tail(T.prog) = P2
      BY <1>1, <1>2, <1>3 DEF Item
    <2>2. Ends \/ (Same1 /\ doc' = doc /\ data' = data /\ r.prog = P2)
      BY <2>1, LateMoves
    <2>3. doc' = doc /\ data' = data => Alike(a, b)'
      BY <1>3, AlikeKept DEF Alike
    <2>4. QED BY <2>2, <2>3 DEF Furnishing, P2
  <1>4. CASE T.prog = P2 /\ Alike(a, b)
    <2>1. T.prog # <<>> /\ Item(t).do = "copyPoints" /\ Item(t).agent = a /\ Tail(T.prog) = P3
      BY <1>1, <1>2, <1>4 DEF Item
    <2>2. \/ Ends
          \/ Same1 /\ r.prog = P3 /\ doc' = doc /\ data' = data /\ "points" \notin data[a]
          \/ Same1 /\ r.prog = T.prog /\ doc' = doc /\ data' = data
          \/ /\ Same1 /\ r.prog = P3 /\ doc' = doc
             /\ data' = [data EXCEPT ![b] = @ \union {"points"}]
      BY <2>1, PointsMoves
    <2>3. ASSUME doc' = doc, data' = data
          PROVE  Alike(a, b)' /\ ("points" \notin data[a] => Alike1(a, b)')
      <3>1. Alike(a, b)'
        BY <1>4, <2>3, AlikeKept DEF Alike
      <3>2. QED BY <2>3, <3>1 DEF Alike1
    <2>4. ASSUME doc' = doc, data' = [data EXCEPT ![b] = @ \union {"points"}]
          PROVE  Alike1(a, b)'
      <3>1. data'[b] = data[b] \union {"points"} /\ data'[a] = data[a]
        BY <1>0, <2>4
      <3>2. Alike(a, b)'
        BY <1>4, <2>4, <3>1, AlikeKept DEF Alike
      <3>3. QED BY <3>1, <3>2 DEF Alike1
    <2>5. QED BY <1>4, <2>2, <2>3, <2>4 DEF Furnishing, P2, P3
  <1>5. CASE T.prog = P3 /\ Alike1(a, b)
    <2>1. T.prog # <<>> /\ Item(t).do = "procedures" /\ Item(t).agent = b /\ Tail(T.prog) = P4
      BY <1>1, <1>2, <1>5 DEF Item
    <2>2. \/ Ends
          \/ /\ Same1 /\ r.prog = P4 /\ doc' = doc
             /\ data' = [data EXCEPT ![b] = @ \union {"procedures"}]
          \/ /\ Same1 /\ r.prog = T.prog /\ doc' = doc
             /\ data' = [data EXCEPT ![b] = @ \ {"procedures"}]
      BY <2>1, LateMoves
    <2>3. ASSUME doc' = doc, data' = [data EXCEPT ![b] = @ \union {"procedures"}]
          PROVE  Alike2(a, b)'
      <3>1. data'[b] = data[b] \union {"procedures"} /\ data'[a] = data[a]
        BY <1>0, <2>3
      <3>2. Alike1(a, b)'
        BY <1>5, <2>3, <3>1, AlikeKept DEF Alike1, Alike
      <3>3. QED BY <3>1, <3>2 DEF Alike2
    <2>4. ASSUME doc' = doc, data' = [data EXCEPT ![b] = @ \ {"procedures"}]
          PROVE  Alike1(a, b)'
      <3>1. data'[b] = data[b] \ {"procedures"} /\ data'[a] = data[a]
        BY <1>0, <2>4
      <3>2. All(b)'
        BY <1>5, <2>4, <3>1 DEF Alike1, Alike, All, HasKey
      <3>3. QED BY <1>5, <2>4, <3>1, <3>2 DEF Alike1, Alike
    <2>5. QED BY <1>5, <2>2, <2>3, <2>4 DEF Furnishing, P3, P4
  <1>6. CASE T.prog = P4 /\ Alike2(a, b)
    <2>1. T.prog # <<>> /\ Item(t).do = "copyFiles" /\ Item(t).agent = a /\ Tail(T.prog) = <<>>
      BY <1>1, <1>2, <1>6 DEF Item
    <2>2. \/ Ends
          \/ /\ Same1 /\ r.prog = <<>> /\ doc' = doc
             /\ data' = [data EXCEPT ![b] = @ \union (data[a] \cap {"files"})]
      BY <2>1, FilesMoves
    <2>3. ASSUME doc' = doc, data' = [data EXCEPT ![b] = @ \union (data[a] \cap {"files"})]
          PROVE  Alike2(a, b)' /\ ("files" \in data[a] => "files" \in data[b])'
      <3>1. data'[b] = data[b] \union (data[a] \cap {"files"}) /\ data'[a] = data[a]
        BY <1>0, <2>3
      <3>2. Alike2(a, b)'
        BY <1>6, <2>3, <3>1, AlikeKept DEF Alike2, Alike1, Alike
      <3>3. QED BY <3>1, <3>2
    <2>4. QED BY <2>2, <2>3 DEF Furnishing
  <1>7. CASE T.prog = <<>>
    BY <1>7, DoneMoves
  <1>8. QED BY <1>3, <1>4, <1>5, <1>6, <1>7 DEF Furnishing, P1, P2, P3, P4

\* One copy: what is stored of the original is copied, or still to be copied.
LEMMA CopyingStep ==
  ASSUME Shapes, NEW t \in Tasks, Step(t) \/ StoreFails(t) \/ Crash(t),
         task[t].op # "factory", NEW a \in Agents, NEW b \in Agents, a # b,
         task[t].to = b, SubstringIds = {}, All(a), "conversations" \notin data[b],
         NEW C \in Seq(Copies(a)), C # <<>>, task[t].prog = C \o LoadLeft(a, b),
         Pending(task[t], a, b, C)
  PROVE  LET r == task'[t] IN
         \/ r = Idle \/ r.answer \in {"failed", "refused"}
         \/ r.answer = task[t].answer /\ Copying(task[t], a, b)'
  <1> DEFINE T == task[t]
             r == task'[t]
             i == Head(C)
             w == Tail(C)
             z == LoadLeft(a, b)
             S == Copies(a)
             Ends == r = Idle \/ r.answer \in {"failed", "refused"}
             Same1 == r.answer = T.answer
             k == i.key
  <1>0. doc \in [Agents -> Documents] /\ data \in [Agents -> SUBSET Kinds]
    BY DEF Shapes, Stores
  <1>1. i \in S /\ w \in Seq(S) /\ C = <<i>> \o w
    BY HeadAndTail
  <1>2. S \subseteq Call
    BY DEF Copies, CopyKinds, On, Call, Dos, Kinds, RedisKinds
  <1>3. w \in Seq(Call) /\ C \in Seq(Call) /\ z \in Seq(Call)
    BY <1>1, <1>2, SeqMonotonic, CloneIs
  <1>4. i.do = "copy" /\ i.agent = a /\ k \in CopyKinds /\ i = On("copy", a, k)
    BY <1>1 DEF Copies, On
  <1>5. \A x, y : On("copy", a, x) = On("copy", a, y) => x = y
    BY DEF On
  <1>6. T.prog # <<>> /\ Item(t) = i /\ Tail(T.prog) = w \o z
    <2> HIDE DEF i, w, S, z
    <2>1. i \in Call
      BY <1>1, <1>2
    <2>2. T.prog = (<<i>> \o w) \o z
      BY <1>1 DEF z
    <2>3. QED BY <1>3, <2>1, <2>2, HeadOfCalls DEF Item
  <1>7. Items(C) = {i} \union Items(w)
    <2> HIDE DEF i, w, S
    <2>1. i \in Call
      BY <1>1, <1>2
    <2>2. QED BY <1>1, <1>3, <2>1, HeadOfOne
  <1>8. /\ \A y \in CopyKinds : Stored(a, y) =>
              Copied(a, b, y) \/ y = k \/ On("copy", a, y) \in Items(w)
        /\ T.at = "read" /\ k = "settings" => T.seen = Entries(doc[a])
    BY <1>4, <1>5, <1>7 DEF Pending
  <1>9. Entries(doc[a]) = doc[a] /\ doc[a] # None
    <2>1. HasKey(doc[a], "plugins")
      BY DEF All, BuiltKeys
    <2>2. DOMAIN <<>> = {}
      BY EmptySeq
    <2>3. QED BY <2>1, <2>2 DEF HasKey, Entries
  <1> HIDE DEF i, w, S, z
  <1>10. ASSUME r.prog = w \o z, r.at = "start", doc'[a] = doc[a], data'[a] = data[a],
                "conversations" \notin data'[b],
                \A y \in CopyKinds \ {k} : Copied(a, b, y) => Copied(a, b, y)',
                Stored(a, k) => Copied(a, b, k)'
         PROVE  Copying(task[t], a, b)'
    <2>1. \A y \in CopyKinds : Stored(a, y)' =>
              Copied(a, b, y)' \/ On("copy", a, y) \in Items(w)
      BY <1>8, <1>10, StoredKept
    <2>2. Pending(task[t], a, b, w)'
      BY <1>10, <2>1 DEF Pending
    <2>3. All(a)'
      BY <1>10, StoredKept
    <2>4. QED BY <1>1, <1>10, <2>2, <2>3 DEF Copying, S, z
  <1>11. \/ Ends
         \/ Same1 /\
              \/ /\ r.prog = w \o z /\ r.at = "start" /\ doc' = doc /\ data' = data
                 /\ ~Stored(a, k)
              \/ /\ r.prog = T.prog /\ r.at = "read" /\ doc' = doc /\ data' = data
                 /\ k = "settings" => r.seen = Entries(doc[a])
              \/ /\ r.prog = w \o z /\ r.at = "start" /\ T.at = "read"
                 /\ \/ k = "settings" /\ doc' = [doc EXCEPT ![b] = T.seen] /\ data' = data
                    \/ /\ k # "settings" /\ doc' = doc
                       /\ data' = [data EXCEPT ![b] = @ \union {k}]
    BY <1>4, <1>6, CopyMoves
  <1> HIDE DEF k
  <1>12. ASSUME doc' = doc, data' = data
         PROVE  \A y : Copied(a, b, y) => Copied(a, b, y)'
    BY <1>12 DEF Copied
  <1>13. ASSUME r.prog = w \o z, r.at = "start", doc' = doc, data' = data, ~Stored(a, k)
         PROVE  Copying(task[t], a, b)'
    BY <1>10, <1>12, <1>13
  <1>14. ASSUME r.prog = T.prog, r.at = "read", doc' = doc, data' = data,
                k = "settings" => r.seen = Entries(doc[a])
         PROVE  Copying(task[t], a, b)'
    <2>1. Pending(task[t], a, b, C)'
      <3>1. \A y \in CopyKinds : Stored(a, y)' =>
                Copied(a, b, y)' \/ On("copy", a, y) \in Items(C)
        BY <1>12, <1>14, StoredKept DEF Pending
      <3>2. QED BY <1>14, <3>1 DEF Pending, i, k
    <2>2. All(a)'
      BY <1>14, StoredKept
    <2>3. QED BY <1>14, <2>1, <2>2 DEF Copying
  <1>15. ASSUME r.prog = w \o z, r.at = "start", T.at = "read", k = "settings",
                doc' = [doc EXCEPT ![b] = T.seen], data' = data
         PROVE  Copying(task[t], a, b)'
    <2>1. doc'[b] = doc[a] /\ doc'[a] = doc[a]
      BY <1>0, <1>8, <1>9, <1>15
    <2>2. \A y : y # "settings" => (Copied(a, b, y) => Copied(a, b, y)')
      BY <1>15 DEF Copied
    <2>3. Copied(a, b, k)'
      BY <1>15, <2>1 DEF Copied
    <2>4. QED BY <1>10, <1>15, <2>1, <2>2, <2>3
  <1>16. ASSUME r.prog = w \o z, r.at = "start", k # "settings", doc' = doc,
                data' = [data EXCEPT ![b] = @ \union {k}]
         PROVE  Copying(task[t], a, b)'
    <2>1. data'[b] = data[b] \union {k} /\ data'[a] = data[a]
      BY <1>0, <1>16
    <2>2. k # "conversations"
      BY <1>4 DEF CopyKinds
    <2>3. \A y : Copied(a, b, y) => Copied(a, b, y)'
      BY <1>16, <2>1 DEF Copied
    <2>4. Copied(a, b, k)'
      BY <1>16, <2>1 DEF Copied
    <2>5. QED BY <1>10, <1>16, <2>1, <2>2, <2>3, <2>4
  <1>17. QED BY <1>11, <1>13, <1>14, <1>15, <1>16

LEMMA CloningStep ==
  ASSUME Shapes, NEW t \in Tasks, Step(t) \/ StoreFails(t) \/ Crash(t),
         task[t].op # "factory", NEW a \in Agents, NEW b \in Agents, a # b,
         task[t].to = b, SubstringIds = {}, Cloning(task[t], a, b)
  PROVE  LET r == task'[t] IN
         \/ r = Idle \/ r.answer \in {"failed", "refused"}
         \/ r.answer = task[t].answer /\ Cloning(task[t], a, b)'
  <1> DEFINE T == task[t]
             r == task'[t]
             Ends == r = Idle \/ r.answer \in {"failed", "refused"}
             Same1 == r.answer = T.answer
             Goes == Ends \/ (Same1 /\ Cloning(task[t], a, b)')
  <1>0. doc \in [Agents -> Documents] /\ data \in [Agents -> SUBSET Kinds]
    BY DEF Shapes, Stores
  <1>1. /\ CloneProg(a, b) \in Seq(Call) /\ ScanLeft(a, b) \in Seq(Call)
        /\ LoadLeft(a, b) \in Seq(Call) /\ AfterLoad(a, b) \in Seq(Call)
    BY CloneIs
  <1>2. /\ CloneProg(a, b) # <<>> /\ Head(CloneProg(a, b)) = Do("free", b)
        /\ Tail(CloneProg(a, b)) = ScanLeft(a, b)
        /\ ScanLeft(a, b) # <<>> /\ Head(ScanLeft(a, b)) = Do("scan", a)
        /\ Tail(ScanLeft(a, b)) = LoadLeft(a, b)
    <2> DEFINE f == Do("free", b)
               s == Do("scan", a)
               p == CloneProg(a, b)
               q == ScanLeft(a, b)
               l == LoadLeft(a, b)
    <2>1. f \in Call /\ s \in Call /\ p = <<f>> \o q
      BY CloneIs
    <2>2. q = <<s>> \o l
      BY DEF ScanLeft
    <2> HIDE DEF f, s, p, q, l
    <2>3. q \in Seq(Call) /\ l \in Seq(Call)
      BY <1>1 DEF q, l
    <2>4. p # <<>> /\ Head(p) = f /\ Tail(p) = q
      BY <2>1, <2>3, HeadOfOne
    <2>5. q # <<>> /\ Head(q) = s /\ Tail(q) = l
      BY <2>1, <2>2, <2>3, HeadOfOne
    <2>6. QED BY <2>4, <2>5 DEF f, s, p, q, l
  <1>3. \A d, x : Do(d, x).do = d /\ Do(d, x).agent = x
    BY DEF Do
  <1>4. CASE Furnishing(T, a, b)
    BY <1>4, FurnishingStep DEF Cloning
  <1>5. CASE Filling(T, b, AfterLoad(a, b)) /\ Alike(a, b)
    <2>1. CASE T.prog = AfterLoad(a, b)
      <3>1. Furnishing(T, a, b)
        BY <1>5, <2>1 DEF Furnishing
      <3>2. QED BY <1>4, <3>1
    <2>2. ASSUME NEW L \in Seq(PlainLoads(b)), L # <<>>, T.prog = L \o AfterLoad(a, b),
                 Fills(T, b, L)
          PROVE  Goes
      <3>1. Ends \/ (Same1 /\ Filling(task[t], b, AfterLoad(a, b))' /\ Grows(b))
        BY <1>1, <2>2, FillStep
      <3>2. Ends \/ (doc'[a] = doc[a] /\ data'[a] = data[a])
        BY <1>1, <2>2, FillLeaves
      <3>3. ASSUME Grows(b), doc'[a] = doc[a], data'[a] = data[a]
            PROVE  Alike(a, b)'
        <4>1. doc'[b] = doc[b]
          BY <1>5, <3>3 DEF Grows, Alike, All
        <4>2. data[b] \subseteq data'[b] /\ "conversations" \notin data'[b]
          BY <1>5, <3>3 DEF Grows, Alike
        <4>3. QED BY <1>5, <3>3, <4>1, <4>2, AlikeKept
      <3>4. QED BY <3>1, <3>2, <3>3 DEF Cloning
    <2>3. QED BY <1>1, <1>5, <2>1, <2>2, FilledIs
  <1>6. CASE Copying(T, a, b)
    <2>1. PICK C \in Seq(Copies(a)) : T.prog = C \o LoadLeft(a, b) /\ Pending(T, a, b, C)
      BY <1>6 DEF Copying
    <2>2. CASE C = <<>>
      <3>1. T.prog = LoadLeft(a, b)
        BY <1>1, <2>1, <2>2, ConcatEmptySeq
      <3>2. Items(C) = {}
        <4>1. DOMAIN <<>> = {}
          BY EmptySeq
        <4>2. QED BY <2>2, <4>1 DEF Items
      <3>3. \A k \in CopyKinds : Stored(a, k) => Copied(a, b, k)
        BY <2>1, <3>2 DEF Pending
      <3>4. doc[a] # None /\ "plugins" \in data[a] /\ \A k \in BuiltKeys : HasKey(doc[a], k)
        <4>1. HasKey(doc[a], "plugins") /\ "plugins" \in data[a]
          BY <1>6 DEF Copying, All, BuiltKeys
        <4>2. DOMAIN <<>> = {}
          BY EmptySeq
        <4>3. QED BY <1>6, <4>1, <4>2 DEF HasKey, Entries, Copying, All
      <3>5. /\ doc[b] = doc[a]
            /\ \A k \in {"plugins", "users", "rows"} : k \in data[a] => k \in data[b]
        BY <3>3, <3>4 DEF CopyKinds, Stored, Copied
      <3>6. Alike(a, b)
        BY <1>6, <3>4, <3>5 DEF Copying, Alike, All
      <3>7. Filling(T, b, AfterLoad(a, b))
        <4>1. T.prog = LoadProg(b) \o AfterLoad(a, b)
          BY <3>1 DEF LoadLeft
        <4>2. Fills(T, b, LoadProg(b)) /\ LoadProg(b) \in Seq(PlainLoads(b))
          BY FillsAtStart
        <4>3. QED BY <4>1, <4>2 DEF Filling
      <3>8. QED BY <1>5, <3>6, <3>7
    <2>3. CASE C # <<>>
      <3>1. All(a) /\ "conversations" \notin data[b]
        BY <1>6 DEF Copying
      <3>2. Ends \/ (Same1 /\ Copying(task[t], a, b)')
        BY <2>1, <2>3, <3>1, CopyingStep
      <3>3. QED BY <3>2 DEF Cloning
    <2>4. QED BY <2>2, <2>3
  <1>7. CASE T.prog = ScanLeft(a, b) /\ All(a) /\ doc[b] = None /\ data[b] \cap RedisKinds = {}
    <2>1. T.prog # <<>> /\ Item(t).do = "scan" /\ Item(t).agent = a /\ Tail(T.prog) = LoadLeft(a, b)
      BY <1>2, <1>3, <1>7 DEF Item
    <2>2. \/ Ends
          \/ /\ Same1 /\ doc' = doc /\ data' = data /\ r.at = "start"
             /\ Scanned(r.prog, LoadLeft(a, b), a)
      BY <2>1, ScanMoves
    <2>3. ASSUME doc' = doc, data' = data, r.at = "start",
                 NEW C \in Seq(Copies(a)), r.prog = C \o LoadLeft(a, b),
                 \A k \in CopyKinds : Stored(a, k) => On("copy", a, k) \in Items(C)
          PROVE  Copying(task[t], a, b)'
      <3>1. \A k \in CopyKinds : Stored(a, k)' => On("copy", a, k) \in Items(C)
        BY <2>3, StoredKept
      <3>2. Pending(task[t], a, b, C)'
        BY <2>3, <3>1 DEF Pending
      <3>3. All(a)' /\ "conversations" \notin data'[b]
        BY <1>7, <2>3 DEF All, HasKey, RedisKinds
      <3>4. QED BY <2>3, <3>2, <3>3 DEF Copying
    <2>4. QED BY <2>2, <2>3 DEF Cloning, Copies, Scanned
  <1>8. CASE Filling(T, a, CloneProg(a, b))
    <2>1. CASE T.prog = CloneProg(a, b) /\ All(a)
      <3>1. T.prog # <<>> /\ Item(t).do = "free" /\ Item(t).agent = b /\ Tail(T.prog) = ScanLeft(a, b)
        BY <1>2, <1>3, <2>1 DEF Item
      <3>2. \/ Ends
            \/ /\ Same1 /\ doc' = doc /\ data' = data /\ r.prog = ScanLeft(a, b)
               /\ b \notin MainKeys
        BY <3>1, FreeMoves
      <3>3. b \notin MainKeys => doc[b] = None /\ data[b] \cap RedisKinds = {}
        BY DEF MainKeys
      <3>4. doc' = doc /\ data' = data => All(a)'
        BY <2>1 DEF All, HasKey
      <3>5. QED BY <3>2, <3>3, <3>4 DEF Cloning
    <2>2. ASSUME NEW L \in Seq(PlainLoads(a)), L # <<>>, T.prog = L \o CloneProg(a, b),
                 Fills(T, a, L)
          PROVE  Goes
      <3>1. Ends \/ (Same1 /\ Filling(task[t], a, CloneProg(a, b))')
        BY <1>1, <2>2, FillStep
      <3>2. QED BY <3>1 DEF Cloning
    <2>3. QED BY <1>1, <1>8, <2>1, <2>2, FilledIs
  <1>9. QED BY <1>4, <1>5, <1>6, <1>7, <1>8 DEF Cloning

\* What another request does leaves a clone where it is.
LEMMA CloningKept ==
  ASSUME NEW t \in Tasks, NEW a, NEW b, task'[t] = task[t], doc'[a] = doc[a],
         data'[a] = data[a], doc'[b] = doc[b], data'[b] = data[b], Cloning(task[t], a, b)
  PROVE  Cloning(task[t], a, b)'
  <1>1. Filling(task[t], a, CloneProg(a, b)) => Filling(task[t], a, CloneProg(a, b))'
    BY FillingKept
  <1>2. Filling(task[t], b, AfterLoad(a, b)) => Filling(task[t], b, AfterLoad(a, b))'
    BY FillingKept
  <1>3. (All(a)' <=> All(a)) /\ \A k : Stored(a, k)' <=> Stored(a, k)
    BY StoredKept
  <1>4. ASSUME Alike(a, b)
        PROVE  /\ Alike(a, b)'
               /\ Alike1(a, b) => Alike1(a, b)'
               /\ Alike2(a, b) => Alike2(a, b)'
    <2>1. data[b] \subseteq data'[b] /\ "conversations" \notin data'[b]
      BY <1>4 DEF Alike
    <2>2. QED BY <1>4, <2>1, AlikeKept
  <1>5. (Alike1(a, b) => Alike(a, b)) /\ (Alike2(a, b) => Alike(a, b))
    BY DEF Alike1, Alike2
  <1>6. Furnishing(task[t], a, b) => Furnishing(task[t], a, b)'
    BY <1>4, <1>5 DEF Furnishing
  <1>7. \A k : Copied(a, b, k)' <=> Copied(a, b, k)
    BY DEF Copied
  <1>8. \A C : Pending(task[t], a, b, C) => Pending(task[t], a, b, C)'
    BY <1>3, <1>7 DEF Pending
  <1>9. Copying(task[t], a, b) => Copying(task[t], a, b)'
    BY <1>3, <1>8 DEF Copying
  <1>10. QED BY <1>1, <1>2, <1>3, <1>4, <1>6, <1>9 DEF Cloning

LEMMA CloneMore ==
  ASSUME NEW a \in Agents, NEW b \in Agents
  PROVE  /\ CloneProg(a, b) # <<>> /\ ScanLeft(a, b) # <<>> /\ LoadLeft(a, b) # <<>>
         /\ AfterLoad(a, b) # <<>> /\ PointsLeft(a, b) # <<>>
         /\ ProceduresLeft(a, b) # <<>> /\ FilesLeft(a, b) # <<>>
  <1>1. \A x \in Call, q \in Seq(Call) : <<x>> \o q # <<>>
    BY HeadOfOne
  <1>2. CloneProg(a, b) # <<>> /\ ScanLeft(a, b) # <<>>
    BY <1>1, CloneIs DEF ScanLeft
  <1>3. AfterLoad(a, b) # <<>> /\ PointsLeft(a, b) # <<>> /\ ProceduresLeft(a, b) # <<>>
    BY <1>1, CloneIs DEF AfterLoad, PointsLeft, ProceduresLeft
  <1>4. FilesLeft(a, b) # <<>>
    BY DEF FilesLeft
  <1>5. LoadLeft(a, b) # <<>>
    BY <1>3, CloneIs, LoadsAreCalls, MoreAfter DEF LoadLeft
  <1>6. QED BY <1>2, <1>3, <1>4, <1>5

\* What a request that is alone has reached, until it fails.
Life(T) == T.alone /\ T.answer = None =>
               \A a \in Agents : T.agent = a =>
                 /\ T.op = "destroy" => Ending(T, a)
                 /\ T.op = "reset" => Resetting(T, a)
                 /\ T.op = "clone" /\ SubstringIds = {} =>
                      \A b \in Agents : T.to = b /\ a # b => Cloning(T, a, b)
LifeInv == Shapes /\ AloneInv /\ \A t \in Tasks : Life(task[t])

LEMMA LifeOfOwn ==
  ASSUME Shapes, AloneInv, NEW t \in Tasks, Step(t) \/ StoreFails(t) \/ Crash(t), Life(task[t])
  PROVE  Life(task[t])'
  <1> DEFINE T == task[t]
             r == task'[t]
  <1>1. T \in Requested /\ Sound(T)
    BY DEF Shapes
  <1> SUFFICES ASSUME r.alone, r.answer = None, NEW a \in Agents, r.agent = a
               PROVE  /\ r.op = "destroy" => Ending(task[t], a)'
                      /\ r.op = "reset" => Resetting(task[t], a)'
                      /\ r.op = "clone" /\ SubstringIds = {} =>
                           \A b \in Agents : r.to = b /\ a # b => Cloning(task[t], a, b)'
    BY DEF Life
  <1>2. r # Idle
    BY DEF Idle
  <1>3. Like(r, T) /\ Answering(r, T)
    BY <1>2, StepFrame, AnswerStays
  <1>4. T.alone /\ T.answer = None /\ T.op = r.op
    BY <1>3 DEF Like, Answering
  <1>5. T.agent = a /\ T.to = r.to
    BY <1>3 DEF Like
  <1>6. None \notin {"failed", "refused"}
    BY AgentsAssumption
  <1>7. ASSUME r.op = "destroy" PROVE Ending(task[t], a)'
    <2>1. Ending(T, a)
      BY <1>4, <1>5, <1>7 DEF Life
    <2>2. \/ r = Idle \/ r.answer \in {"failed", "refused"}
          \/ r.answer = T.answer /\ Ending(task[t], a)'
      BY <1>4, <1>7, <2>1, EndingStep
    <2>3. QED BY <1>2, <1>6, <2>2
  <1>8. ASSUME r.op = "reset" PROVE Resetting(task[t], a)'
    <2>1. Resetting(T, a)
      BY <1>4, <1>5, <1>8 DEF Life
    <2>2. \/ r = Idle \/ r.answer \in {"failed", "refused"}
          \/ r.answer = T.answer /\ Resetting(task[t], a)'
      BY <1>4, <1>8, <2>1, ResettingStep
    <2>3. QED BY <1>2, <1>6, <2>2
  <1>9. ASSUME r.op = "clone", SubstringIds = {}, NEW b \in Agents, r.to = b, a # b
        PROVE  Cloning(task[t], a, b)'
    <2>1. Cloning(T, a, b)
      BY <1>4, <1>5, <1>9 DEF Life
    <2>2. \/ r = Idle \/ r.answer \in {"failed", "refused"}
          \/ r.answer = T.answer /\ Cloning(task[t], a, b)'
      BY <1>4, <1>5, <1>9, <2>1, CloningStep
    <2>3. QED BY <1>2, <1>6, <2>2
  <1>10. QED BY <1>7, <1>8, <1>9

LEMMA LifeKept ==
  ASSUME NEW t \in Tasks, Shapes, task'[t] = task[t], Life(task[t]),
         \A x \in Own(t) : task[t].alone => doc'[x] = doc[x] /\ data'[x] = data[x]
  PROVE  Life(task[t])'
  <1> DEFINE T == task[t]
  <1> SUFFICES ASSUME T.alone, T.answer = None, NEW a \in Agents, T.agent = a
               PROVE  /\ T.op = "destroy" => Ending(task[t], a)'
                      /\ T.op = "reset" => Resetting(task[t], a)'
                      /\ T.op = "clone" /\ SubstringIds = {} =>
                           \A b \in Agents : T.to = b /\ a # b => Cloning(task[t], a, b)'
    BY DEF Life
  <1>2. doc'[a] = doc[a] /\ data'[a] = data[a]
    BY DEF Own
  <1>3. (Ending(task[t], a) => Ending(task[t], a)') /\ (Resetting(task[t], a) => Resetting(task[t], a)')
    BY <1>2, EndingKept
  <1>4. (T.op = "destroy" => Ending(T, a)) /\ (T.op = "reset" => Resetting(T, a))
    BY DEF Life
  <1>5. ASSUME T.op = "clone", SubstringIds = {}, NEW b \in Agents, T.to = b, a # b
        PROVE  Cloning(task[t], a, b)'
    <2>1. Cloning(T, a, b)
      BY <1>5 DEF Life
    <2>2. doc'[b] = doc[b] /\ data'[b] = data[b]
      BY <1>5 DEF Own
    <2>3. QED BY <1>2, <2>1, <2>2, CloningKept
  <1>6. QED BY <1>3, <1>4, <1>5

LEMMA LifeStarts ==
  ASSUME Shapes, NEW v \in Tasks, Request(v)
  PROVE  Life(task[v])'
  <1>1. PICK op, a, b, prog :
           /\ Start(v, op, a, b, prog)
           /\ op = "destroy" => a \in Agents /\ prog = LoadProg(a) \o DestroyProg(a)
           /\ op = "reset" => /\ a \in Agents
                              /\ prog = LoadProg(a) \o DestroyProg(a) \o CreateProg(a, FALSE)
           /\ op = "clone" => /\ a \in Agents /\ b \in Agents \ {a}
                              /\ prog = LoadProg(a) \o CloneProg(a, b)
    BY RequestIs
  <1> DEFINE r == task'[v]
  <1> HIDE DEF r
  <1>2. r.op = op /\ r.agent = a /\ r.to = b /\ r.prog = prog
    <2>1. r = Begun(v, op, a, b, prog)
      BY <1>1, StartIs DEF r
    <2>2. QED BY <2>1 DEF Begun, Idle
  <1>3. ASSUME NEW x \in Agents
        PROVE  /\ LoadProg(x) \in Seq(PlainLoads(x)) /\ LoadProg(x) \in Seq(Call)
               /\ DestroyProg(x) \in Seq(Call) /\ From(x, 1) = DestroyProg(x)
               /\ DestroyProg(x) \o <<>> = DestroyProg(x)
    <2>1. DestroyProg(x) \in Seq(Call) /\ From(x, 1) = DestroyProg(x)
      BY DestroyItems, FromIs
    <2>2. QED BY <2>1, FillsAtStart, LoadsAreCalls, ConcatEmptySeq
  <1>4. ASSUME op = "destroy" PROVE Ending(task[v], a)'
    <2>1. a \in Agents /\ prog = LoadProg(a) \o (From(a, 1) \o <<>>)
      BY <1>1, <1>3, <1>4
    <2>2. Loading(r.prog, a, From(a, 1) \o <<>>)
      BY <1>2, <1>3, <2>1 DEF Loading
    <2>3. QED BY <2>2 DEF Ending, Removing, r
  <1>5. ASSUME op = "reset" PROVE Resetting(task[v], a)'
    <2>1. PICK L, D, C : L = LoadProg(a) /\ D = DestroyProg(a) /\ C = CreateProg(a, FALSE)
      OBVIOUS
    <2>2. a \in Agents /\ L \in Seq(Call) /\ D \in Seq(Call) /\ C \in Seq(Call)
          /\ L \in Seq(PlainLoads(a)) /\ From(a, 1) = D /\ r.prog = (L \o D) \o C
      BY <1>1, <1>2, <1>3, <1>5, <2>1, LateIs
    <2>3. (L \o D) \o C = L \o (D \o C)
      BY <2>2, Assoc, SMTT(60)
    <2>4. r.prog = L \o (From(a, 1) \o CreateProg(a, FALSE))
      BY <2>1, <2>2, <2>3
    <2>5. Loading(r.prog, a, From(a, 1) \o CreateProg(a, FALSE))
      BY <2>2, <2>4 DEF Loading
    <2>6. QED BY <2>5 DEF Resetting, Removing, r
  <1>6. ASSUME op = "clone" PROVE Cloning(task[v], a, b)'
    <2>1. a \in Agents /\ r.prog = LoadProg(a) \o CloneProg(a, b)
      BY <1>1, <1>2, <1>6
    <2>2. LoadProg(a) \in Seq(PlainLoads(a)) /\ Fills(task[v], a, LoadProg(a))'
      BY <2>1, FillsAtStart
    <2>3. Filling(task[v], a, CloneProg(a, b))'
      BY <2>1, <2>2 DEF Filling, r
    <2>4. QED BY <2>3 DEF Cloning
  <1>7. QED BY <1>2, <1>4, <1>5, <1>6 DEF Life, r

LEMMA LifeStep ==
  ASSUME LifeInv, [Next]_vars
  PROVE  LifeInv'
  <1>1. Shapes' /\ AloneInv'
    BY ShapesStep, AloneStep DEF LifeInv
  <1>2. Shapes /\ AloneInv /\ \A t \in Tasks : Life(task[t])
    BY DEF LifeInv
  <1>3. ASSUME NEW t \in Tasks, UNCHANGED <<doc, data, task>> PROVE Life(task[t])'
    BY <1>2, <1>3, LifeKept
  <1>4. ASSUME NEW u \in Tasks, Step(u) \/ StoreFails(u) \/ Crash(u), NEW t \in Tasks
        PROVE  Life(task[t])'
    <2>1. CASE t = u
      BY <1>2, <1>4, <2>1, LifeOfOwn
    <2>2. CASE t # u
      <3>1. task'[t] = task[t]
        BY <1>2, <1>4, <2>2, OtherTask
      <3>2. CASE task[t].op = "idle"
        BY <3>1, <3>2 DEF Life
      <3>3. CASE task[t].op # "idle"
        <4>1. \A x \in Own(t) : task[t].alone => doc'[x] = doc[x] /\ data'[x] = data[x]
          BY <1>2, <1>4, <2>2, <3>3, OthersApart
        <4>2. QED BY <1>2, <3>1, <4>1, LifeKept
      <3>4. QED BY <3>2, <3>3
    <2>3. QED BY <2>1, <2>2
  <1>5. ASSUME NEW v \in Tasks, Request(v), NEW t \in Tasks
        PROVE  Life(task[t])'
    <2>1. CASE t = v
      BY <1>2, <1>5, <2>1, LifeStarts
    <2>2. CASE t # v
      <3>1. PICK op, a, b, prog : Start(v, op, a, b, prog)
        BY <1>5, RequestIs
      <3>2. /\ task'[t] = task[t] \/ task'[t] = [task[t] EXCEPT !.alone = FALSE]
            /\ doc' = doc /\ data' = data
        BY <1>2, <2>2, <3>1, StartIs
      <3>3. CASE task'[t] = task[t]
        BY <1>2, <3>2, <3>3, LifeKept
      <3>4. CASE task'[t] = [task[t] EXCEPT !.alone = FALSE]
        <4>1. task[t] \in Requested
          BY <1>2 DEF Shapes
        <4>2. ~task'[t].alone
          BY <3>4, <4>1 DEF Requested
        <4>3. QED BY <4>2 DEF Life
      <3>5. QED BY <3>2, <3>3, <3>4
    <2>3. QED BY <2>1, <2>2
  <1>6. ASSUME \/ \E a \in Agents, k \in LockKeys : LockExpires(a, k)
               \/ \E c \in Categories : Offer(c)
        PROVE  UNCHANGED <<doc, data, task>>
    BY <1>6 DEF LockExpires, Offer
  <1>7. \A t \in Tasks : Life(task[t])'
    BY <1>3, <1>4, <1>5, <1>6 DEF Next, vars
  <1>8. QED BY <1>1, <1>7 DEF LifeInv

LEMMA LifeStart == Init => LifeInv
  <1> SUFFICES ASSUME Init PROVE LifeInv
    OBVIOUS
  <1>1. \A t \in Tasks : task[t].op = "idle"
    BY DEF Init, Idle
  <1>2. QED BY <1>1, ShapesStart DEF LifeInv, AloneInv, Life

\* Of an agent whose destruction has succeeded only its webhooks and analytics
\* are left (DestroyLeavesOtherKeys), whatever failures and crashes came before:
\* each other part is gone once its item is done, and no other request stores it
\* again while the destruction is alone.
THEOREM OtherKeysAreLeft == Spec => []DestroyLeavesOtherKeys
  <1>1. LifeInv /\ [Next]_vars => LifeInv'
    BY LifeStep
  <1>2. LifeInv => DestroyLeavesOtherKeys
    <2> SUFFICES ASSUME LifeInv, NEW t \in Tasks, DoneAlone(t, "destroy")
                 PROVE  Gone(task[t].agent)
      BY DEF DestroyLeavesOtherKeys
    <2>1. PICK a \in Agents : task[t].agent = a
      BY DEF LifeInv, Shapes, Sound, DoneAlone, Done
    <2>2. Ending(task[t], a) /\ task[t].prog = <<>>
      BY <2>1 DEF LifeInv, Life, DoneAlone, Done
    <2>3. <<>> \in Seq(Call)
      BY EmptySeq
    <2>4. ~Removing(task[t], a, <<>>)
      BY <2>2, <2>3, RemovingMore
    <2>5. QED BY <2>1, <2>2, <2>4 DEF Ending
  <1>3. QED BY <1>1, <1>2, LifeStart, PTL DEF Spec

\* A reset leaves its agent as new but for its webhooks and analytics
\* (ResetIsFresh): the other parts of the old agent are gone before the new one is created, the loading creates each setting that
\* is missing once, at its default, and the procedures are embedded at the end.
THEOREM ResetMakesFresh == Spec => []ResetIsFresh
  <1>1. LifeInv /\ [Next]_vars => LifeInv'
    BY LifeStep
  <1>2. LifeInv => ResetIsFresh
    <2> SUFFICES ASSUME LifeInv, NEW t \in Tasks, DoneAlone(t, "reset")
                 PROVE  /\ Fresh(doc[task[t].agent])
                        /\ data[task[t].agent] \ OtherKeys = {"plugins", "procedures"}
      BY DEF ResetIsFresh
    <2>1. PICK a \in Agents : task[t].agent = a
      BY DEF LifeInv, Shapes, Sound, DoneAlone, Done
    <2>2. Resetting(task[t], a) /\ task[t].prog = <<>>
      BY <2>1 DEF LifeInv, Life, DoneAlone, Done
    <2>3. Late(a) # <<>> /\ Later(a) # <<>> /\ <<Do("procedures", a)>> # <<>>
          /\ Late(a) \in Seq(Call) /\ CreateProg(a, FALSE) \in Seq(Call)
      BY LateIs
    <2>4. CreateProg(a, FALSE) # <<>>
      <3>1. BuildProg(a) \in Seq(Call) /\ Do("check", a) \in Call
            /\ CreateProg(a, FALSE) = <<Do("check", a)>> \o (BuildProg(a) \o Late(a))
        BY LateIs
      <3>2. BuildProg(a) \o Late(a) \in Seq(Call)
        BY <2>3, <3>1, MoreAfter
      <3> DEFINE x == Do("check", a)
                 w == BuildProg(a) \o Late(a)
                 p == CreateProg(a, FALSE)
      <3>3. x \in Call /\ w \in Seq(Call) /\ p = <<x>> \o w
        BY <3>1, <3>2
      <3> HIDE DEF x, w, p
      <3>4. p # <<>>
        BY <3>3, HeadOfOne
      <3>5. QED BY <3>4 DEF p
    <2>5. ~Removing(task[t], a, CreateProg(a, FALSE))
      BY <2>2, <2>3, RemovingMore
    <2>6. ~Filling(task[t], a, Late(a))
      <3>1. \A L \in Seq(PlainLoads(a)) : L \in Seq(Call)
        BY PlainLoadItems
      <3>2. \A L \in Seq(PlainLoads(a)) : L \o Late(a) # <<>>
        BY <2>3, <3>1, MoreAfter
      <3>3. QED BY <2>2, <3>2 DEF Filling
    <2>7. QED BY <2>1, <2>2, <2>3, <2>4, <2>5, <2>6 DEF Resetting, Made
  <1>3. QED BY <1>1, <1>2, LifeStart, PTL DEF Spec

\* A clone has what its original has (CloneIsFaithful), where no id occurs in the
\* prefix of the keys: the keys the scan has found are copied one by one, the
\* loading of the clone finds its settings all there, and nothing of the original
\* changes while the clone is alone.
THEOREM CloneHasAll ==
  ASSUME SubstringIds = {}
  PROVE  Spec => []CloneIsFaithful
  <1>1. LifeInv /\ [Next]_vars => LifeInv'
    BY LifeStep
  <1>2. LifeInv => CloneIsFaithful
    <2> SUFFICES ASSUME LifeInv, NEW t \in Tasks, DoneAlone(t, "clone"),
                        NEW a, NEW b, a = task[t].agent, b = task[t].to
                 PROVE  /\ doc[b] = doc[a]
                        /\ data[a] \ ({"conversations"} \union OtherKeys) \subseteq data[b]
                        /\ "conversations" \notin data[b]
      BY DEF CloneIsFaithful
    <2>1. a \in Agents /\ b \in Agents /\ a # b /\ data[a] \subseteq Kinds
      BY DEF LifeInv, Shapes, Stores, Sound, DoneAlone, Done
    <2>2. Cloning(task[t], a, b) /\ task[t].prog = <<>>
      BY <2>1 DEF LifeInv, Life, DoneAlone, Done
    <2>3. /\ CloneProg(a, b) # <<>> /\ ScanLeft(a, b) # <<>> /\ LoadLeft(a, b) # <<>>
          /\ AfterLoad(a, b) # <<>> /\ PointsLeft(a, b) # <<>>
          /\ ProceduresLeft(a, b) # <<>> /\ FilesLeft(a, b) # <<>>
      BY <2>1, CloneMore
    <2>4. ~Filling(task[t], a, CloneProg(a, b)) /\ ~Filling(task[t], b, AfterLoad(a, b))
      <3>1. \A x \in Agents : \A L \in Seq(PlainLoads(x)) : L \in Seq(Call)
        BY PlainLoadItems
      <3>2. CloneProg(a, b) \in Seq(Call) /\ AfterLoad(a, b) \in Seq(Call)
        BY <2>1, CloneIs
      <3>3. /\ \A L \in Seq(PlainLoads(a)) : L \o CloneProg(a, b) # <<>>
            /\ \A L \in Seq(PlainLoads(b)) : L \o AfterLoad(a, b) # <<>>
        BY <2>1, <2>3, <3>1, <3>2, MoreAfter
      <3>4. QED BY <2>2, <3>3 DEF Filling
    <2>5. ~Copying(task[t], a, b)
      <3>1. Copies(a) \subseteq Call
        BY <2>1 DEF Copies, CopyKinds, On, Call, Dos, Kinds, RedisKinds
      <3>2. \A C \in Seq(Copies(a)) : C \in Seq(Call)
        BY <3>1, SeqMonotonic
      <3>3. LoadLeft(a, b) \in Seq(Call)
        BY <2>1, CloneIs
      <3>4. \A C \in Seq(Copies(a)) : C \o LoadLeft(a, b) # <<>>
        BY <2>3, <3>2, <3>3, MoreAfter
      <3>5. QED BY <2>2, <3>4 DEF Copying
    <2>6. Alike2(a, b) /\ ("files" \in data[a] => "files" \in data[b])
      BY <2>2, <2>3, <2>4, <2>5 DEF Cloning, Furnishing
    <2>7. QED BY <2>1, <2>6 DEF Alike2, Alike1, Alike, Kinds, RedisKinds
  <1>3. QED BY <1>1, <1>2, LifeStart, PTL DEF Spec

-----------------------------------------------------------------------------
(* Types. *)

OpsInv == \A t \in Tasks : task[t].op \in Ops \union {"idle"}

LEMMA OpsStep ==
  ASSUME Shapes, OpsInv, [Next]_vars
  PROVE  OpsInv'
  <1> SUFFICES ASSUME NEW t \in Tasks PROVE task'[t].op \in Ops \union {"idle"}
    BY DEF OpsInv
  <1>1. Idle.op = "idle"
    BY DEF Idle
  <1>2. ASSUME NEW u \in Tasks, Step(u) \/ StoreFails(u) \/ Crash(u)
        PROVE  task'[t].op \in Ops \union {"idle"}
    <2>1. CASE t = u
      BY <1>1, <1>2, <2>1, StepFrame DEF OpsInv, Like
    <2>2. CASE t # u
      BY <1>2, <2>2, OtherTask DEF OpsInv
    <2>3. QED BY <2>1, <2>2
  <1>3. ASSUME NEW v \in Tasks, Request(v) PROVE task'[t].op \in Ops \union {"idle"}
    <2>1. PICK op, a, b, prog : Start(v, op, a, b, prog)
      BY <1>3, RequestIs
    <2>2. op \in Ops /\ task'[v] = Begun(v, op, a, b, prog)
      BY <2>1, StartIs
    <2>3. t # v => task'[t] = task[t] \/ task'[t] = [task[t] EXCEPT !.alone = FALSE]
      BY <2>1, StartIs
    <2>4. CASE t = v
      BY <2>2, <2>4 DEF Begun, Idle
    <2>5. CASE t # v
      <3>1. task[t] \in Requested
        BY DEF Shapes
      <3>2. task'[t].op = task[t].op
        BY <2>3, <2>5, <3>1 DEF Requested
      <3>3. QED BY <3>2 DEF OpsInv
    <2>6. QED BY <2>4, <2>5
  <1>4. ASSUME \/ \E a \in Agents, k \in LockKeys : LockExpires(a, k)
               \/ \E c \in Categories : Offer(c)
               \/ UNCHANGED vars
        PROVE  task' = task
    BY <1>4 DEF LockExpires, Offer, vars
  <1>5. QED BY <1>2, <1>3, <1>4 DEF Next, OpsInv

\* The variables keep their shapes (TypeOK): what every request has read, got
\* and still has to do is of the agents and services there are.
THEOREM AgentTypes == Spec => []TypeOK
  <1> DEFINE I == Shapes /\ OpsInv
  <1>1. Init => I
    <2>1. Init => OpsInv
      BY DEF Init, Idle, OpsInv
    <2>2. QED BY <2>1, ShapesStart
  <1>2. I /\ [Next]_vars => I'
    BY ShapesStep, OpsStep
  <1>3. I => TypeOK
    <2> SUFFICES ASSUME I PROVE TypeOK
      OBVIOUS
    <2> DEFINE E == [key : Keys, impl : {"default", "custom"}]
    <2>1. Entry \subseteq E
      BY DEF Entry, Keys
    <2>2. Seq(Entry) \subseteq Seq(E)
      <3> HIDE DEF E
      <3> QED BY <2>1, SeqMonotonic
    <2>3. ASSUME NEW a \in Agents
          PROVE  /\ doc[a] # None => doc[a] \in Seq(E)
                 /\ data[a] \subseteq Kinds
                 /\ \A k \in LockKeys : locks[a][k] \in Tasks \union {None}
      <3>1. doc[a] \in Documents /\ data[a] \in SUBSET Kinds
            /\ locks[a] \in [LockKeys -> Tasks \union {None}]
        BY <2>3 DEF Shapes, Stores
      <3> HIDE DEF E
      <3>2. QED BY <2>2, <3>1 DEF Documents
    <2>4. ASSUME NEW t \in Tasks
          PROVE  /\ task[t].op \in Ops \union {"idle"}
                 /\ task[t].got \subseteq [key : Categories, impl : {"default", "custom"}]
                 /\ task[t].answer \in {None, "failed", "refused"}
      <3>1. task[t] \in Requested
        BY <2>4 DEF Shapes
      <3>2. task[t].got \in SUBSET Chosen /\ task[t].answer \in Answers
        BY <3>1 DEF Requested
      <3>3. QED BY <2>4, <3>2 DEF OpsInv, Chosen, Answers
    <2>5. offered \subseteq Categories
      BY DEF Shapes, Stores
    <2>6. QED BY <2>3, <2>4, <2>5 DEF TypeOK
  <1>4. QED BY <1>1, <1>2, <1>3, PTL DEF Spec

====
