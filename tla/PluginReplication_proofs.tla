---- MODULE PluginReplication_proofs ----
(***************************************************************************)
(* Proofs about PluginReplication: the types of its variables for any      *)
(* number of pods, plugins, agents and slots and for all requests; that    *)
(* pods that install plugins, one task after the other, come to agree; and *)
(* that a pod that does one task after the other can boot from what it has *)
(* stored, has hooked what is active, and can make its agents.  The first  *)
(* section is about the events between pods, MarchHare.                    *)
(***************************************************************************)
EXTENDS PluginReplication, FiniteSetTheorems, SequenceTheorems, TLAPS

-----------------------------------------------------------------------------
(* MarchHare implements EventLog, for any pods and plugins and however     *)
(* often listeners stop and start.                                         *)

(* What has been taken lies behind every place from which the pod may read. *)
Behind ==
  \A p \in Pods : \A k \in DOMAIN got[p] :
    /\ cursor[p] # None => got[p][k] <= cursor[p]
    /\ reading[p] # None => got[p][k] <= reading[p]

HareInv == HareTypeOK /\ Behind

(* A sequence of positions stays one when the stream grows. *)
LEMMA LongerStream ==
  ASSUME NEW S, NEW s \in Seq(S), NEW e \in S
  PROVE  /\ Append(s, e) \in Seq(S)
         /\ Len(Append(s, e)) = Len(s) + 1
         /\ DOMAIN Append(s, e) = 1..(Len(s) + 1)
         /\ DOMAIN s \subseteq DOMAIN Append(s, e)
         /\ Len(s) \in Nat
OBVIOUS

LEMMA LargerRange ==
  ASSUME NEW S, NEW T, S \subseteq T, NEW s \in Seq(S)
  PROVE  s \in Seq(T)
OBVIOUS

(* Taking one more of S keeps a family of sequences, or of subsets, over S. *)
LEMMA OneMore ==
  ASSUME NEW S, NEW f \in [Pods -> Seq(S)], NEW g \in [Pods -> SUBSET S],
         NEW p \in Pods, NEW i \in S
  PROVE  /\ [f EXCEPT ![p] = Append(@, i)] \in [Pods -> Seq(S)]
         /\ [g EXCEPT ![p] = @ \cup {i}] \in [Pods -> SUBSET S]
<1>1. Append(f[p], i) \in Seq(S)
  OBVIOUS
<1> QED BY <1>1

LEMMA InvInit == HareInit => HareInv
  BY DEF HareInit, HareInv, HareTypeOK, Behind

LEMMA PublishKeeps ==
  ASSUME HareInv, NEW p \in Pods, NEW kind \in {"installation", "uninstallation"},
         NEW x \in Plugins, Publish(p, kind, x)
  PROVE  HareInv'
<1> DEFINE e == [kind |-> kind, plugin |-> x, pod |-> p]
<1>1. e \in Events
  BY DEF Events
<1>2. stream' = Append(stream, e) /\ stream \in Seq(Events)
  BY DEF Publish, HareInv, HareTypeOK
<1> HIDE DEF e
<1>3. /\ stream' \in Seq(Events) /\ Len(stream) \in Nat /\ Len(stream') = Len(stream) + 1
      /\ DOMAIN stream \subseteq DOMAIN stream'
  BY <1>1, <1>2, LongerStream
<1>4. 0..Len(stream) \subseteq 0..Len(stream')
  BY <1>3
<1>5. UNCHANGED <<listening, ready, cursor, reading, handlers, got>>
  BY DEF Publish
<1>6. got' \in [Pods -> Seq(DOMAIN stream')]
  <2>1. \A q \in Pods : got[q] \in Seq(DOMAIN stream')
    BY <1>3, LargerRange DEF HareInv, HareTypeOK
  <2> QED BY <2>1, <1>5 DEF HareInv, HareTypeOK
<1>7. HareTypeOK'
  BY <1>3, <1>4, <1>5, <1>6 DEF HareInv, HareTypeOK
<1> QED BY <1>5, <1>7 DEF HareInv, Behind

LEMMA ReceiveKeeps ==
  ASSUME HareInv, NEW p \in Pods, Receive(p)
  PROVE  HareInv'
<1> DEFINE i == reading[p] + 1
<1>1. reading[p] \in Nat /\ i \in DOMAIN stream /\ i \in Nat /\ i <= Len(stream)
  BY DEF Receive, Pending, HareInv, HareTypeOK
<1>2. i = reading[p] + 1
  OBVIOUS
<1>3. /\ cursor' = [cursor EXCEPT ![p] = i] /\ reading' = [reading EXCEPT ![p] = None]
      /\ UNCHANGED <<stream, listening, ready>>
      /\ \/ handlers' = [handlers EXCEPT ![p] = @ \cup {i}] /\ got' = [got EXCEPT ![p] = Append(@, i)]
         \/ UNCHANGED <<handlers, got>>
  BY DEF Receive
<1> HIDE DEF i
<1>4. got' \in [Pods -> Seq(DOMAIN stream)] /\ handlers' \in [Pods -> SUBSET DOMAIN stream]
  <2> DEFINE D == DOMAIN stream
  <2>1. got \in [Pods -> Seq(D)] /\ handlers \in [Pods -> SUBSET D] /\ i \in D
    BY <1>1 DEF HareInv, HareTypeOK
  <2> HIDE DEF D
  <2>2. /\ [got EXCEPT ![p] = Append(@, i)] \in [Pods -> Seq(D)]
        /\ [handlers EXCEPT ![p] = @ \cup {i}] \in [Pods -> SUBSET D]
    BY <2>1, OneMore
  <2>3. got' \in [Pods -> Seq(D)] /\ handlers' \in [Pods -> SUBSET D]
    BY <1>3, <2>1, <2>2
  <2> QED BY <2>3 DEF D
<1>5. HareTypeOK'
  <2>1. i \in 0..Len(stream)
    BY <1>1
  <2>2. cursor' \in [Pods -> 0..Len(stream) \cup {None}]
    BY <1>3, <2>1 DEF HareInv, HareTypeOK
  <2>3. reading' \in [Pods -> 0..Len(stream) \cup {None}]
    BY <1>3 DEF HareInv, HareTypeOK
  <2> QED BY <1>3, <1>4, <2>2, <2>3 DEF HareInv, HareTypeOK
<1>6. \A k \in DOMAIN got'[p] : got'[p][k] <= i
  <2>1. \A k \in DOMAIN got[p] : got[p][k] \in Nat /\ got[p][k] <= reading[p]
    BY <1>1, NoneIsNoPosition DEF HareInv, HareTypeOK, Behind
  <2>2. got[p] \in Seq(Nat)
    BY LargerRange DEF HareInv, HareTypeOK
  <2>3. CASE got'[p] = Append(got[p], i)
    BY <2>1, <2>2, <2>3, <1>1, <1>2
  <2>4. CASE got'[p] = got[p]
    BY <2>1, <2>4, <1>1, <1>2
  <2> QED BY <2>3, <2>4, <1>3 DEF HareInv, HareTypeOK
<1>7. Behind'
  BY <1>3, <1>6 DEF HareInv, HareTypeOK, Behind
<1> QED BY <1>5, <1>7 DEF HareInv

LEMMA PollKeeps ==
  ASSUME HareInv, NEW p \in Pods, Poll(p)
  PROVE  HareInv'
<1>1. From(p) \in 0..Len(stream)
  BY DEF From, HareInv, HareTypeOK
<1>2. \A k \in DOMAIN got[p] : got[p][k] <= From(p)
  BY DEF From, HareInv, HareTypeOK, Behind
<1>3. reading' = [reading EXCEPT ![p] = From(p)]
  /\ UNCHANGED <<stream, listening, ready, cursor, handlers, got>>
  BY DEF Poll
<1>4. HareTypeOK'
  BY <1>1, <1>3 DEF HareInv, HareTypeOK
<1> QED BY <1>2, <1>3, <1>4 DEF HareInv, HareTypeOK, Behind

LEMMA OthersKeep ==
  ASSUME HareInv, NEW p \in Pods,
         \/ Listen(p) \/ MarkReady(p) \/ PollAgain(p) \/ Halt(p)
         \/ \E i \in handlers[p] : Handle(p, i)
  PROVE  HareInv'
<1>1. CASE Listen(p)
  BY <1>1 DEF Listen, HareInv, HareTypeOK, Behind
<1>2. CASE MarkReady(p)
  BY <1>2 DEF MarkReady, HareInv, HareTypeOK, Behind
<1>3. CASE PollAgain(p)
  BY <1>3 DEF PollAgain, HareInv, HareTypeOK, Behind
<1>4. CASE Halt(p)
  BY <1>4 DEF Halt, HareInv, HareTypeOK, Behind
<1>5. CASE \E i \in handlers[p] : Handle(p, i)
  BY <1>5 DEF Handle, HareInv, HareTypeOK, Behind
<1> QED BY <1>1, <1>2, <1>3, <1>4, <1>5

LEMMA InvStep == HareInv /\ [HareNext]_hareVars => HareInv'
<1> SUFFICES ASSUME HareInv, [HareNext]_hareVars PROVE HareInv'
  OBVIOUS
<1>1. CASE HareNext
  <2>1. PICK p \in Pods :
          \/ Listen(p) \/ MarkReady(p) \/ Poll(p) \/ PollAgain(p) \/ Receive(p) \/ Halt(p)
          \/ \E i \in handlers[p] : Handle(p, i)
          \/ \E kind \in {"installation", "uninstallation"}, x \in Plugins : Publish(p, kind, x)
    BY <1>1 DEF HareNext
  <2> QED BY <2>1, PublishKeeps, ReceiveKeeps, PollKeeps, OthersKeep
<1>2. CASE UNCHANGED hareVars
  BY <1>2 DEF hareVars, HareInv, HareTypeOK, Behind
<1> QED BY <1>1, <1>2

(* The variables of MarchHare keep their shapes, and no position lies beyond the *)
(* end of the stream (march_hare.py, _listener_loop).                            *)
THEOREM HareTyped == HareSpec => []HareTypeOK
<1>1. HareInv => HareTypeOK
  BY DEF HareInv
<1> QED BY <1>1, InvInit, InvStep, PTL DEF HareSpec

(* Every step of MarchHare publishes an event, takes one that lies behind none   *)
(* that the pod has taken, or leaves stream and taken events alone.              *)
LEMMA LogStep == HareInv /\ [HareNext]_hareVars => [Log!Next]_<<stream, got>>
<1> SUFFICES ASSUME HareInv, [HareNext]_hareVars PROVE [Log!Next]_<<stream, got>>
  OBVIOUS
<1>1. ASSUME NEW p \in Pods, NEW kind \in {"installation", "uninstallation"}, NEW x \in Plugins,
             Publish(p, kind, x)
      PROVE  Log!Publish
  BY <1>1 DEF Publish, Log!Publish, Events
<1>2. ASSUME NEW p \in Pods, Receive(p)
      PROVE  Log!Take(p) \/ UNCHANGED <<stream, got>>
  <2> DEFINE i == reading[p] + 1
  <2>1. i \in DOMAIN stream /\ reading[p] \in Nat
    BY <1>2 DEF Receive, Pending, HareInv, HareTypeOK
  <2>2. \A k \in DOMAIN got[p] : got[p][k] < i
    <3>1. \A k \in DOMAIN got[p] : got[p][k] \in Nat /\ got[p][k] <= reading[p]
      BY <2>1, NoneIsNoPosition DEF HareInv, HareTypeOK, Behind
    <3> QED BY <3>1, <2>1
  <2>3. UNCHANGED stream /\ (got' = [got EXCEPT ![p] = Append(@, i)] \/ UNCHANGED got)
    BY <1>2 DEF Receive
  <2> HIDE DEF i
  <2> QED BY <2>1, <2>2, <2>3 DEF Log!Take
<1>3. ASSUME NEW p \in Pods,
             \/ Listen(p) \/ MarkReady(p) \/ Poll(p) \/ PollAgain(p) \/ Halt(p)
             \/ \E i \in handlers[p] : Handle(p, i)
      PROVE  UNCHANGED <<stream, got>>
  BY <1>3 DEF Listen, MarkReady, Poll, PollAgain, Halt, Handle
<1>4. CASE HareNext
  <2>1. PICK p \in Pods :
          \/ Listen(p) \/ MarkReady(p) \/ Poll(p) \/ PollAgain(p) \/ Receive(p) \/ Halt(p)
          \/ \E i \in handlers[p] : Handle(p, i)
          \/ \E kind \in {"installation", "uninstallation"}, x \in Plugins : Publish(p, kind, x)
    BY <1>4 DEF HareNext
  <2> QED BY <2>1, <1>1, <1>2, <1>3 DEF Log!Next
<1>5. CASE UNCHANGED hareVars
  BY <1>5 DEF hareVars
<1> QED BY <1>4, <1>5

(* MarchHare implements EventLog: in every behaviour a pod starts the handlers of *)
(* events in stream order, and of no event twice.                                 *)
THEOREM HareImplementsLog == HareSpec => HandlersInOrder
<1>1. HareInit => Log!Init
  BY DEF HareInit, Log!Init
<1> QED BY <1>1, InvInit, InvStep, LogStep, PTL DEF HareSpec, HandlersInOrder, Log!Spec

-----------------------------------------------------------------------------
(* Lists of plugins. *)

(* A set of numbers has a least one. *)
LEMMA LeastNumber ==
  ASSUME NEW S \in SUBSET Nat, S # {}
  PROVE  \E n \in S : \A m \in S : n <= m
<1> DEFINE Less == {p \in Nat \X Nat : p[1] < p[2]}
<1>1. IsWellFoundedOn(Less, Nat)
  BY NatLessThanWellFounded DEF OpToRel
<1>2. PICK n \in S : \A m \in S : <<m, n>> \notin Less
  <2> HIDE DEF Less
  <2> QED BY <1>1, WFMin
<1>3. ASSUME NEW m \in S PROVE n <= m
  <2>1. <<m, n>> \in Nat \X Nat /\ <<m, n>>[1] = m /\ <<m, n>>[2] = n
    OBVIOUS
  <2>2. ~(m < n)
    BY <1>2, <2>1
  <2> QED BY <2>2
<1> QED BY <1>3

(* What SetToSeqs gives are the lists of the set, each element once. *)
LEMMA ListsOfSet ==
  ASSUME NEW S, IsFiniteSet(S), NEW f \in SetToSeqs(S)
  PROVE  /\ f \in Seq(S) /\ ToSet(f) = S
         /\ \A i, j \in DOMAIN f : f[i] = f[j] => i = j
<1> DEFINE n == Cardinality(S)
<1>1. n \in Nat
  BY FS_CardinalityType
<1>2. f \in [1..n -> S] /\ \A i, j \in 1..n : i # j => f[i] # f[j]
  BY DEF SetToSeqs
<1>3. IsFiniteSet(1..n) /\ Cardinality(1..n) = n
  BY <1>1, FS_Interval
<1>4. f \in Injection(1..n, S)
  BY <1>2 DEF Injection, IsInjective
<1>5. f \in Surjection(1..n, S)
  BY <1>3, <1>4, FS_Injection
<1>6. f \in Seq(S) /\ DOMAIN f = 1..n
  <2> HIDE DEF n
  <2> QED BY <1>1, <1>2, SeqDef
<1>7. ToSet(f) = S
  BY <1>2, <1>5, <1>6 DEF Surjection, ToSet
<1> QED BY <1>2, <1>6, <1>7

(* A list without repetitions. *)
Distinct(s) == \A i, j \in DOMAIN s : s[i] = s[j] => i = j

(* What follows a list. *)
LEMMA AppendIs ==
  ASSUME NEW S, NEW s \in Seq(S), NEW x \in S
  PROVE  /\ Append(s, x) \in Seq(S) /\ ToSet(Append(s, x)) = ToSet(s) \cup {x}
         /\ Distinct(s) /\ x \notin ToSet(s) => Distinct(Append(s, x))
<1>1. /\ Append(s, x) \in Seq(S) /\ DOMAIN Append(s, x) = 1..(Len(s) + 1)
      /\ \A i \in 1..Len(s) : Append(s, x)[i] = s[i]
      /\ Append(s, x)[Len(s) + 1] = x /\ Len(s) \in Nat /\ DOMAIN s = 1..Len(s)
  OBVIOUS
<1>2. ToSet(Append(s, x)) = ToSet(s) \cup {x}
  BY <1>1 DEF ToSet
<1>3. Distinct(s) /\ x \notin ToSet(s) => Distinct(Append(s, x))
  BY <1>1 DEF ToSet, Distinct
<1> QED BY <1>1, <1>2, <1>3

(* list.remove takes the first of its occurrences out of a list. *)
LEMMA RemoveFirstIs ==
  ASSUME NEW S, NEW s \in Seq(S), NEW x \in ToSet(s)
  PROVE  /\ RemoveFirst(s, x) \in Seq(S)
         /\ Distinct(s) => Distinct(RemoveFirst(s, x)) /\ ToSet(RemoveFirst(s, x)) = ToSet(s) \ {x}
<1> DEFINE I == {i \in 1..Len(s) : s[i] = x}
<1>1. I \in SUBSET Nat /\ I # {} /\ DOMAIN s = 1..Len(s) /\ Len(s) \in Nat
  BY DEF ToSet
<1>2. \E n \in I : \A m \in I : n <= m
  BY <1>1, LeastNumber
<1>3. Min(I) \in I
  <2> HIDE DEF I
  <2> QED BY <1>2 DEF Min
<1>4. PICK n \in 1..Len(s) : s[n] = x /\ n = Min(I)
  BY <1>3
<1>5. SelectInSeq(s, LAMBDA v : v = x) = n
  BY <1>1, <1>4 DEF SelectInSeq
<1>6. RemoveFirst(s, x) = SubSeq(s, 1, n - 1) \o SubSeq(s, n + 1, Len(s))
  BY <1>4, <1>5 DEF RemoveFirst, RemoveAt
<1> DEFINE a == SubSeq(s, 1, n - 1)
           b == SubSeq(s, n + 1, Len(s))
           r == a \o b
<1>7. /\ a \in Seq(S) /\ Len(a) = n - 1 /\ \A i \in 1..(n - 1) : a[i] = s[i]
  BY <1>1
<1>8. /\ b \in Seq(S) /\ Len(b) = Len(s) - n /\ \A i \in 1..(Len(s) - n) : b[i] = s[n + i]
  <2>1. n + 1 \in 1..(Len(s) + 1) /\ Len(s) \in 0..Len(s)
    BY <1>1
  <2>2. /\ b \in Seq(S) /\ Len(b) = IF n + 1 <= Len(s) THEN Len(s) - (n + 1) + 1 ELSE 0
        /\ \A i \in 1..(Len(s) - (n + 1) + 1) : b[i] = s[n + 1 + i - 1]
    BY <2>1, SubSeqProperties
  <2>3. ASSUME NEW i \in 1..(Len(s) - n) PROVE b[i] = s[n + i]
    <3>1. i \in 1..(Len(s) - (n + 1) + 1) /\ n + 1 + i - 1 = n + i
      BY <1>1
    <3> QED BY <3>1, <2>2
  <2>4. Len(b) = Len(s) - n
    <3>1. Len(b) = IF n + 1 <= Len(s) THEN Len(s) - (n + 1) + 1 ELSE 0
      BY <2>2
    <3> HIDE DEF b
    <3>2. Len(s) \in Nat /\ n \in 1..Len(s)
      BY <1>1
    <3> QED BY <3>1, <3>2
  <2> QED BY <2>2, <2>3, <2>4
<1> HIDE DEF a, b
<1>9. /\ r \in Seq(S) /\ DOMAIN r = 1..(Len(s) - 1)
      /\ \A i \in 1..(Len(s) - 1) : r[i] = IF i < n THEN s[i] ELSE s[i + 1]
  <2>1. /\ r \in Seq(S) /\ Len(r) = Len(a) + Len(b)
        /\ \A i \in 1..(Len(a) + Len(b)) : r[i] = IF i <= Len(a) THEN a[i] ELSE b[i - Len(a)]
    BY <1>7, <1>8, ConcatProperties
  <2>2. Len(r) = Len(s) - 1 /\ DOMAIN r = 1..(Len(s) - 1)
    <3> HIDE DEF r
    <3> QED BY <2>1, <1>1, <1>7, <1>8
  <2>3. ASSUME NEW i \in 1..(Len(s) - 1) PROVE r[i] = IF i < n THEN s[i] ELSE s[i + 1]
    <3> HIDE DEF r
    <3>1. CASE i < n
      <4>1. i <= Len(a) /\ i \in 1..(n - 1)
        BY <3>1, <1>1, <1>7
      <4> QED BY <4>1, <3>1, <2>1, <2>2, <1>7
    <3>2. CASE ~(i < n)
      <4>1. ~(i <= Len(a)) /\ i - Len(a) \in 1..(Len(s) - n) /\ n + (i - Len(a)) = i + 1
        BY <3>2, <1>1, <1>7
      <4>2. r[i] = b[i - Len(a)]
        BY <4>1, <2>1, <2>2
      <4> QED BY <4>1, <4>2, <3>2, <1>8
    <3> QED BY <3>1, <3>2
  <2> QED BY <2>1, <2>2, <2>3
<1> HIDE DEF r
<1>10. ASSUME Distinct(s) PROVE Distinct(r) /\ ToSet(r) = ToSet(s) \ {x}
  <2>1. Distinct(r)
    <3> SUFFICES ASSUME NEW i \in 1..(Len(s) - 1), NEW j \in 1..(Len(s) - 1), r[i] = r[j] PROVE i = j
      BY <1>9 DEF Distinct
    <3> QED BY SMTT(30), <1>9, <1>10, <1>1 DEF Distinct
  <2>2. ToSet(r) \subseteq ToSet(s) \ {x}
    <3> SUFFICES ASSUME NEW i \in 1..(Len(s) - 1) PROVE r[i] \in ToSet(s) \ {x}
      BY <1>9 DEF ToSet
    <3> QED BY <1>1, <1>4, <1>9, <1>10 DEF Distinct, ToSet
  <2>3. ToSet(s) \ {x} \subseteq ToSet(r)
    <3> SUFFICES ASSUME NEW i \in 1..Len(s), s[i] # x PROVE s[i] \in ToSet(r)
      BY <1>1 DEF ToSet
    <3>1. CASE i < n
      BY SMTT(30), <3>1, <1>1, <1>9 DEF ToSet
    <3>2. CASE i > n
      <4>1. i - 1 \in DOMAIN r /\ r[i - 1] = s[i]
        BY <3>2, <1>1, <1>9
      <4> QED BY <4>1 DEF ToSet
    <3> QED BY <3>1, <3>2, <1>4
  <2> QED BY <2>1, <2>2, <2>3
<1> QED BY <1>6, <1>9, <1>10 DEF r, a, b

-----------------------------------------------------------------------------
(* Tasks. *)

(* A task that switches a plugin has one, and one that has an agent made has an *)
(* agent.                                                                       *)
Job(t) ==
  /\ t.op \in {"install", "installed", "uninstall", "uninstalled", "toggle", "agent"}
     \/ t.pc = "activate" => t.plugin \in Plugins
  /\ t.pc \in {"discover", "rewrite", "resave"} => t.agent \in Agents

Jobs == {t \in Task : Job(t)}

Tasks == [Pods -> [Slots -> Jobs]]

(* What is as it was but for one slot. *)
Put(f, g, p, k, t) ==
  /\ g \in Tasks /\ g[p][k] = t
  /\ \A q \in Pods, l \in Slots : q # p \/ l # k => g[q][l] = f[q][l]

LEMMA PutIs ==
  ASSUME NEW f \in Tasks, NEW p \in Pods, NEW k \in Slots, NEW t \in Jobs
  PROVE  Put(f, [f EXCEPT ![p][k] = t], p, k, t)
BY DEF Put, Tasks

(* A place that a task can go to without another change. *)
MayGo(t, pc) ==
  /\ pc \in Pcs
  /\ pc = "activate" => t.plugin \in Plugins
  /\ pc \in {"discover", "rewrite", "resave"} => t.agent \in Agents

(* A task that goes on at another place, perhaps with a list to be stored. *)
Going(t, pc) == [t EXCEPT !.pc = pc]
GoingWith(t, pc, S) == [t EXCEPT !.pc = pc, !.put = S]

LEMMA TaskPc ==
  ASSUME NEW t \in Jobs, NEW pc \in Pcs, MayGo(t, pc)
  PROVE  Going(t, pc) \in Jobs
BY DEF Going, Jobs, Job, Task, MayGo

LEMMA TaskPut ==
  ASSUME NEW t \in Jobs, NEW pc \in Pcs, MayGo(t, pc), NEW S \in SUBSET Plugins
  PROVE  GoingWith(t, pc, S) \in Jobs
BY DEF GoingWith, Jobs, Job, Task, MayGo

LEMMA Pc ==
  ASSUME NEW f \in Tasks, NEW p \in Pods, NEW k \in Slots, NEW pc \in Pcs, MayGo(f[p][k], pc)
  PROVE  Put(f, [f EXCEPT ![p][k].pc = pc], p, k, Going(f[p][k], pc))
<1>1. Going(f[p][k], pc) \in Jobs
  BY TaskPc DEF Tasks
<1>2. [f EXCEPT ![p][k].pc = pc] = [f EXCEPT ![p][k] = Going(f[p][k], pc)]
  BY DEF Tasks, Going
<1> QED BY <1>1, <1>2, PutIs

LEMMA PcPut ==
  ASSUME NEW f \in Tasks, NEW p \in Pods, NEW k \in Slots, NEW pc \in Pcs, MayGo(f[p][k], pc),
         NEW S \in SUBSET Plugins
  PROVE  Put(f, [f EXCEPT ![p][k].pc = pc, ![p][k].put = S], p, k,
             GoingWith(f[p][k], pc, S))
<1>1. GoingWith(f[p][k], pc, S) \in Jobs
  BY TaskPut DEF Tasks
<1>2. [f EXCEPT ![p][k].pc = pc, ![p][k].put = S] = [f EXCEPT ![p][k] = GoingWith(f[p][k], pc, S)]
  BY DEF Tasks, GoingWith
<1> QED BY <1>1, <1>2, PutIs

LEMMA NoTaskIs == NoTask \in Jobs
BY DEF NoTask, Task, Ops, Pcs, Job, Jobs

-----------------------------------------------------------------------------
(* What the actions do with the tasks. *)

LEMMA EndIs ==
  ASSUME task \in Tasks, NEW p \in Pods, NEW k \in Slots, End(p, k)
  PROVE  Put(task, task', p, k, NoTask)
BY PutIs, NoTaskIs DEF End

LEMMA GotoIs ==
  ASSUME task \in Tasks, NEW p \in Pods, NEW k \in Slots, NEW pc \in Pcs, MayGo(task[p][k], pc),
         Goto(p, k, pc)
  PROVE  Put(task, task', p, k, Going(task[p][k], pc))
BY Pc DEF Goto

Begun(op, pc, x, off) ==
  [NoTask EXCEPT !.op = op, !.pc = pc, !.plugin = x, !.off = off]

LEMMA BegunIs ==
  ASSUME NEW op \in Ops, NEW pc \in Pcs \ {"discover", "rewrite", "resave"},
         NEW x \in Plugins, NEW off \in BOOLEAN
  PROVE  Begun(op, pc, x, off) \in Jobs
BY ZenonT(30) DEF Begun, NoTask, Task, Ops, Pcs, Jobs, Job

LEMMA BeginIs ==
  ASSUME task \in Tasks, NEW p \in Pods, NEW k \in Slots,
         NEW op \in Ops, NEW pc \in Pcs \ {"discover", "rewrite", "resave"},
         NEW x \in Plugins,
         NEW off \in BOOLEAN, Begin(p, k, op, pc, x, off)
  PROVE  task[p][k] = NoTask /\ Put(task, task', p, k, Begun(op, pc, x, off))
<1>1. Begun(op, pc, x, off) \in Jobs
  BY BegunIs
<1>2. task[p][k] = NoTask /\ task' = [task EXCEPT ![p][k] = Begun(op, pc, x, off)]
  BY DEF Begin, Begun
<1> QED BY <1>1, <1>2, PutIs

\* A task that has been put keeps the tasks typed.
LEMMA PutTyped ==
  ASSUME NEW f, NEW g, NEW p, NEW k, NEW t, Put(f, g, p, k, t)
  PROVE  g \in Tasks
BY DEF Put

(* A task that goes to the agents of an activated plugin. *)
ToAgents(t) == [Going(t, "list") EXCEPT !.off = FALSE]

(* A pod loads one more plugin. *)
Loading(p, x) == [loaded EXCEPT ![p] = @ \cup {x}]

LEMMA UninstallingIs ==
  ASSUME task \in Tasks, NEW p \in Pods, NEW k \in Slots, NEW x, NEW t \in Jobs,
         Uninstalling(p, k, x, t)
  PROVE  \/ /\ x \in folder /\ x \in loaded[p] /\ Active(p, x) /\ UNCHANGED folder
            /\ Put(task, task', p, k, Going(t, "deactivate"))
         \/ /\ x \in folder /\ x \in loaded[p] /\ ~Active(p, x) /\ folder' = folder \ {x}
            /\ Put(task, task', p, k, Going(t, "notify"))
         \/ /\ ~(x \in folder /\ x \in loaded[p]) /\ UNCHANGED folder
            /\ Put(task, task', p, k, Going(t, "notify"))
<1>1. /\ Going(t, "deactivate") \in Jobs /\ Going(t, "notify") \in Jobs
  <2>1. MayGo(t, "deactivate") /\ MayGo(t, "notify") /\ {"deactivate", "notify"} \subseteq Pcs
    BY DEF MayGo, Pcs
  <2> QED BY <2>1, TaskPc
<1>2. \/ /\ x \in folder /\ x \in loaded[p] /\ Active(p, x) /\ UNCHANGED folder
         /\ task' = [task EXCEPT ![p][k] = Going(t, "deactivate")]
      \/ /\ x \in folder /\ x \in loaded[p] /\ ~Active(p, x) /\ folder' = folder \ {x}
         /\ task' = [task EXCEPT ![p][k] = Going(t, "notify")]
      \/ /\ ~(x \in folder /\ x \in loaded[p]) /\ UNCHANGED folder
         /\ task' = [task EXCEPT ![p][k] = Going(t, "notify")]
  BY DEF Uninstalling, Going
<1> QED BY <1>1, <1>2, PutIs

LEMMA TogglingIs ==
  ASSUME task \in Tasks, NEW p \in Pods, NEW k \in Slots, NEW t \in Jobs, NEW x, x = t.plugin,
         folder \subseteq Plugins, Toggling(p, k, x, t)
  PROVE  \/ /\ x \in folder /\ ~Active(p, x) /\ loaded' = Loading(p, x)
            /\ Put(task, task', p, k, [t EXCEPT !.pc = "activate", !.off = FALSE])
         \/ /\ x \in folder /\ Active(p, x) /\ x \in loaded[p] /\ UNCHANGED loaded
            /\ Put(task, task', p, k, Going(t, "deactivate"))
         \/ /\ x \notin folder \/ (Active(p, x) /\ x \notin loaded[p])
            /\ UNCHANGED loaded /\ Put(task, task', p, k, NoTask)
<1>1. /\ Going(t, "deactivate") \in Jobs
      /\ t.plugin \in Plugins => [t EXCEPT !.pc = "activate", !.off = FALSE] \in Jobs
  BY DEF Task, Pcs, Job, Jobs, Going
<1>2. \/ /\ x \in folder /\ ~Active(p, x) /\ loaded' = Loading(p, x)
         /\ task' = [task EXCEPT ![p][k] = [t EXCEPT !.pc = "activate", !.off = FALSE]]
      \/ /\ x \in folder /\ Active(p, x) /\ x \in loaded[p] /\ UNCHANGED loaded
         /\ task' = [task EXCEPT ![p][k] = Going(t, "deactivate")]
      \/ /\ x \notin folder \/ (Active(p, x) /\ x \notin loaded[p])
         /\ UNCHANGED loaded /\ End(p, k)
  BY DEF Toggling, Going, Loading
<1> QED BY <1>1, <1>2, PutIs, EndIs

LEMMA UninstallIs ==
  ASSUME task \in Tasks, NEW p \in Pods, NEW k \in Slots, NEW x \in Plugins,
         NEW op \in {"uninstall", "uninstalled"}, Uninstall(p, k, x, op), task[p][k] = NoTask
  PROVE  \/ /\ Active(p, x) /\ x \in loaded[p] /\ UNCHANGED folder
            /\ Put(task, task', p, k, Begun(op, "list", x, TRUE))
         \/ /\ Active(p, x) /\ x \notin loaded[p] /\ UNCHANGED folder
            /\ Put(task, task', p, k, Begun(op, "notify", x, TRUE))
         \/ /\ ~Active(p, x) /\ x \in folder /\ x \in loaded[p] /\ folder' = folder \ {x}
            /\ Put(task, task', p, k, Begun(op, "notify", x, TRUE))
         \/ /\ ~Active(p, x) /\ ~(x \in folder /\ x \in loaded[p]) /\ UNCHANGED folder
            /\ Put(task, task', p, k, Begun(op, "notify", x, TRUE))
<1>1. CASE Active(p, x)
  <2>1. UNCHANGED folder /\ Begin(p, k, op, IF x \in loaded[p] THEN "list" ELSE "notify", x, TRUE)
    BY <1>1 DEF Uninstall
  <2>2. op \in Ops /\ "list" \in Pcs \ {"discover", "rewrite", "resave"}
      /\ "notify" \in Pcs \ {"discover", "rewrite", "resave"}
    BY DEF Ops, Pcs
  <2>3. CASE x \in loaded[p]
    <3>1. Begin(p, k, op, "list", x, TRUE)
      BY <2>1, <2>3
    <3>2. Put(task, task', p, k, Begun(op, "list", x, TRUE))
      BY <2>2, <3>1, BeginIs
    <3> QED BY <1>1, <2>1, <2>3, <3>2
  <2>4. CASE x \notin loaded[p]
    <3>1. Begin(p, k, op, "notify", x, TRUE)
      BY <2>1, <2>4
    <3>2. Put(task, task', p, k, Begun(op, "notify", x, TRUE))
      BY <2>2, <3>1, BeginIs
    <3> QED BY <1>1, <2>1, <2>4, <3>2
  <2> QED BY <2>3, <2>4
<1>2. CASE ~Active(p, x)
  <2> DEFINE t == [NoTask EXCEPT !.op = op, !.plugin = x, !.off = TRUE]
  <2>1. t \in Jobs /\ Going(t, "notify") = Begun(op, "notify", x, TRUE)
    BY DEF NoTask, Task, Ops, Pcs, Begun, Job, Jobs, Going
  <2>2. Uninstalling(p, k, x, t)
    BY <1>2 DEF Uninstall
  <2> HIDE DEF t
  <2>3. \/ /\ x \in folder /\ x \in loaded[p] /\ Active(p, x) /\ UNCHANGED folder
           /\ Put(task, task', p, k, Going(t, "deactivate"))
        \/ /\ x \in folder /\ x \in loaded[p] /\ ~Active(p, x) /\ folder' = folder \ {x}
           /\ Put(task, task', p, k, Going(t, "notify"))
        \/ /\ ~(x \in folder /\ x \in loaded[p]) /\ UNCHANGED folder
           /\ Put(task, task', p, k, Going(t, "notify"))
    BY <2>1, <2>2, UninstallingIs
  <2> QED BY <1>2, <2>1, <2>3
<1> QED BY <1>1, <1>2

-----------------------------------------------------------------------------
(* Types. *)

LEMMA BootIs ==
  ASSUME task \in Tasks, NEW p \in Pods, NEW k \in Slots, Begin(p, k, "boot", "load", None, FALSE)
  PROVE  task[p][k] = NoTask /\ Put(task, task', p, k, Begun("boot", "load", None, FALSE))
<1>1. Begun("boot", "load", None, FALSE) \in Jobs
  BY DEF Begun, NoTask, Task, Ops, Pcs, Job, Jobs
<1>2. task[p][k] = NoTask /\ task' = [task EXCEPT ![p][k] = Begun("boot", "load", None, FALSE)]
  BY DEF Begin, Begun
<1> QED BY <1>1, <1>2, PutIs

(* TypeOK with MarchHare's invariant, that what a pod has taken of the stream lies *)
(* behind the places from which it reads.                                          *)
Typed ==
  /\ HareInv
  /\ folder \subseteq Plugins /\ listed \subseteq Plugins
  /\ enabled \in [Agents -> SUBSET Plugins]
  /\ stage \in [Pods -> {"down", "booting", "serving"}]
  /\ active \in [Pods -> Seq(Plugins)]
  /\ loaded \in [Pods -> SUBSET Plugins] /\ hooks \in [Pods -> SUBSET Plugins]
  /\ task \in Tasks
  /\ requests \in Nat /\ crashes \in Nat

LEMMA TypedMeans == Typed => TypeOK
<1> SUFFICES ASSUME Typed PROVE TypeOK
  OBVIOUS
<1>1. task \in [Pods -> [Slots -> Task]]
  BY DEF Typed, Tasks, Jobs
<1> QED BY <1>1 DEF Typed, TypeOK, HareInv

LEMMA HareUnchanged == HareInv /\ UNCHANGED hareVars => HareInv'
BY InvStep

LEMMA TaskFields ==
  ASSUME task \in Tasks, NEW p \in Pods, NEW k \in Slots
  PROVE  /\ task[p][k] \in Jobs /\ task[p][k] \in Task /\ Job(task[p][k])
         /\ task[p][k].op \in Ops /\ task[p][k].pc \in Pcs
         /\ task[p][k].plugin \in Plugins \cup {None} /\ task[p][k].agent \in Agents \cup {None}
         /\ task[p][k].off \in BOOLEAN /\ task[p][k].fits \in BOOLEAN
         /\ task[p][k].put \in SUBSET Plugins /\ task[p][k].mine \in SUBSET Plugins
         /\ task[p][k].todo \in SUBSET Agents
<1>1. task[p][k] \in Jobs
  BY DEF Tasks
<1> QED BY <1>1 DEF Task, Jobs

LEMMA TypedInit == Init => Typed
<1> SUFFICES ASSUME Init PROVE Typed
  OBVIOUS
<1>1. HareInv
  BY InvInit DEF Init
<1>2. folder \subseteq Plugins /\ listed \subseteq Plugins /\ enabled \in [Agents -> SUBSET Plugins]
  BY InstalledArePlugins DEF Init
<1>3. task \in Tasks
  BY NoTaskIs DEF Init, Tasks
<1>4. /\ stage \in [Pods -> {"down", "booting", "serving"}]
      /\ active \in [Pods -> Seq(Plugins)]
      /\ loaded \in [Pods -> SUBSET Plugins] /\ hooks \in [Pods -> SUBSET Plugins]
      /\ requests \in Nat /\ crashes \in Nat
  BY DEF Init
<1> QED BY <1>1, <1>2, <1>3, <1>4 DEF Typed

(* What a task does with the system's MadHatter. *)

LEMMA ActivateIs ==
  ASSUME Typed, NEW p \in Pods, NEW k \in Slots, Activate(p, k)
  PROVE  LET t == task[p][k] IN
         /\ t.pc = "activate" /\ t.plugin \in Plugins
         /\ active' = [active EXCEPT ![p] = Append(@, t.plugin)]
         /\ active'[p] \in Seq(Plugins) /\ ToSet(active'[p]) = ToSet(active[p]) \cup {t.plugin}
         /\ Put(task, task', p, k, GoingWith(t, "store", ToSet(active'[p])))
         /\ UNCHANGED <<hareVars, shared, stage, loaded, hooks, requests, crashes>>
<1> DEFINE t == task[p][k]
<1>1. t.pc = "activate" /\ t.plugin \in Plugins
  BY TaskFields DEF Typed, Activate, At, Job
<1>2. active[p] \in Seq(Plugins) /\ active' = [active EXCEPT ![p] = Append(@, t.plugin)]
  BY DEF Typed, Activate
<1>3. active'[p] = Append(active[p], t.plugin)
  BY <1>2 DEF Typed
<1>4. active'[p] \in Seq(Plugins) /\ ToSet(active'[p]) = ToSet(active[p]) \cup {t.plugin}
  BY <1>1, <1>2, <1>3, AppendIs
<1>5. ToSet(active'[p]) \in SUBSET Plugins
  BY <1>4 DEF ToSet
<1>6. task' = [task EXCEPT ![p][k].pc = "store", ![p][k].put = ToSet(active'[p])]
  BY DEF Activate
<1>7. MayGo(t, "store") /\ "store" \in Pcs
  BY DEF MayGo, Pcs
<1>8. Put(task, task', p, k, GoingWith(t, "store", ToSet(active'[p])))
  BY <1>5, <1>6, <1>7, PcPut DEF Typed
<1> QED BY <1>1, <1>2, <1>4, <1>8 DEF Activate

LEMMA DeactivateIs ==
  ASSUME Typed, NEW p \in Pods, NEW k \in Slots, Deactivate(p, k)
  PROVE  LET t == task[p][k] IN
         /\ t.pc = "deactivate" /\ t.plugin \in ToSet(active[p])
         /\ active' = [active EXCEPT ![p] = RemoveFirst(@, t.plugin)]
         /\ active'[p] \in Seq(Plugins)
         /\ Distinct(active[p]) =>
              Distinct(active'[p]) /\ ToSet(active'[p]) = ToSet(active[p]) \ {t.plugin}
         /\ loaded' = [loaded EXCEPT ![p] = @ \ {t.plugin}]
         /\ Put(task, task', p, k, GoingWith(t, "store", ToSet(active'[p])))
         /\ UNCHANGED <<hareVars, shared, stage, hooks, requests, crashes>>
<1> DEFINE t == task[p][k]
<1>1. t.pc = "deactivate" /\ t.plugin \in ToSet(active[p])
  BY DEF Deactivate, At, Active
<1>2. active[p] \in Seq(Plugins) /\ active' = [active EXCEPT ![p] = RemoveFirst(@, t.plugin)]
  BY DEF Typed, Deactivate
<1>3. active'[p] = RemoveFirst(active[p], t.plugin)
  BY <1>2 DEF Typed
<1>4. /\ active'[p] \in Seq(Plugins)
      /\ Distinct(active[p]) =>
           Distinct(active'[p]) /\ ToSet(active'[p]) = ToSet(active[p]) \ {t.plugin}
  BY <1>1, <1>2, <1>3, RemoveFirstIs
<1>5. ToSet(active'[p]) \in SUBSET Plugins
  BY <1>4 DEF ToSet
<1>6. task' = [task EXCEPT ![p][k].pc = "store", ![p][k].put = ToSet(active'[p])]
  BY DEF Deactivate
<1>7. MayGo(t, "store") /\ "store" \in Pcs
  BY DEF MayGo, Pcs
<1>8. Put(task, task', p, k, GoingWith(t, "store", ToSet(active'[p])))
  BY <1>5, <1>6, <1>7, PcPut DEF Typed
<1> QED BY <1>1, <1>2, <1>4, <1>8 DEF Deactivate

LEMMA StoreIs ==
  ASSUME Typed, NEW p \in Pods, NEW k \in Slots, Store(p, k)
  PROVE  LET t == task[p][k] IN
         /\ t.pc = "store" /\ listed' = t.put
         /\ Put(task, task', p, k, Going(t, "refresh"))
         /\ UNCHANGED <<hareVars, folder, enabled, local, requests, crashes>>
<1>1. MayGo(task[p][k], "refresh") /\ "refresh" \in Pcs
  BY DEF MayGo, Pcs
<1> QED BY <1>1, GotoIs DEF Store, At, Typed

LEMMA RefreshIs ==
  ASSUME Typed, NEW p \in Pods, NEW k \in Slots, Refresh(p, k)
  PROVE  LET t == task[p][k]
             x == t.plugin
         IN /\ t.pc = "refresh" /\ t.op # "boot"
            /\ hooks' = [hooks EXCEPT ![p] = Cached(p)] /\ Cached(p) \in SUBSET Plugins
            /\ \/ /\ t.op \in {"uninstall", "uninstalled"} /\ folder' = folder \ {x}
                  /\ Put(task, task', p, k, Going(t, "notify"))
               \/ /\ t.op \in {"install", "toggle"} /\ (Complete(p) \/ t.off) /\ x \in loaded[p]
                  /\ t.op = "toggle" => Active(p, x)
                  /\ UNCHANGED folder
                  /\ Put(task, task', p, k, ToAgents(t))
               \/ /\ t.op \notin {"uninstall", "uninstalled"}
                  /\ ~ /\ t.op \in {"install", "toggle"}
                       /\ Complete(p) \/ t.off
                       /\ x \in loaded[p]
                       /\ t.op = "toggle" => Active(p, x)
                  /\ UNCHANGED folder /\ Put(task, task', p, k, NoTask)
            /\ UNCHANGED <<hareVars, listed, enabled, stage, active, loaded, requests, crashes>>
<1> DEFINE t == task[p][k]
           x == t.plugin
           on == /\ t.op \in {"install", "toggle"}
                 /\ Complete(p) \/ t.off
                 /\ x \in loaded[p]
                 /\ t.op = "toggle" => Active(p, x)
           u == ToAgents(t)
<1>1. t \in Jobs /\ t \in Task /\ task \in Tasks
  BY TaskFields DEF Typed
<1>2. u \in Jobs
  BY <1>1 DEF Jobs, Job, Task, Going, Pcs, ToAgents
<1>3. [task EXCEPT ![p][k].pc = "list", ![p][k].off = FALSE] = [task EXCEPT ![p][k] = u]
  BY DEF Going, Typed, Tasks, ToAgents
<1>4. Cached(p) \in SUBSET Plugins
  BY DEF Cached, Typed
<1>5. t.pc = "refresh" /\ t.op # "boot" /\ hooks' = [hooks EXCEPT ![p] = Cached(p)]
      /\ UNCHANGED <<hareVars, listed, enabled, stage, active, loaded, requests, crashes>>
  BY DEF Refresh, At
<1> HIDE DEF u
<1>6. CASE t.op \in {"uninstall", "uninstalled"}
  <2>1. folder' = folder \ {x} /\ Goto(p, k, "notify")
    BY <1>6 DEF Refresh
  <2>2. MayGo(t, "notify") /\ "notify" \in Pcs
    BY DEF MayGo, Pcs
  <2>3. Put(task, task', p, k, Going(t, "notify"))
    BY <1>1, <2>1, <2>2, GotoIs
  <2> QED BY <1>4, <1>5, <1>6, <2>1, <2>3
<1>7. CASE t.op \notin {"uninstall", "uninstalled"} /\ on
  <2>1. UNCHANGED folder /\ task' = [task EXCEPT ![p][k] = u]
    BY <1>3, <1>7 DEF Refresh
  <2>2. Put(task, task', p, k, u)
    BY <1>1, <1>2, <2>1, PutIs
  <2> QED BY <1>4, <1>5, <1>7, <2>1, <2>2 DEF u
<1>8. CASE t.op \notin {"uninstall", "uninstalled"} /\ ~on
  <2>1. UNCHANGED folder /\ End(p, k)
    BY <1>8 DEF Refresh
  <2>2. Put(task, task', p, k, NoTask)
    BY <1>1, <2>1, EndIs
  <2> QED BY <1>4, <1>5, <1>8, <2>1, <2>2
<1> QED BY <1>6, <1>7, <1>8

LEMMA SystemTyped ==
  ASSUME Typed, NEW p \in Pods, NEW k \in Slots,
         Activate(p, k) \/ Deactivate(p, k) \/ Store(p, k) \/ Refresh(p, k)
  PROVE  Typed'
<1>1. HareInv'
  <2>1. UNCHANGED hareVars
    BY DEF Activate, Deactivate, Store, Refresh
  <2> QED BY <2>1, HareUnchanged DEF Typed
<1>2. CASE Activate(p, k)
  BY <1>1, <1>2, ActivateIs DEF Typed, Put, shared
<1>3. CASE Deactivate(p, k)
  <2>1. active' \in [Pods -> Seq(Plugins)] /\ loaded' \in [Pods -> SUBSET Plugins]
    <3>1. /\ active' = [active EXCEPT ![p] = RemoveFirst(@, task[p][k].plugin)]
          /\ active'[p] \in Seq(Plugins)
          /\ loaded' = [loaded EXCEPT ![p] = @ \ {task[p][k].plugin}]
      BY <1>3, DeactivateIs
    <3>2. loaded' \in [Pods -> SUBSET Plugins]
      BY <3>1 DEF Typed
    <3>3. RemoveFirst(active[p], task[p][k].plugin) \in Seq(Plugins)
      BY <3>1 DEF Typed
    <3> QED BY <3>1, <3>2, <3>3 DEF Typed
  <2>2. task' \in Tasks
    BY <1>3, DeactivateIs DEF Put
  <2>3. UNCHANGED <<shared, stage, hooks, requests, crashes>>
    BY <1>3 DEF Deactivate
  <2> QED BY <1>1, <2>1, <2>2, <2>3 DEF Typed, shared
<1>4. CASE Store(p, k)
  <2>1. listed' \subseteq Plugins
    BY <1>4, StoreIs, TaskFields DEF Typed
  <2> QED BY <1>1, <1>4, <2>1, StoreIs DEF Typed, Put, local
<1>5. CASE Refresh(p, k)
  BY <1>1, <1>5, RefreshIs DEF Typed, Put
<1> QED BY <1>2, <1>3, <1>4, <1>5

-----------------------------------------------------------------------------
(* What a task does with an agent's MadHatter. *)

LEMMA ListAgentsIs ==
  ASSUME Typed, NEW p \in Pods, NEW k \in Slots, ListAgents(p, k)
  PROVE  LET t == task[p][k]
         IN /\ t.pc = "list" /\ OnlyTask
            /\ \E u \in Jobs :
                 /\ u = [Going(t, "agents") EXCEPT !.todo = {a \in Agents : t.plugin \in enabled[a]}]
                 /\ Put(task, task', p, k, u)
<1> DEFINE t == task[p][k]
           u == [Going(t, "agents") EXCEPT !.todo = {a \in Agents : t.plugin \in enabled[a]}]
<1>1. t \in Jobs /\ t \in Task /\ task \in Tasks
  BY TaskFields DEF Typed
<1>2. u \in Jobs
  BY <1>1 DEF Jobs, Job, Task, Going, Pcs
<1>3. t.pc = "list" /\ OnlyTask /\ task' = [task EXCEPT ![p][k] = u]
  BY <1>1 DEF ListAgents, Going, At, Tasks
<1> HIDE DEF u
<1>4. Put(task, task', p, k, u)
  BY <1>1, <1>2, <1>3, PutIs
<1> QED BY <1>2, <1>3, <1>4 DEF u

NextOf(t, a) ==
  [t EXCEPT !.todo = @ \ {a}, !.agent = a,
            !.pc = IF t.plugin \in enabled[a] THEN "discover" ELSE "agents"]

LEMMA NextAgentIs ==
  ASSUME Typed, NEW p \in Pods, NEW k \in Slots, NEW a \in Agents, NextAgent(p, k, a)
  PROVE  /\ task[p][k].pc = "agents" /\ a \in task[p][k].todo /\ OnlyTask
         /\ NextOf(task[p][k], a) \in Jobs /\ Put(task, task', p, k, NextOf(task[p][k], a))
<1> DEFINE t == task[p][k]
<1>1. t \in Jobs /\ t \in Task /\ task \in Tasks
  BY TaskFields DEF Typed
<1>2. NextOf(t, a) \in Jobs
  BY <1>1 DEF Jobs, Job, Task, NextOf, Pcs
<1>3. t.pc = "agents" /\ a \in t.todo /\ OnlyTask /\ task' = [task EXCEPT ![p][k] = NextOf(t, a)]
  BY <1>1 DEF NextAgent, NextOf, At, Tasks
<1>4. Put(task, task', p, k, NextOf(t, a))
  BY <1>1, <1>2, <1>3, PutIs
<1> QED BY <1>2, <1>3, <1>4

Discovered(t, mine, loadedThere) ==
  [t EXCEPT !.mine = mine, !.fits = mine \subseteq loadedThere, !.pc = "rewrite"]

LEMMA DiscoverIs ==
  ASSUME Typed, NEW p \in Pods, NEW k \in Slots, Discover(p, k)
  PROVE  LET t == task[p][k]
             u == Discovered(t, enabled[t.agent], loaded[p])
         IN /\ t.pc = "discover" /\ t.agent \in Agents /\ OnlyTask
            /\ u \in Jobs /\ Put(task, task', p, k, u)
<1> DEFINE t == task[p][k]
           u == Discovered(t, enabled[t.agent], loaded[p])
<1>1. t \in Jobs /\ t \in Task /\ task \in Tasks /\ t.pc = "discover" /\ OnlyTask
  BY TaskFields DEF Typed, Discover, At
<1>2. t.agent \in Agents /\ enabled[t.agent] \in SUBSET Plugins
  BY <1>1 DEF Jobs, Job, Typed
<1>3. u \in Jobs
  BY ZenonT(30), <1>1, <1>2 DEF Jobs, Job, Task, Discovered, Pcs
<1>4. task' = [task EXCEPT ![p][k] = u]
  BY ZenonT(30), <1>1 DEF Discover, Discovered, Tasks
<1> HIDE DEF u
<1>5. Put(task, task', p, k, u)
  BY <1>1, <1>3, <1>4, PutIs
<1> QED BY <1>1, <1>2, <1>3, <1>5 DEF u

Switches(t) == IF t.op = "agent" THEN t.plugin \notin t.mine ELSE ~t.off

Rewritten(t, loadedThere) ==
  [t EXCEPT !.mine = IF Switches(t) THEN @ \cup ({t.plugin} \cap loadedThere) ELSE @ \ {t.plugin},
            !.pc = IF Switches(t) \/ t.plugin \in t.mine THEN "resave" ELSE "agents"]

LEMMA RewriteIs ==
  ASSUME Typed, NEW p \in Pods, NEW k \in Slots, Rewrite(p, k)
  PROVE  LET t == task[p][k]
         IN /\ t.pc = "rewrite" /\ t.agent \in Agents
            /\ enabled' = [enabled EXCEPT ![t.agent] = t.mine] /\ t.mine \in SUBSET Plugins
            /\ UNCHANGED <<hareVars, folder, listed, local, requests, crashes>>
            /\ \/ /\ t.fits /\ t.op # "visit" /\ t.plugin \in folder
                  /\ Rewritten(t, loaded[p]) \in Jobs
                  /\ Put(task, task', p, k, Rewritten(t, loaded[p]))
               \/ /\ ~(t.fits /\ t.op # "visit" /\ t.plugin \in folder)
                  /\ t.op \in {"uninstall", "uninstalled"}
                  /\ Put(task, task', p, k, Going(t, "notify"))
               \/ /\ ~(t.fits /\ t.op # "visit" /\ t.plugin \in folder)
                  /\ t.op \notin {"uninstall", "uninstalled"}
                  /\ Put(task, task', p, k, NoTask)
<1> DEFINE t == task[p][k]
           u == Rewritten(t, loaded[p])
           fit == t.fits /\ t.op # "visit" /\ t.plugin \in folder
<1>1. t \in Jobs /\ t \in Task /\ task \in Tasks /\ t.pc = "rewrite"
  BY TaskFields DEF Typed, Rewrite, At
<1>2. t.agent \in Agents /\ t.mine \in SUBSET Plugins /\ loaded[p] \in SUBSET Plugins
  BY <1>1 DEF Jobs, Job, Typed, Task
<1>3. u \in Jobs
  <2> DEFINE m == IF Switches(t) THEN t.mine \cup ({t.plugin} \cap loaded[p]) ELSE t.mine \ {t.plugin}
             c == IF Switches(t) \/ t.plugin \in t.mine THEN "resave" ELSE "agents"
  <2>1. m \in SUBSET Plugins /\ c \in {"resave", "agents"}
    BY <1>2
  <2>2. u = [t EXCEPT !.mine = m, !.pc = c]
    BY <1>1 DEF Rewritten, Task
  <2> HIDE DEF m, c, u
  <2> QED BY <1>1, <1>2, <2>1, <2>2 DEF Jobs, Job, Task, Pcs
<1>4. /\ enabled' = [enabled EXCEPT ![t.agent] = t.mine]
      /\ UNCHANGED <<hareVars, folder, listed, local, requests, crashes>>
  BY DEF Rewrite
<1>5. CASE fit
  <2>1. task' = [task EXCEPT ![p][k] = u]
    BY ZenonT(30), <1>1, <1>5 DEF Rewrite, Rewritten, Switches, Tasks
  <2> HIDE DEF u
  <2>2. Put(task, task', p, k, u)
    BY <1>1, <1>3, <2>1, PutIs
  <2> QED BY <1>1, <1>2, <1>3, <1>4, <1>5, <2>2 DEF u
<1>6. CASE ~fit /\ t.op \in {"uninstall", "uninstalled"}
  <2>1. MayGo(t, "notify") /\ "notify" \in Pcs
    BY DEF MayGo, Pcs
  <2>2. Goto(p, k, "notify")
    BY <1>6 DEF Rewrite
  <2>3. Put(task, task', p, k, Going(t, "notify"))
    BY <1>1, <2>1, <2>2, GotoIs
  <2> QED BY <1>1, <1>2, <1>4, <1>6, <2>3
<1>7. CASE ~fit /\ t.op \notin {"uninstall", "uninstalled"}
  <2>1. End(p, k)
    BY <1>7 DEF Rewrite
  <2>2. Put(task, task', p, k, NoTask)
    BY <1>1, <2>1, EndIs
  <2> QED BY <1>1, <1>2, <1>4, <1>7, <2>2
<1> QED BY <1>5, <1>6, <1>7

LEMMA ResaveIs ==
  ASSUME Typed, NEW p \in Pods, NEW k \in Slots, Resave(p, k)
  PROVE  LET t == task[p][k]
         IN /\ t.pc = "resave" /\ t.agent \in Agents /\ t.mine \in SUBSET Plugins
            /\ enabled' = [enabled EXCEPT ![t.agent] = t.mine]
            /\ UNCHANGED <<hareVars, folder, listed, local, requests, crashes>>
            /\ \/ t.op = "agent" /\ Put(task, task', p, k, NoTask)
               \/ t.op # "agent" /\ Put(task, task', p, k, Going(t, "agents"))
<1> DEFINE t == task[p][k]
<1>1. t \in Jobs /\ t \in Task /\ task \in Tasks /\ t.pc = "resave"
  BY TaskFields DEF Typed, Resave, At
<1>2. t.agent \in Agents /\ t.mine \in SUBSET Plugins
  BY <1>1 DEF Jobs, Job, Typed, Task
<1>3. MayGo(t, "agents") /\ "agents" \in Pcs
  BY DEF MayGo, Pcs
<1>4. /\ t.op = "agent" => Put(task, task', p, k, NoTask)
      /\ t.op # "agent" => Put(task, task', p, k, Going(t, "agents"))
  BY <1>1, <1>3, EndIs, GotoIs DEF Resave
<1> QED BY <1>1, <1>2, <1>4 DEF Resave

LEMMA AgentStepTyped ==
  ASSUME Typed, NEW p \in Pods, NEW k \in Slots,
         \/ ListAgents(p, k) \/ (\E a \in Agents : NextAgent(p, k, a))
         \/ Discover(p, k) \/ Rewrite(p, k) \/ Resave(p, k)
  PROVE  Typed'
<1>1. HareInv'
  <2>1. UNCHANGED hareVars
    BY DEF ListAgents, NextAgent, Discover, Rewrite, Resave, OnlyTask
  <2> QED BY <2>1, HareUnchanged DEF Typed
<1>2. CASE ListAgents(p, k)
  BY <1>1, <1>2, ListAgentsIs DEF Typed, Put, OnlyTask, shared, local
<1>3. CASE \E a \in Agents : NextAgent(p, k, a)
  BY <1>1, <1>3, NextAgentIs DEF Typed, Put, OnlyTask, shared, local
<1>4. CASE Discover(p, k)
  BY <1>1, <1>4, DiscoverIs DEF Typed, Put, OnlyTask, shared, local
<1>5. CASE Rewrite(p, k)
  BY <1>1, <1>5, RewriteIs DEF Typed, Put, local
<1>6. CASE Resave(p, k)
  BY <1>1, <1>6, ResaveIs DEF Typed, Put, local
<1> QED BY <1>2, <1>3, <1>4, <1>5, <1>6

-----------------------------------------------------------------------------
(* How tasks begin, what follows the agents, and how tasks end. *)

LEMMA BeginInstallIs ==
  ASSUME Typed, NEW p \in Pods, NEW k \in Slots, NEW x \in Plugins, BeginInstall(p, k, x)
  PROVE  /\ stage[p] = "serving" /\ "install" \in Requests /\ (x \in folder => Reinstalls)
         /\ requests' = requests + 1
         /\ folder' = folder \cup {x} /\ loaded' = Loading(p, x)
         /\ task[p][k] = NoTask /\ Put(task, task', p, k, Begun("install", "activate", x, FALSE))
         /\ UNCHANGED <<hareVars, listed, enabled, stage, active, hooks, crashes>>
<1>1. "install" \in Ops /\ "activate" \in Pcs \ {"discover", "rewrite", "resave"}
  BY DEF Ops, Pcs
<1>2. Begin(p, k, "install", "activate", x, FALSE)
  BY DEF BeginInstall
<1>3. task[p][k] = NoTask /\ Put(task, task', p, k, Begun("install", "activate", x, FALSE))
  BY <1>1, <1>2, BeginIs DEF Typed
<1> QED BY <1>3 DEF BeginInstall, Loading, Serving, Counted

LEMMA HandleInstallationIs ==
  ASSUME Typed, NEW p \in Pods, NEW k \in Slots, NEW i \in handlers[p],
         HandleInstallation(p, k, i)
  PROVE  LET x == stream[i].plugin
         IN /\ Handle(p, i) /\ stream[i].kind = "installation" /\ stream[i].pod # p
            /\ i \in DOMAIN stream /\ x \in Plugins /\ task[p][k] = NoTask
            /\ \/ /\ x \in folder /\ loaded' = Loading(p, x)
                  /\ Put(task, task', p, k, Begun("installed", "activate", x, FALSE))
               \/ x \notin folder /\ UNCHANGED <<task, loaded>>
            /\ UNCHANGED <<shared, stage, active, hooks, requests, crashes>>
<1> DEFINE x == stream[i].plugin
<1>1. i \in DOMAIN stream /\ x \in Plugins
  <2>1. i \in DOMAIN stream /\ stream \in Seq(Events)
    BY DEF Typed, HareInv, HareTypeOK
  <2>2. stream[i] \in Events
    BY <2>1
  <2> QED BY <2>1, <2>2 DEF Events
<1>2. "installed" \in Ops /\ "activate" \in Pcs \ {"discover", "rewrite", "resave"}
  BY DEF Ops, Pcs
<1>3. CASE x \in folder
  <2>1. Begin(p, k, "installed", "activate", x, FALSE)
    BY <1>3 DEF HandleInstallation
  <2>2. Put(task, task', p, k, Begun("installed", "activate", x, FALSE))
    BY <1>1, <1>2, <2>1, BeginIs DEF Typed
  <2> QED BY <1>1, <1>3, <2>2 DEF HandleInstallation, Loading
<1>4. CASE x \notin folder
  BY <1>1, <1>4 DEF HandleInstallation
<1> QED BY <1>3, <1>4

LEMMA BeginUninstallIs ==
  ASSUME Typed, NEW p \in Pods, NEW k \in Slots, NEW x \in Plugins, BeginUninstall(p, k, x)
  PROVE  /\ stage[p] = "serving" /\ "uninstall" \in Requests /\ requests' = requests + 1
         /\ x \in folder /\ task[p][k] = NoTask /\ Uninstall(p, k, x, "uninstall")
         /\ UNCHANGED <<hareVars, listed, enabled, local, crashes>>
BY DEF BeginUninstall, Serving, Counted

LEMMA HandleUninstallationIs ==
  ASSUME Typed, NEW p \in Pods, NEW k \in Slots, NEW i \in handlers[p],
         HandleUninstallation(p, k, i)
  PROVE  /\ Handle(p, i) /\ stream[i].kind = "uninstallation" /\ stream[i].pod # p
         /\ i \in DOMAIN stream /\ stream[i].plugin \in Plugins /\ task[p][k] = NoTask
         /\ Uninstall(p, k, stream[i].plugin, "uninstalled")
         /\ UNCHANGED <<listed, enabled, local, requests, crashes>>
<1>1. i \in DOMAIN stream /\ stream \in Seq(Events)
  BY DEF Typed, HareInv, HareTypeOK
<1>2. stream[i] \in Events
  BY <1>1
<1> QED BY <1>1, <1>2 DEF Events, HandleUninstallation

LEMMA BeginToggleIs ==
  ASSUME Typed, NEW p \in Pods, NEW k \in Slots, NEW x \in Plugins, BeginToggle(p, k, x)
  PROVE  /\ stage[p] = "serving" /\ "toggle" \in Requests /\ requests' = requests + 1
         /\ x \in folder /\ task[p][k] = NoTask
         /\ \/ /\ Active(p, x) /\ x \in loaded[p] /\ UNCHANGED loaded
               /\ Put(task, task', p, k, Begun("toggle", "list", x, TRUE))
            \/ /\ ~Active(p, x) /\ loaded' = Loading(p, x)
               /\ Put(task, task', p, k, Begun("toggle", "activate", x, FALSE))
         /\ UNCHANGED <<hareVars, shared, stage, active, hooks, crashes>>
<1>1. "toggle" \in Ops /\ "list" \in Pcs \ {"discover", "rewrite", "resave"}
  BY DEF Ops, Pcs
<1>2. x \in folder /\ task[p][k] = NoTask /\ task \in Tasks /\ folder \subseteq Plugins
  BY DEF BeginToggle, Typed
<1>3. CASE Active(p, x)
  <2>1. x \in loaded[p] /\ UNCHANGED loaded /\ Begin(p, k, "toggle", "list", x, TRUE)
    BY <1>3 DEF BeginToggle
  <2>2. Put(task, task', p, k, Begun("toggle", "list", x, TRUE))
    BY <1>1, <1>2, <2>1, BeginIs
  <2> QED BY <1>3, <2>1, <2>2 DEF BeginToggle, Serving, Counted
<1>4. CASE ~Active(p, x)
  <2> DEFINE t == [NoTask EXCEPT !.op = "toggle", !.plugin = x]
  <2>1. t \in Jobs /\ [t EXCEPT !.pc = "activate", !.off = FALSE] = Begun("toggle", "activate", x, FALSE)
    BY DEF NoTask, Task, Ops, Pcs, Begun, Job, Jobs
  <2>2. Toggling(p, k, x, t) /\ t.plugin = x
    BY <1>4 DEF BeginToggle, NoTask
  <2> HIDE DEF t
  <2>3. /\ loaded' = Loading(p, x)
        /\ Put(task, task', p, k, Begun("toggle", "activate", x, FALSE))
    BY <1>2, <1>4, <2>1, <2>2, TogglingIs
  <2> QED BY <1>4, <2>3 DEF BeginToggle, Serving, Counted
<1> QED BY <1>3, <1>4

VisitOf(a) == [NoTask EXCEPT !.op = "visit", !.agent = a, !.pc = "discover"]
AgentToggleOf(a, x) ==
  [NoTask EXCEPT !.op = "agent", !.agent = a, !.plugin = x, !.pc = "discover"]

LEMMA BeginVisitIs ==
  ASSUME Typed, NEW p \in Pods, NEW k \in Slots, NEW a \in Agents, BeginVisit(p, k, a)
  PROVE  /\ stage[p] = "serving" /\ "visit" \in Requests /\ requests' = requests + 1
         /\ task[p][k] = NoTask /\ Put(task, task', p, k, VisitOf(a))
         /\ UNCHANGED <<hareVars, shared, local, crashes>>
<1>1. VisitOf(a) \in Jobs
  BY DEF VisitOf, NoTask, Task, Ops, Pcs, Job, Jobs
<1>2. task' = [task EXCEPT ![p][k] = VisitOf(a)] /\ task \in Tasks
  BY DEF BeginVisit, VisitOf, Typed
<1>3. Put(task, task', p, k, VisitOf(a))
  BY <1>1, <1>2, PutIs
<1> QED BY <1>3 DEF BeginVisit, Serving, Counted

LEMMA BeginAgentToggleIs ==
  ASSUME Typed, NEW p \in Pods, NEW k \in Slots, NEW a \in Agents, NEW x \in Plugins,
         BeginAgentToggle(p, k, a, x)
  PROVE  /\ stage[p] = "serving" /\ "agent" \in Requests /\ requests' = requests + 1
         /\ task[p][k] = NoTask /\ Put(task, task', p, k, AgentToggleOf(a, x))
         /\ UNCHANGED <<hareVars, shared, local, crashes>>
<1>1. AgentToggleOf(a, x) \in Jobs
  BY DEF AgentToggleOf, NoTask, Task, Ops, Pcs, Job, Jobs
<1>2. task' = [task EXCEPT ![p][k] = AgentToggleOf(a, x)] /\ task \in Tasks
  BY DEF BeginAgentToggle, AgentToggleOf, Typed
<1>3. Put(task, task', p, k, AgentToggleOf(a, x))
  BY <1>1, <1>2, PutIs
<1> QED BY <1>3 DEF BeginAgentToggle, Serving, Counted

LEMMA DeactivateAgainIs ==
  ASSUME Typed, NEW p \in Pods, NEW k \in Slots, DeactivateAgain(p, k)
  PROVE  LET t == task[p][k]
         IN /\ t.pc = "deactivate" /\ ~Active(p, t.plugin)
            /\ \/ t.op = "toggle" /\ UNCHANGED folder /\ Put(task, task', p, k, NoTask)
               \/ /\ t.op # "toggle" /\ folder' = folder \ {t.plugin}
                  /\ Put(task, task', p, k, Going(t, "notify"))
            /\ UNCHANGED <<hareVars, listed, enabled, local, requests, crashes>>
<1> DEFINE t == task[p][k]
<1>1. MayGo(t, "notify") /\ "notify" \in Pcs /\ task \in Tasks
  BY DEF MayGo, Pcs, Typed
<1>2. CASE t.op = "toggle"
  <2>1. UNCHANGED folder /\ End(p, k)
    BY <1>2 DEF DeactivateAgain
  <2> QED BY <1>1, <1>2, <2>1, EndIs DEF DeactivateAgain, At
<1>3. CASE t.op # "toggle"
  <2>1. folder' = folder \ {t.plugin} /\ Goto(p, k, "notify")
    BY <1>3 DEF DeactivateAgain
  <2>2. Put(task, task', p, k, Going(t, "notify"))
    BY <1>1, <2>1, GotoIs
  <2> QED BY <1>3, <2>1, <2>2 DEF DeactivateAgain, At
<1> QED BY <1>2, <1>3

LEMMA AgentsDoneIs ==
  ASSUME Typed, NEW p \in Pods, NEW k \in Slots, AgentsDone(p, k)
  PROVE  LET t == task[p][k]
         IN /\ t.pc = "agents" /\ t.todo = {} /\ t \in Jobs
            /\ \/ /\ t.op = "install" /\ UNCHANGED <<folder, loaded>>
                  /\ Put(task, task', p, k, Going(t, "notify"))
               \/ /\ t.op = "toggle" /\ ~t.off /\ UNCHANGED <<folder, loaded>>
                  /\ Put(task, task', p, k, NoTask)
               \/ t.op = "toggle" /\ t.off /\ Toggling(p, k, t.plugin, t) /\ UNCHANGED folder
               \/ /\ t.op \in {"uninstall", "uninstalled"}
                  /\ Uninstalling(p, k, t.plugin, t) /\ UNCHANGED loaded
            /\ UNCHANGED <<hareVars, listed, enabled, stage, active, hooks, requests, crashes>>
<1> DEFINE t == task[p][k]
<1>1. MayGo(t, "notify") /\ "notify" \in Pcs /\ task \in Tasks /\ t \in Jobs
  BY TaskFields DEF MayGo, Pcs, Typed
<1>2. t.op = "install" /\ Goto(p, k, "notify") => Put(task, task', p, k, Going(t, "notify"))
  BY <1>1, GotoIs
<1>3. End(p, k) => Put(task, task', p, k, NoTask)
  BY <1>1, EndIs
<1> QED BY <1>1, <1>2, <1>3 DEF AgentsDone, At

LEMMA NotifyIs ==
  ASSUME Typed, NEW p \in Pods, NEW k \in Slots, Notify(p, k)
  PROVE  LET t == task[p][k]
         IN /\ t.pc = "notify"
            /\ \/ /\ t.op = "install" /\ t.plugin \in loaded[p] /\ t.plugin \in Plugins
                  /\ Publish(p, "installation", t.plugin)
               \/ /\ t.op = "uninstall" /\ t.plugin \notin loaded[p] /\ t.plugin \in Plugins
                  /\ Publish(p, "uninstallation", t.plugin)
               \/ /\ t.op = "install" => t.plugin \notin loaded[p]
                  /\ t.op = "uninstall" => t.plugin \in loaded[p]
                  /\ UNCHANGED hareVars
            /\ Put(task, task', p, k, NoTask)
            /\ UNCHANGED <<shared, local, requests, crashes>>
<1> DEFINE t == task[p][k]
<1>1. Job(t) /\ task \in Tasks
  BY TaskFields DEF Typed
<1>2. t.op \in {"install", "uninstall"} => t.plugin \in Plugins
  BY <1>1 DEF Job
<1>3. Put(task, task', p, k, NoTask)
  BY <1>1, EndIs DEF Notify
<1> QED BY <1>2, <1>3 DEF Notify, At

(* How pods come and go. *)

LEMMA BootTaskIs ==
  ASSUME Typed, NEW p \in Pods, NEW k \in Slots, Boot(p, k)
  PROVE  /\ stage[p] = "down" /\ stage' = [stage EXCEPT ![p] = "booting"]
         /\ \E list \in Seq(Plugins) :
              /\ active' = [active EXCEPT ![p] = list]
              /\ ToSet(list) = listed /\ Distinct(list)
         /\ task[p][k] = NoTask /\ Put(task, task', p, k, Begun("boot", "load", None, FALSE))
         /\ UNCHANGED <<hareVars, shared, loaded, hooks, requests, crashes>>
<1>1. PICK list \in SetToSeqs(listed) : active' = [active EXCEPT ![p] = list]
  BY DEF Boot
<1>2. listed \subseteq Plugins /\ IsFiniteSet(listed)
  BY InstalledArePlugins, FS_Subset DEF Typed
<1>3. list \in Seq(listed) /\ ToSet(list) = listed /\ Distinct(list)
  BY <1>2, ListsOfSet DEF Distinct
<1>4. list \in Seq(Plugins)
  BY <1>2, <1>3, LargerRange
<1>5. Begin(p, k, "boot", "load", None, FALSE)
  BY DEF Boot
<1>6. task[p][k] = NoTask /\ Put(task, task', p, k, Begun("boot", "load", None, FALSE))
  BY <1>5, BootIs DEF Typed
<1> QED BY <1>1, <1>3, <1>4, <1>6 DEF Boot

LEMMA BootLoadIs ==
  ASSUME Typed, NEW p \in Pods, NEW k \in Slots, BootLoad(p, k)
  PROVE  /\ task[p][k].pc = "load"
         /\ loaded' = [loaded EXCEPT ![p] = ToSet(active[p]) \cap folder]
         /\ Put(task, task', p, k, GoingWith(task[p][k], "store", ToSet(active[p])))
         /\ UNCHANGED <<hareVars, shared, stage, active, hooks, requests, crashes>>
<1> DEFINE t == task[p][k]
<1>1. MayGo(t, "store") /\ "store" \in Pcs /\ task \in Tasks
  BY DEF MayGo, Pcs, Typed
<1>2. ToSet(active[p]) \in SUBSET Plugins
  BY DEF ToSet, Typed
<1>3. task' = [task EXCEPT ![p][k].pc = "store", ![p][k].put = ToSet(active[p])]
  BY <1>1 DEF BootLoad, Tasks
<1>4. Put(task, task', p, k, GoingWith(t, "store", ToSet(active[p])))
  BY <1>1, <1>2, <1>3, PcPut
<1> QED BY <1>4 DEF BootLoad, At

LEMMA BootRefreshIs ==
  ASSUME Typed, NEW p \in Pods, NEW k \in Slots, BootRefresh(p, k)
  PROVE  /\ task[p][k].pc = "refresh" /\ task[p][k].op = "boot" /\ Complete(p)
         /\ hooks' = [hooks EXCEPT ![p] = Cached(p)] /\ Cached(p) \in SUBSET Plugins
         /\ Listen(p) /\ Put(task, task', p, k, NoTask)
         /\ UNCHANGED <<shared, stage, active, loaded, requests, crashes>>
<1>1. Cached(p) \in SUBSET Plugins
  BY DEF Cached, Typed
<1>2. Put(task, task', p, k, NoTask)
  BY EndIs DEF BootRefresh, Typed
<1> QED BY <1>1, <1>2 DEF BootRefresh, At

LEMMA DownIs ==
  ASSUME Typed, NEW p \in Pods, Down(p)
  PROVE  /\ stage' = [stage EXCEPT ![p] = "down"]
         /\ active' = [active EXCEPT ![p] = <<>>] /\ loaded' = [loaded EXCEPT ![p] = {}]
         /\ hooks' = [hooks EXCEPT ![p] = {}] /\ Halt(p)
         /\ task' \in Tasks /\ \A k \in Slots : task'[p][k] = NoTask
         /\ \A q \in Pods : q # p => task'[q] = task[q]
         /\ UNCHANGED <<shared, requests>>
BY NoTaskIs DEF Down, Typed, Tasks

-----------------------------------------------------------------------------
(* Every step keeps the types. *)

LEMMA LoadedTyped ==
  ASSUME loaded \in [Pods -> SUBSET Plugins], NEW p \in Pods, NEW x \in Plugins
  PROVE  Loading(p, x) \in [Pods -> SUBSET Plugins]
BY DEF Loading

LEMMA ListenerTyped ==
  ASSUME Typed, NEW p \in Pods, Listener(p)
  PROVE  Typed'
<1>1. HareInv'
  BY PollKeeps, OthersKeep, ReceiveKeeps DEF Listener, Typed
<1> QED BY <1>1 DEF Typed, Listener, shared, local

LEMMA HandlerTyped ==
  ASSUME Typed, NEW p \in Pods, Handler(p)
  PROVE  Typed'
<1>1. PICK i \in handlers[p] :
        \/ IgnoreOwn(p, i)
        \/ \E k \in Slots : HandleInstallation(p, k, i) \/ HandleUninstallation(p, k, i)
  BY DEF Handler
<1>2. HareInv'
  <2>1. Handle(p, i)
    BY <1>1 DEF IgnoreOwn, HandleInstallation, HandleUninstallation
  <2> QED BY <2>1, OthersKeep DEF Typed
<1>3. CASE IgnoreOwn(p, i)
  BY <1>2, <1>3 DEF Typed, IgnoreOwn, shared, local
<1>4. ASSUME NEW k \in Slots, HandleInstallation(p, k, i) PROVE Typed'
  <2>1. task' \in Tasks
    BY <1>4, HandleInstallationIs DEF Put, Typed
  <2>2. loaded' \in [Pods -> SUBSET Plugins]
    <3>1. stream[i].plugin \in Plugins /\ loaded \in [Pods -> SUBSET Plugins]
      BY <1>4, HandleInstallationIs DEF Typed
    <3>2. Loading(p, stream[i].plugin) \in [Pods -> SUBSET Plugins]
      BY <3>1, LoadedTyped
    <3>3. \/ loaded' = Loading(p, stream[i].plugin)
          \/ UNCHANGED loaded
      BY <1>4, HandleInstallationIs
    <3> QED BY <3>1, <3>2, <3>3
  <2> QED BY <1>2, <1>4, <2>1, <2>2, HandleInstallationIs DEF Typed, shared
<1>5. ASSUME NEW k \in Slots, HandleUninstallation(p, k, i) PROVE Typed'
  <2> DEFINE x == stream[i].plugin
  <2>1. /\ x \in Plugins /\ task[p][k] = NoTask /\ Uninstall(p, k, x, "uninstalled")
        /\ UNCHANGED <<listed, enabled, local, requests, crashes>>
    BY <1>5, HandleUninstallationIs
  <2>2. "uninstalled" \in {"uninstall", "uninstalled"} /\ task \in Tasks
    BY DEF Typed
  <2> HIDE DEF x
  <2>3. task' \in Tasks /\ folder' \subseteq folder
    BY <2>1, <2>2, UninstallIs DEF Put
  <2> QED BY <1>2, <2>1, <2>3 DEF Typed, local
<1> QED BY <1>1, <1>3, <1>4, <1>5

LEMMA RequestTyped ==
  ASSUME Typed, NEW p \in Pods, NEW k \in Slots, Request(p, k)
  PROVE  Typed'
<1>1. HareInv'
  <2>1. UNCHANGED hareVars
    BY DEF Request, BeginInstall, BeginUninstall, BeginToggle, BeginAgentToggle, BeginVisit
  <2> QED BY <2>1, HareUnchanged DEF Typed
<1>2. ASSUME NEW x \in Plugins, BeginInstall(p, k, x) PROVE Typed'
  <2>0. /\ loaded' = Loading(p, x) /\ folder' = folder \cup {x} /\ requests' = requests + 1
        /\ Put(task, task', p, k, Begun("install", "activate", x, FALSE))
    BY <1>2, BeginInstallIs
  <2>1. loaded' \in [Pods -> SUBSET Plugins]
    BY <2>0, LoadedTyped DEF Typed
  <2>2. task' \in Tasks /\ folder' \subseteq Plugins /\ requests' \in Nat
    BY <2>0 DEF Put, Typed
  <2> QED BY <1>1, <1>2, <2>1, <2>2, BeginInstallIs DEF Typed
<1>3. ASSUME NEW x \in Plugins, BeginUninstall(p, k, x) PROVE Typed'
  <2>1. /\ task[p][k] = NoTask /\ Uninstall(p, k, x, "uninstall")
        /\ requests' = requests + 1 /\ UNCHANGED <<listed, enabled, local, crashes>>
    BY <1>3, BeginUninstallIs
  <2>2. "uninstall" \in {"uninstall", "uninstalled"} /\ task \in Tasks
    BY DEF Typed
  <2>3. task' \in Tasks /\ folder' \subseteq folder
    BY <2>1, <2>2, UninstallIs DEF Put
  <2> QED BY <1>1, <2>1, <2>3 DEF Typed, local
<1>4. ASSUME NEW x \in Plugins, BeginToggle(p, k, x) PROVE Typed'
  <2>0. /\ loaded' = Loading(p, x) \/ UNCHANGED loaded
        /\ requests' = requests + 1 /\ UNCHANGED <<shared, stage, active, hooks, crashes>>
        /\ task' \in Tasks
    BY <1>4, BeginToggleIs DEF Put
  <2>1. task' \in Tasks /\ loaded' \in [Pods -> SUBSET Plugins]
    BY <2>0, LoadedTyped DEF Typed
  <2>2. requests' \in Nat /\ UNCHANGED <<shared, stage, active, hooks, crashes>>
    BY <2>0 DEF Typed
  <2> QED BY <1>1, <2>1, <2>2 DEF Typed, shared
<1>5. ASSUME NEW x \in Plugins, NEW a \in Agents, BeginAgentToggle(p, k, a, x) PROVE Typed'
  BY <1>1, <1>5, BeginAgentToggleIs DEF Typed, Put, shared, local
<1>6. ASSUME NEW a \in Agents, BeginVisit(p, k, a) PROVE Typed'
  BY <1>1, <1>6, BeginVisitIs DEF Typed, Put, shared, local
<1> QED BY <1>2, <1>3, <1>4, <1>5, <1>6 DEF Request

LEMMA RestTyped ==
  ASSUME Typed, NEW p \in Pods, NEW k \in Slots,
         DeactivateAgain(p, k) \/ AgentsDone(p, k) \/ Notify(p, k)
  PROVE  Typed'
<1>1. HareInv'
  <2>1. CASE UNCHANGED hareVars
    BY <2>1, HareUnchanged DEF Typed
  <2>2. CASE Notify(p, k)
    BY <2>1, <2>2, NotifyIs, PublishKeeps DEF Typed
  <2> QED BY <2>1, <2>2 DEF DeactivateAgain, AgentsDone
<1>2. CASE DeactivateAgain(p, k)
  <2>1. task' \in Tasks /\ folder' \subseteq folder
    BY <1>2, DeactivateAgainIs DEF Put
  <2> QED BY <1>1, <1>2, <2>1, DeactivateAgainIs DEF Typed, local
<1>3. CASE AgentsDone(p, k)
  <2> DEFINE t == task[p][k]
  <2>1. t \in Jobs /\ task \in Tasks /\ folder \subseteq Plugins
    BY <1>3, AgentsDoneIs DEF Typed
  <2>2. task' \in Tasks /\ folder' \subseteq folder /\ loaded' \in [Pods -> SUBSET Plugins]
    <3>1. CASE Toggling(p, k, t.plugin, t) /\ UNCHANGED folder
      <4>1. t.plugin \in folder => t.plugin \in Plugins
        BY <2>1
      <4>2. (loaded' = Loading(p, t.plugin) /\ t.plugin \in folder) \/ UNCHANGED loaded
        BY <2>1, <3>1, TogglingIs
      <4>3. loaded' \in [Pods -> SUBSET Plugins]
        BY <4>1, <4>2, LoadedTyped DEF Typed
      <4> QED BY <2>1, <3>1, <4>3, TogglingIs DEF Put
    <3>2. CASE Uninstalling(p, k, t.plugin, t) /\ UNCHANGED loaded
      BY <2>1, <3>2, UninstallingIs DEF Put, Typed
    <3> QED BY <1>3, <3>1, <3>2, AgentsDoneIs DEF Put, Typed
  <2> QED BY <1>1, <1>3, <2>2, AgentsDoneIs DEF Typed
<1>4. CASE Notify(p, k)
  <2>1. task' \in Tasks /\ UNCHANGED <<shared, local, requests, crashes>>
    BY <1>4, NotifyIs DEF Put
  <2> QED BY <1>1, <2>1 DEF Typed, shared, local
<1> QED BY <1>2, <1>3, <1>4

LEMMA PodTyped ==
  ASSUME Typed, NEW p \in Pods,
         \/ Serve(p) \/ Crash(p)
         \/ \E k \in Slots : Boot(p, k) \/ BootLoad(p, k) \/ BootRefresh(p, k) \/ BootFail(p, k)
  PROVE  Typed'
<1>1. CASE Serve(p)
  <2>1. HareInv'
    BY <1>1, OthersKeep DEF Serve, Typed
  <2> QED BY <1>1, <2>1 DEF Typed, Serve, shared
<1>2. CASE Down(p) /\ crashes' \in Nat
  <2>1. HareInv'
    BY <1>2, OthersKeep DEF Down, Typed
  <2>2. <<>> \in Seq(Plugins)
    OBVIOUS
  <2>3. /\ stage' \in [Pods -> {"down", "booting", "serving"}] /\ active' \in [Pods -> Seq(Plugins)]
        /\ loaded' \in [Pods -> SUBSET Plugins] /\ hooks' \in [Pods -> SUBSET Plugins]
        /\ UNCHANGED <<shared, requests>> /\ task' \in Tasks
    BY <1>2, <2>2, DownIs DEF Typed
  <2> QED BY <1>2, <2>1, <2>3 DEF Typed, shared
<1>3. CASE Crash(p)
  <2>1. Down(p) /\ crashes' \in Nat
    BY <1>3 DEF Crash, Typed
  <2> QED BY <1>2, <2>1
<1>4. ASSUME NEW k \in Slots, Boot(p, k) PROVE Typed'
  <2>1. HareInv'
    BY <1>4, BootTaskIs, HareUnchanged DEF Typed
  <2>2. PICK list \in Seq(Plugins) : active' = [active EXCEPT ![p] = list]
    BY <1>4, BootTaskIs
  <2>3. active' \in [Pods -> Seq(Plugins)]
    BY <2>2 DEF Typed
  <2>4. stage' \in [Pods -> {"down", "booting", "serving"}] /\ task' \in Tasks
        /\ UNCHANGED <<hareVars, shared, loaded, hooks, requests, crashes>>
    BY <1>4, BootTaskIs DEF Typed, Put
  <2> QED BY <2>1, <2>3, <2>4 DEF Typed, shared
<1>5. ASSUME NEW k \in Slots, BootLoad(p, k) PROVE Typed'
  <2>1. HareInv'
    BY <1>5, BootLoadIs, HareUnchanged DEF Typed
  <2>2. loaded' \in [Pods -> SUBSET Plugins] /\ task' \in Tasks
    <3>1. ToSet(active[p]) \cap folder \in SUBSET Plugins
      BY DEF Typed
    <3>2. loaded' = [loaded EXCEPT ![p] = ToSet(active[p]) \cap folder]
      BY <1>5, BootLoadIs
    <3>3. loaded' \in [Pods -> SUBSET Plugins]
      BY <3>1, <3>2 DEF Typed
    <3> QED BY <1>5, <3>3, BootLoadIs DEF Put
  <2> QED BY <1>5, <2>1, <2>2, BootLoadIs DEF Typed, shared
<1>6. ASSUME NEW k \in Slots, BootRefresh(p, k) PROVE Typed'
  <2>1. HareInv'
    BY <1>6, BootRefreshIs, OthersKeep DEF Typed
  <2> QED BY <1>6, <2>1, BootRefreshIs DEF Typed, Put, shared
<1>7. ASSUME NEW k \in Slots, BootFail(p, k) PROVE Typed'
  BY <1>2, <1>7 DEF BootFail, Typed
<1> QED BY <1>1, <1>3, <1>4, <1>5, <1>6, <1>7

LEMMA TypedStep == Typed /\ [Next]_vars => Typed'
<1> SUFFICES ASSUME Typed, [Next]_vars PROVE Typed'
  OBVIOUS
<1>1. CASE UNCHANGED vars
  BY <1>1, HareUnchanged DEF Typed, vars, shared, local
<1>2. ASSUME NEW p \in Pods, Listener(p) \/ Handler(p) \/ Serve(p) \/ Crash(p) PROVE Typed'
  BY <1>2, ListenerTyped, HandlerTyped, PodTyped
<1>3. ASSUME NEW p \in Pods, NEW k \in Slots, Step(p, k) \/ Request(p, k) \/ Boot(p, k) PROVE Typed'
  <2>1. CASE Step(p, k)
    BY <2>1, SystemTyped, AgentStepTyped, RestTyped, PodTyped DEF Step
  <2> QED BY <1>3, <2>1, RequestTyped, PodTyped
<1> QED BY <1>1, <1>2, <1>3 DEF Next

(* The variables of the pods keep their shapes: what is stored, listed, loaded and *)
(* hooked are plugins, and no listener is beyond the end of the stream             *)
(* (MadHatter.__init__, MarchHare.__init__).                                       *)
THEOREM ReplicationTypes == Spec => []TypeOK
<1> QED BY TypedInit, TypedStep, TypedMeans, PTL DEF Spec

-----------------------------------------------------------------------------
(* Installations only, by pods that do one task after the other and do not end. *)

InstallsOnly ==
  /\ Requests \subseteq {"install"} /\ MaxCrashes = 0
  /\ \E k : Slots = {k}

(* The pod will act on the event, has the plugin, or is about to. *)
Seen(p, i) ==
  \/ i \in handlers[p]
  \/ stream[i].plugin \in ToSet(active[p])
  \/ \E k \in Slots : task[p][k].pc = "activate" /\ task[p][k].plugin = stream[i].plugin

(* The places of an installation, and what holds there. *)
Installing(p, k) ==
  LET t == task[p][k]
  IN /\ t.op \in {"none", "boot", "install", "installed"}
     /\ t.op = "none" => t = NoTask
     /\ t.op = "boot" => ~listening[p] /\ stage[p] = "booting" /\ t.pc \in {"load", "store", "refresh"}
     /\ t.op \in {"install", "installed"} =>
          /\ stage[p] = "serving" /\ t.plugin \in loaded[p] /\ t.todo = {}
          /\ \/ t.pc \in {"activate", "store", "refresh"}
             \/ t.op = "install" /\ t.pc \in {"list", "agents", "notify"}
          /\ t.pc # "activate" => t.plugin \in ToSet(active[p])
     /\ t.pc = "store" => t.put = ToSet(active[p])

(* A pod that is up has what was there from the start and what it has been told *)
(* of, and all of it is in the folder.                                          *)
Having(p) ==
  /\ stage[p] = "down" => ~listening[p] /\ \A k \in Slots : task[p][k] = NoTask
  /\ stage[p] # "down" => Installed \subseteq ToSet(active[p]) /\ ToSet(active[p]) \subseteq folder
  /\ loaded[p] \subseteq folder
  /\ stage[p] # "serving" => ~ready[p] /\ got[p] = <<>> /\ handlers[p] = {}
  /\ stage[p] # "down" /\ (\A k \in Slots : task[p][k].pc # "load") => Complete(p)
  /\ \A i \in ToSet(got[p]) : Seen(p, i)

Published ==
  \A i \in DOMAIN stream :
    LET e == stream[i]
    IN /\ e.kind = "installation" /\ e.plugin \in folder
       /\ stage[e.pod] = "serving" /\ e.plugin \in ToSet(active[e.pod])

(* What came into the folder is in the stream, or on its way there. *)
Announced ==
  \A x \in folder \ Installed :
    \/ \E i \in DOMAIN stream : stream[i].plugin = x
    \/ \E p \in Pods, k \in Slots : task[p][k].op = "install" /\ task[p][k].plugin = x

(* A pod has in its own list what is stored, or is about to store its own. *)
LastStored ==
  \/ \E p \in Pods :
       /\ stage[p] # "down"
       /\ ToSet(active[p]) = listed \/ \E k \in Slots : task[p][k].pc \in {"load", "store"}
  \/ (\A p \in Pods : stage[p] = "down") /\ listed = Installed /\ folder = Installed

InstallInv ==
  /\ enabled = [a \in Agents |-> {}]
  /\ Installed \subseteq listed /\ listed \subseteq folder
  /\ Published /\ Announced /\ LastStored
  /\ \A p \in Pods : Having(p) /\ \A k \in Slots : Installing(p, k)

Inv == Typed /\ InstallInv

LEMMA InstallMeans == InstallsOnly /\ Inv => InstallsAgree
<1> SUFFICES ASSUME InstallsOnly, Inv, \A p \in Pods : Idle(p) /\ NothingMissed(p)
             PROVE  listed = folder /\ \A p \in Pods : loaded[p] = folder
  BY DEF InstallsAgree
<1>1. PICK k : Slots = {k}
  BY DEF InstallsOnly
<1>2. \A p \in Pods : /\ stage[p] = "serving" /\ handlers[p] = {} /\ task[p][k] = NoTask
                      /\ task[p][k].op = "none" /\ task[p][k].pc = "idle"
  <2>1. NoTask.op = "none" /\ NoTask.pc = "idle"
    BY DEF NoTask
  <2> QED BY <1>1, <2>1 DEF Idle, Serving
<1>3. ASSUME NEW p \in Pods PROVE ToSet(active[p]) = folder /\ loaded[p] = folder
  <2>1. /\ Installed \subseteq ToSet(active[p]) /\ ToSet(active[p]) \subseteq folder
        /\ loaded[p] \subseteq folder /\ ToSet(active[p]) \subseteq loaded[p]
    BY <1>1, <1>2 DEF Inv, InstallInv, Having, Complete
  <2>2. ASSUME NEW x \in folder, x \notin Installed PROVE x \in ToSet(active[p])
    <3>1. PICK i \in DOMAIN stream : stream[i].plugin = x
      BY <1>1, <1>2, <2>2 DEF Inv, InstallInv, Announced
    <3>2. i \in ToSet(got[p])
      BY <3>1 DEF NothingMissed
    <3>4. Seen(p, i)
      BY <3>2 DEF Inv, InstallInv, Having
    <3> QED BY <1>1, <1>2, <3>1, <3>4 DEF Seen
  <2> QED BY <2>1, <2>2
<1>4. listed = folder
  BY <1>1, <1>2, <1>3 DEF Inv, InstallInv, LastStored
<1> QED BY <1>3, <1>4

LEMMA InstallInit == Init => InstallInv
<1> SUFFICES ASSUME Init PROVE InstallInv
  OBVIOUS
<1>1. Published /\ Announced /\ LastStored
  BY DEF Init, HareInit, Published, Announced, LastStored
<1>2. ASSUME NEW p \in Pods PROVE Having(p) /\ \A k \in Slots : Installing(p, k)
  BY DEF Init, HareInit, Having, Installing, NoTask, ToSet
<1> QED BY <1>1, <1>2 DEF Init, InstallInv

(* Another pod is none the worse for a larger folder and a longer stream. *)
LEMMA OthersStay ==
  ASSUME Inv, NEW q \in Pods,
         /\ stage'[q] = stage[q] /\ active'[q] = active[q] /\ loaded'[q] = loaded[q]
         /\ got'[q] = got[q] /\ handlers'[q] = handlers[q] /\ ready'[q] = ready[q]
         /\ listening'[q] = listening[q]
         /\ \A l \in Slots : task'[q][l] = task[q][l],
         folder \subseteq folder',
         \A i \in DOMAIN stream : stream'[i] = stream[i]
  PROVE  Having(q)' /\ \A l \in Slots : Installing(q, l)'
<1>1. ToSet(got[q]) \subseteq DOMAIN stream
  BY DEF Inv, Typed, HareInv, HareTypeOK, ToSet
<1>2. Having(q) /\ \A l \in Slots : Installing(q, l)
  BY DEF Inv, InstallInv
<1>3. \A i \in ToSet(got[q]) : Seen(q, i)'
  BY <1>1, <1>2 DEF Having, Seen
<1>4. Having(q)'
  BY <1>2, <1>3 DEF Having, Complete
<1>5. \A l \in Slots : Installing(q, l)'
  BY <1>2 DEF Installing
<1> QED BY <1>4, <1>5

(* The stream, the folder and the lists stay, and no pod loses an active plugin. *)
LEMMA SharedStay ==
  ASSUME Inv, UNCHANGED <<stream, shared>>,
         \A q \in Pods : /\ stage[q] = "serving" => stage'[q] = "serving"
                         /\ stage[q] # "down" => ToSet(active[q]) \subseteq ToSet(active'[q])
  PROVE  /\ enabled' = [a \in Agents |-> {}]
         /\ Installed \subseteq listed' /\ listed' \subseteq folder' /\ Published'
<1>1. stream \in Seq(Events)
  BY DEF Inv, Typed, HareInv, HareTypeOK
<1>2. \A i \in DOMAIN stream : stream[i].pod \in Pods
  <2>1. \A i \in DOMAIN stream : stream[i] \in Events
    BY <1>1
  <2> QED BY <2>1 DEF Events
<1> QED BY <1>2 DEF Inv, InstallInv, shared, Published

-----------------------------------------------------------------------------
(* The fields of the tasks that the actions leave. *)

LEMMA NoTaskParts == NoTask.op = "none" /\ NoTask.pc = "idle" /\ NoTask.todo = {}
BY DEF NoTask

LEMMA BegunParts ==
  ASSUME NEW op, NEW pc, NEW x, NEW off
  PROVE  /\ Begun(op, pc, x, off).op = op /\ Begun(op, pc, x, off).pc = pc
         /\ Begun(op, pc, x, off).plugin = x /\ Begun(op, pc, x, off).off = off
         /\ Begun(op, pc, x, off).todo = {}
BY DEF NoTask, Begun

LEMMA GoingParts ==
  ASSUME NEW t \in Jobs, NEW pc
  PROVE  LET u == Going(t, pc)
         IN /\ u.pc = pc /\ u.op = t.op /\ u.plugin = t.plugin /\ u.todo = t.todo /\ u.off = t.off
            /\ u.agent = t.agent /\ u.mine = t.mine /\ u.fits = t.fits /\ u.put = t.put
BY DEF Going, Jobs, Task

LEMMA GoingWithParts ==
  ASSUME NEW t \in Jobs, NEW pc, NEW S
  PROVE  LET u == GoingWith(t, pc, S)
         IN /\ u.pc = pc /\ u.op = t.op /\ u.plugin = t.plugin /\ u.todo = t.todo /\ u.put = S
            /\ u.off = t.off
BY DEF GoingWith, Jobs, Task

(* What the listener and the handler of an own event leave as it was. *)
LEMMA ListenerInstall ==
  ASSUME InstallsOnly, Inv, NEW p \in Pods, Listener(p)
  PROVE  InstallInv'
<1>1. UNCHANGED <<shared, local, task, stream, listening, ready>>
  BY DEF Listener, Poll, PollAgain, Receive
<1>2. /\ enabled' = [a \in Agents |-> {}]
      /\ Installed \subseteq listed' /\ listed' \subseteq folder' /\ Published'
  BY <1>1, SharedStay DEF local
<1>3. Announced' /\ LastStored'
  BY <1>1 DEF Inv, InstallInv, Announced, LastStored, shared, local
<1>4. \/ UNCHANGED <<handlers, got>>
      \/ \E i \in DOMAIN stream : /\ handlers' = [handlers EXCEPT ![p] = @ \cup {i}]
                                  /\ got' = [got EXCEPT ![p] = Append(@, i)] /\ ready[p]
  BY DEF Listener, Poll, PollAgain, Receive, Pending, Inv, Typed, HareInv, HareTypeOK
<1>5. CASE UNCHANGED <<handlers, got>>
  <2>1. \A q \in Pods : Having(q)' /\ \A l \in Slots : Installing(q, l)'
    BY <1>1, <1>5, OthersStay DEF shared, local
  <2> QED BY <1>2, <1>3, <2>1 DEF InstallInv
<1>6. ASSUME NEW i \in DOMAIN stream, handlers' = [handlers EXCEPT ![p] = @ \cup {i}],
             got' = [got EXCEPT ![p] = Append(@, i)], ready[p]
      PROVE  InstallInv'
  <2>1. /\ handlers'[p] = handlers[p] \cup {i} /\ got'[p] = Append(got[p], i)
        /\ \A q \in Pods : q # p => handlers'[q] = handlers[q] /\ got'[q] = got[q]
        /\ got[p] \in Seq(DOMAIN stream)
    BY <1>6 DEF Inv, Typed, HareInv, HareTypeOK
  <2>2. \A q \in Pods : q # p => Having(q)' /\ \A l \in Slots : Installing(q, l)'
    BY <1>1, <2>1, OthersStay DEF shared, local
  <2>3. Having(p) /\ \A l \in Slots : Installing(p, l)
    BY DEF Inv, InstallInv
  <2>4. ToSet(got'[p]) = ToSet(got[p]) \cup {i}
    BY <2>1, AppendIs
  <2>5. \A j \in ToSet(got'[p]) : Seen(p, j)'
    BY <1>1, <2>1, <2>3, <2>4 DEF Seen, Having, local
  <2>6. Having(p)'
    BY <1>1, <1>6, <2>3, <2>5 DEF Having, Complete, local, shared
  <2>7. \A l \in Slots : Installing(p, l)'
    BY <1>1, <2>3 DEF Installing, local
  <2> QED BY <1>2, <1>3, <2>2, <2>6, <2>7 DEF InstallInv
<1> QED BY <1>4, <1>5, <1>6

LEMMA HandledParts ==
  ASSUME Inv, NEW p \in Pods, NEW i \in handlers[p], Handle(p, i)
  PROVE  /\ handlers'[p] = handlers[p] \ {i} /\ \A q \in Pods : q # p => handlers'[q] = handlers[q]
         /\ UNCHANGED <<stream, listening, ready, cursor, reading, got>>
         /\ i \in DOMAIN stream
BY DEF Handle, Inv, Typed, HareInv, HareTypeOK

LEMMA IgnoreInstall ==
  ASSUME InstallsOnly, Inv, NEW p \in Pods, NEW i \in handlers[p], IgnoreOwn(p, i)
  PROVE  InstallInv'
<1>1. /\ handlers'[p] = handlers[p] \ {i} /\ \A q \in Pods : q # p => handlers'[q] = handlers[q]
      /\ UNCHANGED <<stream, listening, ready, cursor, reading, got>> /\ i \in DOMAIN stream
      /\ UNCHANGED <<shared, local, task>> /\ stream[i].pod = p
  BY HandledParts DEF IgnoreOwn
<1>2. /\ enabled' = [a \in Agents |-> {}]
      /\ Installed \subseteq listed' /\ listed' \subseteq folder' /\ Published'
  BY <1>1, SharedStay DEF local
<1>3. Announced' /\ LastStored'
  BY <1>1 DEF Inv, InstallInv, Announced, LastStored, shared, local
<1>4. \A q \in Pods : q # p => Having(q)' /\ \A l \in Slots : Installing(q, l)'
  BY <1>1, OthersStay DEF shared, local
<1>5. Having(p) /\ \A l \in Slots : Installing(p, l)
  BY DEF Inv, InstallInv
<1>6. stream[i].plugin \in ToSet(active[p])
  BY <1>1 DEF Inv, InstallInv, Published
<1>7. \A j \in ToSet(got'[p]) : Seen(p, j)'
  BY <1>1, <1>5, <1>6 DEF Seen, Having, local
<1>8. Having(p)'
  BY <1>1, <1>5, <1>7 DEF Having, Complete, local, shared
<1>9. \A l \in Slots : Installing(p, l)'
  BY <1>1, <1>5 DEF Installing, local
<1> QED BY <1>2, <1>3, <1>4, <1>8, <1>9 DEF InstallInv

LEMMA HandleInstall ==
  ASSUME InstallsOnly, Inv, NEW p \in Pods, NEW i \in handlers[p], NEW k \in Slots,
         HandleInstallation(p, k, i)
  PROVE  InstallInv'
<1> DEFINE x == stream[i].plugin
           u == Begun("installed", "activate", x, FALSE)
<1>1. /\ handlers'[p] = handlers[p] \ {i} /\ \A q \in Pods : q # p => handlers'[q] = handlers[q]
      /\ UNCHANGED <<stream, listening, ready, cursor, reading, got>> /\ i \in DOMAIN stream
  BY HandledParts DEF HandleInstallation
<1>2. /\ x \in folder /\ x \in Plugins
      /\ loaded' = Loading(p, x) /\ Put(task, task', p, k, u)
      /\ UNCHANGED <<shared, stage, active, hooks, requests, crashes>> /\ task[p][k] = NoTask
  <2>1. x \in folder
    BY <1>1 DEF Inv, InstallInv, Published
  <2> QED BY <2>1, HandleInstallationIs DEF Inv
<1>3. /\ loaded'[p] = loaded[p] \cup {x} /\ \A q \in Pods : q # p => loaded'[q] = loaded[q]
  BY <1>2 DEF Loading, Inv, Typed
<1>4. /\ task'[p][k] = u /\ \A q \in Pods, l \in Slots : q # p => task'[q][l] = task[q][l]
      /\ u.op = "installed" /\ u.pc = "activate" /\ u.plugin = x /\ u.todo = {}
      /\ Slots = {k}
  <2>1. u.op = "installed" /\ u.pc = "activate" /\ u.plugin = x /\ u.todo = {}
    BY DEF Begun, NoTask
  <2>2. Slots = {k}
    BY DEF InstallsOnly
  <2> HIDE DEF u
  <2> QED BY <1>2, <2>1, <2>2 DEF Put
<1> HIDE DEF u
<1>5. /\ enabled' = [a \in Agents |-> {}]
      /\ Installed \subseteq listed' /\ listed' \subseteq folder' /\ Published'
  BY <1>1, <1>2, SharedStay
<1>6. Having(p) /\ Installing(p, k) /\ stage[p] = "serving"
  BY DEF Inv, InstallInv, Having
<1>7. Announced' /\ LastStored'
  <2>1. \A q \in Pods, l \in Slots : task[q][l].op = "install" => task'[q][l] = task[q][l]
    BY <1>2, <1>4, NoTaskParts
  <2>2. \A q \in Pods, l \in Slots : task[q][l].pc \in {"load", "store"} => task'[q][l] = task[q][l]
    BY <1>2, <1>4, NoTaskParts
  <2> QED BY <1>1, <1>2, <2>1, <2>2 DEF Inv, InstallInv, Announced, LastStored, shared
<1>8. \A q \in Pods : q # p => Having(q)' /\ \A l \in Slots : Installing(q, l)'
  BY <1>1, <1>2, <1>3, <1>4, OthersStay DEF shared
<1>9. \A j \in ToSet(got'[p]) : Seen(p, j)'
  <2>1. task[p][k].pc # "activate"
    BY <1>2, NoTaskParts
  <2>2. \A j \in ToSet(got[p]) : j \in handlers[p] \/ stream[j].plugin \in ToSet(active[p])
    BY <1>4, <1>6, <2>1 DEF Having, Seen
  <2> QED BY <1>1, <1>2, <1>4, <2>2 DEF Seen
<1>10. Having(p)'
  <2>1. Complete(p)
    BY <1>2, <1>4, <1>6, NoTaskParts DEF Having
  <2> QED BY <1>1, <1>2, <1>3, <1>4, <1>6, <1>9, <2>1 DEF Having, Complete, shared
<1>11. Installing(p, k)'
  BY <1>2, <1>3, <1>4, <1>6 DEF Installing
<1> QED BY <1>4, <1>5, <1>7, <1>8, <1>10, <1>11 DEF InstallInv

(* One task of a pod goes on, the stream stays: what is left to show. *)
LEMMA GoesOn ==
  ASSUME InstallsOnly, Inv, NEW p \in Pods, NEW k \in Slots, NEW u, Put(task, task', p, k, u),
         UNCHANGED hareVars, stage'[p] = stage[p],
         \A q \in Pods : q # p => /\ active'[q] = active[q] /\ loaded'[q] = loaded[q]
                                  /\ stage'[q] = stage[q],
         folder \subseteq folder',
         ToSet(active[p]) \subseteq ToSet(active'[p]), ToSet(active'[p]) \subseteq folder',
         stage[p] # "down", loaded'[p] \subseteq folder',
         u.pc # "load" => Complete(p)',
         task[p][k].pc = "activate" => task[p][k].plugin \in ToSet(active'[p]),
         Installing(p, k)'
  PROVE  \A q \in Pods : Having(q)' /\ \A l \in Slots : Installing(q, l)'
<1>1. Slots = {k}
  BY DEF InstallsOnly
<1>2. task'[p][k] = u /\ \A q \in Pods, l \in Slots : q # p => task'[q][l] = task[q][l]
  BY DEF Put
<1>3. UNCHANGED <<stream, listening, ready, got, handlers>>
  BY DEF hareVars
<1>4. \A q \in Pods : q # p => Having(q)' /\ \A l \in Slots : Installing(q, l)'
  BY <1>2, <1>3, OthersStay
<1>5. Having(p)
  BY DEF Inv, InstallInv
<1>6. \A j \in ToSet(got'[p]) : Seen(p, j)'
  BY <1>1, <1>3, <1>5 DEF Having, Seen
<1>7. Having(p)'
  BY <1>1, <1>2, <1>3, <1>5, <1>6 DEF Having
<1> QED BY <1>1, <1>4, <1>7

LEMMA ActivateInstall ==
  ASSUME InstallsOnly, Inv, NEW p \in Pods, NEW k \in Slots, Activate(p, k)
  PROVE  InstallInv'
<1> DEFINE t == task[p][k]
           u == GoingWith(t, "store", ToSet(active'[p]))
<1>1. /\ t.pc = "activate" /\ t.plugin \in Plugins
      /\ active' = [active EXCEPT ![p] = Append(@, t.plugin)]
      /\ ToSet(active'[p]) = ToSet(active[p]) \cup {t.plugin}
      /\ Put(task, task', p, k, u)
      /\ UNCHANGED <<hareVars, shared, stage, loaded, hooks, requests, crashes>>
  BY ActivateIs DEF Inv
<1>2. /\ u.pc = "store" /\ u.op = t.op /\ u.plugin = t.plugin /\ u.todo = t.todo
      /\ u.put = ToSet(active'[p])
  BY TaskFields, GoingWithParts DEF Inv, Typed
<1> HIDE DEF u
<1>3. \A q \in Pods : q # p => active'[q] = active[q]
  BY <1>1 DEF Inv, Typed
<1>4. Having(p) /\ Installing(p, k) /\ Slots = {k}
  BY DEF Inv, InstallInv, InstallsOnly
<1>5. /\ t.op \in {"install", "installed"} /\ stage[p] = "serving" /\ t.plugin \in loaded[p]
      /\ t.plugin \in folder
  BY <1>1, <1>4, NoTaskParts DEF Installing, Having
<1>6. task'[p][k] = u /\ \A q \in Pods, l \in Slots : q # p => task'[q][l] = task[q][l]
  BY <1>1 DEF Put
<1>7. Complete(p)'
  BY <1>1, <1>4, <1>5 DEF Having, Complete
<1>8. Installing(p, k)'
  BY <1>1, <1>2, <1>4, <1>5, <1>6 DEF Installing
<1>9. \A q \in Pods : Having(q)' /\ \A l \in Slots : Installing(q, l)'
  <2>1. folder' = folder /\ loaded' = loaded /\ stage' = stage
    BY <1>1 DEF shared
  <2>2. ToSet(active'[p]) \subseteq folder
    BY <1>1, <1>4, <1>5 DEF Having
  <2>3. loaded[p] \subseteq folder
    BY <1>4 DEF Having
  <2> QED BY <1>1, <1>3, <1>5, <1>7, <1>8, <2>1, <2>2, <2>3, GoesOn
<1>10. /\ enabled' = [a \in Agents |-> {}]
       /\ Installed \subseteq listed' /\ listed' \subseteq folder' /\ Published'
  <2>1. \A q \in Pods : ToSet(active[q]) \subseteq ToSet(active'[q])
    BY <1>1, <1>3
  <2> QED BY <1>1, <2>1, SharedStay DEF hareVars
<1>11. Announced'
  BY <1>1, <1>2, <1>4, <1>6 DEF Inv, InstallInv, Announced, shared, hareVars
<1>12. LastStored'
  BY <1>1, <1>2, <1>5, <1>6 DEF LastStored
<1> QED BY <1>9, <1>10, <1>11, <1>12 DEF InstallInv

LEMMA StoreInstall ==
  ASSUME InstallsOnly, Inv, NEW p \in Pods, NEW k \in Slots, Store(p, k)
  PROVE  InstallInv'
<1> DEFINE t == task[p][k]
           u == Going(t, "refresh")
<1>1. /\ t.pc = "store" /\ listed' = t.put /\ Put(task, task', p, k, u)
      /\ UNCHANGED <<hareVars, folder, enabled, local, requests, crashes>>
  BY StoreIs DEF Inv
<1>2. u.pc = "refresh" /\ u.op = t.op /\ u.plugin = t.plugin /\ u.todo = t.todo
  BY TaskFields, GoingParts DEF Inv, Typed
<1> HIDE DEF u
<1>3. Having(p) /\ Installing(p, k) /\ Slots = {k}
  BY DEF Inv, InstallInv, InstallsOnly
<1>4. /\ t.op \in {"boot", "install", "installed"} /\ stage[p] # "down"
      /\ t.put = ToSet(active[p])
  BY <1>1, <1>3, NoTaskParts DEF Installing
<1>5. task'[p][k] = u /\ \A q \in Pods, l \in Slots : q # p => task'[q][l] = task[q][l]
  BY <1>1 DEF Put
<1>6. Complete(p)
  BY <1>1, <1>3, <1>4 DEF Having
<1>7. Installing(p, k)'
  BY <1>1, <1>2, <1>3, <1>4, <1>5 DEF Installing, local, hareVars
<1>8. UNCHANGED <<folder, stage, active, loaded>> /\ Complete(p)'
  BY <1>1, <1>6 DEF local, Complete
<1>9. \A q \in Pods : Having(q)' /\ \A l \in Slots : Installing(q, l)'
  BY <1>1, <1>3, <1>4, <1>7, <1>8, GoesOn DEF Having
<1>10. Installed \subseteq listed' /\ listed' \subseteq folder'
  BY <1>1, <1>3, <1>4, <1>8 DEF Having
<1>11. Published' /\ enabled' = [a \in Agents |-> {}]
  BY <1>1 DEF Inv, InstallInv, Published, local, hareVars
<1>12. Announced'
  BY <1>1, <1>2, <1>3, <1>5 DEF Inv, InstallInv, Announced, local, hareVars
<1>13. LastStored'
  BY <1>1, <1>4, <1>8 DEF LastStored
<1> QED BY <1>9, <1>10, <1>11, <1>12, <1>13 DEF InstallInv

LEMMA RefreshInstall ==
  ASSUME InstallsOnly, Inv, NEW p \in Pods, NEW k \in Slots, Refresh(p, k)
  PROVE  InstallInv'
<1> DEFINE t == task[p][k]
           u == ToAgents(t)
           v == IF t.op = "install" THEN u ELSE NoTask
<1>1. t.pc = "refresh" /\ t.op # "boot" /\ t \in Jobs
  BY RefreshIs, TaskFields DEF Inv, Typed
<1>2. Having(p) /\ Installing(p, k) /\ Slots = {k}
  BY DEF Inv, InstallInv, InstallsOnly
<1>3. /\ t.op \in {"install", "installed"} /\ stage[p] = "serving" /\ t.plugin \in loaded[p]
      /\ t.todo = {} /\ t.plugin \in ToSet(active[p])
  BY <1>1, <1>2, NoTaskParts DEF Installing
<1>4. Complete(p)
  BY <1>1, <1>2, <1>3 DEF Having
<1>5. Put(task, task', p, k, v)
  <2>1. t.op \notin {"uninstall", "uninstalled", "toggle"}
    BY <1>3
  <2>2. Typed
    BY DEF Inv
  <2>3. \/ t.op \in {"uninstall", "uninstalled"}
        \/ t.op \in {"install", "toggle"} /\ Put(task, task', p, k, u)
        \/ /\ ~ /\ t.op \in {"install", "toggle"}
                /\ Complete(p) \/ t.off
                /\ t.plugin \in loaded[p]
                /\ t.op = "toggle" => Active(p, t.plugin)
           /\ Put(task, task', p, k, NoTask)
    BY <2>2, RefreshIs
  <2>4. \/ t.op = "install" /\ Put(task, task', p, k, u)
        \/ t.op = "installed" /\ Put(task, task', p, k, NoTask)
    BY <1>3, <1>4, <2>1, <2>3
  <2> QED BY <2>4
<1>6. UNCHANGED <<hareVars, shared, stage, active, loaded, requests, crashes>>
  BY <1>3, RefreshIs DEF Inv, shared
<1>7. \/ /\ v.op = "install" /\ v.op = t.op /\ v.pc = "list" /\ v.plugin = t.plugin /\ v.todo = {}
      \/ t.op = "installed" /\ v = NoTask
  <2>1. u.op = t.op /\ u.pc = "list" /\ u.plugin = t.plugin /\ u.todo = t.todo
    BY <1>1 DEF Going, Jobs, Task, ToAgents
  <2> HIDE DEF u
  <2> QED BY <1>3, <2>1
<1> HIDE DEF v
<1>8. task'[p][k] = v /\ \A q \in Pods, l \in Slots : q # p => task'[q][l] = task[q][l]
  BY <1>5 DEF Put
<1>9. Installing(p, k)'
  BY <1>3, <1>6, <1>7, <1>8, NoTaskParts DEF Installing
<1>10. \A q \in Pods : Having(q)' /\ \A l \in Slots : Installing(q, l)'
  <2>1. UNCHANGED <<folder, active, loaded, stage>> /\ Complete(p)'
    BY <1>4, <1>6 DEF shared, Complete
  <2>2. t.pc # "activate"
    BY <1>1
  <2>3. ToSet(active[p]) \subseteq folder /\ loaded[p] \subseteq folder
    BY <1>2, <1>3 DEF Having
  <2> HIDE DEF t
  <2> QED BY <1>3, <1>5, <1>6, <1>9, <2>1, <2>2, <2>3, GoesOn DEF t
<1>11. /\ enabled' = [a \in Agents |-> {}]
       /\ Installed \subseteq listed' /\ listed' \subseteq folder' /\ Published'
  BY <1>6, SharedStay DEF hareVars
<1>12. Announced'
  BY <1>2, <1>6, <1>7, <1>8 DEF Inv, InstallInv, Announced, shared, hareVars
<1>13. LastStored'
  <2>1. t.pc \notin {"load", "store"}
    BY <1>1
  <2> QED BY <1>2, <1>3, <1>6, <1>8, <2>1 DEF Inv, InstallInv, LastStored, shared
<1> QED BY <1>10, <1>11, <1>12, <1>13 DEF InstallInv

(* The rest of an installation: no agent lists the plugin yet. *)
LEMMA AgentsInstall ==
  ASSUME InstallsOnly, Inv, NEW p \in Pods, NEW k \in Slots, ListAgents(p, k) \/ AgentsDone(p, k)
  PROVE  InstallInv'
<1> DEFINE t == task[p][k]
<1>1. t.pc \in {"list", "agents"} /\ t \in Jobs
  BY ListAgentsIs, AgentsDoneIs, TaskFields DEF Inv, Typed
<1>2. Having(p) /\ Installing(p, k) /\ Slots = {k}
  BY DEF Inv, InstallInv, InstallsOnly
<1>3. /\ t.op = "install" /\ stage[p] = "serving" /\ t.plugin \in loaded[p]
      /\ t.todo = {} /\ t.plugin \in ToSet(active[p])
  BY <1>1, <1>2, NoTaskParts DEF Installing
<1>4. Complete(p)
  BY <1>1, <1>2, <1>3 DEF Having
<1>5. PICK v \in Jobs :
        /\ v.op = "install" /\ v.plugin = t.plugin /\ v.todo = {} /\ v.pc \in {"agents", "notify"}
        /\ Put(task, task', p, k, v)
  <2>1. CASE ListAgents(p, k)
    <3>1. PICK v \in Jobs : /\ v = [Going(t, "agents") EXCEPT !.todo = {a \in Agents : t.plugin \in enabled[a]}]
                            /\ Put(task, task', p, k, v)
      BY <2>1, ListAgentsIs DEF Inv
    <3>2. {a \in Agents : t.plugin \in enabled[a]} = {}
      BY DEF Inv, InstallInv
    <3>3. v.op = t.op /\ v.plugin = t.plugin /\ v.todo = {} /\ v.pc = "agents"
      BY <1>1, <3>1, <3>2 DEF Going, Jobs, Task
    <3> QED BY <1>3, <3>1, <3>3
  <2>2. CASE AgentsDone(p, k)
    <3>1. Put(task, task', p, k, Going(t, "notify"))
      BY <1>3, <2>2, AgentsDoneIs DEF Inv
    <3>2. /\ Going(t, "notify").op = t.op /\ Going(t, "notify").plugin = t.plugin
          /\ Going(t, "notify").todo = {} /\ Going(t, "notify").pc = "notify"
      BY <1>1, <1>3, GoingParts
    <3>3. MayGo(t, "notify") /\ "notify" \in Pcs
      BY DEF MayGo, Pcs
    <3>4. Going(t, "notify") \in Jobs
      BY <1>1, <3>3, TaskPc
    <3> QED BY <1>3, <3>1, <3>2, <3>4
  <2> QED BY <2>1, <2>2
<1>6. UNCHANGED <<hareVars, shared, stage, active, loaded, requests, crashes>>
  <2>1. CASE ListAgents(p, k)
    BY <2>1 DEF ListAgents, OnlyTask, local
  <2>2. CASE AgentsDone(p, k)
    BY <1>3, <2>2 DEF AgentsDone, shared
  <2> QED BY <2>1, <2>2
<1>7. task'[p][k] = v /\ \A q \in Pods, l \in Slots : q # p => task'[q][l] = task[q][l]
  BY <1>5 DEF Put
<1>8. Installing(p, k)'
  BY <1>3, <1>5, <1>6, <1>7 DEF Installing
<1>9. \A q \in Pods : Having(q)' /\ \A l \in Slots : Installing(q, l)'
  <2>1. UNCHANGED <<folder, active, loaded, stage>> /\ Complete(p)'
    BY <1>4, <1>6 DEF shared, Complete
  <2>2. t.pc # "activate"
    BY <1>1
  <2>3. ToSet(active[p]) \subseteq folder /\ loaded[p] \subseteq folder
    BY <1>2, <1>3 DEF Having
  <2> HIDE DEF t
  <2> QED BY <1>3, <1>5, <1>6, <1>8, <2>1, <2>2, <2>3, GoesOn DEF t
<1>10. /\ enabled' = [a \in Agents |-> {}]
       /\ Installed \subseteq listed' /\ listed' \subseteq folder' /\ Published'
  BY <1>6, SharedStay DEF hareVars
<1>11. Announced'
  BY <1>2, <1>3, <1>5, <1>6, <1>7 DEF Inv, InstallInv, Announced, shared, hareVars
<1>12. LastStored'
  <2>1. t.pc \notin {"load", "store"}
    BY <1>1
  <2> QED BY <1>2, <1>3, <1>6, <1>7, <2>1 DEF Inv, InstallInv, LastStored, shared
<1> QED BY <1>9, <1>10, <1>11, <1>12 DEF InstallInv

LEMMA NotifyInstall ==
  ASSUME InstallsOnly, Inv, NEW p \in Pods, NEW k \in Slots, Notify(p, k)
  PROVE  InstallInv'
<1> DEFINE t == task[p][k]
           e == [kind |-> "installation", plugin |-> t.plugin, pod |-> p]
<1>1. t.pc = "notify" /\ Put(task, task', p, k, NoTask)
      /\ UNCHANGED <<shared, local, requests, crashes>>
  BY NotifyIs DEF Inv
<1>2. Having(p) /\ Installing(p, k) /\ Slots = {k}
  BY DEF Inv, InstallInv, InstallsOnly
<1>3. /\ t.op = "install" /\ stage[p] = "serving" /\ t.plugin \in loaded[p]
      /\ t.plugin \in ToSet(active[p]) /\ t.plugin \in folder
  BY <1>1, <1>2, NoTaskParts DEF Installing, Having
<1>4. Publish(p, "installation", t.plugin) /\ t.plugin \in Plugins
  BY <1>3, NotifyIs DEF Inv
<1>5. /\ stream \in Seq(Events) /\ e \in Events /\ stream' = Append(stream, e)
      /\ UNCHANGED <<listening, ready, cursor, reading, handlers, got>>
      /\ e.kind = "installation" /\ e.plugin = t.plugin /\ e.pod = p
  BY <1>4 DEF Publish, Inv, Typed, HareInv, HareTypeOK, Events
<1> HIDE DEF e
<1>6. /\ \A i \in DOMAIN stream : i \in DOMAIN stream' /\ stream'[i] = stream[i] /\ stream[i] \in Events
      /\ Len(stream) + 1 \in DOMAIN stream' /\ stream'[Len(stream) + 1] = e
      /\ \A i \in DOMAIN stream' : i \in DOMAIN stream \/ stream'[i] = e
  BY <1>5
<1>7. /\ task'[p][k] = NoTask /\ \A q \in Pods, l \in Slots : q # p => task'[q][l] = task[q][l]
      /\ UNCHANGED <<folder, listed, enabled, stage, active, loaded, hooks>>
  BY <1>1 DEF Put, shared, local
<1>8. \A q \in Pods : q # p => Having(q)' /\ \A l \in Slots : Installing(q, l)'
  BY <1>5, <1>6, <1>7, OthersStay
<1>9. Having(p)'
  <2>1. ToSet(got[p]) \subseteq DOMAIN stream
    BY DEF Inv, Typed, HareInv, HareTypeOK, ToSet
  <2>2. \A j \in ToSet(got'[p]) : Seen(p, j)'
    BY <1>1, <1>2, <1>5, <1>6, <1>7, <2>1 DEF Having, Seen
  <2>3. Complete(p)'
    BY <1>1, <1>2, <1>3, <1>7 DEF Having, Complete
  <2> QED BY <1>2, <1>3, <1>5, <1>7, <2>2, <2>3 DEF Having
<1>10. Installing(p, k)'
  BY <1>7, NoTaskParts DEF Installing
<1>11. Published'
  <2>1. \A i \in DOMAIN stream : stream[i].pod \in Pods
    BY <1>6 DEF Events
  <2> QED BY <1>3, <1>5, <1>6, <1>7, <2>1 DEF Inv, InstallInv, Published
<1>12. Announced'
  <2> SUFFICES ASSUME NEW x \in folder \ Installed
               PROVE  \/ \E i \in DOMAIN stream' : stream'[i].plugin = x
                      \/ \E q \in Pods, l \in Slots : task'[q][l].op = "install" /\ task'[q][l].plugin = x
    BY <1>7 DEF Announced
  <2>1. CASE \E i \in DOMAIN stream : stream[i].plugin = x
    BY <2>1, <1>6
  <2>2. CASE \E q \in Pods, l \in Slots : task[q][l].op = "install" /\ task[q][l].plugin = x
    BY <2>2, <1>2, <1>5, <1>6, <1>7
  <2> QED BY <2>1, <2>2 DEF Inv, InstallInv, Announced
<1>13. LastStored'
  <2>1. t.pc \notin {"load", "store"}
    BY <1>1
  <2> QED BY <1>2, <1>3, <1>7, <2>1 DEF Inv, InstallInv, LastStored
<1> QED BY <1>2, <1>7, <1>8, <1>9, <1>10, <1>11, <1>12, <1>13 DEF Inv, InstallInv

LEMMA BeginInstallInstall ==
  ASSUME InstallsOnly, Inv, NEW p \in Pods, NEW k \in Slots, NEW x \in Plugins, BeginInstall(p, k, x)
  PROVE  InstallInv'
<1> DEFINE u == Begun("install", "activate", x, FALSE)
<1>1. /\ stage[p] = "serving" /\ folder' = folder \cup {x} /\ loaded' = Loading(p, x)
      /\ task[p][k] = NoTask /\ Put(task, task', p, k, u)
      /\ UNCHANGED <<hareVars, listed, enabled, stage, active, hooks, crashes>>
  BY BeginInstallIs DEF Inv
<1>2. u.op = "install" /\ u.pc = "activate" /\ u.plugin = x /\ u.todo = {}
  BY DEF Begun, NoTask
<1> HIDE DEF u
<1>3. Having(p) /\ Installing(p, k) /\ Slots = {k}
  BY DEF Inv, InstallInv, InstallsOnly
<1>4. loaded'[p] = loaded[p] \cup {x} /\ \A q \in Pods : q # p => loaded'[q] = loaded[q]
  BY <1>1 DEF Loading, Inv, Typed
<1>5. task'[p][k] = u /\ \A q \in Pods, l \in Slots : q # p => task'[q][l] = task[q][l]
  BY <1>1 DEF Put
<1>6. Complete(p)'
  BY <1>1, <1>3, <1>4, NoTaskParts DEF Having, Complete
<1>7. Installing(p, k)'
  BY <1>1, <1>2, <1>4, <1>5 DEF Installing
<1>8. \A q \in Pods : Having(q)' /\ \A l \in Slots : Installing(q, l)'
  <2>1. task[p][k].pc # "activate" /\ stage[p] # "down"
    BY <1>1, NoTaskParts
  <2>2. /\ ToSet(active[p]) \subseteq folder' /\ loaded'[p] \subseteq folder' /\ folder \subseteq folder'
        /\ UNCHANGED <<stage, active>>
    BY <1>1, <1>3, <1>4, <2>1 DEF Having
  <2> QED BY <1>1, <1>4, <1>6, <1>7, <2>1, <2>2, GoesOn
<1>9. /\ enabled' = [a \in Agents |-> {}]
      /\ Installed \subseteq listed' /\ listed' \subseteq folder' /\ Published'
  BY <1>1 DEF Inv, InstallInv, Published, hareVars
<1>10. Announced'
  <2> SUFFICES ASSUME NEW y \in folder' \ Installed
               PROVE  \/ \E i \in DOMAIN stream' : stream'[i].plugin = y
                      \/ \E q \in Pods, l \in Slots : task'[q][l].op = "install" /\ task'[q][l].plugin = y
    BY DEF Announced
  <2>1. CASE y = x
    BY <1>2, <1>5, <2>1
  <2>2. CASE y # x
    BY <1>1, <1>3, <1>5, <2>2, NoTaskParts DEF Inv, InstallInv, Announced, hareVars
  <2> QED BY <2>1, <2>2
<1>11. LastStored'
  BY <1>1, <1>3, <1>5, NoTaskParts DEF Inv, InstallInv, LastStored
<1> QED BY <1>8, <1>9, <1>10, <1>11 DEF InstallInv

(* Pods come up. *)

LEMMA ServeInstall ==
  ASSUME InstallsOnly, Inv, NEW p \in Pods, Serve(p)
  PROVE  InstallInv'
<1>1. /\ stage[p] = "booting" /\ stage' = [stage EXCEPT ![p] = "serving"] /\ MarkReady(p)
      /\ UNCHANGED <<shared, active, loaded, hooks, task, requests, crashes>>
  BY DEF Serve
<1>2. /\ stage'[p] = "serving" /\ \A q \in Pods : q # p => stage'[q] = stage[q]
      /\ UNCHANGED <<stream, listening, cursor, reading, handlers, got>>
      /\ \A q \in Pods : q # p => ready'[q] = ready[q]
      /\ listening[p]
  BY <1>1 DEF MarkReady, Inv, Typed, HareInv, HareTypeOK
<1>3. /\ enabled' = [a \in Agents |-> {}]
      /\ Installed \subseteq listed' /\ listed' \subseteq folder' /\ Published'
  <2>1. \A q \in Pods : stage[q] = "serving" => stage'[q] = "serving"
    BY <1>1, <1>2
  <2> QED BY <1>1, <1>2, <2>1, SharedStay
<1>4. Announced' /\ LastStored'
  <2>1. Announced'
    BY <1>1, <1>2 DEF Inv, InstallInv, Announced, shared
  <2>2. LastStored'
    BY <1>1, <1>2 DEF Inv, InstallInv, LastStored, shared
  <2> QED BY <2>1, <2>2
<1>5. \A q \in Pods : q # p => Having(q)' /\ \A l \in Slots : Installing(q, l)'
  BY <1>1, <1>2, OthersStay DEF shared
<1>6. PICK k : Slots = {k} /\ Having(p) /\ Installing(p, k)
  BY DEF Inv, InstallInv, InstallsOnly
<1>7. \A j \in ToSet(got'[p]) : Seen(p, j)'
  BY <1>1, <1>2, <1>6 DEF Having, Seen
<1>9. task[p][k].op # "boot"
  BY <1>2, <1>6 DEF Installing
<1>10. Having(p)'
  BY <1>1, <1>2, <1>6, <1>7 DEF Having, Complete, shared
<1>11. Installing(p, k)'
  BY <1>1, <1>2, <1>6, <1>9 DEF Installing
<1> QED BY <1>3, <1>4, <1>5, <1>6, <1>10, <1>11 DEF InstallInv

LEMMA BootInstall ==
  ASSUME InstallsOnly, Inv, NEW p \in Pods, NEW k \in Slots, Boot(p, k)
  PROVE  InstallInv'
<1> DEFINE u == Begun("boot", "load", None, FALSE)
<1>1. PICK list \in Seq(Plugins) :
        active' = [active EXCEPT ![p] = list] /\ ToSet(list) = listed
  BY BootTaskIs DEF Inv
<1>2. /\ stage[p] = "down" /\ stage' = [stage EXCEPT ![p] = "booting"]
      /\ Put(task, task', p, k, u)
      /\ UNCHANGED <<hareVars, shared, loaded, hooks, requests, crashes>>
  BY BootTaskIs DEF Inv
<1>3. u.op = "boot" /\ u.pc = "load"
  BY DEF Begun, NoTask
<1> HIDE DEF u
<1>4. /\ ToSet(active'[p]) = listed /\ \A q \in Pods : q # p => active'[q] = active[q]
      /\ stage'[p] = "booting" /\ \A q \in Pods : q # p => stage'[q] = stage[q]
      /\ task'[p][k] = u /\ \A q \in Pods, l \in Slots : q # p => task'[q][l] = task[q][l]
      /\ UNCHANGED <<stream, listening, ready, handlers, got, folder, listed, enabled, loaded>>
  BY <1>1, <1>2 DEF Inv, Typed, Put, hareVars, shared
<1>5. Having(p) /\ Slots = {k} /\ task[p][k] = NoTask
  BY <1>2 DEF Inv, InstallInv, InstallsOnly, Having
<1>6. \A q \in Pods : q # p => Having(q)' /\ \A l \in Slots : Installing(q, l)'
  BY <1>4, OthersStay
<1>7. Having(p)'
  <2>1. got[p] = <<>> /\ handlers[p] = {} /\ ~ready[p] /\ ToSet(got[p]) = {}
    BY <1>2, <1>5 DEF Having, ToSet
  <2>2. Installed \subseteq listed /\ listed \subseteq folder
    BY DEF Inv, InstallInv
  <2> QED BY <1>3, <1>4, <1>5, <2>1, <2>2 DEF Having
<1>8. Installing(p, k)'
  BY <1>2, <1>3, <1>4, <1>5 DEF Installing, Having
<1>9. /\ enabled' = [a \in Agents |-> {}]
      /\ Installed \subseteq listed' /\ listed' \subseteq folder' /\ Published'
  <2>1. \A q \in Pods :
          /\ stage[q] = "serving" => stage'[q] = "serving"
          /\ stage[q] # "down" => ToSet(active[q]) \subseteq ToSet(active'[q])
    BY <1>2, <1>4
  <2> QED BY <1>2, <2>1, SharedStay DEF hareVars
<1>10. Announced'
  BY <1>4, <1>5, NoTaskParts DEF Inv, InstallInv, Announced
<1>11. LastStored'
  BY <1>3, <1>4 DEF LastStored
<1> QED BY <1>5, <1>6, <1>7, <1>8, <1>9, <1>10, <1>11 DEF InstallInv

LEMMA BootLoadInstall ==
  ASSUME InstallsOnly, Inv, NEW p \in Pods, NEW k \in Slots, BootLoad(p, k)
  PROVE  InstallInv'
<1> DEFINE t == task[p][k]
           u == GoingWith(t, "store", ToSet(active[p]))
<1>1. /\ t.pc = "load" /\ loaded' = [loaded EXCEPT ![p] = ToSet(active[p]) \cap folder]
      /\ Put(task, task', p, k, u)
      /\ UNCHANGED <<hareVars, shared, stage, active, hooks, requests, crashes>>
  BY BootLoadIs DEF Inv
<1>2. u.pc = "store" /\ u.op = t.op /\ u.put = ToSet(active[p])
  BY TaskFields, GoingWithParts DEF Inv, Typed
<1> HIDE DEF u
<1>3. Having(p) /\ Installing(p, k) /\ Slots = {k}
  BY DEF Inv, InstallInv, InstallsOnly
<1>4. t.op = "boot" /\ stage[p] = "booting" /\ ~listening[p]
  BY <1>1, <1>3, NoTaskParts DEF Installing
<1>5. /\ loaded'[p] = ToSet(active[p]) \cap folder
      /\ \A q \in Pods : q # p => loaded'[q] = loaded[q]
      /\ UNCHANGED <<listening, stage, active, folder, listed>>
      /\ task'[p][k] = u /\ \A q \in Pods, l \in Slots : q # p => task'[q][l] = task[q][l]
  BY <1>1 DEF Inv, Typed, Put, shared, hareVars
<1>6. ToSet(active[p]) \subseteq folder
  BY <1>3, <1>4 DEF Having
<1>7. Complete(p)'
  BY <1>5, <1>6 DEF Complete
<1>8. Installing(p, k)'
  BY <1>2, <1>4, <1>5 DEF Installing
<1>9. \A q \in Pods : Having(q)' /\ \A l \in Slots : Installing(q, l)'
  <2>1. t.pc # "activate" /\ loaded'[p] \subseteq folder'
    BY <1>1, <1>5
  <2> HIDE DEF t
  <2> QED BY <1>1, <1>4, <1>5, <1>6, <1>7, <1>8, <2>1, GoesOn DEF t
<1>10. /\ enabled' = [a \in Agents |-> {}]
       /\ Installed \subseteq listed' /\ listed' \subseteq folder' /\ Published'
  BY <1>1, SharedStay DEF hareVars
<1>11. Announced'
  BY <1>1, <1>3, <1>4, <1>5 DEF Inv, InstallInv, Announced, shared, hareVars
<1>12. LastStored'
  BY <1>2, <1>4, <1>5 DEF LastStored
<1> QED BY <1>9, <1>10, <1>11, <1>12 DEF InstallInv

LEMMA BootRefreshInstall ==
  ASSUME InstallsOnly, Inv, NEW p \in Pods, NEW k \in Slots, BootRefresh(p, k)
  PROVE  InstallInv'
<1> DEFINE t == task[p][k]
<1>1. /\ t.pc = "refresh" /\ t.op = "boot" /\ Complete(p) /\ Listen(p)
      /\ Put(task, task', p, k, NoTask)
      /\ UNCHANGED <<shared, stage, active, loaded, requests, crashes>>
  BY BootRefreshIs DEF Inv
<1>2. Having(p) /\ Installing(p, k) /\ Slots = {k}
  BY DEF Inv, InstallInv, InstallsOnly
<1>3. stage[p] = "booting"
  BY <1>1, <1>2 DEF Installing
<1>4. /\ UNCHANGED <<stream, ready, cursor, reading, handlers, got>>
      /\ \A q \in Pods : q # p => listening'[q] = listening[q]
      /\ task'[p][k] = NoTask /\ \A q \in Pods, l \in Slots : q # p => task'[q][l] = task[q][l]
      /\ UNCHANGED <<folder, listed, enabled>>
  BY <1>1 DEF Listen, Put, shared, Inv, Typed, HareInv, HareTypeOK
<1>5. \A q \in Pods : q # p => Having(q)' /\ \A l \in Slots : Installing(q, l)'
  BY <1>1, <1>4, OthersStay
<1>6. Having(p)'
  <2>1. ToSet(got'[p]) = {}
    BY <1>2, <1>3, <1>4 DEF Having, ToSet
  <2> QED BY <1>1, <1>2, <1>3, <1>4, <2>1 DEF Having, Complete
<1>7. Installing(p, k)'
  BY <1>4, NoTaskParts DEF Installing
<1>8. /\ enabled' = [a \in Agents |-> {}]
      /\ Installed \subseteq listed' /\ listed' \subseteq folder' /\ Published'
  BY <1>1, <1>4, SharedStay
<1>9. Announced'
  BY <1>1, <1>2, <1>4 DEF Inv, InstallInv, Announced
<1>10. LastStored'
  BY <1>1, <1>2, <1>3, <1>4 DEF Inv, InstallInv, LastStored
<1> QED BY <1>2, <1>5, <1>6, <1>7, <1>8, <1>9, <1>10 DEF InstallInv

(* No other action happens. *)
LEMMA NothingElse ==
  ASSUME InstallsOnly, Inv, NEW p \in Pods
  PROVE  /\ ~Crash(p)
         /\ \A k \in Slots :
              /\ ~Deactivate(p, k) /\ ~DeactivateAgain(p, k) /\ ~BootFail(p, k)
              /\ \A a \in Agents : ~NextAgent(p, k, a)
              /\ ~Discover(p, k) /\ ~Rewrite(p, k) /\ ~Resave(p, k)
              /\ \A x \in Plugins : /\ ~BeginUninstall(p, k, x) /\ ~BeginToggle(p, k, x)
                                    /\ \A a \in Agents : ~BeginAgentToggle(p, k, a, x)
              /\ \A a \in Agents : ~BeginVisit(p, k, a)
              /\ \A i \in handlers[p] : ~HandleUninstallation(p, k, i)
<1>1. ~Crash(p)
  BY DEF Crash, InstallsOnly, Inv, Typed
<1>2. ASSUME NEW k \in Slots
      PROVE  /\ ~Deactivate(p, k) /\ ~DeactivateAgain(p, k) /\ ~BootFail(p, k)
             /\ \A a \in Agents : ~NextAgent(p, k, a)
             /\ ~Discover(p, k) /\ ~Rewrite(p, k) /\ ~Resave(p, k)
  <2>1. Having(p) /\ Installing(p, k) /\ Slots = {k}
    BY DEF Inv, InstallInv, InstallsOnly
  <2>2. task[p][k].pc \notin {"deactivate", "discover", "rewrite", "resave"}
    BY <2>1, NoTaskParts DEF Installing
  <2>3. task[p][k].todo = {} \/ task[p][k].pc # "agents"
    BY <2>1, NoTaskParts DEF Installing
  <2>4. task[p][k].pc = "refresh" /\ task[p][k].op = "boot" => Complete(p)
    BY <2>1 DEF Installing, Having
  <2> QED BY <2>2, <2>3, <2>4
        DEF Deactivate, DeactivateAgain, BootFail, NextAgent, Discover, Rewrite, Resave, At
<1>3. ASSUME NEW k \in Slots
      PROVE  /\ \A x \in Plugins : /\ ~BeginUninstall(p, k, x) /\ ~BeginToggle(p, k, x)
                                    /\ \A a \in Agents : ~BeginAgentToggle(p, k, a, x)
             /\ \A a \in Agents : ~BeginVisit(p, k, a)
  BY DEF InstallsOnly, BeginUninstall, BeginToggle, BeginAgentToggle, BeginVisit
<1>4. ASSUME NEW k \in Slots, NEW i \in handlers[p] PROVE ~HandleUninstallation(p, k, i)
  <2>1. i \in DOMAIN stream
    BY DEF Inv, Typed, HareInv, HareTypeOK
  <2> QED BY <2>1 DEF Inv, InstallInv, Published, HandleUninstallation
<1> QED BY <1>1, <1>2, <1>3, <1>4

LEMMA InstallStep == InstallsOnly /\ Inv /\ [Next]_vars => InstallInv'
<1> SUFFICES ASSUME InstallsOnly, Inv, [Next]_vars PROVE InstallInv'
  OBVIOUS
<1>1. CASE UNCHANGED vars
  <2>1. UNCHANGED <<stream, listening, ready, got, handlers, folder, listed, enabled,
                    stage, active, loaded, task>>
    BY <1>1 DEF vars, hareVars, shared, local
  <2>2. \A q \in Pods : Having(q)' /\ \A l \in Slots : Installing(q, l)'
    BY <2>1, OthersStay
  <2>3. Published' /\ Announced' /\ LastStored'
    BY <2>1 DEF Inv, InstallInv, Published, Announced, LastStored
  <2> QED BY <2>1, <2>2, <2>3 DEF Inv, InstallInv
<1>2. ASSUME NEW p \in Pods, Listener(p) \/ Handler(p) \/ Serve(p) PROVE InstallInv'
  <2>1. CASE Handler(p)
    <3>1. PICK i \in handlers[p] :
            \/ IgnoreOwn(p, i)
            \/ \E k \in Slots : HandleInstallation(p, k, i) \/ HandleUninstallation(p, k, i)
      BY <2>1 DEF Handler
    <3> QED BY <3>1, IgnoreInstall, HandleInstall, NothingElse
  <2> QED BY <1>2, <2>1, ListenerInstall, ServeInstall
<1>3. ASSUME NEW p \in Pods, NEW k \in Slots, Step(p, k) \/ Request(p, k) \/ Boot(p, k)
      PROVE  InstallInv'
  <2>1. CASE Step(p, k)
    BY <2>1, NothingElse, ActivateInstall, StoreInstall, RefreshInstall, AgentsInstall,
       NotifyInstall, BootLoadInstall, BootRefreshInstall DEF Step
  <2>2. CASE Request(p, k)
    BY <2>2, NothingElse, BeginInstallInstall DEF Request
  <2> QED BY <1>3, <2>1, <2>2, BootInstall
<1> QED BY <1>1, <1>2, <1>3, NothingElse DEF Next

(* Pods that install one plugin after the other, whatever the order in which they  *)
(* store their lists and whatever the pods, plugins and agents are, end with the   *)
(* same plugins loaded everywhere and listed once every pod has got every event    *)
(* (install_plugin, _handle_plugin_event, _on_finish_discovering_plugins).         *)
THEOREM PodsAgree ==
  ASSUME InstallsOnly
  PROVE  Spec => []InstallsAgree
<1>1. Init => Inv
  BY TypedInit, InstallInit DEF Inv
<1>2. Inv /\ [Next]_vars => Inv'
  BY TypedStep, InstallStep DEF Inv
<1>3. Inv => InstallsAgree
  BY InstallMeans
<1> QED BY <1>1, <1>2, <1>3, PTL DEF Spec

-----------------------------------------------------------------------------
(* One pod that does one task after the other, and installs no plugin twice. *)

OnePod == (\E p : Pods = {p}) /\ (\E k : Slots = {k}) /\ ~Reinstalls

(* What is active, loaded and hooked is what is stored. *)
Agreeing(p) == ToSet(active[p]) = listed /\ loaded[p] = listed
Settled(p) == Agreeing(p) /\ hooks[p] = listed

Resting(p, k) ==
  /\ task[p][k] = NoTask
  /\ IF stage[p] = "down" THEN active[p] = <<>> /\ ~listening[p] ELSE Settled(p)

Booting(p, k) ==
  LET t == task[p][k]
  IN /\ t.op = "boot" /\ stage[p] = "booting" /\ ~listening[p]
     /\ \/ t.pc = "load" /\ ToSet(active[p]) = listed
        \/ t.pc = "store" /\ Agreeing(p) /\ t.put = listed
        \/ t.pc = "refresh" /\ Agreeing(p)

(* A plugin is switched on: it is loaded first, active then, listed then. *)
SwitchingOn(p, k) ==
  LET t == task[p][k]
      x == t.plugin
  IN /\ t.op \in {"install", "toggle"} /\ ~t.off /\ x \in folder
     /\ \/ /\ t.pc = "activate" /\ x \notin listed
           /\ ToSet(active[p]) = listed /\ loaded[p] = listed \cup {x}
        \/ /\ t.pc = "store" /\ x \notin listed /\ t.put = listed \cup {x}
           /\ ToSet(active[p]) = t.put /\ loaded[p] = t.put
        \/ t.pc = "refresh" /\ x \in listed /\ Agreeing(p)
        \/ t.pc \in {"list", "agents", "discover"} /\ x \in listed /\ Settled(p)
        \/ /\ t.pc \in {"rewrite", "resave"} /\ x \in listed /\ Settled(p)
           /\ t.mine \subseteq listed /\ t.fits
        \/ t.pc = "notify" /\ t.op = "install" /\ Settled(p)

(* A plugin is switched off: in the agents first, on the system then. *)
SwitchingOff(p, k) ==
  LET t == task[p][k]
      x == t.plugin
  IN /\ t.op \in {"uninstall", "toggle"} /\ t.off
     /\ \/ t.pc = "list" /\ x \in listed /\ Settled(p)
        \/ /\ t.pc = "agents" /\ x \in listed /\ Settled(p)
           /\ \A a \in Agents : x \in enabled[a] => a \in t.todo
        \/ /\ t.pc \in {"discover", "rewrite", "resave"} /\ x \in listed /\ Settled(p)
           /\ \A a \in Agents : x \in enabled[a] => a \in t.todo \cup {t.agent}
           /\ t.pc # "discover" => t.mine \subseteq listed /\ t.fits
           /\ t.pc = "resave" => x \notin t.mine
        \/ /\ t.pc = "deactivate" /\ x \in listed /\ Settled(p)
           /\ \A a \in Agents : x \notin enabled[a]
        \/ /\ t.pc = "store" /\ t.put = listed \ {x}
           /\ ToSet(active[p]) = t.put /\ loaded[p] = t.put
           /\ \A a \in Agents : x \notin enabled[a]
        \/ t.pc = "refresh" /\ x \notin listed /\ Agreeing(p)
        \/ t.pc = "notify" /\ t.op = "uninstall" /\ Settled(p)

AtAgent(p, k) ==
  LET t == task[p][k]
  IN /\ t.op \in {"agent", "visit"} /\ Settled(p)
     /\ \/ t.pc = "discover"
        \/ /\ t.pc \in {"rewrite", "resave"} /\ t.mine \subseteq listed /\ t.fits
           /\ t.pc = "resave" => t.op = "agent"

Working(p, k) ==
  \/ Booting(p, k)
  \/ stage[p] = "serving" /\ (SwitchingOn(p, k) \/ SwitchingOff(p, k) \/ AtAgent(p, k))

PodInv ==
  /\ listed \subseteq folder /\ \A a \in Agents : enabled[a] \subseteq listed
  /\ \A p \in Pods : Distinct(active[p]) /\ \A k \in Slots : Resting(p, k) \/ Working(p, k)

Alone == Typed /\ PodInv

LEMMA CachedAll ==
  ASSUME Typed, NEW p \in Pods, Complete(p)
  PROVE  Cached(p) = ToSet(active[p])
<1>1. active[p] \in Seq(Plugins)
  BY DEF Typed
<1>2. ASSUME NEW m \in DOMAIN active[p], NEW l \in 1..m PROVE active[p][l] \in loaded[p]
  <2>1. l \in DOMAIN active[p]
    BY <1>1
  <2> QED BY <2>1 DEF Complete, ToSet
<1>3. {m \in DOMAIN active[p] : \A l \in 1..m : active[p][l] \in loaded[p]} = DOMAIN active[p]
  BY <1>2
<1> QED BY <1>3 DEF Cached, ToSet

LEMMA PodMeans == OnePod /\ Alone => Bootable /\ CachesMatch /\ AgentsLoad
<1> SUFFICES ASSUME OnePod, Alone PROVE Bootable /\ CachesMatch /\ AgentsLoad
  OBVIOUS
<1>1. ASSUME NEW p \in Pods, Idle(p)
      PROVE  hooks[p] = ToSet(active[p]) /\ loaded[p] = hooks[p]
             /\ \A a \in Agents : enabled[a] \subseteq loaded[p]
  <2>1. PICK k \in Slots : Resting(p, k) \/ Working(p, k)
    BY <1>1 DEF OnePod, Alone, PodInv
  <2>2. task[p][k] = NoTask /\ stage[p] = "serving"
    BY <1>1 DEF Idle, Serving
  <2>3. Resting(p, k)
    BY <2>1, <2>2, NoTaskParts DEF Working, Booting, SwitchingOn, SwitchingOff, AtAgent
  <2> QED BY <2>2, <2>3 DEF Resting, Settled, Agreeing, Alone, PodInv
<1>2. Bootable
  BY DEF Alone, PodInv, Bootable
<1> QED BY <1>1, <1>2 DEF CachesMatch, AgentsLoad

LEMMA PodInit == Init => PodInv
<1> SUFFICES ASSUME Init PROVE PodInv
  OBVIOUS
<1>1. ASSUME NEW p \in Pods, NEW k \in Slots PROVE Resting(p, k) /\ Distinct(active[p])
  BY DEF Init, HareInit, Resting, Distinct
<1>2. \A p \in Pods : Distinct(active[p])
  BY DEF Init, Distinct
<1> QED BY <1>1, <1>2 DEF Init, PodInv

(* What is to be shown of a step when there is one pod and one slot. *)
LEMMA OnlyThis ==
  ASSUME OnePod, NEW p \in Pods, NEW k \in Slots,
         listed' \subseteq folder', \A a \in Agents : enabled'[a] \subseteq listed',
         Distinct(active[p])', Resting(p, k)' \/ Working(p, k)'
  PROVE  PodInv'
<1>1. Pods = {p} /\ Slots = {k}
  BY DEF OnePod
<1> QED BY <1>1 DEF PodInv

LEMMA PodNow ==
  ASSUME OnePod, Alone, NEW p \in Pods, NEW k \in Slots
  PROVE  /\ Pods = {p} /\ Slots = {k} /\ Distinct(active[p])
         /\ Resting(p, k) \/ Working(p, k)
         /\ listed \subseteq folder /\ \A a \in Agents : enabled[a] \subseteq listed
BY DEF OnePod, Alone, PodInv

-----------------------------------------------------------------------------
(* The steps of the one pod. *)

LEMMA ActivatePod ==
  ASSUME OnePod, Alone, NEW p \in Pods, NEW k \in Slots, Activate(p, k)
  PROVE  PodInv'
<1> DEFINE t == task[p][k]
           x == t.plugin
           u == GoingWith(t, "store", ToSet(active'[p]))
<1>1. /\ t.pc = "activate" /\ x \in Plugins
      /\ active' = [active EXCEPT ![p] = Append(@, x)]
      /\ ToSet(active'[p]) = ToSet(active[p]) \cup {x}
      /\ Put(task, task', p, k, u)
      /\ UNCHANGED <<hareVars, shared, stage, loaded, hooks, requests, crashes>>
  BY ActivateIs DEF Alone
<1>2. /\ u.pc = "store" /\ u.op = t.op /\ u.plugin = x /\ u.todo = t.todo /\ u.off = t.off
      /\ u.put = ToSet(active'[p])
  BY TaskFields, GoingWithParts DEF Alone, Typed
<1> HIDE DEF u
<1>3. /\ Distinct(active[p]) /\ listed \subseteq folder
      /\ \A a \in Agents : enabled[a] \subseteq listed
  BY PodNow
<1>4. /\ stage[p] = "serving" /\ t.op \in {"install", "toggle"} /\ ~t.off /\ x \in folder
      /\ x \notin listed /\ ToSet(active[p]) = listed /\ loaded[p] = listed \cup {x}
  <2>1. Resting(p, k) \/ Working(p, k)
    BY PodNow
  <2> QED BY <1>1, <2>1, NoTaskParts
          DEF Resting, Working, Booting, SwitchingOn, SwitchingOff, AtAgent
<1>5. task'[p][k] = u
  BY <1>1 DEF Put
<1>6. Distinct(active[p])'
  <2>1. active[p] \in Seq(Plugins) /\ active'[p] = Append(active[p], x)
    BY <1>1 DEF Alone, Typed
  <2>2. Distinct(Append(active[p], x))
    BY <1>1, <1>3, <1>4, <2>1, AppendIs
  <2> QED BY <2>1, <2>2 DEF Distinct
<1>7. UNCHANGED <<stage, folder, listed, enabled, loaded>>
  BY <1>1 DEF shared
<1>8. SwitchingOn(p, k)'
  BY <1>1, <1>2, <1>4, <1>5, <1>7 DEF SwitchingOn
<1> QED BY <1>3, <1>4, <1>6, <1>7, <1>8, OnlyThis DEF Working

LEMMA DeactivatePod ==
  ASSUME OnePod, Alone, NEW p \in Pods, NEW k \in Slots, Deactivate(p, k)
  PROVE  PodInv'
<1> DEFINE t == task[p][k]
           x == t.plugin
           u == GoingWith(t, "store", ToSet(active'[p]))
<1>1. /\ t.pc = "deactivate"
      /\ Distinct(active[p]) =>
           Distinct(active'[p]) /\ ToSet(active'[p]) = ToSet(active[p]) \ {x}
      /\ loaded' = [loaded EXCEPT ![p] = @ \ {x}]
      /\ Put(task, task', p, k, u)
      /\ UNCHANGED <<hareVars, shared, stage, hooks, requests, crashes>>
  BY DeactivateIs DEF Alone
<1>2. /\ u.pc = "store" /\ u.op = t.op /\ u.plugin = x /\ u.todo = t.todo /\ u.off = t.off
      /\ u.put = ToSet(active'[p])
  BY TaskFields, GoingWithParts DEF Alone, Typed
<1> HIDE DEF u
<1>3. /\ Distinct(active[p]) /\ listed \subseteq folder
      /\ \A a \in Agents : enabled[a] \subseteq listed
  BY PodNow
<1>4. /\ stage[p] = "serving" /\ t.op \in {"uninstall", "toggle"} /\ t.off
      /\ x \in listed /\ Settled(p) /\ \A a \in Agents : x \notin enabled[a]
  <2>1. Resting(p, k) \/ Working(p, k)
    BY PodNow
  <2> QED BY <1>1, <2>1, NoTaskParts
          DEF Resting, Working, Booting, SwitchingOn, SwitchingOff, AtAgent
<1>5. task'[p][k] = u /\ loaded'[p] = loaded[p] \ {x}
  BY <1>1 DEF Put, Alone, Typed
<1>6. Distinct(active[p])'
  BY <1>1, <1>3 DEF Distinct
<1>7. UNCHANGED <<stage, folder, listed, enabled>>
  BY <1>1 DEF shared
<1>8. SwitchingOff(p, k)'
  BY <1>1, <1>2, <1>3, <1>4, <1>5, <1>7 DEF SwitchingOff, Settled, Agreeing
<1> QED BY <1>3, <1>4, <1>6, <1>7, <1>8, OnlyThis DEF Working

LEMMA StorePod ==
  ASSUME OnePod, Alone, NEW p \in Pods, NEW k \in Slots, Store(p, k)
  PROVE  PodInv'
<1> DEFINE t == task[p][k]
           x == t.plugin
           u == Going(t, "refresh")
<1>1. /\ t.pc = "store" /\ listed' = t.put /\ Put(task, task', p, k, u)
      /\ UNCHANGED <<hareVars, folder, enabled, local, requests, crashes>>
  BY StoreIs DEF Alone
<1>2. u.pc = "refresh" /\ u.op = t.op /\ u.plugin = x /\ u.off = t.off
  BY TaskFields, GoingParts DEF Alone, Typed
<1> HIDE DEF u
<1>3. /\ Distinct(active[p]) /\ listed \subseteq folder
      /\ \A a \in Agents : enabled[a] \subseteq listed
  BY PodNow
<1>4. /\ t.put = ToSet(active[p]) /\ loaded[p] = t.put
      /\ \/ t.op = "boot" /\ stage[p] = "booting" /\ ~listening[p] /\ t.put = listed
         \/ /\ stage[p] = "serving" /\ t.op \in {"install", "toggle"} /\ ~t.off /\ x \in folder
            /\ t.put = listed \cup {x}
         \/ /\ stage[p] = "serving" /\ t.op \in {"uninstall", "toggle"} /\ t.off
            /\ t.put = listed \ {x} /\ \A a \in Agents : x \notin enabled[a]
  <2>1. Resting(p, k) \/ Working(p, k)
    BY PodNow
  <2> QED BY <1>1, <2>1, NoTaskParts
          DEF Resting, Working, Booting, SwitchingOn, SwitchingOff, AtAgent, Agreeing
<1>5. task'[p][k] = u /\ UNCHANGED <<stage, active, loaded, listening>>
  BY <1>1 DEF Put, local, hareVars
<1>6. Distinct(active[p])'
  BY <1>3, <1>5 DEF Distinct
<1>7. Agreeing(p)'
  BY <1>1, <1>4, <1>5 DEF Agreeing
<1>8. Working(p, k)'
  BY <1>1, <1>2, <1>4, <1>5, <1>7 DEF Working, Booting, SwitchingOn, SwitchingOff
<1>9. listed' \subseteq folder' /\ \A a \in Agents : enabled'[a] \subseteq listed'
  BY <1>1, <1>3, <1>4
<1> QED BY <1>6, <1>8, <1>9, OnlyThis

LEMMA RefreshPod ==
  ASSUME OnePod, Alone, NEW p \in Pods, NEW k \in Slots, Refresh(p, k)
  PROVE  PodInv'
<1> DEFINE t == task[p][k]
           x == t.plugin
<1>1. /\ t.pc = "refresh" /\ t.op # "boot" /\ t \in Jobs
      /\ hooks' = [hooks EXCEPT ![p] = Cached(p)]
      /\ UNCHANGED <<hareVars, listed, enabled, stage, active, loaded, requests, crashes>>
  BY RefreshIs, TaskFields DEF Alone, Typed
<1>2. /\ Distinct(active[p]) /\ listed \subseteq folder
      /\ \A a \in Agents : enabled[a] \subseteq listed
  BY PodNow
<1>3. /\ stage[p] = "serving" /\ Agreeing(p)
      /\ \/ t.op \in {"install", "toggle"} /\ ~t.off /\ x \in folder /\ x \in listed
         \/ t.op \in {"uninstall", "toggle"} /\ t.off /\ x \notin listed
  <2>1. Resting(p, k) \/ Working(p, k)
    BY PodNow
  <2> QED BY <1>1, <2>1, NoTaskParts
          DEF Resting, Working, Booting, SwitchingOn, SwitchingOff, AtAgent
<1>4. Settled(p)'
  <2>1. Complete(p)
    BY <1>3 DEF Complete, Agreeing
  <2>2. Cached(p) = ToSet(active[p])
    BY <2>1, CachedAll DEF Alone
  <2>3. hooks'[p] = Cached(p)
    BY <1>1 DEF Alone, Typed
  <2> QED BY <1>1, <1>3, <2>2, <2>3 DEF Settled, Agreeing
<1>5. Distinct(active[p])'
  BY <1>1, <1>2 DEF Distinct
<1>6. \/ /\ t.op = "uninstall" /\ t.off /\ folder' = folder \ {x}
         /\ Put(task, task', p, k, Going(t, "notify"))
      \/ /\ t.op \in {"install", "toggle"} /\ ~t.off /\ UNCHANGED folder
         /\ Put(task, task', p, k, ToAgents(t))
      \/ t.op = "toggle" /\ t.off /\ UNCHANGED folder /\ Put(task, task', p, k, NoTask)
  <2>1. Active(p, x) <=> x \in listed
    BY <1>3 DEF Active, Agreeing
  <2>2. x \in loaded[p] <=> x \in listed
    BY <1>3 DEF Agreeing
  <2>3. Complete(p)
    BY <1>3 DEF Complete, Agreeing
  <2>4. \/ /\ t.op \in {"uninstall", "uninstalled"} /\ folder' = folder \ {x}
           /\ Put(task, task', p, k, Going(t, "notify"))
        \/ /\ t.op \in {"install", "toggle"} /\ x \in loaded[p]
           /\ UNCHANGED folder /\ Put(task, task', p, k, ToAgents(t))
        \/ /\ t.op \notin {"uninstall", "uninstalled"}
           /\ ~ /\ t.op \in {"install", "toggle"}
                /\ Complete(p) \/ t.off
                /\ x \in loaded[p]
                /\ t.op = "toggle" => Active(p, x)
           /\ UNCHANGED folder /\ Put(task, task', p, k, NoTask)
    BY RefreshIs DEF Alone
  <2> QED BY <1>3, <2>1, <2>2, <2>3, <2>4
<1>7. CASE t.op = "uninstall" /\ t.off /\ folder' = folder \ {x} /\ Put(task, task', p, k, Going(t, "notify"))
  <2>1. /\ task'[p][k].pc = "notify" /\ task'[p][k].op = "uninstall"
        /\ task'[p][k].off
    BY <1>1, <1>7, GoingParts DEF Put
  <2>2. SwitchingOff(p, k)'
    BY <1>4, <2>1 DEF SwitchingOff
  <2>3. listed' \subseteq folder' /\ \A a \in Agents : enabled'[a] \subseteq listed'
    BY <1>1, <1>2, <1>3, <1>7
  <2> QED BY <1>1, <1>3, <1>5, <2>2, <2>3, OnlyThis DEF Working
<1>8. CASE /\ t.op \in {"install", "toggle"} /\ ~t.off /\ UNCHANGED folder
           /\ Put(task, task', p, k, ToAgents(t))
  <2>1. /\ task'[p][k].pc = "list" /\ task'[p][k].op = t.op /\ task'[p][k].plugin = x
        /\ ~task'[p][k].off
    BY <1>1, <1>8 DEF Put, ToAgents, Going, Jobs, Task
  <2>2. x \in listed /\ x \in folder
    BY <1>3, <1>8
  <2>3. SwitchingOn(p, k)'
    BY <1>1, <1>4, <1>8, <2>1, <2>2 DEF SwitchingOn
  <2> QED BY <1>1, <1>2, <1>3, <1>5, <1>8, <2>3, OnlyThis DEF Working
<1>9. CASE UNCHANGED folder /\ Put(task, task', p, k, NoTask)
  <2>1. Resting(p, k)'
    BY <1>1, <1>3, <1>4, <1>9 DEF Put, Resting
  <2> QED BY <1>1, <1>2, <1>5, <1>9, <2>1, OnlyThis
<1> QED BY <1>6, <1>7, <1>8, <1>9

(* Where a task of a serving pod is.  The pod has what is stored all along. *)
LEMMA PodAt ==
  ASSUME OnePod, Alone, NEW p \in Pods, NEW k \in Slots,
         task[p][k].pc \in {"list", "agents", "discover", "rewrite", "resave", "notify"}
  PROVE  LET t == task[p][k]
             x == t.plugin
         IN /\ stage[p] = "serving" /\ Settled(p)
            /\ \/ /\ t.op \in {"install", "toggle"} /\ ~t.off /\ x \in folder /\ x \in listed
                  /\ t.pc # "notify"
                  /\ t.pc \in {"rewrite", "resave"} => t.mine \subseteq listed /\ t.fits
               \/ /\ t.op \in {"uninstall", "toggle"} /\ t.off /\ x \in listed
                  /\ t.pc # "notify"
                  /\ t.pc = "agents" => \A a \in Agents : x \in enabled[a] => a \in t.todo
                  /\ t.pc \in {"discover", "rewrite", "resave"} =>
                       \A a \in Agents : x \in enabled[a] => a \in t.todo \cup {t.agent}
                  /\ t.pc \in {"rewrite", "resave"} => t.mine \subseteq listed /\ t.fits
                  /\ t.pc = "resave" => x \notin t.mine
               \/ t.op \in {"install", "uninstall"} /\ t.pc = "notify"
               \/ /\ t.op \in {"agent", "visit"} /\ t.pc \in {"discover", "rewrite", "resave"}
                  /\ t.pc \in {"rewrite", "resave"} => t.mine \subseteq listed /\ t.fits
                  /\ t.pc = "resave" => t.op = "agent"
<1>1. Resting(p, k) \/ Working(p, k)
  BY PodNow
<1> QED BY <1>1, NoTaskParts
        DEF Resting, Working, Booting, SwitchingOn, SwitchingOff, AtAgent

(* A step that changes the task alone and leaves one that is where it may be. *)
LEMMA TaskPod ==
  ASSUME OnePod, Alone, NEW p \in Pods, NEW k \in Slots, OnlyTask,
         stage[p] = "serving", Settled(p),
         \/ Resting(p, k)' \/ SwitchingOn(p, k)' \/ SwitchingOff(p, k)' \/ AtAgent(p, k)'
  PROVE  PodInv'
<1>1. UNCHANGED <<stage, folder, listed, enabled, active>>
  BY DEF OnlyTask, shared, local
<1>2. Distinct(active[p])'
  BY <1>1, PodNow DEF Distinct
<1>3. Resting(p, k)' \/ Working(p, k)'
  BY <1>1 DEF Working
<1> QED BY <1>1, <1>2, <1>3, PodNow, OnlyThis

LEMMA SettledStays ==
  ASSUME NEW p \in Pods, Settled(p), UNCHANGED <<listed, active, loaded, hooks>>
  PROVE  Settled(p)'
BY DEF Settled, Agreeing

LEMMA ListAgentsPod ==
  ASSUME OnePod, Alone, NEW p \in Pods, NEW k \in Slots, ListAgents(p, k)
  PROVE  PodInv'
<1> DEFINE t == task[p][k]
           x == t.plugin
<1>1. t.pc = "list" /\ OnlyTask
  BY ListAgentsIs DEF Alone
<1>2. PICK u \in Jobs :
        /\ u = [Going(t, "agents") EXCEPT !.todo = {a \in Agents : x \in enabled[a]}]
        /\ Put(task, task', p, k, u)
  BY ListAgentsIs DEF Alone
<1>3. t \in Jobs
  BY TaskFields DEF Alone, Typed
<1>4. /\ u.pc = "agents" /\ u.op = t.op /\ u.plugin = x /\ u.off = t.off
      /\ u.todo = {a \in Agents : x \in enabled[a]}
  BY <1>2, <1>3 DEF Going, Jobs, Task
<1>5. task'[p][k] = u /\ UNCHANGED <<stage, folder, listed, enabled, active, loaded, hooks>>
  BY <1>1, <1>2 DEF Put, OnlyTask, shared, local
<1>6. /\ stage[p] = "serving" /\ Settled(p)
      /\ \/ t.op \in {"install", "toggle"} /\ ~t.off /\ x \in folder /\ x \in listed
         \/ t.op \in {"uninstall", "toggle"} /\ t.off /\ x \in listed
  BY <1>1, PodAt
<1>7. Settled(p)'
  BY <1>5, <1>6, SettledStays
<1>8. SwitchingOn(p, k)' \/ SwitchingOff(p, k)'
  BY <1>4, <1>5, <1>6, <1>7 DEF SwitchingOn, SwitchingOff
<1> QED BY <1>1, <1>6, <1>8, TaskPod

LEMMA NextAgentPod ==
  ASSUME OnePod, Alone, NEW p \in Pods, NEW k \in Slots, NEW a \in Agents, NextAgent(p, k, a)
  PROVE  PodInv'
<1> DEFINE t == task[p][k]
           x == t.plugin
           u == NextOf(t, a)
<1>1. /\ t.pc = "agents" /\ a \in t.todo /\ OnlyTask /\ u \in Jobs
      /\ Put(task, task', p, k, u)
  BY NextAgentIs DEF Alone
<1>2. t \in Jobs
  BY TaskFields DEF Alone, Typed
<1>3. /\ u.op = t.op /\ u.plugin = x /\ u.off = t.off /\ u.todo = t.todo \ {a} /\ u.agent = a
      /\ u.pc = "discover" \/ (u.pc = "agents" /\ x \notin enabled[a])
  BY <1>2 DEF NextOf, Jobs, Task
<1> HIDE DEF u
<1>4. task'[p][k] = u /\ UNCHANGED <<stage, folder, listed, enabled, active, loaded, hooks>>
  BY <1>1 DEF Put, OnlyTask, shared, local
<1>5. /\ stage[p] = "serving" /\ Settled(p)
      /\ \/ t.op \in {"install", "toggle"} /\ ~t.off /\ x \in folder /\ x \in listed
         \/ /\ t.op \in {"uninstall", "toggle"} /\ t.off /\ x \in listed
            /\ \A b \in Agents : x \in enabled[b] => b \in t.todo
  BY <1>1, PodAt
<1>6. Settled(p)'
  BY <1>4, <1>5, SettledStays
<1>7. CASE t.op \in {"install", "toggle"} /\ ~t.off /\ x \in folder /\ x \in listed
  <2>1. SwitchingOn(p, k)'
    BY <1>3, <1>4, <1>6, <1>7 DEF SwitchingOn
  <2> QED BY <1>1, <1>5, <2>1, TaskPod
<1>8. CASE /\ t.op \in {"uninstall", "toggle"} /\ t.off /\ x \in listed
           /\ \A b \in Agents : x \in enabled[b] => b \in t.todo
  <2>1. SwitchingOff(p, k)'
    BY <1>3, <1>4, <1>6, <1>8 DEF SwitchingOff
  <2> QED BY <1>1, <1>5, <2>1, TaskPod
<1> QED BY <1>5, <1>7, <1>8

LEMMA DiscoverPod ==
  ASSUME OnePod, Alone, NEW p \in Pods, NEW k \in Slots, Discover(p, k)
  PROVE  PodInv'
<1> DEFINE t == task[p][k]
           x == t.plugin
           u == Discovered(t, enabled[t.agent], loaded[p])
<1>1. /\ t.pc = "discover" /\ t.agent \in Agents /\ OnlyTask /\ u \in Jobs
      /\ Put(task, task', p, k, u)
  BY DiscoverIs DEF Alone
<1>2. t \in Jobs
  BY TaskFields DEF Alone, Typed
<1>3. /\ u.op = t.op /\ u.plugin = x /\ u.off = t.off /\ u.todo = t.todo /\ u.agent = t.agent
      /\ u.pc = "rewrite" /\ u.mine = enabled[t.agent]
      /\ u.fits = (enabled[t.agent] \subseteq loaded[p])
  BY <1>2 DEF Discovered, Jobs, Task
<1> HIDE DEF u
<1>4. task'[p][k] = u /\ UNCHANGED <<stage, folder, listed, enabled, active, loaded, hooks>>
  BY <1>1 DEF Put, OnlyTask, shared, local
<1>5. /\ stage[p] = "serving" /\ Settled(p)
      /\ \/ t.op \in {"install", "toggle"} /\ ~t.off /\ x \in folder /\ x \in listed
         \/ /\ t.op \in {"uninstall", "toggle"} /\ t.off /\ x \in listed
            /\ \A b \in Agents : x \in enabled[b] => b \in t.todo \cup {t.agent}
         \/ t.op \in {"agent", "visit"}
  BY <1>1, PodAt
<1>6. Settled(p)'
  BY <1>4, <1>5, SettledStays
<1>7. u.mine \subseteq listed /\ u.fits
  <2>1. enabled[t.agent] \subseteq listed
    BY <1>1, PodNow
  <2> QED BY <1>3, <1>5, <2>1 DEF Settled, Agreeing
<1>8. CASE t.op \in {"install", "toggle"} /\ ~t.off /\ x \in folder /\ x \in listed
  <2>1. SwitchingOn(p, k)'
    BY <1>3, <1>4, <1>6, <1>7, <1>8 DEF SwitchingOn
  <2> QED BY <1>1, <1>5, <2>1, TaskPod
<1>9. CASE /\ t.op \in {"uninstall", "toggle"} /\ t.off /\ x \in listed
           /\ \A b \in Agents : x \in enabled[b] => b \in t.todo \cup {t.agent}
  <2>1. SwitchingOff(p, k)'
    BY <1>3, <1>4, <1>6, <1>7, <1>9 DEF SwitchingOff
  <2> QED BY <1>1, <1>5, <2>1, TaskPod
<1>10. CASE t.op \in {"agent", "visit"}
  <2>1. AtAgent(p, k)'
    BY <1>3, <1>4, <1>6, <1>7, <1>10 DEF AtAgent
  <2> QED BY <1>1, <1>5, <2>1, TaskPod
<1> QED BY <1>5, <1>8, <1>9, <1>10

(* A step that stores an agent's list, which holds plugins of the system only. *)
LEMMA SavePod ==
  ASSUME OnePod, Alone, NEW p \in Pods, NEW k \in Slots, NEW a \in Agents, NEW S \in SUBSET listed,
         enabled' = [enabled EXCEPT ![a] = S], UNCHANGED <<folder, listed, local>>,
         stage[p] = "serving",
         \/ Resting(p, k)' \/ SwitchingOn(p, k)' \/ SwitchingOff(p, k)' \/ AtAgent(p, k)'
  PROVE  PodInv'
<1>1. UNCHANGED <<stage, folder, listed, active>>
  BY DEF local
<1>2. Distinct(active[p])'
  BY <1>1, PodNow DEF Distinct
<1>3. Resting(p, k)' \/ Working(p, k)'
  BY <1>1 DEF Working
<1>4. \A b \in Agents : enabled'[b] \subseteq listed
  BY PodNow DEF Alone, Typed
<1> QED BY <1>1, <1>2, <1>3, <1>4, PodNow, OnlyThis

LEMMA RewritePod ==
  ASSUME OnePod, Alone, NEW p \in Pods, NEW k \in Slots, Rewrite(p, k)
  PROVE  PodInv'
<1> DEFINE t == task[p][k]
           x == t.plugin
           u == Rewritten(t, loaded[p])
<1>1. /\ t.pc = "rewrite" /\ t.agent \in Agents
      /\ enabled' = [enabled EXCEPT ![t.agent] = t.mine] /\ t.mine \in SUBSET Plugins
      /\ UNCHANGED <<hareVars, folder, listed, local, requests, crashes>>
      /\ \/ /\ t.op # "visit" /\ x \in folder /\ u \in Jobs /\ Put(task, task', p, k, u)
         \/ /\ ~(t.fits /\ t.op # "visit" /\ x \in folder)
            /\ t.op \in {"uninstall", "uninstalled"}
            /\ Put(task, task', p, k, Going(t, "notify"))
         \/ /\ ~(t.fits /\ t.op # "visit" /\ x \in folder)
            /\ t.op \notin {"uninstall", "uninstalled"}
            /\ Put(task, task', p, k, NoTask)
  BY RewriteIs DEF Alone
<1>2. t \in Jobs
  BY TaskFields DEF Alone, Typed
<1>3. /\ stage[p] = "serving" /\ Settled(p) /\ t.mine \subseteq listed /\ t.fits
      /\ \/ t.op \in {"install", "toggle"} /\ ~t.off /\ x \in folder /\ x \in listed
         \/ /\ t.op \in {"uninstall", "toggle"} /\ t.off /\ x \in listed
            /\ \A b \in Agents : x \in enabled[b] => b \in t.todo \cup {t.agent}
         \/ t.op \in {"agent", "visit"}
  BY <1>1, PodAt
<1>4. UNCHANGED <<stage, listed, active, loaded, hooks>>
  BY <1>1 DEF local
<1>5. Settled(p)'
  BY <1>3, <1>4, SettledStays
<1>6. enabled'[t.agent] = t.mine /\ \A b \in Agents : b # t.agent => enabled'[b] = enabled[b]
  BY <1>1 DEF Alone, Typed
<1>7. CASE /\ t.op # "visit" /\ x \in folder /\ u \in Jobs /\ Put(task, task', p, k, u)
  <2>1. /\ u.op = t.op /\ u.plugin = x /\ u.off = t.off /\ u.todo = t.todo /\ u.agent = t.agent
        /\ u.fits = t.fits
        /\ u.pc = IF Switches(t) \/ x \in t.mine THEN "resave" ELSE "agents"
        /\ u.mine = IF Switches(t) THEN t.mine \cup ({x} \cap loaded[p]) ELSE t.mine \ {x}
    BY <1>2 DEF Rewritten, Jobs, Task
  <2> HIDE DEF u
  <2>2. task'[p][k] = u
    BY <1>7 DEF Put
  <2>3. u.mine \subseteq listed
    BY <1>3, <2>1 DEF Settled, Agreeing
  <2>4. CASE t.op \in {"install", "toggle"} /\ ~t.off /\ x \in folder /\ x \in listed
    <3>1. u.pc = "resave"
      BY <2>1, <2>4 DEF Switches
    <3>2. SwitchingOn(p, k)'
      BY <1>1, <1>3, <1>4, <1>5, <2>1, <2>2, <2>3, <2>4, <3>1 DEF SwitchingOn
    <3> QED BY <1>1, <1>3, <3>2, SavePod
  <2>5. CASE /\ t.op \in {"uninstall", "toggle"} /\ t.off /\ x \in listed
             /\ \A b \in Agents : x \in enabled[b] => b \in t.todo \cup {t.agent}
    <3>1. u.mine = t.mine \ {x} /\ u.pc = IF x \in t.mine THEN "resave" ELSE "agents"
      BY <2>1, <2>5 DEF Switches
    <3>2. CASE x \in t.mine
      <4>1. \A b \in Agents : x \in enabled'[b] => b \in t.todo \cup {t.agent}
        BY <1>6, <2>5
      <4>2. SwitchingOff(p, k)'
        BY <1>3, <1>4, <1>5, <2>1, <2>2, <2>3, <2>5, <3>1, <3>2, <4>1 DEF SwitchingOff
      <4> QED BY <1>1, <1>3, <4>2, SavePod
    <3>3. CASE x \notin t.mine
      <4>1. \A b \in Agents : x \in enabled'[b] => b \in t.todo
        BY <1>6, <2>5, <3>3
      <4>2. SwitchingOff(p, k)'
        BY <1>3, <1>4, <1>5, <2>1, <2>2, <2>3, <2>5, <3>1, <3>3, <4>1 DEF SwitchingOff
      <4> QED BY <1>1, <1>3, <4>2, SavePod
    <3> QED BY <3>2, <3>3
  <2>6. CASE t.op = "agent"
    <3>1. u.pc = "resave"
      BY <2>1, <2>6 DEF Switches
    <3>2. AtAgent(p, k)'
      BY <1>3, <1>4, <1>5, <2>1, <2>2, <2>3, <2>6, <3>1 DEF AtAgent
    <3> QED BY <1>1, <1>3, <3>2, SavePod
  <2> QED BY <1>3, <1>7, <2>4, <2>5, <2>6
<1>8. CASE /\ ~(t.fits /\ t.op # "visit" /\ x \in folder)
           /\ t.op \in {"uninstall", "uninstalled"}
  <2>1. x \in folder
    BY <1>3, <1>8, PodNow
  <2> QED BY <1>3, <1>8, <2>1
<1>9. CASE Put(task, task', p, k, NoTask)
  <2>1. Resting(p, k)'
    BY <1>3, <1>4, <1>5, <1>9 DEF Resting, Put
  <2> QED BY <1>1, <1>3, <2>1, SavePod
<1> QED BY <1>1, <1>7, <1>8, <1>9

LEMMA ResavePod ==
  ASSUME OnePod, Alone, NEW p \in Pods, NEW k \in Slots, Resave(p, k)
  PROVE  PodInv'
<1> DEFINE t == task[p][k]
           x == t.plugin
           u == Going(t, "agents")
<1>1. /\ t.pc = "resave" /\ t.agent \in Agents
      /\ enabled' = [enabled EXCEPT ![t.agent] = t.mine]
      /\ UNCHANGED <<hareVars, folder, listed, local, requests, crashes>>
      /\ \/ t.op = "agent" /\ Put(task, task', p, k, NoTask)
         \/ t.op # "agent" /\ Put(task, task', p, k, u)
  BY ResaveIs DEF Alone
<1>2. /\ u.pc = "agents" /\ u.op = t.op /\ u.plugin = x /\ u.todo = t.todo /\ u.off = t.off
  BY TaskFields, GoingParts DEF Alone, Typed
<1> HIDE DEF u
<1>3. /\ stage[p] = "serving" /\ Settled(p) /\ t.mine \subseteq listed
      /\ \/ t.op \in {"install", "toggle"} /\ ~t.off /\ x \in folder /\ x \in listed
         \/ /\ t.op \in {"uninstall", "toggle"} /\ t.off /\ x \in listed /\ x \notin t.mine
            /\ \A b \in Agents : x \in enabled[b] => b \in t.todo \cup {t.agent}
         \/ t.op = "agent"
  BY <1>1, PodAt
<1>4. UNCHANGED <<stage, listed, active, loaded, hooks>>
  BY <1>1 DEF local
<1>5. Settled(p)'
  BY <1>3, <1>4, SettledStays
<1>6. enabled'[t.agent] = t.mine /\ \A b \in Agents : b # t.agent => enabled'[b] = enabled[b]
  BY <1>1 DEF Alone, Typed
<1>7. CASE t.op = "agent"
  <2>1. Resting(p, k)'
    BY <1>1, <1>3, <1>4, <1>5, <1>7 DEF Resting, Put
  <2> QED BY <1>1, <1>3, <2>1, SavePod
<1>8. CASE t.op \in {"install", "toggle"} /\ ~t.off /\ x \in folder /\ x \in listed
  <2>1. task'[p][k] = u
    BY <1>1, <1>8 DEF Put
  <2>2. SwitchingOn(p, k)'
    BY <1>1, <1>2, <1>4, <1>5, <1>8, <2>1 DEF SwitchingOn
  <2> QED BY <1>1, <1>3, <2>2, SavePod
<1>9. CASE /\ t.op \in {"uninstall", "toggle"} /\ t.off /\ x \in listed /\ x \notin t.mine
           /\ \A b \in Agents : x \in enabled[b] => b \in t.todo \cup {t.agent}
  <2>1. task'[p][k] = u
    BY <1>1, <1>9 DEF Put
  <2>2. \A b \in Agents : x \in enabled'[b] => b \in t.todo
    BY <1>6, <1>9
  <2>3. SwitchingOff(p, k)'
    BY <1>2, <1>4, <1>5, <1>9, <2>1, <2>2 DEF SwitchingOff
  <2> QED BY <1>1, <1>3, <2>3, SavePod
<1> QED BY <1>3, <1>7, <1>8, <1>9

(* A plugin that is off for good is in the list once only, and no task finds it gone. *)
LEMMA DeactivateAgainPod ==
  ASSUME OnePod, Alone, NEW p \in Pods, NEW k \in Slots, DeactivateAgain(p, k)
  PROVE  FALSE
<1> DEFINE t == task[p][k]
           x == t.plugin
<1>1. t.pc = "deactivate" /\ ~Active(p, x)
  BY DeactivateAgainIs DEF Alone
<1>2. Resting(p, k) \/ Working(p, k)
  BY PodNow
<1>3. x \in listed /\ Settled(p)
  BY <1>1, <1>2, NoTaskParts
     DEF Resting, Working, Booting, SwitchingOn, SwitchingOff, AtAgent
<1> QED BY <1>1, <1>3 DEF Active, Settled, Agreeing

LEMMA AgentsDonePod ==
  ASSUME OnePod, Alone, NEW p \in Pods, NEW k \in Slots, AgentsDone(p, k)
  PROVE  PodInv'
<1> DEFINE t == task[p][k]
           x == t.plugin
<1>1. /\ t.pc = "agents" /\ t.todo = {} /\ t \in Jobs
      /\ \/ /\ t.op = "install" /\ UNCHANGED <<folder, loaded>>
            /\ Put(task, task', p, k, Going(t, "notify"))
         \/ /\ t.op = "toggle" /\ ~t.off /\ UNCHANGED <<folder, loaded>>
            /\ Put(task, task', p, k, NoTask)
         \/ t.op = "toggle" /\ t.off /\ Toggling(p, k, x, t) /\ UNCHANGED folder
         \/ /\ t.op \in {"uninstall", "uninstalled"}
            /\ Uninstalling(p, k, x, t) /\ UNCHANGED loaded
      /\ UNCHANGED <<hareVars, listed, enabled, stage, active, hooks, requests, crashes>>
  BY AgentsDoneIs DEF Alone
<1>2. /\ stage[p] = "serving" /\ Settled(p)
      /\ \/ t.op \in {"install", "toggle"} /\ ~t.off
         \/ /\ t.op \in {"uninstall", "toggle"} /\ t.off /\ x \in listed
            /\ \A a \in Agents : x \notin enabled[a]
  BY <1>1, PodAt
<1>3. CASE t.op = "install" /\ UNCHANGED <<folder, loaded>> /\ Put(task, task', p, k, Going(t, "notify"))
  <2>1. /\ task'[p][k].pc = "notify" /\ task'[p][k].op = "install" /\ ~task'[p][k].off
        /\ task'[p][k].plugin = x
    BY <1>1, <1>2, <1>3, GoingParts DEF Put
  <2>2. OnlyTask
    BY <1>1, <1>3 DEF OnlyTask, shared, local
  <2>3. Settled(p)'
    BY <1>1, <1>2, <1>3, SettledStays
  <2>4. x \in folder
    <3>1. Resting(p, k) \/ Working(p, k)
      BY PodNow
    <3> QED BY <1>1, <1>3, <3>1, NoTaskParts
            DEF Resting, Working, Booting, SwitchingOn, SwitchingOff, AtAgent
  <2>5. SwitchingOn(p, k)'
    BY <1>3, <2>1, <2>3, <2>4 DEF SwitchingOn
  <2> QED BY <1>2, <2>2, <2>5, TaskPod
<1>4. CASE t.op = "toggle" /\ ~t.off /\ UNCHANGED <<folder, loaded>> /\ Put(task, task', p, k, NoTask)
  <2>1. OnlyTask
    BY <1>1, <1>4 DEF OnlyTask, shared, local
  <2>2. Settled(p)'
    BY <1>1, <1>2, <1>4, SettledStays
  <2>3. Resting(p, k)'
    BY <1>1, <1>2, <1>4, <2>2 DEF Resting, Put
  <2> QED BY <1>2, <2>1, <2>3, TaskPod
<1>5. ASSUME t.op \in {"uninstall", "toggle"}, t.off, x \in listed,
             \A a \in Agents : x \notin enabled[a],
             UNCHANGED <<folder, loaded>>, Put(task, task', p, k, Going(t, "deactivate"))
      PROVE  PodInv'
  <2>1. /\ task'[p][k].pc = "deactivate" /\ task'[p][k].op = t.op /\ task'[p][k].off
        /\ task'[p][k].plugin = x
    BY <1>1, <1>5, GoingParts DEF Put
  <2>2. OnlyTask
    BY <1>1, <1>5 DEF OnlyTask, shared, local
  <2>3. Settled(p)'
    BY <1>1, <1>2, <1>5, SettledStays
  <2>4. SwitchingOff(p, k)'
    BY <1>1, <1>5, <2>1, <2>3 DEF SwitchingOff
  <2> QED BY <1>2, <2>2, <2>4, TaskPod
<1>6. Active(p, x) <=> x \in listed
  BY <1>2 DEF Active, Settled, Agreeing
<1>7. x \in listed => x \in folder /\ x \in loaded[p]
  BY <1>2, PodNow DEF Settled, Agreeing
<1>8. CASE t.op = "toggle" /\ t.off /\ Toggling(p, k, x, t) /\ UNCHANGED folder
  <2>1. UNCHANGED loaded /\ Put(task, task', p, k, Going(t, "deactivate"))
    BY <1>1, <1>2, <1>6, <1>7, <1>8, TogglingIs DEF Alone, Typed
  <2> QED BY <1>2, <1>5, <1>8, <2>1
<1>9. CASE t.op \in {"uninstall", "uninstalled"} /\ Uninstalling(p, k, x, t) /\ UNCHANGED loaded
  <2>1. UNCHANGED folder /\ Put(task, task', p, k, Going(t, "deactivate"))
    BY <1>1, <1>2, <1>6, <1>7, <1>9, UninstallingIs DEF Alone, Typed
  <2> QED BY <1>2, <1>5, <1>9, <2>1
<1> QED BY <1>1, <1>3, <1>4, <1>8, <1>9

LEMMA NotifyPod ==
  ASSUME OnePod, Alone, NEW p \in Pods, NEW k \in Slots, Notify(p, k)
  PROVE  PodInv'
<1>1. /\ task[p][k].pc = "notify" /\ Put(task, task', p, k, NoTask)
      /\ UNCHANGED <<shared, local, requests, crashes>>
  BY NotifyIs DEF Alone
<1>2. UNCHANGED <<folder, listed, enabled, stage, active, loaded, hooks>>
  BY <1>1 DEF shared, local
<1>3. stage[p] = "serving" /\ Settled(p)
  BY <1>1, PodAt
<1>4. Resting(p, k)'
  <2>1. Settled(p)'
    BY <1>2, <1>3, SettledStays
  <2> QED BY <1>1, <1>2, <1>3, <2>1 DEF Resting, Put
<1>5. Distinct(active[p])'
  BY <1>2, PodNow DEF Distinct
<1> QED BY <1>2, <1>4, <1>5, PodNow, OnlyThis

(* What users ask of a pod that rests. *)
LEMMA RestNow ==
  ASSUME OnePod, Alone, NEW p \in Pods, NEW k \in Slots, task[p][k] = NoTask, stage[p] # "down"
  PROVE  Settled(p)
<1>1. Resting(p, k) \/ Working(p, k)
  BY PodNow
<1> QED BY <1>1, NoTaskParts
        DEF Resting, Working, Booting, SwitchingOn, SwitchingOff, AtAgent

LEMMA BeginInstallPod ==
  ASSUME OnePod, Alone, NEW p \in Pods, NEW k \in Slots, NEW x \in Plugins, BeginInstall(p, k, x)
  PROVE  PodInv'
<1> DEFINE u == Begun("install", "activate", x, FALSE)
<1>1. /\ stage[p] = "serving" /\ (x \in folder => Reinstalls)
      /\ folder' = folder \cup {x} /\ loaded' = Loading(p, x)
      /\ task[p][k] = NoTask /\ Put(task, task', p, k, u)
      /\ UNCHANGED <<hareVars, listed, enabled, stage, active, hooks, crashes>>
  BY BeginInstallIs DEF Alone
<1>2. u.op = "install" /\ u.pc = "activate" /\ u.plugin = x /\ u.off = FALSE
  BY DEF Begun, NoTask
<1> HIDE DEF u
<1>3. Settled(p) /\ x \notin folder
  BY <1>1, RestNow DEF OnePod
<1>4. /\ task'[p][k] = u /\ loaded'[p] = loaded[p] \cup {x} /\ x \in folder'
  BY <1>1 DEF Put, Loading, Alone, Typed
<1>5. SwitchingOn(p, k)'
  <2>1. x \notin listed
    BY <1>3, PodNow
  <2> QED BY <1>1, <1>2, <1>3, <1>4, <2>1 DEF SwitchingOn, Settled, Agreeing
<1>6. Distinct(active[p])'
  BY <1>1, PodNow DEF Distinct
<1>7. listed' \subseteq folder' /\ \A a \in Agents : enabled'[a] \subseteq listed'
  BY <1>1, PodNow
<1> QED BY <1>1, <1>5, <1>6, <1>7, OnlyThis DEF Working

LEMMA BeginUninstallPod ==
  ASSUME OnePod, Alone, NEW p \in Pods, NEW k \in Slots, NEW x \in Plugins, BeginUninstall(p, k, x)
  PROVE  PodInv'
<1> DEFINE u == Begun("uninstall", "list", x, TRUE)
           v == Begun("uninstall", "notify", x, TRUE)
<1>1. /\ stage[p] = "serving" /\ x \in folder /\ task[p][k] = NoTask
      /\ Uninstall(p, k, x, "uninstall")
      /\ UNCHANGED <<hareVars, listed, enabled, local, crashes>>
  BY BeginUninstallIs DEF Alone
<1>2. /\ u.op = "uninstall" /\ u.pc = "list" /\ u.plugin = x /\ u.off = TRUE
      /\ v.op = "uninstall" /\ v.pc = "notify" /\ v.plugin = x /\ v.off = TRUE
  BY DEF Begun, NoTask
<1> HIDE DEF u, v
<1>3. Settled(p)
  BY <1>1, RestNow
<1>4. UNCHANGED <<stage, listed, enabled, active, loaded, hooks>>
  BY <1>1 DEF local
<1>5. Settled(p)'
  BY <1>3, <1>4, SettledStays
<1>6. /\ UNCHANGED folder
      /\ \/ x \in listed /\ Put(task, task', p, k, u)
         \/ Put(task, task', p, k, v)
  <2>1. /\ Active(p, x) <=> x \in listed
        /\ x \in loaded[p] <=> x \in listed
    BY <1>3 DEF Active, Settled, Agreeing
  <2>2. \/ /\ Active(p, x) /\ x \in loaded[p] /\ UNCHANGED folder
           /\ Put(task, task', p, k, u)
        \/ /\ Active(p, x) /\ x \notin loaded[p] /\ UNCHANGED folder
           /\ Put(task, task', p, k, v)
        \/ /\ ~Active(p, x) /\ x \in folder /\ x \in loaded[p] /\ folder' = folder \ {x}
           /\ Put(task, task', p, k, v)
        \/ /\ ~Active(p, x) /\ ~(x \in folder /\ x \in loaded[p]) /\ UNCHANGED folder
           /\ Put(task, task', p, k, v)
    BY <1>1, UninstallIs DEF Alone, Typed, u, v
  <2> QED BY <2>1, <2>2
<1>7. SwitchingOff(p, k)'
  BY <1>2, <1>4, <1>5, <1>6 DEF SwitchingOff, Put
<1>8. Distinct(active[p])'
  BY <1>4, PodNow DEF Distinct
<1> QED BY <1>1, <1>4, <1>6, <1>7, <1>8, PodNow, OnlyThis DEF Working

LEMMA BeginTogglePod ==
  ASSUME OnePod, Alone, NEW p \in Pods, NEW k \in Slots, NEW x \in Plugins, BeginToggle(p, k, x)
  PROVE  PodInv'
<1> DEFINE u == Begun("toggle", "list", x, TRUE)
           v == Begun("toggle", "activate", x, FALSE)
<1>1. /\ stage[p] = "serving" /\ x \in folder /\ task[p][k] = NoTask
      /\ \/ /\ Active(p, x) /\ x \in loaded[p] /\ UNCHANGED loaded /\ Put(task, task', p, k, u)
         \/ /\ ~Active(p, x) /\ loaded' = Loading(p, x) /\ Put(task, task', p, k, v)
      /\ UNCHANGED <<hareVars, shared, stage, active, hooks, crashes>>
  BY BeginToggleIs DEF Alone
<1>2. /\ u.op = "toggle" /\ u.pc = "list" /\ u.plugin = x /\ u.off = TRUE
      /\ v.op = "toggle" /\ v.pc = "activate" /\ v.plugin = x /\ v.off = FALSE
  BY DEF Begun, NoTask
<1> HIDE DEF u, v
<1>3. Settled(p)
  BY <1>1, RestNow
<1>4. UNCHANGED <<stage, folder, listed, enabled, active, hooks>>
  BY <1>1 DEF shared
<1>5. Active(p, x) <=> x \in listed
  BY <1>3 DEF Active, Settled, Agreeing
<1>6. SwitchingOn(p, k)' \/ SwitchingOff(p, k)'
  <2>1. CASE Active(p, x) /\ UNCHANGED loaded /\ Put(task, task', p, k, u)
    <3>1. Settled(p)'
      BY <1>3, <1>4, <2>1, SettledStays
    <3> QED BY <1>2, <1>4, <1>5, <2>1, <3>1 DEF SwitchingOff, Put
  <2>2. CASE ~Active(p, x) /\ loaded' = Loading(p, x) /\ Put(task, task', p, k, v)
    <3>1. loaded'[p] = loaded[p] \cup {x} /\ task'[p][k] = v
      BY <2>2 DEF Put, Loading, Alone, Typed
    <3> QED BY <1>1, <1>2, <1>3, <1>4, <1>5, <2>2, <3>1 DEF SwitchingOn, Settled, Agreeing
  <2> QED BY <1>1, <2>1, <2>2
<1>7. Distinct(active[p])'
  BY <1>4, PodNow DEF Distinct
<1> QED BY <1>1, <1>4, <1>6, <1>7, PodNow, OnlyThis DEF Working

LEMMA BeginAtAgentPod ==
  ASSUME OnePod, Alone, NEW p \in Pods, NEW k \in Slots, NEW a \in Agents,
         \/ BeginVisit(p, k, a)
         \/ \E x \in Plugins : BeginAgentToggle(p, k, a, x)
  PROVE  PodInv'
<1>1. /\ stage[p] = "serving" /\ task[p][k] = NoTask
      /\ \/ Put(task, task', p, k, VisitOf(a))
         \/ \E x \in Plugins : Put(task, task', p, k, AgentToggleOf(a, x))
      /\ UNCHANGED <<hareVars, shared, local, crashes>>
  BY BeginVisitIs, BeginAgentToggleIs DEF Alone
<1>2. task'[p][k].op \in {"agent", "visit"} /\ task'[p][k].pc = "discover"
  <2>1. VisitOf(a).op = "visit" /\ VisitOf(a).pc = "discover"
    BY DEF VisitOf, NoTask
  <2>2. \A x \in Plugins : AgentToggleOf(a, x).op = "agent" /\ AgentToggleOf(a, x).pc = "discover"
    BY DEF AgentToggleOf, NoTask
  <2> QED BY <1>1, <2>1, <2>2 DEF Put
<1>3. UNCHANGED <<folder, listed, enabled, stage, active, loaded, hooks>>
  BY <1>1 DEF shared, local
<1>4. AtAgent(p, k)'
  <2>1. Settled(p)'
    BY <1>1, <1>3, RestNow, SettledStays
  <2> QED BY <1>2, <2>1 DEF AtAgent
<1>5. Distinct(active[p])'
  BY <1>3, PodNow DEF Distinct
<1> QED BY <1>1, <1>3, <1>4, <1>5, PodNow, OnlyThis DEF Working

LEMMA BootPod ==
  ASSUME OnePod, Alone, NEW p \in Pods, NEW k \in Slots, Boot(p, k)
  PROVE  PodInv'
<1> DEFINE u == Begun("boot", "load", None, FALSE)
<1>1. /\ stage[p] = "down" /\ stage' = [stage EXCEPT ![p] = "booting"]
      /\ task[p][k] = NoTask /\ Put(task, task', p, k, u)
      /\ UNCHANGED <<hareVars, shared, loaded, hooks, requests, crashes>>
  BY BootTaskIs DEF Alone
<1>2. PICK list \in Seq(Plugins) :
        /\ active' = [active EXCEPT ![p] = list]
        /\ ToSet(list) = listed /\ Distinct(list)
  BY BootTaskIs DEF Alone
<1>3. u.op = "boot" /\ u.pc = "load"
  BY DEF Begun, NoTask
<1> HIDE DEF u
<1>4. task'[p][k] = u /\ stage'[p] = "booting" /\ active'[p] = list
  BY <1>1, <1>2 DEF Put, Alone, Typed
<1>5. UNCHANGED <<folder, listed, enabled, listening>>
  BY <1>1 DEF shared, hareVars
<1>6. ~listening[p]
  <2>1. Resting(p, k) \/ Working(p, k)
    BY PodNow
  <2> QED BY <1>1, <2>1, NoTaskParts
          DEF Resting, Working, Booting, SwitchingOn, SwitchingOff, AtAgent
<1>7. Booting(p, k)'
  BY <1>2, <1>3, <1>4, <1>5, <1>6 DEF Booting
<1>8. Distinct(active[p])'
  BY <1>2, <1>4 DEF Distinct
<1> QED BY <1>5, <1>7, <1>8, PodNow, OnlyThis DEF Working

LEMMA BootNow ==
  ASSUME OnePod, Alone, NEW p \in Pods, NEW k \in Slots,
         task[p][k].pc = "load" \/ (task[p][k].pc = "refresh" /\ task[p][k].op = "boot")
  PROVE  Booting(p, k)
<1>1. Resting(p, k) \/ Working(p, k)
  BY PodNow
<1> QED BY <1>1, NoTaskParts DEF Resting, Working, SwitchingOn, SwitchingOff, AtAgent

LEMMA BootLoadPod ==
  ASSUME OnePod, Alone, NEW p \in Pods, NEW k \in Slots, BootLoad(p, k)
  PROVE  PodInv'
<1> DEFINE t == task[p][k]
           u == GoingWith(t, "store", ToSet(active[p]))
<1>1. /\ t.pc = "load" /\ loaded' = [loaded EXCEPT ![p] = ToSet(active[p]) \cap folder]
      /\ Put(task, task', p, k, u)
      /\ UNCHANGED <<hareVars, shared, stage, active, hooks, requests, crashes>>
  BY BootLoadIs DEF Alone
<1>2. u.pc = "store" /\ u.op = t.op /\ u.put = ToSet(active[p])
  BY TaskFields, GoingWithParts DEF Alone, Typed
<1> HIDE DEF u
<1>3. t.op = "boot" /\ stage[p] = "booting" /\ ~listening[p] /\ ToSet(active[p]) = listed
  BY <1>1, BootNow DEF Booting
<1>4. /\ task'[p][k] = u /\ loaded'[p] = ToSet(active[p]) \cap folder
  BY <1>1 DEF Put, Alone, Typed
<1>5. UNCHANGED <<stage, active, folder, listed, enabled, listening>>
  BY <1>1 DEF shared, hareVars
<1>6. Booting(p, k)'
  BY <1>2, <1>3, <1>4, <1>5, PodNow DEF Booting, Agreeing
<1>7. Distinct(active[p])'
  BY <1>5, PodNow DEF Distinct
<1> QED BY <1>5, <1>6, <1>7, PodNow, OnlyThis DEF Working

LEMMA BootRefreshPod ==
  ASSUME OnePod, Alone, NEW p \in Pods, NEW k \in Slots, BootRefresh(p, k)
  PROVE  PodInv'
<1>1. /\ task[p][k].pc = "refresh" /\ task[p][k].op = "boot" /\ Complete(p)
      /\ hooks' = [hooks EXCEPT ![p] = Cached(p)]
      /\ Put(task, task', p, k, NoTask)
      /\ UNCHANGED <<shared, stage, active, loaded, requests, crashes>>
  BY BootRefreshIs DEF Alone
<1>2. stage[p] = "booting" /\ Agreeing(p)
  BY <1>1, BootNow DEF Booting
<1>3. hooks'[p] = listed
  <2>1. Cached(p) = ToSet(active[p])
    BY <1>1, CachedAll DEF Alone
  <2> QED BY <1>1, <1>2, <2>1 DEF Alone, Typed, Agreeing
<1>4. UNCHANGED <<folder, listed, enabled>>
  BY <1>1 DEF shared
<1>5. Resting(p, k)'
  BY <1>1, <1>2, <1>3, <1>4 DEF Resting, Put, Settled, Agreeing
<1>6. Distinct(active[p])'
  BY <1>1, PodNow DEF Distinct
<1> QED BY <1>4, <1>5, <1>6, PodNow, OnlyThis

LEMMA ServePod ==
  ASSUME OnePod, Alone, NEW p \in Pods, Serve(p)
  PROVE  PodInv'
<1>1. /\ stage[p] = "booting" /\ listening[p] /\ stage' = [stage EXCEPT ![p] = "serving"]
      /\ UNCHANGED <<shared, active, loaded, hooks, task, requests, crashes>>
  BY DEF Serve, MarkReady
<1>2. PICK k \in Slots : Slots = {k}
  BY DEF OnePod
<1>3. task[p][k] = NoTask /\ Settled(p)
  <2>1. Resting(p, k) \/ Working(p, k)
    BY PodNow
  <2> QED BY <1>1, <2>1 DEF Resting, Working, Booting
<1>4. UNCHANGED <<folder, listed, enabled>> /\ stage'[p] = "serving"
  BY <1>1 DEF shared, Alone, Typed
<1>5. Resting(p, k)'
  <2>1. Settled(p)'
    BY <1>1, <1>3, <1>4, SettledStays
  <2> QED BY <1>1, <1>3, <1>4, <2>1 DEF Resting
<1>6. Distinct(active[p])'
  BY <1>1, PodNow DEF Distinct
<1> QED BY <1>4, <1>5, <1>6, PodNow, OnlyThis

LEMMA DownPod ==
  ASSUME OnePod, Alone, NEW p \in Pods, Down(p)
  PROVE  PodInv'
<1>1. /\ stage' = [stage EXCEPT ![p] = "down"]
      /\ active' = [active EXCEPT ![p] = <<>>] /\ Halt(p)
      /\ \A k \in Slots : task'[p][k] = NoTask
      /\ UNCHANGED <<shared, requests>>
  BY DownIs DEF Alone
<1>2. PICK k \in Slots : Slots = {k}
  BY DEF OnePod
<1>3. stage'[p] = "down" /\ active'[p] = <<>> /\ ~listening'[p]
  BY <1>1 DEF Halt, Alone, Typed, HareInv, HareTypeOK
<1>4. Resting(p, k)'
  BY <1>1, <1>3 DEF Resting
<1>5. Distinct(active[p])'
  BY <1>3 DEF Distinct
<1>6. UNCHANGED <<folder, listed, enabled>>
  BY <1>1 DEF shared
<1> QED BY <1>4, <1>5, <1>6, PodNow, OnlyThis

(* The listener and the handlers of the pod's own events leave the plugins alone; *)
(* there are no others.                                                           *)
LEMMA ListenerPod ==
  ASSUME OnePod, Alone, NEW p \in Pods,
         UNCHANGED <<shared, local, task>>, UNCHANGED listening
  PROVE  PodInv'
<1>1. UNCHANGED <<folder, listed, enabled, stage, active, loaded, hooks, task, listening>>
  BY DEF shared, local
<1>2. PICK k \in Slots : Slots = {k}
  BY DEF OnePod
<1>3. Resting(p, k) \/ Working(p, k)
  BY PodNow
<1>4. Settled(p) => Settled(p)'
  BY <1>1, SettledStays
<1>5. Agreeing(p) => Agreeing(p)'
  BY <1>1 DEF Agreeing
<1>6. Resting(p, k)' \/ Working(p, k)'
  <2>1. Resting(p, k) => Resting(p, k)'
    BY <1>1, <1>4 DEF Resting
  <2>2. Booting(p, k) => Booting(p, k)'
    BY <1>1, <1>5 DEF Booting
  <2>3. SwitchingOn(p, k) => SwitchingOn(p, k)'
    BY <1>1, <1>4, <1>5 DEF SwitchingOn
  <2>4. SwitchingOff(p, k) => SwitchingOff(p, k)'
    BY <1>1, <1>4, <1>5 DEF SwitchingOff
  <2>5. AtAgent(p, k) => AtAgent(p, k)'
    BY <1>1, <1>4 DEF AtAgent
  <2> QED BY <1>1, <1>3, <2>1, <2>2, <2>3, <2>4, <2>5 DEF Working
<1>7. Distinct(active[p])'
  BY <1>1, PodNow DEF Distinct
<1> QED BY <1>1, <1>6, <1>7, PodNow, OnlyThis

LEMMA HandlerPod ==
  ASSUME OnePod, Alone, NEW p \in Pods, Handler(p)
  PROVE  PodInv'
<1>1. PICK i \in handlers[p] :
        \/ IgnoreOwn(p, i)
        \/ \E k \in Slots : HandleInstallation(p, k, i) \/ HandleUninstallation(p, k, i)
  BY DEF Handler
<1>2. i \in DOMAIN stream /\ stream \in Seq(Events)
  BY DEF Alone, Typed, HareInv, HareTypeOK
<1>3. stream[i].pod = p
  <2>1. stream[i] \in Events
    BY <1>2
  <2> QED BY <2>1 DEF Events, OnePod
<1>4. IgnoreOwn(p, i)
  BY <1>1, <1>3 DEF HandleInstallation, HandleUninstallation
<1> QED BY <1>4, ListenerPod DEF IgnoreOwn, Handle

LEMMA PodStep == OnePod /\ Alone /\ [Next]_vars => PodInv'
<1> SUFFICES ASSUME OnePod, Alone, [Next]_vars PROVE PodInv'
  OBVIOUS
<1>1. CASE UNCHANGED vars
  <2>1. PICK p \in Pods : TRUE
    BY DEF OnePod
  <2> QED BY <1>1, <2>1, ListenerPod DEF vars, hareVars
<1>2. ASSUME NEW p \in Pods, Listener(p) \/ Handler(p) \/ Serve(p) \/ Crash(p) PROVE PodInv'
  <2>1. CASE Listener(p)
    BY <2>1, ListenerPod DEF Listener, Poll, PollAgain, Receive
  <2>2. CASE Crash(p)
    BY <2>2, DownPod DEF Crash
  <2> QED BY <1>2, <2>1, <2>2, HandlerPod, ServePod
<1>3. ASSUME NEW p \in Pods, NEW k \in Slots, Step(p, k) \/ Request(p, k) \/ Boot(p, k)
      PROVE  PodInv'
  <2>1. CASE Step(p, k)
    <3>1. BootFail(p, k) => PodInv'
      BY DownPod DEF BootFail
    <3> QED BY <2>1, <3>1, ActivatePod, DeactivatePod, DeactivateAgainPod, StorePod, RefreshPod,
               NotifyPod, ListAgentsPod, AgentsDonePod, NextAgentPod, DiscoverPod, RewritePod,
               ResavePod, BootLoadPod, BootRefreshPod DEF Step
  <2>2. CASE Request(p, k)
    BY <2>2, BeginInstallPod, BeginUninstallPod, BeginTogglePod, BeginAtAgentPod DEF Request
  <2> QED BY <1>3, <2>1, <2>2, BootPod
<1> QED BY <1>1, <1>2, <1>3 DEF Next

LEMMA AlonePod ==
  ASSUME OnePod
  PROVE  Spec => []Alone
<1>1. Init => Alone
  BY TypedInit, PodInit DEF Alone
<1>2. Alone /\ [Next]_vars => Alone'
  BY TypedStep, PodStep DEF Alone
<1> QED BY <1>1, <1>2, PTL DEF Spec

(* A pod that does one task after the other always leaves a list that a pod can boot *)
(* from, wherever the pod ends: an uninstallation takes the plugin off the system's  *)
(* list before it removes the folder (MadHatter.uninstall_plugin, discover_plugins). *)
THEOREM PodBoots ==
  ASSUME OnePod
  PROVE  Spec => []Bootable
<1>1. Alone => Bootable
  BY PodMeans
<1> QED BY <1>1, AlonePod, PTL

(* Between two tasks, such a pod has hooked and loaded what is active, and no more,  *)
(* wherever earlier tasks ended (_on_finish_discovering_plugins).                    *)
THEOREM PodMatches ==
  ASSUME OnePod
  PROVE  Spec => []CachesMatch
<1>1. Alone => CachesMatch
  BY PodMeans
<1> QED BY <1>1, AlonePod, PTL

(* Between two tasks, the lists of its agents have loaded plugins only: the agents   *)
(* are switched off before the system (toggle_plugin, uninstall_plugin).             *)
THEOREM PodLoadsAgents ==
  ASSUME OnePod
  PROVE  Spec => []AgentsLoad
<1>1. Alone => AgentsLoad
  BY PodMeans
<1> QED BY <1>1, AlonePod, PTL

=============================================================================
