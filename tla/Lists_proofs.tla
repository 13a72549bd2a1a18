----------------------------- MODULE Lists_proofs -----------------------------
(***************************************************************************)
(* Facts about lists, sums and folds, for any length and any values.       *)
(***************************************************************************)
EXTENDS Lists, Integers, SequencesExt, FiniteSetsExt, SequenceTheorems, FiniteSetTheorems, TLAPS

-----------------------------------------------------------------------------
(* Induction and recursion over numbers, sequences and finite sets, stated *)
(* for sets and functions.                                                 *)

LEMMA LeastOf ==
  ASSUME NEW S \in SUBSET Nat, S # {}
  PROVE  \E n \in S : \A m \in S : n <= m
  <1> DEFINE R == {ij \in Nat \X Nat : ij[1] < ij[2]}
  <1>1. IsWellFoundedOn(R, Nat)
    BY NatLessThanWellFounded DEF OpToRel
  <1>2. PICK n \in S : \A m \in Nat : <<m, n>> \in R => m \notin S
    BY <1>1, WFMin
  <1>3. ASSUME NEW m \in S PROVE n <= m
    <2>1. <<m, n>> \in Nat \X Nat /\ <<m, n>>[1] = m /\ <<m, n>>[2] = n
      OBVIOUS
    <2>2. ~(m < n)
      BY <1>2, <2>1
    <2>3. QED BY <2>2
  <1>4. QED BY <1>3

LEMMA Upward ==
  ASSUME NEW H, 0 \in H, \A n \in Nat : n \in H => n + 1 \in H
  PROVE  Nat \subseteq H
  <1> SUFFICES ASSUME Nat \ H # {} PROVE FALSE
    OBVIOUS
  <1>1. PICK n \in Nat \ H : \A m \in Nat \ H : n <= m
    BY LeastOf
  <1>2. n # 0 /\ n - 1 \in Nat /\ n - 1 + 1 = n
    BY <1>1
  <1>3. n - 1 \in H
    BY <1>1, <1>2
  <1>4. QED BY <1>1, <1>2, <1>3

\* Every sequence is made by appending.
LEMMA SeqUpward ==
  ASSUME NEW T, NEW H, <<>> \in H, \A s \in Seq(T), e \in T : s \in H => Append(s, e) \in H
  PROVE  Seq(T) \subseteq H
  <1> DEFINE L == {n \in Nat : \A s \in Seq(T) : Len(s) = n => s \in H}
  <1>1. 0 \in L
    BY EmptySeq
  <1>2. ASSUME NEW n \in Nat, n \in L PROVE n + 1 \in L
    <2> SUFFICES ASSUME NEW s \in Seq(T), Len(s) = n + 1 PROVE s \in H
      OBVIOUS
    <2> DEFINE t == [i \in 1..n |-> s[i]]
    <2>1. t \in Seq(T) /\ Len(t) = n /\ s[n + 1] \in T
      BY <1>2
    <2>2. s = Append(t, s[n + 1])
      BY <1>2, <2>1
    <2>3. QED BY <1>2, <2>1, <2>2
  <1>3. Nat \subseteq L
    <2> HIDE DEF L
    <2> QED BY <1>1, <1>2, Upward
  <1>4. QED BY <1>3

\* A function over the numbers is given by its start and its step.
StepsOver(V) == [Nat \X V -> V]

GoesOn(f, base, step) == f[0] = base /\ \A n \in Nat : f[n + 1] = step[<<n + 1, f[n]>>]

LEMMA Recursion ==
  ASSUME NEW V, NEW base \in V, NEW step \in StepsOver(V)
  PROVE  \E f \in [Nat -> V] : GoesOn(f, base, step)
  <1> DEFINE Up(g, m) == /\ g \in [0..m -> V] /\ g[0] = base
                         /\ \A n \in 0..(m - 1) : g[n + 1] = step[<<n + 1, g[n]>>]
             H == {m \in Nat : \E g : Up(g, m)}
  <1> USE DEF StepsOver
  <1>1. 0 \in H
    <2>1. Up([n \in 0..0 |-> base], 0)
      OBVIOUS
    <2>2. QED BY <2>1
  <1>2. ASSUME NEW m \in Nat, m \in H PROVE m + 1 \in H
    <2>1. PICK g : Up(g, m)
      BY <1>2
    <2> DEFINE h == [n \in 0..(m + 1) |-> IF n = m + 1 THEN step[<<m + 1, g[m]>>] ELSE g[n]]
    <2>2. g[m] \in V /\ step[<<m + 1, g[m]>>] \in V
      BY <2>1
    <2>3. h \in [0..(m + 1) -> V] /\ h[0] = base
      BY <2>1, <2>2
    <2>4. ASSUME NEW n \in 0..m PROVE h[n + 1] = step[<<n + 1, h[n]>>]
      <3>1. CASE n = m
        <4>1. h[m + 1] = step[<<m + 1, g[m]>>] /\ h[m] = g[m]
          OBVIOUS
        <4>2. QED BY <3>1, <4>1
      <3>2. CASE n \in 0..(m - 1)
        BY <3>2, <2>1
      <3>3. QED BY <3>1, <3>2
    <2> HIDE DEF h
    <2>5. (m + 1) - 1 = m
      OBVIOUS
    <2>6. Up(h, m + 1)
      BY <2>3, <2>4, <2>5
    <2> HIDE DEF Up
    <2>7. QED BY <2>6
  <1>3. Nat \subseteq H
    <2> HIDE DEF H
    <2> QED BY <1>1, <1>2, Upward
  <1> DEFINE G(m) == CHOOSE g : Up(g, m)
             f == [n \in Nat |-> G(n)[n]]
  <1>4. \A m \in Nat : Up(G(m), m)
    <2> SUFFICES ASSUME NEW m \in Nat PROVE Up(G(m), m)
      OBVIOUS
    <2>1. \E g : Up(g, m)
      BY <1>3
    <2> HIDE DEF Up
    <2>2. QED BY <2>1
  <1> HIDE DEF G, Up
  <1>5. ASSUME NEW m \in Nat PROVE \A n \in 0..m : G(m + 1)[n] = G(m)[n]
    <2> DEFINE K == {n \in Nat : n \in 0..m => G(m + 1)[n] = G(m)[n]}
    <2>1. Up(G(m), m) /\ Up(G(m + 1), m + 1)
      BY <1>4
    <2>2. 0 \in K
      BY <2>1 DEF Up
    <2>3. ASSUME NEW n \in Nat, n \in K PROVE n + 1 \in K
      <3> SUFFICES ASSUME n + 1 \in 0..m PROVE G(m + 1)[n + 1] = G(m)[n + 1]
        OBVIOUS
      <3>1. n \in 0..(m - 1) /\ n \in 0..((m + 1) - 1) /\ n \in 0..m
        OBVIOUS
      <3>2. G(m + 1)[n + 1] = step[<<n + 1, G(m + 1)[n]>>] /\ G(m)[n + 1] = step[<<n + 1, G(m)[n]>>]
        BY <2>1, <3>1 DEF Up
      <3>3. QED BY <2>3, <3>1, <3>2
    <2> HIDE DEF K
    <2>4. Nat \subseteq K
      BY <2>2, <2>3, Upward
    <2>5. QED BY <2>4 DEF K
  <1>6. f \in [Nat -> V]
    BY <1>4 DEF Up
  <1>7. f[0] = base
    BY <1>4 DEF Up
  <1>8. ASSUME NEW n \in Nat PROVE f[n + 1] = step[<<n + 1, f[n]>>]
    <2>1. Up(G(n + 1), n + 1) /\ n \in 0..((n + 1) - 1) /\ n \in 0..n
      BY <1>4
    <2>2. G(n + 1)[n + 1] = step[<<n + 1, G(n + 1)[n]>>]
      BY <2>1 DEF Up
    <2>3. G(n + 1)[n] = G(n)[n]
      BY <1>5, <2>1
    <2>4. QED BY <2>2, <2>3
  <1> HIDE DEF f
  <1>9. QED BY <1>6, <1>7, <1>8 DEF GoesOn

-----------------------------------------------------------------------------
(* The filter. *)

\* What the recursion of Only comes to.
OnlyUpTo(f, s, S) ==
  f = [n \in 0..Len(s) |-> IF n = 0 THEN <<>>
                           ELSE IF s[n] \in S THEN Append(f[n - 1], s[n])
                           ELSE f[n - 1]]

LEMMA OnlyStep ==
  ASSUME NEW s, Len(s) \in Nat, NEW S, NEW f, OnlyUpTo(f, s, S), NEW n \in Nat, n < Len(s)
  PROVE  f[n + 1] = IF s[n + 1] \in S THEN Append(f[n], s[n + 1]) ELSE f[n]
  <1> DEFINE m == n + 1
  <1>1. m \in 0..Len(s) /\ m # 0 /\ m - 1 = n
    OBVIOUS
  <1> HIDE DEF m
  <1>2. f[m] = IF s[m] \in S THEN Append(f[n], s[m]) ELSE f[n]
    BY <1>1 DEF OnlyUpTo
  <1>3. QED BY <1>2 DEF m

LEMMA OnlyExists ==
  ASSUME NEW T, NEW s \in Seq(T), NEW S
  PROVE  \E f \in [0..Len(s) -> Seq(T)] : OnlyUpTo(f, s, S)
  <1> DEFINE step == [p \in Nat \X Seq(T) |->
                        IF p[1] \in 1..Len(s) /\ s[p[1]] \in S THEN Append(p[2], s[p[1]]) ELSE p[2]]
  <1>1. step \in [Nat \X Seq(T) -> Seq(T)]
    OBVIOUS
  <1>2. ASSUME NEW n \in Nat, NEW t \in Seq(T), n + 1 <= Len(s)
        PROVE  step[<<n + 1, t>>] = IF s[n + 1] \in S THEN Append(t, s[n + 1]) ELSE t
    <2>1. <<n + 1, t>> \in Nat \X Seq(T) /\ <<n + 1, t>>[1] = n + 1 /\ <<n + 1, t>>[2] = t
      OBVIOUS
    <2>2. n + 1 \in 1..Len(s)
      BY <1>2
    <2>3. QED BY <2>1, <2>2
  <1> HIDE DEF step
  <1> DEFINE V == Seq(T)
             none == <<>>
  <1>3. <<>> \in Seq(T) /\ none \in V /\ Len(s) \in Nat
    OBVIOUS
  <1>4. PICK g \in [Nat -> Seq(T)] : g[0] = <<>> /\ \A n \in Nat : g[n + 1] = step[<<n + 1, g[n]>>]
    <2>1. step \in StepsOver(V)
      BY <1>1 DEF StepsOver
    <2> HIDE DEF V, none
    <2>2. \E g \in [Nat -> V] : GoesOn(g, none, step)
      BY <1>3, <2>1, Recursion
    <2>3. QED BY <2>2 DEF V, none, GoesOn
  <1> DEFINE f == [n \in 0..Len(s) |-> g[n]]
  <1>5. f \in [0..Len(s) -> Seq(T)]
    BY <1>3, <1>4
  <1>6. ASSUME NEW n \in 0..Len(s)
        PROVE  f[n] = IF n = 0 THEN <<>>
                      ELSE IF s[n] \in S THEN Append(f[n - 1], s[n])
                      ELSE f[n - 1]
    <2>1. CASE n = 0
      BY <2>1, <1>4
    <2>2. CASE n # 0
      <3>1. n - 1 \in Nat /\ n - 1 + 1 = n /\ n - 1 \in 0..Len(s) /\ n <= Len(s)
        BY <1>3, <2>2
      <3>2. g[n - 1] \in Seq(T)
        BY <1>4, <3>1
      <3>3. g[n] = step[<<n, g[n - 1]>>]
        BY <1>4, <3>1
      <3>4. step[<<n, g[n - 1]>>] = IF s[n] \in S THEN Append(g[n - 1], s[n]) ELSE g[n - 1]
        BY <1>2, <3>1, <3>2
      <3>5. QED BY <2>2, <3>1, <3>3, <3>4
    <2>3. QED BY <2>1, <2>2
  <1>7. OnlyUpTo(f, s, S)
    <2> HIDE DEF f
    <2> QED BY <1>5, <1>6 DEF OnlyUpTo
  <1>8. QED BY <1>5, <1>7

\* There is one such function.
Leads(s, t) ==
  Len(s) \in Nat /\ Len(t) \in Nat /\ Len(s) <= Len(t) /\ \A n \in 1..Len(s) : t[n] = s[n]

LEMMA OnlyUnique ==
  ASSUME NEW s, NEW t, Leads(s, t), NEW S, NEW f, NEW g, OnlyUpTo(f, s, S), OnlyUpTo(g, t, S)
  PROVE  \A n \in 0..Len(s) : f[n] = g[n]
  <1> DEFINE K == {n \in Nat : n \in 0..Len(s) => f[n] = g[n]}
  <1>1. Len(s) \in Nat /\ Len(t) \in Nat /\ Len(s) <= Len(t) /\ \A n \in 1..Len(s) : t[n] = s[n]
    BY DEF Leads
  <1>2. 0 \in K
    BY <1>1 DEF OnlyUpTo
  <1>3. ASSUME NEW n \in Nat, n \in K PROVE n + 1 \in K
    <2> SUFFICES ASSUME n + 1 \in 0..Len(s) PROVE f[n + 1] = g[n + 1]
      OBVIOUS
    <2>1. n \in 0..Len(s) /\ n < Len(s) /\ n + 1 \in 1..Len(s)
      BY <1>1
    <2>2. f[n + 1] = IF s[n + 1] \in S THEN Append(f[n], s[n + 1]) ELSE f[n]
      BY <1>1, <2>1, OnlyStep
    <2>3. g[n + 1] = IF s[n + 1] \in S THEN Append(g[n], s[n + 1]) ELSE g[n]
      <3>1. n < Len(t) /\ t[n + 1] = s[n + 1]
        BY <1>1, <2>1
      <3>2. g[n + 1] = IF t[n + 1] \in S THEN Append(g[n], t[n + 1]) ELSE g[n]
        BY <1>1, <3>1, OnlyStep
      <3>3. QED BY <3>1, <3>2
    <2>4. QED BY <1>3, <2>1, <2>2, <2>3
  <1>4. Nat \subseteq K
    <2> HIDE DEF K
    <2> QED BY <1>2, <1>3, Upward
  <1>5. QED BY <1>4

LEMMA OnlyIs ==
  ASSUME NEW T, NEW s \in Seq(T), NEW S
  PROVE  \E f \in [0..Len(s) -> Seq(T)] : OnlyUpTo(f, s, S) /\ Only(s, S) = f[Len(s)]
  <1> DEFINE f == CHOOSE f : OnlyUpTo(f, s, S)
  <1>1. PICK g \in [0..Len(s) -> Seq(T)] : OnlyUpTo(g, s, S)
    BY OnlyExists
  <1>2. OnlyUpTo(f, s, S)
    BY <1>1
  <1>3. Only(s, S) = f[Len(s)]
    BY DEF Only, OnlyUpTo
  <1> HIDE DEF f
  <1>4. f \in [0..Len(s) -> Seq(T)]
    <2>1. Leads(s, s)
      BY DEF Leads
    <2>2. \A n \in 0..Len(s) : g[n] = f[n]
      BY <1>1, <1>2, <2>1, OnlyUnique
    <2>3. f = [n \in 0..Len(s) |-> f[n]]
      BY <1>2 DEF OnlyUpTo
    <2>4. QED BY <2>2, <2>3
  <1>5. QED BY <1>2, <1>3, <1>4

LEMMA OnlyNone == ASSUME NEW S PROVE Only(<<>>, S) = <<>>
  <1> DEFINE s == <<>>
  <1>1. s \in Seq({}) /\ Len(s) = 0
    OBVIOUS
  <1> HIDE DEF s
  <1>2. PICK f \in [0..Len(s) -> Seq({})] : OnlyUpTo(f, s, S) /\ Only(s, S) = f[Len(s)]
    BY <1>1, OnlyIs
  <1>3. f[0] = <<>>
    BY <1>1, <1>2 DEF OnlyUpTo
  <1>4. QED BY <1>1, <1>2, <1>3 DEF s

LEMMA OnlyType ==
  ASSUME NEW T, NEW s \in Seq(T), NEW S
  PROVE  Only(s, S) \in Seq(T)
  <1>1. Len(s) \in 0..Len(s)
    OBVIOUS
  <1>2. QED BY <1>1, OnlyIs

LEMMA OnlyAppend ==
  ASSUME NEW T, NEW s \in Seq(T), NEW e \in T, NEW S
  PROVE  Only(Append(s, e), S) = IF e \in S THEN Append(Only(s, S), e) ELSE Only(s, S)
  <1> DEFINE t == Append(s, e)
  <1>1. t \in Seq(T) /\ Len(t) = Len(s) + 1 /\ Len(s) \in Nat /\ t[Len(s) + 1] = e
    OBVIOUS
  <1>2. PICK f \in [0..Len(s) -> Seq(T)] : OnlyUpTo(f, s, S) /\ Only(s, S) = f[Len(s)]
    BY OnlyIs
  <1>3. PICK g \in [0..Len(t) -> Seq(T)] : OnlyUpTo(g, t, S) /\ Only(t, S) = g[Len(t)]
    BY <1>1, OnlyIs
  <1>4. f[Len(s)] = g[Len(s)]
    <2>1. Leads(s, t)
      BY DEF Leads
    <2> HIDE DEF t
    <2>2. OnlyUpTo(f, s, S) /\ OnlyUpTo(g, t, S)
      BY <1>2, <1>3
    <2>3. \A n \in 0..Len(s) : f[n] = g[n]
      BY <2>1, <2>2, OnlyUnique
    <2>4. QED BY <1>1, <2>3
  <1> HIDE DEF t
  <1>5. g[Len(s) + 1] = IF t[Len(s) + 1] \in S THEN Append(g[Len(s)], t[Len(s) + 1]) ELSE g[Len(s)]
    <2> DEFINE n == Len(s)
    <2>1. Len(t) \in Nat /\ n \in Nat /\ n < Len(t) /\ OnlyUpTo(g, t, S)
      BY <1>1, <1>3
    <2> HIDE DEF n
    <2>2. g[n + 1] = IF t[n + 1] \in S THEN Append(g[n], t[n + 1]) ELSE g[n]
      BY ONLY <2>1, OnlyStep
    <2>3. QED BY <2>2 DEF n
  <1>6. QED BY <1>1, <1>2, <1>3, <1>4, <1>5 DEF t

LEMMA RangeAppend ==
  ASSUME NEW T, NEW s \in Seq(T), NEW e \in T
  PROVE  Range(Append(s, e)) = Range(s) \cup {e}
  <1> DEFINE t == Append(s, e)
  <1>1. Len(s) \in Nat /\ DOMAIN s = 1..Len(s) /\ DOMAIN t = 1..(Len(s) + 1)
    OBVIOUS
  <1>2. (\A i \in 1..Len(s) : t[i] = s[i]) /\ t[Len(s) + 1] = e
    OBVIOUS
  <1> HIDE DEF t
  <1>3. Range(t) = Range(s) \cup {e}
    BY <1>1, <1>2 DEF Range
  <1>4. QED BY <1>3 DEF t

LEMMA InjectiveAppend ==
  ASSUME NEW T, NEW s \in Seq(T), NEW e \in T
  PROVE  IsInjective(Append(s, e)) <=> IsInjective(s) /\ e \notin Range(s)
  <1> DEFINE t == Append(s, e)
  <1>1. Len(s) \in Nat /\ DOMAIN s = 1..Len(s) /\ DOMAIN t = 1..(Len(s) + 1)
    OBVIOUS
  <1>2. (\A i \in 1..Len(s) : t[i] = s[i]) /\ t[Len(s) + 1] = e
    OBVIOUS
  <1> HIDE DEF t
  <1>3. IsInjective(t) => IsInjective(s) /\ e \notin Range(s)
    <2> SUFFICES ASSUME IsInjective(t) PROVE IsInjective(s) /\ e \notin Range(s)
      OBVIOUS
    <2>1. \A i, j \in 1..(Len(s) + 1) : t[i] = t[j] => i = j
      BY <1>1 DEF IsInjective
    <2>2. IsInjective(s)
      BY <1>1, <1>2, <2>1 DEF IsInjective
    <2>3. \A i \in 1..Len(s) : i \in 1..(Len(s) + 1) /\ Len(s) + 1 \in 1..(Len(s) + 1) /\ i # Len(s) + 1
      BY <1>1
    <2>4. e \notin Range(s)
      BY <1>1, <1>2, <2>1, <2>3 DEF Range
    <2>5. QED BY <2>2, <2>4
  <1>4. IsInjective(s) /\ e \notin Range(s) => IsInjective(t)
    BY <1>1, <1>2 DEF IsInjective, Range
  <1>5. QED BY <1>3, <1>4 DEF t

LEMMA OnlyConcat ==
  ASSUME NEW T, NEW s \in Seq(T), NEW t \in Seq(T), NEW S
  PROVE  Only(s \o t, S) = Only(s, S) \o Only(t, S)
  <1> DEFINE H == {u \in Seq(T) : Only(s \o u, S) = Only(s, S) \o Only(u, S)}
  <1>1. <<>> \in H
    <2>1. Only(s, S) \in Seq(T) /\ <<>> \in Seq(T)
      BY OnlyType
    <2>2. s \o <<>> = s /\ Only(s, S) \o <<>> = Only(s, S)
      BY <2>1
    <2>3. QED BY <2>1, <2>2, OnlyNone
  <1>2. ASSUME NEW u \in Seq(T), NEW e \in T, u \in H PROVE Append(u, e) \in H
    <2>1. s \o u \in Seq(T) /\ s \o Append(u, e) = Append(s \o u, e) /\ Append(u, e) \in Seq(T)
      OBVIOUS
    <2>2. Only(Append(s \o u, e), S) = IF e \in S THEN Append(Only(s \o u, S), e) ELSE Only(s \o u, S)
      BY <2>1, OnlyAppend
    <2>3. Only(Append(u, e), S) = IF e \in S THEN Append(Only(u, S), e) ELSE Only(u, S)
      BY OnlyAppend
    <2>4. Only(s, S) \in Seq(T) /\ Only(u, S) \in Seq(T)
      BY OnlyType
    <2>5. Only(s, S) \o Append(Only(u, S), e) = Append(Only(s, S) \o Only(u, S), e)
      BY <2>4
    <2>6. Only(s \o u, S) = Only(s, S) \o Only(u, S)
      BY <1>2
    <2>7. Only(s \o Append(u, e), S) = Only(s, S) \o Only(Append(u, e), S)
      BY <2>1, <2>2, <2>3, <2>5, <2>6
    <2>8. QED BY <2>1, <2>7
  <1>3. Seq(T) \subseteq H
    <2> HIDE DEF H
    <2> QED BY <1>1, <1>2, SeqUpward
  <1>4. QED BY <1>3

\* The elements that are kept are those of s in S.
LEMMA OnlyElements ==
  ASSUME NEW T, NEW s \in Seq(T), NEW S
  PROVE  Range(Only(s, S)) = Range(s) \cap S
  <1> DEFINE H == {u \in Seq(T) : Range(Only(u, S)) = Range(u) \cap S}
  <1>1. <<>> \in H
    BY OnlyNone DEF Range
  <1>2. ASSUME NEW u \in Seq(T), NEW e \in T, u \in H PROVE Append(u, e) \in H
    <2>1. Only(u, S) \in Seq(T) /\ Range(Only(u, S)) = Range(u) \cap S
      BY <1>2, OnlyType
    <2>2. \A v \in Seq(T) : Range(Append(v, e)) = Range(v) \cup {e}
      BY RangeAppend
    <2>3. Only(Append(u, e), S) = IF e \in S THEN Append(Only(u, S), e) ELSE Only(u, S)
      BY OnlyAppend
    <2>4. Range(Only(Append(u, e), S)) = Range(Append(u, e)) \cap S
      <3>1. CASE e \in S
        BY <2>1, <2>2, <2>3, <3>1
      <3>2. CASE e \notin S
        BY <2>1, <2>2, <2>3, <3>2
      <3>3. QED BY <3>1, <3>2
    <2>5. QED BY <2>4
  <1>3. Seq(T) \subseteq H
    <2> HIDE DEF H
    <2> QED BY <1>1, <1>2, SeqUpward
  <1>4. QED BY <1>3

\* Where all are in S nothing is left out, where none is nothing is kept.
LEMMA OnlyAll ==
  ASSUME NEW T, NEW s \in Seq(T), NEW S, Range(s) \subseteq S
  PROVE  Only(s, S) = s
  <1> DEFINE H == {u \in Seq(T) : Range(u) \subseteq S => Only(u, S) = u}
  <1>1. <<>> \in H
    BY OnlyNone
  <1>2. ASSUME NEW u \in Seq(T), NEW e \in T, u \in H PROVE Append(u, e) \in H
    <2>1. Range(Append(u, e)) = Range(u) \cup {e}
      BY RangeAppend
    <2>2. QED BY <1>2, <2>1, OnlyAppend
  <1>3. Seq(T) \subseteq H
    <2> HIDE DEF H
    <2> QED BY <1>1, <1>2, SeqUpward
  <1>4. QED BY <1>3

LEMMA OnlyVoid ==
  ASSUME NEW T, NEW s \in Seq(T), NEW S, Range(s) \cap S = {}
  PROVE  Only(s, S) = <<>>
  <1>1. Only(s, S) \in Seq(T) /\ Range(Only(s, S)) = {}
    BY OnlyElements, OnlyType
  <1>2. PICK t : t = Only(s, S)
    OBVIOUS
  <1>3. t \in Seq(T) /\ \A i \in DOMAIN t : FALSE
    BY <1>1, <1>2 DEF Range
  <1>4. t = <<>>
    BY ONLY <1>3
  <1>5. QED BY <1>2, <1>4

\* What is kept of a list without repetitions has none.
LEMMA OnlyInjective ==
  ASSUME NEW T, NEW s \in Seq(T), NEW S, IsInjective(s)
  PROVE  IsInjective(Only(s, S))
  <1> DEFINE H == {u \in Seq(T) : IsInjective(u) => IsInjective(Only(u, S))}
  <1>1. <<>> \in H
    BY OnlyNone DEF IsInjective
  <1>2. ASSUME NEW u \in Seq(T), NEW e \in T, u \in H PROVE Append(u, e) \in H
    <2>1. SUFFICES ASSUME IsInjective(Append(u, e)) PROVE IsInjective(Only(Append(u, e), S))
      OBVIOUS
    <2>2. Only(u, S) \in Seq(T) /\ Range(Only(u, S)) \subseteq Range(u)
      BY OnlyType, OnlyElements
    <2>3. IsInjective(u) /\ e \notin Range(u)
      BY <2>1, InjectiveAppend
    <2>4. IsInjective(Only(u, S)) /\ e \notin Range(Only(u, S))
      BY <1>2, <2>2, <2>3
    <2>5. IsInjective(Append(Only(u, S), e))
      BY <2>2, <2>4, InjectiveAppend
    <2>6. QED BY <2>4, <2>5, OnlyAppend
  <1>3. Seq(T) \subseteq H
    <2> HIDE DEF H
    <2> QED BY <1>1, <1>2, SeqUpward
  <1>4. QED BY <1>3

-----------------------------------------------------------------------------
(* Lists of lists. *)

FlatUpTo(f, ss) == f = [i \in 1..Len(ss) |-> IF i = 1 THEN ss[i] ELSE f[i - 1] \o ss[i]]

LEMMA FlatStep ==
  ASSUME NEW ss, Len(ss) \in Nat, NEW f, FlatUpTo(f, ss), NEW n \in Nat \ {0}, n < Len(ss)
  PROVE  f[n + 1] = f[n] \o ss[n + 1]
  <1> DEFINE m == n + 1
  <1>1. m \in 1..Len(ss) /\ m # 1 /\ m - 1 = n
    OBVIOUS
  <1> HIDE DEF m
  <1>2. f[m] = f[n] \o ss[m]
    BY <1>1 DEF FlatUpTo
  <1>3. QED BY <1>2 DEF m

LEMMA FlatExists ==
  ASSUME NEW T, NEW ss \in Seq(Seq(T))
  PROVE  \E f \in [1..Len(ss) -> Seq(T)] : FlatUpTo(f, ss)
  <1> DEFINE V == Seq(T)
             none == <<>>
             step == [p \in Nat \X Seq(T) |-> IF p[1] \in 1..Len(ss) THEN p[2] \o ss[p[1]] ELSE p[2]]
  <1>1. Len(ss) \in Nat /\ \A i \in 1..Len(ss) : ss[i] \in Seq(T)
    OBVIOUS
  <1>2. step \in StepsOver(V)
    <2> SUFFICES ASSUME NEW p \in Nat \X Seq(T)
                 PROVE  (IF p[1] \in 1..Len(ss) THEN p[2] \o ss[p[1]] ELSE p[2]) \in Seq(T)
      BY DEF StepsOver
    <2>1. p[2] \in Seq(T)
      OBVIOUS
    <2>2. \A u, v \in Seq(T) : u \o v \in Seq(T)
      OBVIOUS
    <2>3. QED BY <1>1, <2>1, <2>2
  <1>3. ASSUME NEW n \in Nat, NEW t \in Seq(T), n + 1 <= Len(ss)
        PROVE  step[<<n + 1, t>>] = t \o ss[n + 1]
    <2>1. <<n + 1, t>> \in Nat \X Seq(T) /\ <<n + 1, t>>[1] = n + 1 /\ <<n + 1, t>>[2] = t
      OBVIOUS
    <2>2. n + 1 \in 1..Len(ss)
      BY <1>1, <1>3
    <2>3. QED BY <2>1, <2>2
  <1>4. none \in V /\ \A t \in Seq(T) : none \o t = t
    OBVIOUS
  <1> HIDE DEF step, V, none
  <1>5. PICK g \in [Nat -> V] : GoesOn(g, none, step)
    BY <1>2, <1>4, Recursion
  <1> DEFINE f == [i \in 1..Len(ss) |-> g[i]]
  <1>6. g \in [Nat -> Seq(T)] /\ f \in [1..Len(ss) -> Seq(T)]
    <2>1. g \in [Nat -> Seq(T)]
      BY <1>5 DEF V
    <2>2. \A i \in 1..Len(ss) : i \in Nat
      BY <1>1
    <2>3. QED BY <2>1, <2>2
  <1>7. ASSUME NEW i \in 1..Len(ss)
        PROVE  f[i] = IF i = 1 THEN ss[i] ELSE f[i - 1] \o ss[i]
    <2>1. i - 1 \in Nat /\ i - 1 + 1 = i /\ i - 1 + 1 <= Len(ss) /\ i \in Nat
      BY <1>1
    <2>2. g[i - 1] \in Seq(T)
      BY <1>6, <2>1
    <2>3. g[i] = step[<<i, g[i - 1]>>]
      BY <1>5, <2>1 DEF GoesOn
    <2>4. g[i] = g[i - 1] \o ss[i]
      BY <1>3, <2>1, <2>2, <2>3
    <2>5. CASE i = 1
      <3>1. g[i - 1] = none
        BY <1>5, <2>5 DEF GoesOn
      <3>2. QED BY <1>1, <1>4, <2>4, <2>5, <3>1
    <2>6. CASE i # 1
      <3>1. i - 1 \in 1..Len(ss)
        BY <1>1, <2>6
      <3>2. QED BY <2>4, <2>6, <3>1
    <2>7. QED BY <2>5, <2>6
  <1>8. FlatUpTo(f, ss)
    <2> HIDE DEF f
    <2> QED BY <1>6, <1>7 DEF FlatUpTo
  <1>9. QED BY <1>6, <1>8

LEMMA FlatOne ==
  ASSUME NEW s, NEW t, Leads(s, t), NEW f, NEW g, FlatUpTo(f, s), FlatUpTo(g, t)
  PROVE  \A n \in 1..Len(s) : f[n] = g[n]
  <1> DEFINE K == {n \in Nat : n \in 1..Len(s) => f[n] = g[n]}
  <1>1. Len(s) \in Nat /\ Len(t) \in Nat /\ Len(s) <= Len(t) /\ \A n \in 1..Len(s) : t[n] = s[n]
    BY DEF Leads
  <1>2. 0 \in K
    OBVIOUS
  <1>3. ASSUME NEW n \in Nat, n \in K PROVE n + 1 \in K
    <2> SUFFICES ASSUME n + 1 \in 1..Len(s) PROVE f[n + 1] = g[n + 1]
      OBVIOUS
    <2>1. CASE n = 0
      <3>1. 1 \in 1..Len(s) /\ 1 \in 1..Len(t)
        BY <1>1, <2>1
      <3>2. f[1] = s[1] /\ g[1] = t[1]
        BY <3>1 DEF FlatUpTo
      <3>3. QED BY <1>1, <2>1, <3>1, <3>2
    <2>2. CASE n # 0
      <3>1. n \in 1..Len(s) /\ n < Len(s) /\ n < Len(t) /\ n \in Nat \ {0}
        BY <1>1, <2>2
      <3>2. f[n + 1] = f[n] \o s[n + 1] /\ g[n + 1] = g[n] \o t[n + 1]
        BY <1>1, <3>1, FlatStep
      <3>3. QED BY <1>1, <1>3, <3>1, <3>2
    <2>3. QED BY <2>1, <2>2
  <1>4. Nat \subseteq K
    <2> HIDE DEF K
    <2> QED BY <1>2, <1>3, Upward
  <1>5. QED BY <1>1, <1>4

LEMMA FlatIs ==
  ASSUME NEW T, NEW ss \in Seq(Seq(T)), ss # <<>>
  PROVE  \E f \in [1..Len(ss) -> Seq(T)] : FlatUpTo(f, ss) /\ FlattenSeq(ss) = f[Len(ss)]
  <1> DEFINE f == CHOOSE f : FlatUpTo(f, ss)
  <1>1. PICK g \in [1..Len(ss) -> Seq(T)] : FlatUpTo(g, ss)
    BY FlatExists
  <1>2. FlatUpTo(f, ss)
    BY <1>1
  <1>3. Len(ss) # 0
    OBVIOUS
  <1>4. FlattenSeq(ss) = f[Len(ss)]
    BY <1>3 DEF FlattenSeq, FlatUpTo
  <1> HIDE DEF f
  <1>5. f \in [1..Len(ss) -> Seq(T)]
    <2>1. Leads(ss, ss)
      BY DEF Leads
    <2>2. \A n \in 1..Len(ss) : g[n] = f[n]
      BY <1>1, <1>2, <2>1, FlatOne
    <2>3. f = [n \in 1..Len(ss) |-> f[n]]
      BY <1>2 DEF FlatUpTo
    <2>4. QED BY <2>2, <2>3
  <1>6. QED BY <1>2, <1>4, <1>5

LEMMA FlatNone == FlattenSeq(<<>>) = <<>>
  BY DEF FlattenSeq

LEMMA FlatType ==
  ASSUME NEW T, NEW ss \in Seq(Seq(T))
  PROVE  FlattenSeq(ss) \in Seq(T)
  <1>1. CASE ss = <<>>
    <2>1. <<>> \in Seq(T)
      OBVIOUS
    <2>2. FlattenSeq(ss) = <<>>
      BY <1>1, FlatNone
    <2>3. QED BY <2>1, <2>2
  <1>2. CASE ss # <<>>
    <2>1. Len(ss) \in 1..Len(ss)
      BY <1>2
    <2>2. \E f \in [1..Len(ss) -> Seq(T)] : FlatUpTo(f, ss) /\ FlattenSeq(ss) = f[Len(ss)]
      BY <1>2, FlatIs
    <2> DEFINE V == Seq(T)
               n == Len(ss)
    <2> HIDE DEF V, n
    <2>3. n \in 1..n /\ \E f \in [1..n -> V] : FlattenSeq(ss) = f[n]
      BY <2>1, <2>2 DEF V, n
    <2>4. FlattenSeq(ss) \in V
      BY <2>3
    <2>5. QED BY <2>4 DEF V
  <1>3. QED BY <1>1, <1>2

LEMMA FlatAppend ==
  ASSUME NEW T, NEW ss \in Seq(Seq(T)), NEW s \in Seq(T)
  PROVE  FlattenSeq(Append(ss, s)) = FlattenSeq(ss) \o s
  <1> DEFINE tt == Append(ss, s)
             V == Seq(T)
  <1>0. ss \in Seq(V) /\ s \in V
    OBVIOUS
  <1> HIDE DEF V
  <1>1. /\ tt \in Seq(V)
        /\ tt # <<>>
        /\ Len(tt) = Len(ss) + 1 /\ Len(ss) \in Nat
        /\ tt[Len(ss) + 1] = s
        /\ \A n \in 1..Len(ss) : tt[n] = ss[n]
    <2>1. tt \in Seq(V) /\ Len(tt) = Len(ss) + 1 /\ Len(ss) \in Nat
      BY <1>0
    <2>2. tt # <<>>
      BY <2>1
    <2>3. tt[Len(ss) + 1] = s /\ \A n \in 1..Len(ss) : tt[n] = ss[n]
      BY <1>0
    <2>4. QED BY <2>1, <2>2, <2>3
  <1> HIDE DEF tt
  <1> USE DEF V
  <1>2. PICK g \in [1..Len(tt) -> Seq(T)] : FlatUpTo(g, tt) /\ FlattenSeq(tt) = g[Len(tt)]
    BY <1>1, FlatIs
  <1>3. CASE ss = <<>>
    <2>1. g[1] = tt[1] /\ Len(tt) = 1
      BY <1>1, <1>2, <1>3 DEF FlatUpTo
    <2>2. FlattenSeq(tt) = s
      BY <1>1, <1>2, <1>3, <2>1
    <2>3. <<>> \o s = s
      OBVIOUS
    <2>4. QED BY <1>3, <2>2, <2>3, FlatNone DEF tt
  <1>4. CASE ss # <<>>
    <2>1. PICK f \in [1..Len(ss) -> Seq(T)] : FlatUpTo(f, ss) /\ FlattenSeq(ss) = f[Len(ss)]
      BY <1>4, FlatIs
    <2>2. Leads(ss, tt) /\ Len(ss) \in Nat \ {0} /\ Len(ss) \in 1..Len(ss) /\ Len(ss) < Len(tt) /\ Len(tt) \in Nat
      BY <1>1, <1>4 DEF Leads
    <2>3. f[Len(ss)] = g[Len(ss)]
      <3>1. FlatUpTo(f, ss) /\ FlatUpTo(g, tt) /\ Leads(ss, tt)
        BY <1>2, <2>1, <2>2
      <3>2. \A n \in 1..Len(ss) : f[n] = g[n]
        BY <3>1, FlatOne
      <3>3. QED BY <2>2, <3>2
    <2>4. g[Len(ss) + 1] = g[Len(ss)] \o tt[Len(ss) + 1]
      BY <1>2, <2>2, FlatStep
    <2>5. QED BY <1>1, <1>2, <2>1, <2>3, <2>4 DEF tt
  <1>5. QED BY <1>3, <1>4

LEMMA FlatSingle ==
  ASSUME NEW T, NEW s \in Seq(T)
  PROVE  FlattenSeq(<<s>>) = s
  <1> DEFINE none == <<>>
  <1>1. none \in Seq(Seq(T)) /\ Append(none, s) = <<s>> /\ none \o s = s
    OBVIOUS
  <1>2. FlattenSeq(none) = none
    BY FlatNone
  <1> HIDE DEF none
  <1>3. FlattenSeq(Append(none, s)) = FlattenSeq(none) \o s
    BY <1>1, FlatAppend
  <1>4. QED BY <1>1, <1>2, <1>3

LEMMA FlatConcat ==
  ASSUME NEW T, NEW ss \in Seq(Seq(T)), NEW tt \in Seq(Seq(T))
  PROVE  FlattenSeq(ss \o tt) = FlattenSeq(ss) \o FlattenSeq(tt)
  <1> DEFINE H == {u \in Seq(Seq(T)) : FlattenSeq(ss \o u) = FlattenSeq(ss) \o FlattenSeq(u)}
  <1>1. <<>> \in H
    <2>1. FlattenSeq(ss) \in Seq(T) /\ <<>> \in Seq(Seq(T))
      BY FlatType
    <2>2. ss \o <<>> = ss /\ FlattenSeq(ss) \o <<>> = FlattenSeq(ss)
      BY <2>1
    <2>3. QED BY <2>1, <2>2, FlatNone
  <1>2. ASSUME NEW u \in Seq(Seq(T)), NEW s \in Seq(T), u \in H PROVE Append(u, s) \in H
    <2>1. ss \o u \in Seq(Seq(T)) /\ ss \o Append(u, s) = Append(ss \o u, s) /\ Append(u, s) \in Seq(Seq(T))
      OBVIOUS
    <2>2. FlattenSeq(ss) \in Seq(T) /\ FlattenSeq(u) \in Seq(T)
      BY FlatType
    <2>3. (FlattenSeq(ss) \o FlattenSeq(u)) \o s = FlattenSeq(ss) \o (FlattenSeq(u) \o s)
      BY <2>2
    <2>4. FlattenSeq(Append(ss \o u, s)) = FlattenSeq(ss \o u) \o s
      BY <2>1, FlatAppend
    <2>5. FlattenSeq(Append(u, s)) = FlattenSeq(u) \o s
      BY FlatAppend
    <2>6. FlattenSeq(ss \o u) = FlattenSeq(ss) \o FlattenSeq(u)
      BY <1>2
    <2>7. FlattenSeq(ss \o Append(u, s)) = FlattenSeq(ss) \o FlattenSeq(Append(u, s))
      BY <2>1, <2>3, <2>4, <2>5, <2>6
    <2>8. QED BY <2>1, <2>7
  <1>3. Seq(Seq(T)) \subseteq H
    <2> DEFINE TT == Seq(T)
    <2> HIDE DEF H
    <2>1. \A u \in Seq(TT), s \in TT : u \in H => Append(u, s) \in H
      BY <1>2
    <2> HIDE DEF TT
    <2>2. Seq(TT) \subseteq H
      BY <1>1, <2>1, SeqUpward
    <2> QED BY <2>2 DEF TT
  <1>4. QED BY <1>3

-----------------------------------------------------------------------------
(* Finite sets, and sums over them. *)

LEMMA SetUpward ==
  ASSUME NEW S, IsFiniteSet(S), NEW H, {} \in H,
         \A s \in SUBSET S : s # {} /\ (\A x \in s : s \ {x} \in H) => s \in H
  PROVE  SUBSET S \subseteq H
  <1> DEFINE L == {n \in Nat : \A s \in SUBSET S : Cardinality(s) = n => s \in H}
  <1>1. \A s \in SUBSET S : IsFiniteSet(s) /\ Cardinality(s) \in Nat
    BY FS_Subset, FS_CardinalityType
  <1>2. 0 \in L
    BY <1>1, FS_EmptySet
  <1>3. ASSUME NEW n \in Nat, n \in L PROVE n + 1 \in L
    <2> SUFFICES ASSUME NEW s \in SUBSET S, Cardinality(s) = n + 1 PROVE s \in H
      OBVIOUS
    <2>1. s # {}
      BY FS_EmptySet
    <2>2. ASSUME NEW x \in s PROVE s \ {x} \in H
      <3>1. Cardinality(s \ {x}) = Cardinality(s) - 1
        BY <1>1, FS_RemoveElement
      <3>2. s \ {x} \in SUBSET S /\ Cardinality(s \ {x}) = n
        BY <3>1
      <3>3. QED BY <1>3, <3>2
    <2>3. QED BY <2>1, <2>2
  <1>4. Nat \subseteq L
    <2> HIDE DEF L
    <2> QED BY <1>2, <1>3, Upward
  <1>5. QED BY <1>1, <1>4

\* What a fold comes to that takes the elements of a set as CHOOSE does.
Chosen(s) == CHOOSE x \in s : TRUE

FoldUpTo(g, S, base, step) ==
  g = [s \in SUBSET S |-> IF s = {} THEN base ELSE step[<<Chosen(s), g[s \ {Chosen(s)}]>>]]

FoldSteps(S, V) == [S \X V -> V]

LEMMA FoldExists ==
  ASSUME NEW S, IsFiniteSet(S), NEW V, NEW base \in V, NEW step \in FoldSteps(S, V)
  PROVE  \E g \in [SUBSET S -> V] : FoldUpTo(g, S, base, step)
  <1> DEFINE W == [SUBSET S -> V]
             start == [s \in SUBSET S |-> base]
             next == [p \in Nat \X W |->
                        [s \in SUBSET S |-> IF s = {} THEN base
                                            ELSE step[<<Chosen(s), p[2][s \ {Chosen(s)}]>>]]]
  <1>1. \A s \in SUBSET S : s # {} => Chosen(s) \in s /\ Chosen(s) \in S
    BY DEF Chosen
  <1>2. ASSUME NEW p \in W
        PROVE  [s \in SUBSET S |-> IF s = {} THEN base
                                   ELSE step[<<Chosen(s), p[s \ {Chosen(s)}]>>]] \in W
    BY <1>1 DEF FoldSteps
  <1>3. start \in W
    OBVIOUS
  <1>4. next \in StepsOver(W)
    <2> SUFFICES ASSUME NEW p \in Nat \X W
                 PROVE  [s \in SUBSET S |-> IF s = {} THEN base
                                            ELSE step[<<Chosen(s), p[2][s \ {Chosen(s)}]>>]] \in W
      BY DEF StepsOver
    <2>1. p[2] \in W
      OBVIOUS
    <2> HIDE DEF W
    <2>2. QED BY <1>2, <2>1
  <1>5. ASSUME NEW n \in Nat, NEW h \in W, NEW s \in SUBSET S
        PROVE  next[<<n, h>>][s] = IF s = {} THEN base ELSE step[<<Chosen(s), h[s \ {Chosen(s)}]>>]
    <2>1. <<n, h>> \in Nat \X W /\ <<n, h>>[2] = h
      OBVIOUS
    <2> HIDE DEF W
    <2>2. QED BY <2>1
  <1> HIDE DEF next, start, W
  <1>6. PICK F \in [Nat -> W] : GoesOn(F, start, next)
    BY <1>3, <1>4, Recursion
  <1> DEFINE g == [s \in SUBSET S |-> F[Cardinality(s)][s]]
  <1>7. \A s \in SUBSET S : IsFiniteSet(s) /\ Cardinality(s) \in Nat
    BY FS_Subset, FS_CardinalityType
  <1>8. ASSUME NEW s \in SUBSET S
        PROVE  g[s] = IF s = {} THEN base ELSE step[<<Chosen(s), g[s \ {Chosen(s)}]>>]
    <2>1. CASE s = {}
      BY <1>6, <2>1, FS_EmptySet DEF GoesOn, start
    <2>2. CASE s # {}
      <3> DEFINE c == Chosen(s)
                 m == Cardinality(s \ {c})
      <3>1. c \in s /\ s \ {c} \in SUBSET S
        BY <1>1, <2>2
      <3>2. m = Cardinality(s) - 1 /\ m \in Nat
        BY <1>7, <3>1, FS_RemoveElement
      <3> HIDE DEF m
      <3>3. Cardinality(s) = m + 1 /\ m + 1 \in Nat /\ F[m] \in W
        BY <1>6, <1>7, <3>2
      <3>4. F[m + 1] = next[<<m + 1, F[m]>>]
        BY <1>6, <3>2 DEF GoesOn
      <3>5. F[m + 1][s] = step[<<c, F[m][s \ {c}]>>]
        BY <1>5, <2>2, <3>3, <3>4
      <3>6. g[s] = F[m + 1][s]
        BY <3>3
      <3>7. g[s \ {c}] = F[m][s \ {c}]
        BY <3>1 DEF m
      <3> HIDE DEF c, g
      <3>8. g[s] = step[<<c, g[s \ {c}]>>]
        BY <3>5, <3>6, <3>7
      <3>9. QED BY <2>2, <3>8 DEF c
    <2>3. QED BY <2>1, <2>2
  <1>9. g \in [SUBSET S -> V]
    BY <1>6, <1>7 DEF W
  <1> HIDE DEF g
  <1>10. FoldUpTo(g, S, base, step)
    BY <1>8, <1>9 DEF FoldUpTo
  <1>11. QED BY <1>9, <1>10

LEMMA FoldOne ==
  ASSUME NEW S, IsFiniteSet(S), NEW base, NEW step, NEW f, NEW g,
         FoldUpTo(f, S, base, step), FoldUpTo(g, S, base, step)
  PROVE  f = g
  <1> DEFINE H == {s \in SUBSET S : f[s] = g[s]}
  <1>1. {} \in H
    BY DEF FoldUpTo
  <1>2. ASSUME NEW s \in SUBSET S, \A x \in s : s \ {x} \in H PROVE s \in H
    <2>1. CASE s = {}
      BY <1>1, <2>1
    <2>2. CASE s # {}
      <3>1. Chosen(s) \in s
        BY <2>2 DEF Chosen
      <3>2. f[s \ {Chosen(s)}] = g[s \ {Chosen(s)}]
        BY <1>2, <3>1
      <3>3. f[s] = step[<<Chosen(s), f[s \ {Chosen(s)}]>>] /\ g[s] = step[<<Chosen(s), g[s \ {Chosen(s)}]>>]
        BY <2>2 DEF FoldUpTo
      <3>4. QED BY <3>2, <3>3
    <2>3. QED BY <2>1, <2>2
  <1>5. SUBSET S \subseteq H
    <2> HIDE DEF H
    <2> QED BY <1>1, <1>2, SetUpward
  <1>6. f = [s \in SUBSET S |-> f[s]] /\ g = [s \in SUBSET S |-> g[s]]
    BY DEF FoldUpTo
  <1>7. QED BY <1>5, <1>6

\* Sums over a set.
SumUpTo(g, h, S) ==
  g = [s \in SUBSET S |-> IF s = {} THEN 0 ELSE h[Chosen(s)] + g[s \ {Chosen(s)}]]

LEMMA SumIs ==
  ASSUME NEW S, IsFiniteSet(S), NEW h \in [S -> Nat]
  PROVE  \E g \in [SUBSET S -> Nat] : SumUpTo(g, h, S) /\ MapThenSumSet(LAMBDA x : h[x], S) = g[S]
  <1> DEFINE step == [p \in S \X Nat |-> h[p[1]] + p[2]]
             sum == CHOOSE g : SumUpTo(g, h, S)
             zero == 0
             N == Nat
  <1>1. step \in FoldSteps(S, Nat)
    BY DEF FoldSteps
  <1>2. \A s \in SUBSET S : s # {} => Chosen(s) \in s /\ Chosen(s) \in S
    BY DEF Chosen
  <1>3. \A x \in S, n \in Nat : step[<<x, n>>] = h[x] + n
    OBVIOUS
  <1> HIDE DEF step, zero, N
  <1>4. PICK f \in [SUBSET S -> N] : FoldUpTo(f, S, zero, step)
    <2>1. zero \in N /\ step \in FoldSteps(S, N)
      BY <1>1 DEF zero, N
    <2>2. QED BY <2>1, FoldExists
  <1>5. SumUpTo(f, h, S)
    <2>1. \A s \in SUBSET S : f[s] \in Nat
      BY <1>4 DEF N
    <2>2. ASSUME NEW s \in SUBSET S, s # {}
          PROVE  step[<<Chosen(s), f[s \ {Chosen(s)}]>>] = h[Chosen(s)] + f[s \ {Chosen(s)}]
      BY <1>2, <1>3, <2>1, <2>2
    <2>3. f = [s \in SUBSET S |-> IF s = {} THEN 0 ELSE step[<<Chosen(s), f[s \ {Chosen(s)}]>>]]
      BY <1>4 DEF FoldUpTo, zero
    <2>4. \A s \in SUBSET S : f[s] = IF s = {} THEN 0 ELSE h[Chosen(s)] + f[s \ {Chosen(s)}]
      BY <2>2, <2>3
    <2>5. f = [s \in SUBSET S |-> f[s]]
      BY <2>3
    <2>6. QED BY <2>4, <2>5 DEF SumUpTo
  <1>6. SumUpTo(sum, h, S)
    BY <1>5
  <1>7. MapThenSumSet(LAMBDA x : h[x], S) = sum[S]
    BY DEF MapThenSumSet, MapThenFoldSet, SumUpTo, Chosen
  <1> HIDE DEF sum
  <1>8. \A s \in SUBSET S : sum[s] = f[s]
    <2> DEFINE H == {s \in SUBSET S : sum[s] = f[s]}
    <2>1. {} \in H
      BY <1>5, <1>6 DEF SumUpTo
    <2>2. ASSUME NEW s \in SUBSET S, s # {}, \A x \in s : s \ {x} \in H PROVE s \in H
      <3>1. sum[s \ {Chosen(s)}] = f[s \ {Chosen(s)}]
        BY <1>2, <2>2
      <3>2. QED BY <1>5, <1>6, <2>2, <3>1 DEF SumUpTo
    <2>3. SUBSET S \subseteq H
      <3> HIDE DEF H
      <3> QED BY <2>1, <2>2, SetUpward
    <2>4. QED BY <2>3
  <1>9. sum = [s \in SUBSET S |-> sum[s]]
    BY <1>6 DEF SumUpTo
  <1>10. sum \in [SUBSET S -> Nat]
    BY <1>4, <1>8, <1>9 DEF N
  <1>11. QED BY <1>6, <1>7, <1>10

\* Adding to one term adds to the sum.
LEMMA SumChange ==
  ASSUME NEW S, IsFiniteSet(S), NEW h \in [S -> Nat], NEW e \in S, NEW n \in Nat
  PROVE  LET k == [h EXCEPT ![e] = @ + n]
         IN  MapThenSumSet(LAMBDA x : k[x], S) = MapThenSumSet(LAMBDA x : h[x], S) + n
  <1> DEFINE k == [h EXCEPT ![e] = @ + n]
  <1>1. k \in [S -> Nat] /\ k[e] = h[e] + n /\ \A x \in S \ {e} : k[x] = h[x]
    OBVIOUS
  <1> HIDE DEF k
  <1>2. PICK f \in [SUBSET S -> Nat] : SumUpTo(f, h, S) /\ MapThenSumSet(LAMBDA x : h[x], S) = f[S]
    BY SumIs
  <1>3. PICK g \in [SUBSET S -> Nat] : SumUpTo(g, k, S) /\ MapThenSumSet(LAMBDA x : k[x], S) = g[S]
    BY <1>1, SumIs
  <1> DEFINE H == {s \in SUBSET S : g[s] = f[s] + IF e \in s THEN n ELSE 0}
  <1>4. {} \in H
    <2>1. f[{}] = 0 /\ g[{}] = 0
      BY <1>2, <1>3 DEF SumUpTo
    <2>2. QED BY <2>1
  <1>5. ASSUME NEW s \in SUBSET S, s # {}, \A x \in s : s \ {x} \in H PROVE s \in H
    <2> DEFINE c == Chosen(s)
               r == s \ {c}
    <2>1. c \in s /\ c \in S
      BY <1>5 DEF Chosen
    <2>2. f[s] = h[c] + f[r] /\ g[s] = k[c] + g[r]
      BY <1>2, <1>3, <1>5 DEF SumUpTo
    <2>3. g[r] = f[r] + IF e \in r THEN n ELSE 0
      BY <1>5, <2>1
    <2>4. r \in SUBSET S /\ (e \in r <=> e \in s /\ c # e)
      BY <2>1
    <2> HIDE DEF c, r
    <2>5. h[c] \in Nat /\ k[c] \in Nat /\ f[r] \in Nat /\ g[r] \in Nat
      BY <1>1, <1>2, <1>3, <2>1, <2>4
    <2>6. CASE c = e
      <3>1. k[c] = h[c] + n /\ g[r] = f[r] /\ e \in s
        BY <1>1, <2>1, <2>3, <2>4, <2>5, <2>6
      <3>2. g[s] = f[s] + n
        BY <2>2, <2>5, <3>1
      <3>3. QED BY <3>1, <3>2
    <2>7. CASE c # e
      <3>1. k[c] = h[c] /\ (e \in r <=> e \in s)
        BY <1>1, <2>1, <2>4, <2>7
      <3>2. g[s] = f[s] + IF e \in s THEN n ELSE 0
        BY <2>2, <2>3, <2>5, <3>1
      <3>3. QED BY <3>2
    <2>8. QED BY <2>6, <2>7
  <1>6. SUBSET S \subseteq H
    <2> HIDE DEF H
    <2> QED BY <1>4, <1>5, SetUpward
  <1>7. g[S] = f[S] + n
    BY <1>6
  <1>8. QED BY <1>2, <1>3, <1>7 DEF k

LEMMA SumOfNone ==
  ASSUME NEW S, IsFiniteSet(S), NEW h \in [S -> {0}]
  PROVE  MapThenSumSet(LAMBDA x : h[x], S) = 0
  <1>0. h \in [S -> Nat] /\ \A x \in S : h[x] = 0
    OBVIOUS
  <1>1. PICK f \in [SUBSET S -> Nat] : SumUpTo(f, h, S) /\ MapThenSumSet(LAMBDA x : h[x], S) = f[S]
    BY <1>0, SumIs
  <1> DEFINE H == {s \in SUBSET S : f[s] = 0}
  <1>2. {} \in H
    BY <1>1 DEF SumUpTo
  <1>3. ASSUME NEW s \in SUBSET S, s # {}, \A x \in s : s \ {x} \in H PROVE s \in H
    <2>1. Chosen(s) \in s /\ Chosen(s) \in S
      BY <1>3 DEF Chosen
    <2>2. f[s] = h[Chosen(s)] + f[s \ {Chosen(s)}]
      BY <1>1, <1>3 DEF SumUpTo
    <2>3. f[s \ {Chosen(s)}] = 0 /\ h[Chosen(s)] = 0
      BY <1>0, <1>3, <2>1
    <2>4. QED BY <2>2, <2>3
  <1>4. SUBSET S \subseteq H
    <2> HIDE DEF H
    <2> QED BY <1>2, <1>3, SetUpward
  <1>5. QED BY <1>1, <1>4

\* A sum, whichever of its terms is taken first.
AnyFirst(g, h, S) == \A s \in SUBSET S : \A x \in s : g[s] = h[x] + g[s \ {x}]

LEMMA SumWithout ==
  ASSUME NEW S, IsFiniteSet(S), NEW h \in [S -> Nat], NEW g \in [SUBSET S -> Nat], SumUpTo(g, h, S)
  PROVE  AnyFirst(g, h, S)
  <1> DEFINE H == {s \in SUBSET S : \A x \in s : g[s] = h[x] + g[s \ {x}]}
  <1>1. {} \in H
    OBVIOUS
  <1>2. ASSUME NEW s \in SUBSET S, s # {}, \A x \in s : s \ {x} \in H PROVE s \in H
    <2> SUFFICES ASSUME NEW x \in s PROVE g[s] = h[x] + g[s \ {x}]
      OBVIOUS
    <2> DEFINE c == Chosen(s)
    <2>1. c \in s /\ g[s] = h[c] + g[s \ {c}]
      BY <1>2 DEF SumUpTo, Chosen
    <2> HIDE DEF c
    <2>2. CASE x = c
      BY <2>1, <2>2
    <2>3. CASE x # c
      <3> DEFINE r == (s \ {c}) \ {x}
      <3>1. g[s \ {c}] = h[x] + g[r]
        BY <1>2, <2>1, <2>3
      <3>2. g[s \ {x}] = h[c] + g[(s \ {x}) \ {c}]
        BY <1>2, <2>1, <2>3
      <3>3. (s \ {x}) \ {c} = r
        OBVIOUS
      <3>4. h[c] \in Nat /\ h[x] \in Nat /\ g[r] \in Nat
        BY <2>1
      <3> HIDE DEF r
      <3>5. g[s] = h[c] + (h[x] + g[r]) /\ g[s \ {x}] = h[c] + g[r]
        BY <2>1, <3>1, <3>2, <3>3
      <3>6. \A a, b, d \in Nat : a + (b + d) = b + (a + d)
        OBVIOUS
      <3>7. QED BY <3>4, <3>5, <3>6
    <2>4. QED BY <2>2, <2>3
  <1>3. SUBSET S \subseteq H
    <2> HIDE DEF H
    <2> QED BY <1>1, <1>2, SetUpward
  <1>4. QED BY <1>3 DEF AnyFirst

\* The sum of a list.
SumOfList(w) == MapThenSumSet(LAMBDA i : w[i], DOMAIN w)

LEMMA SumOfListIs ==
  ASSUME NEW w \in Seq(Nat)
  PROVE  /\ IsFiniteSet(DOMAIN w) /\ w \in [DOMAIN w -> Nat]
         /\ \E g \in [SUBSET DOMAIN w -> Nat] : SumUpTo(g, w, DOMAIN w) /\ SumOfList(w) = g[DOMAIN w]
  <1> DEFINE D == DOMAIN w
             n == Len(w)
  <1>1. n \in Nat /\ D = 1..n /\ w \in [D -> Nat]
    OBVIOUS
  <1> HIDE DEF D, n
  <1>2. IsFiniteSet(1..n)
    BY <1>1, FS_Interval
  <1>3. IsFiniteSet(D)
    BY <1>1, <1>2
  <1>4. \E g \in [SUBSET D -> Nat] : SumUpTo(g, w, D) /\ MapThenSumSet(LAMBDA i : w[i], D) = g[D]
    BY <1>1, <1>3, SumIs
  <1>5. QED BY <1>1, <1>3, <1>4 DEF SumOfList, D

LEMMA SumOfListType ==
  ASSUME NEW w \in Seq(Nat)
  PROVE  SumOfList(w) \in Nat
  <1>1. PICK g \in [SUBSET DOMAIN w -> Nat] : SumOfList(w) = g[DOMAIN w]
    BY SumOfListIs
  <1>2. QED BY <1>1

LEMMA SumOfListAppend ==
  ASSUME NEW w \in Seq(Nat), NEW e \in Nat
  PROVE  SumOfList(Append(w, e)) = SumOfList(w) + e
  <1> DEFINE u == Append(w, e)
             D == DOMAIN w
             E == DOMAIN u
             n == Len(w) + 1
  <1>1. /\ w \in [D -> Nat] /\ D = 1..Len(w) /\ Len(w) \in Nat
        /\ u \in Seq(Nat) /\ Len(u) = Len(w) + 1 /\ u[Len(w) + 1] = e
        /\ \A i \in D : u[i] = w[i]
    OBVIOUS
  <1> HIDE DEF u
  <1>2. u \in [E -> Nat] /\ E = 1..(Len(w) + 1)
    BY <1>1
  <1>3. IsFiniteSet(D) /\ IsFiniteSet(E)
    BY <1>1, SumOfListIs
  <1>4. E \ {n} = D /\ n \in E /\ D \subseteq E
    BY <1>1, <1>2
  <1> HIDE DEF D, E, n
  <1>5. PICK f \in [SUBSET D -> Nat] : SumUpTo(f, w, D) /\ SumOfList(w) = f[D]
    BY SumOfListIs DEF D
  <1>6. PICK g \in [SUBSET E -> Nat] : SumUpTo(g, u, E) /\ SumOfList(u) = g[E]
    BY <1>1, SumOfListIs DEF E
  <1>7. g[E] = u[n] + g[D]
    <2>1. AnyFirst(g, u, E)
      BY <1>2, <1>3, <1>6, SumWithout
    <2>2. QED BY <1>4, <2>1 DEF AnyFirst
  <1>8. g[D] = f[D]
    <2> DEFINE H == {s \in SUBSET D : g[s] = f[s]}
    <2>1. {} \in H
      BY <1>4, <1>5, <1>6 DEF SumUpTo
    <2>2. ASSUME NEW s \in SUBSET D, s # {}, \A x \in s : s \ {x} \in H PROVE s \in H
      <3>1. Chosen(s) \in s /\ s \in SUBSET E
        BY <1>4, <2>2 DEF Chosen
      <3>2. g[s] = u[Chosen(s)] + g[s \ {Chosen(s)}]
        BY <1>6, <2>2, <3>1 DEF SumUpTo
      <3>3. f[s] = w[Chosen(s)] + f[s \ {Chosen(s)}]
        BY <1>5, <2>2 DEF SumUpTo
      <3>4. g[s \ {Chosen(s)}] = f[s \ {Chosen(s)}] /\ u[Chosen(s)] = w[Chosen(s)]
        BY <1>1, <2>2, <3>1
      <3>5. QED BY <3>2, <3>3, <3>4
    <2>3. SUBSET D \subseteq H
      <3> HIDE DEF H
      <3>1. IsFiniteSet(D)
        BY <1>3
      <3>2. \A s \in SUBSET D : s # {} /\ (\A x \in s : s \ {x} \in H) => s \in H
        BY <2>2
      <3>3. QED BY <2>1, <3>1, <3>2, SetUpward
    <2>4. QED BY <2>3
  <1>9. SumOfList(u) = e + SumOfList(w) /\ e \in Nat
    BY <1>1, <1>5, <1>6, <1>7, <1>8 DEF n
  <1>10. SumOfList(w) \in Nat
    BY SumOfListType
  <1>11. QED BY <1>9, <1>10 DEF u

LEMMA SumOfListConcat ==
  ASSUME NEW v \in Seq(Nat), NEW w \in Seq(Nat)
  PROVE  SumOfList(v \o w) = SumOfList(v) + SumOfList(w)
  <1> DEFINE H == {u \in Seq(Nat) : SumOfList(v \o u) = SumOfList(v) + SumOfList(u)}
             none == <<>>
  <1>0. none \in Seq(Nat) /\ v \o none = v
    OBVIOUS
  <1>1. SumOfList(none) = 0
    <2>1. DOMAIN none = {} /\ none \in [DOMAIN none -> {0}]
      OBVIOUS
    <2>2. IsFiniteSet(DOMAIN none)
      BY <2>1, FS_EmptySet
    <2> HIDE DEF none
    <2>3. MapThenSumSet(LAMBDA x : none[x], DOMAIN none) = 0
      BY <2>1, <2>2, SumOfNone
    <2>4. QED BY <2>3 DEF SumOfList
  <1>2. none \in H
    <2>1. SumOfList(v) \in Nat
      BY SumOfListType
    <2> HIDE DEF none
    <2>2. SumOfList(v \o none) = SumOfList(v) + SumOfList(none)
      BY <1>0, <1>1, <2>1
    <2>3. QED BY <1>0, <2>2
  <1>3. ASSUME NEW u \in Seq(Nat), NEW e \in Nat, u \in H PROVE Append(u, e) \in H
    <2>1. v \o Append(u, e) = Append(v \o u, e) /\ v \o u \in Seq(Nat) /\ Append(u, e) \in Seq(Nat)
      OBVIOUS
    <2>2. SumOfList(Append(v \o u, e)) = SumOfList(v \o u) + e
      BY <2>1, SumOfListAppend
    <2>3. SumOfList(Append(u, e)) = SumOfList(u) + e
      BY SumOfListAppend
    <2>4. SumOfList(v) \in Nat /\ SumOfList(u) \in Nat
      BY SumOfListType
    <2>5. SumOfList(v \o u) = SumOfList(v) + SumOfList(u)
      BY <1>3
    <2>6. \A a, b, c \in Nat : a + b + c = a + (b + c)
      OBVIOUS
    <2>7. SumOfList(v \o Append(u, e)) = SumOfList(v) + SumOfList(Append(u, e))
      BY <2>1, <2>2, <2>3, <2>4, <2>5, <2>6
    <2>8. QED BY <2>1, <2>7
  <1>4. Seq(Nat) \subseteq H
    <2> HIDE DEF H
    <2> QED BY <1>2, <1>3, SeqUpward DEF none
  <1>5. QED BY <1>4

LEMMA Greatest ==
  ASSUME NEW S \in SUBSET Nat, IsFiniteSet(S), S # {}
  PROVE  \E m \in S : \A n \in S : n <= m
  <1> DEFINE H == {s \in SUBSET S : s # {} => \E m \in s : \A n \in s : n <= m}
  <1>1. {} \in H
    OBVIOUS
  <1>2. ASSUME NEW s \in SUBSET S, s # {}, \A x \in s : s \ {x} \in H PROVE s \in H
    <2>1. PICK x \in s : TRUE
      BY <1>2
    <2>2. CASE s \ {x} = {}
      <3>1. \A n \in s : n = x
        BY <2>2
      <3>2. x \in Nat
        BY <2>1
      <3>3. QED BY <2>1, <3>1, <3>2
    <2>3. CASE s \ {x} # {}
      <3>1. PICK m \in s \ {x} : \A n \in s \ {x} : n <= m
        BY <1>2, <2>1, <2>3
      <3>2. m \in Nat /\ x \in Nat /\ \A n \in s : n \in Nat /\ (n = x \/ n <= m)
        BY <2>1, <3>1
      <3>3. CASE x <= m
        <4>1. \A n \in s : n <= m
          BY <3>2, <3>3
        <4>2. QED BY <3>1, <4>1
      <3>4. CASE ~(x <= m)
        <4>1. \A n \in s : n <= x
          BY <3>2, <3>4
        <4>2. QED BY <2>1, <4>1
      <3>5. QED BY <3>3, <3>4
    <2>4. QED BY <2>2, <2>3
  <1>3. SUBSET S \subseteq H
    <2> HIDE DEF H
    <2> QED BY <1>1, <1>2, SetUpward
  <1>4. QED BY <1>3

Ascends(f) == \A i, j \in DOMAIN f : i < j => f[i] < f[j]

LEMMA SortedExists ==
  ASSUME NEW S \in SUBSET Nat, IsFiniteSet(S)
  PROVE  \E f \in [1..Cardinality(S) -> S] : Range(f) = S /\ Ascends(f)
  <1> DEFINE H == {s \in SUBSET S : \E f \in [1..Cardinality(s) -> s] : Range(f) = s /\ Ascends(f)}
  <1>0. \A s \in SUBSET S : IsFiniteSet(s) /\ Cardinality(s) \in Nat
    BY FS_Subset, FS_CardinalityType
  <1>1. {} \in H
    <2> DEFINE f == [i \in 1..0 |-> i]
    <2>1. Cardinality({}) = 0
      BY FS_EmptySet
    <2>2. f \in [1..0 -> {}] /\ Range(f) = {} /\ Ascends(f)
      BY DEF Range, Ascends
    <2> HIDE DEF f
    <2>3. QED BY <2>1, <2>2
  <1>2. ASSUME NEW s \in SUBSET S, s # {}, \A x \in s : s \ {x} \in H PROVE s \in H
    <2>1. PICK m \in s : \A n \in s : n <= m
      BY <1>0, <1>2, Greatest
    <2> DEFINE r == s \ {m}
               k == Cardinality(r)
    <2>2. PICK f \in [1..k -> r] : Range(f) = r /\ Ascends(f)
      BY <1>2, <2>1
    <2>3. k = Cardinality(s) - 1 /\ k \in Nat
      BY <1>0, <2>1, FS_RemoveElement
    <2>4. Cardinality(s) = k + 1
      BY <1>0, <2>3
    <2> HIDE DEF k
    <2> DEFINE g == [i \in 1..(k + 1) |-> IF i = k + 1 THEN m ELSE f[i]]
    <2>5. \A i \in 1..(k + 1) : i # k + 1 => i \in 1..k
      BY <2>3
    <2>6. \A i \in 1..k : f[i] \in r /\ f[i] \in s /\ f[i] # m /\ f[i] \in Nat /\ i \in 1..(k + 1) /\ i # k + 1
      <3>1. \A i \in 1..k : i \in 1..(k + 1) /\ i # k + 1
        BY <2>3
      <3>2. \A i \in 1..k : f[i] \in r
        BY <2>2
      <3>3. \A x \in r : x \in s /\ x # m /\ x \in Nat
        OBVIOUS
      <3>4. QED BY <3>1, <3>2, <3>3
    <2>7. g \in [1..(k + 1) -> s]
      BY <2>1, <2>5, <2>6
    <2>8. g[k + 1] = m /\ \A i \in 1..k : g[i] = f[i]
      BY <2>3, <2>6
    <2>9. k + 1 \in 1..(k + 1)
      BY <2>3
    <2> HIDE DEF g
    <2>10. Range(g) = s
      <3>1. \A y \in r : \E i \in 1..k : y = f[i]
        BY <2>2 DEF Range
      <3>2. \A y \in s : \E i \in 1..(k + 1) : y = g[i]
        BY <2>6, <2>8, <2>9, <3>1
      <3>3. QED BY <2>7, <3>2 DEF Range
    <2>11. Ascends(g)
      <3> SUFFICES ASSUME NEW i \in 1..(k + 1), NEW j \in 1..(k + 1), i < j PROVE g[i] < g[j]
        BY <2>7 DEF Ascends
      <3>1. i \in 1..k
        BY <2>3
      <3>2. CASE j = k + 1
        <4>1. g[j] = m /\ g[i] \in s /\ g[i] # m /\ g[i] \in Nat /\ m \in Nat
          BY <2>1, <2>6, <2>8, <3>1, <3>2
        <4>2. QED BY <2>1, <4>1
      <3>3. CASE j # k + 1
        <4>1. j \in 1..k
          BY <2>5, <3>3
        <4>2. f[i] < f[j]
          BY <2>2, <3>1, <4>1 DEF Ascends
        <4>3. QED BY <2>8, <3>1, <4>1, <4>2
      <3>4. QED BY <3>2, <3>3
    <2>12. QED BY <2>4, <2>7, <2>10, <2>11
  <1>3. SUBSET S \subseteq H
    <2> HIDE DEF H
    <2> QED BY <1>1, <1>2, SetUpward
  <1>4. QED BY <1>3

\* The first elements of a list.
LEMMA Prefix ==
  ASSUME NEW T, NEW s \in Seq(T), NEW m \in Nat, m <= Len(s)
  PROVE  /\ SubSeq(s, 1, m) \in Seq(T) /\ Len(SubSeq(s, 1, m)) = m
         /\ DOMAIN SubSeq(s, 1, m) = 1..m
         /\ \A i \in 1..m : SubSeq(s, 1, m)[i] = s[i]
  OBVIOUS

LEMMA LessOfTwo ==
  ASSUME NEW a \in Nat, NEW b \in Nat
  PROVE  Min({a, b}) = IF a <= b THEN a ELSE b
  <1> DEFINE m == IF a <= b THEN a ELSE b
  <1>1. m \in {a, b} /\ \A y \in {a, b} : m <= y
    OBVIOUS
  <1>2. \A x \in {a, b} : (\A y \in {a, b} : x <= y) => x = m
    OBVIOUS
  <1> HIDE DEF m
  <1>3. Min({a, b}) = m
    BY <1>1, <1>2 DEF Min
  <1>4. QED BY <1>3 DEF m

LEMMA AscendingOne ==
  ASSUME NEW S, S \subseteq Nat, NEW s \in Seq(S), Ascends(s)
  PROVE  IsInjective(s)
  <1>1. DOMAIN s = 1..Len(s) /\ Len(s) \in Nat
    OBVIOUS
  <1>2. ASSUME NEW i \in 1..Len(s), NEW j \in 1..Len(s), s[i] = s[j] PROVE i = j
    <2>0. s[i] \in S /\ s[j] \in S
      OBVIOUS
    <2>1. s[i] \in Nat /\ s[j] \in Nat
      BY <2>0
    <2>2. ~(s[i] < s[j]) /\ ~(s[j] < s[i])
      BY <1>2, <2>1
    <2>3. ~(i < j) /\ ~(j < i)
      BY <1>1, <2>2 DEF Ascends
    <2>4. QED BY <1>1, <2>3
  <1>3. QED BY <1>1, <1>2 DEF IsInjective

\* An injective list has as many elements as it is long.
LEMMA InjectiveLength ==
  ASSUME NEW T, NEW s \in Seq(T), IsInjective(s)
  PROVE  Cardinality(Range(s)) = Len(s)
  <1>1. DOMAIN s = 1..Len(s) /\ Len(s) \in Nat
    OBVIOUS
  <1>2. s \in Surjection(1..Len(s), Range(s)) /\ s \in Injection(1..Len(s), Range(s))
    <2>1. s \in [1..Len(s) -> Range(s)]
      BY <1>1 DEF Range
    <2>2. \A y \in Range(s) : \E i \in 1..Len(s) : s[i] = y
      BY <1>1 DEF Range
    <2>3. QED BY <1>1, <2>1, <2>2 DEF Surjection, Injection, IsInjective
  <1>3. s \in Bijection(1..Len(s), Range(s))
    BY <1>2 DEF Bijection
  <1>4. ExistsBijection(1..Len(s), Range(s))
    BY <1>3 DEF ExistsBijection
  <1>5. QED BY <1>1, <1>4, FS_CountingElements

LEMMA ConcatRange ==
  ASSUME NEW T, NEW s \in Seq(T), NEW t \in Seq(T)
  PROVE  Range(s \o t) = Range(s) \union Range(t)
  <1> DEFINE u == s \o t
  <1>1. /\ Len(s) \in Nat /\ Len(t) \in Nat /\ DOMAIN s = 1..Len(s) /\ DOMAIN t = 1..Len(t)
        /\ u \in Seq(T) /\ Len(u) = Len(s) + Len(t) /\ DOMAIN u = 1..(Len(s) + Len(t))
    OBVIOUS
  <1>2. \A i \in 1..Len(s) : u[i] = s[i] /\ i \in 1..(Len(s) + Len(t))
    OBVIOUS
  <1>3. \A i \in 1..Len(t) : u[Len(s) + i] = t[i] /\ Len(s) + i \in 1..(Len(s) + Len(t))
    OBVIOUS
  <1>4. \A i \in 1..(Len(s) + Len(t)) : i \in 1..Len(s) \/ \E j \in 1..Len(t) : i = Len(s) + j
    <2> SUFFICES ASSUME NEW i \in 1..(Len(s) + Len(t)), i \notin 1..Len(s)
                 PROVE  \E j \in 1..Len(t) : i = Len(s) + j
      OBVIOUS
    <2>1. i - Len(s) \in 1..Len(t) /\ i = Len(s) + (i - Len(s))
      BY <1>1
    <2>2. QED BY <2>1
  <1> HIDE DEF u
  <1>5. Range(u) = Range(s) \union Range(t)
    <2>1. \A i \in 1..Len(s) : s[i] \in Range(u)
      BY <1>1, <1>2 DEF Range
    <2>2. \A i \in 1..Len(t) : t[i] \in Range(u)
      BY <1>1, <1>3 DEF Range
    <2>3. \A i \in DOMAIN u : u[i] \in Range(s) \union Range(t)
      <3> SUFFICES ASSUME NEW i \in 1..(Len(s) + Len(t)) PROVE u[i] \in Range(s) \union Range(t)
        BY <1>1
      <3>1. CASE i \in 1..Len(s)
        BY <1>1, <1>2, <3>1 DEF Range
      <3>2. CASE i \notin 1..Len(s)
        <4>1. PICK j \in 1..Len(t) : i = Len(s) + j
          BY <1>4, <3>2
        <4>2. u[i] = t[j]
          BY <1>3, <4>1
        <4>3. QED BY <1>1, <4>2 DEF Range
      <3>3. QED BY <3>1, <3>2
    <2>4. Range(u) = {u[i] : i \in DOMAIN u} /\ Range(s) = {s[i] : i \in 1..Len(s)} /\ Range(t) = {t[i] : i \in 1..Len(t)}
      BY <1>1 DEF Range
    <2>5. QED BY <2>1, <2>2, <2>3, <2>4
  <1>6. QED BY <1>5 DEF u

LEMMA AscendingConcat ==
  ASSUME NEW S, S \subseteq Nat, NEW s \in Seq(S), NEW t \in Seq(S), Ascends(s), Ascends(t),
         \A i \in 1..Len(s), j \in 1..Len(t) : s[i] < t[j]
  PROVE  Ascends(s \o t)
  <1> DEFINE u == s \o t
             n == Len(s)
  <1>1. /\ n \in Nat /\ Len(t) \in Nat /\ DOMAIN s = 1..n /\ DOMAIN t = 1..Len(t)
        /\ DOMAIN u = 1..(n + Len(t))
    OBVIOUS
  <1>2. \A i \in 1..n : u[i] = s[i]
    OBVIOUS
  <1>3. \A i \in 1..(n + Len(t)) : i > n => i - n \in 1..Len(t) /\ u[i] = t[i - n]
    OBVIOUS
  <1> HIDE DEF u, n
  <1>4. ASSUME NEW i \in 1..(n + Len(t)), NEW j \in 1..(n + Len(t)), i < j PROVE u[i] < u[j]
    <2>1. CASE j <= n
      <3>1. i \in 1..n /\ j \in 1..n
        BY <1>1, <1>4, <2>1
      <3>2. QED BY <1>1, <1>2, <1>4, <3>1 DEF Ascends
    <2>2. CASE i <= n /\ j > n
      <3>1. i \in 1..n
        BY <1>1, <2>2
      <3>2. QED BY <1>2, <1>3, <2>2, <3>1 DEF n
    <2>3. CASE i > n
      <3>1. j > n /\ i - n < j - n
        BY <1>1, <1>4, <2>3
      <3>2. i - n \in DOMAIN t /\ j - n \in DOMAIN t
        BY <1>1, <1>3, <2>3, <3>1
      <3>3. QED BY <1>3, <2>3, <3>1, <3>2 DEF Ascends
    <2>4. QED BY <1>1, <2>1, <2>2, <2>3
  <1>5. Ascends(u)
    BY <1>1, <1>4 DEF Ascends
  <1>6. QED BY <1>5 DEF u
=============================================================================
