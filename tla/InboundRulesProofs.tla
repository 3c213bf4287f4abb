------------------------- MODULE InboundRulesProofs -------------------------
(***************************************************************************)
(* Proofs about the inbound rules of a Jwker, for any number of            *)
(* applications, namespaces, labels, rules and clients, and any number of  *)
(* events.                                                                 *)
(***************************************************************************)
EXTENDS InboundRules, FiniteSetTheorems, TLAPS

-----------------------------------------------------------------------------
(* Least elements, which stand in for induction. *)

LEMMA LeastElement ==
  ASSUME NEW S \in SUBSET Nat, S # {}
  PROVE  \E x \in S : \A y \in S : x <= y
<1> DEFINE R == OpToRel(<, Nat)
<1>1. IsWellFoundedOn(R, Nat)
  BY NatLessThanWellFounded, Zenon
<1>2. \A x, y \in Nat : y < x => <<y, x>> \in R
  BY DEF OpToRel
<1> HIDE DEF R
<1>3. PICK x \in S : \A y \in S : ~(<<y, x>> \in R)
  BY <1>1, WFMin
<1>4. ASSUME NEW y \in S PROVE x <= y
  <2>1. ~(y < x)
    BY <1>2, <1>3, <1>4
  <2> QED
    BY <2>1, <1>4
<1> QED
  BY <1>4

-----------------------------------------------------------------------------
(* Lists of namespaces. *)

\* A sequence that lists a finite set once lists all of it.
LEMMA ListsAll ==
  ASSUME NEW S, IsFiniteSet(S), NEW list \in SetToSeqs(S)
  PROVE  /\ list \in Seq(S) /\ ToSet(list) = S /\ Len(list) = Cardinality(S)
         /\ \A i, j \in 1..Cardinality(S) : list[i] = list[j] => i = j
<1> DEFINE n == Cardinality(S)
<1>1. n \in Nat
  BY FS_CardinalityType
<1>2. list \in [1..n -> S] /\ \A i, j \in 1..n : list[i] = list[j] => i = j
  BY DEF SetToSeqs
<1> HIDE DEF n
<1>3. list \in Injection(1..n, S)
  BY <1>2 DEF Injection, IsInjective
<1>4. Cardinality(1..n) = n /\ IsFiniteSet(1..n)
  BY <1>1, FS_Interval
<1>5. list \in Surjection(1..n, S)
  BY <1>3, <1>4, FS_Injection DEF n
<1>6. \A x \in S : \E i \in 1..n : list[i] = x
  BY <1>5 DEF Surjection
<1>7. ToSet(list) = S
  BY <1>2, <1>6 DEF ToSet
<1>8. list \in Seq(S) /\ Len(list) = n
  BY <1>1, <1>2
<1> QED
  BY <1>2, <1>7, <1>8 DEF n

\* There is only one way to list a set in order.
LEMMA OneSortedList ==
  ASSUME NEW S \in SUBSET Nat, IsFiniteSet(S), NEW f \in SetToSeqs(S), NEW g \in SetToSeqs(S),
         Ascending(f), Ascending(g)
  PROVE  f = g
<1> DEFINE n == Cardinality(S)
           D == {i \in 1..n : f[i] # g[i]}
<1>1. /\ f \in [1..n -> S] /\ g \in [1..n -> S]
      /\ ToSet(f) = S /\ ToSet(g) = S /\ n \in Nat
  BY ListsAll, FS_CardinalityType DEF SetToSeqs
<1>2. \A x \in S : (\E i \in 1..n : f[i] = x) /\ (\E i \in 1..n : g[i] = x)
  BY <1>1 DEF ToSet
<1>3. /\ \A i, j \in 1..n : i < j => f[i] < f[j]
      /\ \A i, j \in 1..n : i < j => g[i] < g[j]
  <2>1. DOMAIN f = 1..n /\ DOMAIN g = 1..n
    BY <1>1
  <2> HIDE DEF n
  <2> QED
    BY <2>1 DEF Ascending
<1> HIDE DEF n
<1>4. ASSUME D # {} PROVE FALSE
  <2>1. PICK i \in D : \A k \in D : i <= k
    <3>1. D \in SUBSET Nat
      BY <1>1
    <3> HIDE DEF D
    <3> QED
      BY <1>4, <3>1, LeastElement
  <2>2. i \in 1..n /\ f[i] # g[i] /\ \A k \in 1..n : k < i => f[k] = g[k]
    BY <2>1
  <2>3. f[i] \in Nat /\ g[i] \in Nat /\ f[i] \in S /\ g[i] \in S
    BY <1>1, <2>2
  <2>4. CASE f[i] < g[i]
    <3>1. PICK j \in 1..n : g[j] = f[i]
      BY <1>2, <2>3
    <3>2. CASE j < i
      <4>1. f[j] = f[i] /\ f[j] < f[i]
        BY <1>3, <2>2, <3>1, <3>2
      <4> QED
        BY <2>3, <4>1
    <3>3. CASE j = i
      BY <2>2, <3>1, <3>3
    <3>4. CASE i < j
      <4>1. g[i] < g[j]
        BY <1>3, <2>2, <3>4
      <4> QED
        BY <2>3, <2>4, <3>1, <4>1
    <3> QED
      BY <2>2, <3>1, <3>2, <3>3, <3>4
  <2>5. CASE g[i] < f[i]
    <3>1. PICK j \in 1..n : f[j] = g[i]
      BY <1>2, <2>3
    <3>2. CASE j < i
      <4>1. g[j] = g[i] /\ g[j] < g[i]
        BY <1>3, <2>2, <3>1, <3>2
      <4> QED
        BY <2>3, <4>1
    <3>3. CASE j = i
      BY <2>2, <3>1, <3>3
    <3>4. CASE i < j
      <4>1. f[i] < f[j]
        BY <1>3, <2>2, <3>4
      <4> QED
        BY <2>3, <2>5, <3>1, <4>1
    <3> QED
      BY <2>2, <3>1, <3>2, <3>3, <3>4
  <2> QED
    BY <2>2, <2>3, <2>4, <2>5
<1> QED
  BY <1>1, <1>4

SortedLists(S) == {list \in SetToSeqs(S) : Ascending(list)}

\* A sorted list of namespaces holds them all, and there is but one.
LEMMA SortedList ==
  ASSUME NEW S \in SUBSET Namespace, NEW list \in SortedLists(S)
  PROVE  /\ list \in Seq(Namespace)
         /\ ToSet(list) = S
         /\ \A other \in SortedLists(S) : other = list
<1>1. S \in SUBSET Nat /\ IsFiniteSet(S)
  BY InboundAssumption, FS_Subset
<1>2. list \in Seq(S) /\ ToSet(list) = S
  BY <1>1, ListsAll DEF SortedLists
<1>3. Len(list) \in Nat /\ list \in [1..Len(list) -> Namespace]
  BY <1>2
<1>4. list \in Seq(Namespace)
  BY <1>3
<1> QED
  BY <1>1, <1>2, <1>4, OneSortedList DEF SortedLists

\* The list of one namespace is sorted.
LEMMA ListOfOne ==
  ASSUME NEW ns
  PROVE  <<ns>> \in SortedLists({ns})
<1>1. Cardinality({ns}) = 1
  BY FS_Singleton
<1>2. 1..1 = {1}
  OBVIOUS
<1>3. <<ns>> \in SetToSeqs({ns})
  BY <1>1, <1>2 DEF SetToSeqs
<1>4. DOMAIN <<ns>> = {1}
  OBVIOUS
<1>5. Ascending(<<ns>>)
  BY <1>4 DEF Ascending
<1> QED
  BY <1>3, <1>5 DEF SortedLists

\* A rule stands for namespaces.
LEMMA StandsForNamespaces ==
  ASSUME NEW labels \in [Label -> SUBSET Namespace], NEW rule \in InternalRule
  PROVE  Stands(labels, rule) \in SUBSET Namespace
BY InboundAssumption DEF Stands, InternalRule

\* getNamespaceListForInboundRule returns the sorted list of the namespaces that
\* the rule stands for.
LEMMA NamespaceList ==
  ASSUME NEW rule \in InternalRule, NEW list \in GetNamespaceListForInboundRule(rule)
  PROVE  list \in SortedLists(Stands(labelled, rule))
<1>1. CASE rule.namespace # Nil
  <2>1. list = <<rule.namespace>> /\ Stands(labelled, rule) = {rule.namespace}
    BY <1>1 DEF GetNamespaceListForInboundRule, Stands
  <2> QED
    BY <2>1, ListOfOne
<1>2. CASE rule.namespace = Nil /\ rule.label = Nil
  <2>1. list = <<Own>> /\ Stands(labelled, rule) = {Own}
    BY <1>2 DEF GetNamespaceListForInboundRule, Stands
  <2> QED
    BY <2>1, ListOfOne
<1>3. CASE rule.namespace = Nil /\ rule.label # Nil
  BY <1>3 DEF GetNamespaceListForInboundRule, GetNamespacesByLabel, Stands, SortedLists
<1> QED
  BY <1>1, <1>2, <1>3

\* UniqueSliceElements returns every element of the slice exactly once.
LEMMA UniqueElements ==
  ASSUME NEW T, NEW slice \in Seq(T)
  PROVE  /\ UniqueSliceElements(slice) \in Seq(T)
         /\ ToSet(UniqueSliceElements(slice)) = ToSet(slice)
         /\ Len(UniqueSliceElements(slice)) = Cardinality(ToSet(slice))
<1> DEFINE L == Len(slice)
           new == {k \in DOMAIN slice : \A j \in 1..(k - 1) : slice[j] # slice[k]}
           N == Cardinality(new)
           upTo(k) == {j \in new : j <= k}
           rank == [k \in new |-> Cardinality(upTo(k))]
           at == [n \in 1..N |-> CHOOSE k \in new : Cardinality(upTo(k)) = n]
           u == UniqueSliceElements(slice)
<1>1. L \in Nat /\ slice \in [1..L -> T] /\ DOMAIN slice = 1..L
  OBVIOUS
<1>2. /\ new \subseteq 1..L
      /\ \A k \in 1..L : k \in new <=> \A j \in 1..(k - 1) : slice[j] # slice[k]
  BY <1>1
<1>3. u = [n \in 1..N |-> slice[CHOOSE k \in new : Cardinality(upTo(k)) = n]]
  BY DEF UniqueSliceElements
<1> HIDE DEF L, new, u
<1>4. IsFiniteSet(new) /\ N \in Nat
  <2>1. IsFiniteSet(1..L)
    BY <1>1, FS_Interval
  <2>2. IsFiniteSet(new)
    BY <1>2, <2>1, FS_Subset
  <2> QED
    BY <2>2, FS_CardinalityType
<1> HIDE DEF N
<1>4a. new \subseteq Nat
  BY <1>1, <1>2
<1>5. ASSUME NEW k \in new
      PROVE  /\ IsFiniteSet(upTo(k)) /\ Cardinality(upTo(k)) \in Nat
             /\ Cardinality(upTo(k)) \in 1..N
  <2>1. upTo(k) \in SUBSET new
    OBVIOUS
  <2>2. k \in upTo(k)
    BY <1>1, <1>2
  <2> HIDE DEF upTo
  <2>3. IsFiniteSet(upTo(k)) /\ Cardinality(upTo(k)) <= N
    BY <1>4, <2>1, FS_Subset DEF N
  <2>4. Cardinality(upTo(k)) \in Nat
    BY <2>3, FS_CardinalityType
  <2>5. Cardinality(upTo(k)) # 0
    BY <2>2, <2>3, FS_EmptySet
  <2> QED
    BY <1>4, <2>3, <2>4, <2>5
<1>6. ASSUME NEW k \in new, NEW l \in new, k < l
      PROVE  Cardinality(upTo(k)) # Cardinality(upTo(l))
  <2>1. upTo(k) \in SUBSET upTo(l)
    <3>1. \A j \in new : j <= k => j <= l
      BY <1>4a, <1>6
    <3> QED
      BY <3>1
  <2>2. l \in upTo(l) /\ l \notin upTo(k)
    BY <1>1, <1>2, <1>6
  <2> HIDE DEF upTo
  <2> QED
    BY <1>5, <2>1, <2>2, FS_Subset
<1>7. rank \in [new -> 1..N]
  BY <1>5
<1>8. \A k, l \in new : rank[k] = rank[l] => k = l
  <2> SUFFICES ASSUME NEW k \in new, NEW l \in new, rank[k] = rank[l] PROVE k = l
    OBVIOUS
  <2>1. Cardinality(upTo(k)) = Cardinality(upTo(l))
    OBVIOUS
  <2>2. k \in Nat /\ l \in Nat
    BY <1>1, <1>2
  <2> HIDE DEF upTo, rank
  <2> QED
    BY <1>6, <2>1, <2>2
<1>9. u = [n \in 1..N |-> slice[at[n]]]
  BY <1>3
<1>9a. \A k \in new : rank[k] = Cardinality(upTo(k))
  OBVIOUS
<1> HIDE DEF rank, upTo
<1>10. \A n \in 1..N : \E k \in new : rank[k] = n
  <2>1. rank \in Injection(new, 1..N)
    BY <1>7, <1>8 DEF Injection, IsInjective
  <2>2. IsFiniteSet(1..N) /\ Cardinality(1..N) = N
    BY <1>4, FS_Interval
  <2>3. rank \in Surjection(new, 1..N)
    BY <2>1, <2>2, FS_Injection DEF N
  <2> QED
    BY <2>3 DEF Surjection
<1>11. \A n \in 1..N : at[n] \in new /\ rank[at[n]] = n
  BY <1>10, <1>9a
<1>12. \A k \in new : at[rank[k]] = k
  BY <1>7, <1>8, <1>11
<1>13. at \in [1..N -> new]
  BY <1>11
<1> HIDE DEF at
<1>14. \A k, l \in new : slice[k] = slice[l] => k = l
  <2> SUFFICES ASSUME NEW k \in new, NEW l \in new, slice[k] = slice[l], k # l PROVE FALSE
    OBVIOUS
  <2>1. k \in 1..L /\ l \in 1..L
    BY <1>2
  <2>2. CASE k < l
    <3>1. k \in 1..(l - 1)
      BY <1>1, <2>1, <2>2
    <3> QED
      BY <1>2, <2>1, <3>1
  <2>3. CASE l < k
    <3>1. l \in 1..(k - 1)
      BY <1>1, <2>1, <2>3
    <3> QED
      BY <1>2, <2>1, <3>1
  <2> QED
    BY <1>1, <2>1, <2>2, <2>3
<1>15. ASSUME NEW i \in 1..L
       PROVE  \E k \in new : slice[k] = slice[i]
  <2> DEFINE same == {j \in 1..L : slice[j] = slice[i]}
  <2>1. same \in SUBSET Nat /\ same # {}
    BY <1>1
  <2>2. \A j \in same : j \in 1..L /\ slice[j] = slice[i]
    OBVIOUS
  <2>3. \A j \in 1..L : slice[j] = slice[i] => j \in same
    OBVIOUS
  <2> HIDE DEF same
  <2>4. PICK k \in same : \A j \in same : k <= j
    BY <2>1, LeastElement
  <2>5. ASSUME NEW j \in 1..(k - 1) PROVE slice[j] # slice[k]
    <3>1. j \in 1..L /\ j < k
      BY <1>1, <2>2, <2>4
    <3>2. j \notin same
      BY <1>1, <2>2, <2>4, <3>1
    <3> QED
      BY <2>2, <2>3, <2>4, <3>1, <3>2
  <2> QED
    BY <1>2, <2>2, <2>4, <2>5
<1>16. ToSet(slice) = {slice[k] : k \in new}
  BY <1>1, <1>2, <1>15 DEF ToSet
<1>17. ToSet(u) = {slice[k] : k \in new}
  <2>1. ToSet(u) = {slice[at[n]] : n \in 1..N}
    BY <1>9 DEF ToSet
  <2> QED
    BY <1>7, <1>12, <1>13, <2>1
<1>18. u \in [1..N -> T] /\ u \in Seq(T) /\ Len(u) = N
  <2>1. \A n \in 1..N : slice[at[n]] \in T
    BY <1>1, <1>2, <1>13
  <2>2. u \in [1..N -> T]
    BY <1>9, <2>1
  <2> QED
    BY <1>4, <2>2
<1>19. N = Cardinality(ToSet(slice))
  <2> DEFINE f == [k \in new |-> slice[k]]
             R == {slice[k] : k \in new}
  <2>1. f \in Bijection(new, R)
    BY <1>14 DEF Bijection, Injection, Surjection, IsInjective
  <2>2. Cardinality(R) = Cardinality(new)
    BY <1>4, <2>1, FS_Bijection DEF ExistsBijection
  <2> QED
    BY <1>16, <2>2 DEF N
<1> QED
  BY <1>16, <1>17, <1>18, <1>19 DEF u

-----------------------------------------------------------------------------
(* What a pass resolves. *)

Expanded(rule, list) == [k \in DOMAIN list |-> Rule(rule.application, list[k])]

\* h is what the loop has gathered after each of the first n rules.
Chain(labels, h, inh, n) ==
  /\ h \in [0..n -> Seq(InboundRule)]
  /\ h[0] = <<>>
  /\ \A j \in 1..n : \E list \in SortedLists(Stands(labels, inh[j])) :
       h[j] = h[j - 1] \o Expanded(inh[j], list)

\* With these labels, the first n rules are resolved to these.
Resolves(labels, inh, n, rules) == \E h : Chain(labels, h, inh, n) /\ rules = h[n]

\* The rules that they call for.
Calls(labels, rule) == {Rule(rule.application, ns) : ns \in Stands(labels, rule)}

Covers(labels, inh, n) == UNION {Calls(labels, inh[j]) : j \in 1..n}

LEMMA ExpandedList ==
  ASSUME NEW labels \in [Label -> SUBSET Namespace], NEW rule \in InternalRule,
         NEW list \in SortedLists(Stands(labels, rule))
  PROVE  /\ Expanded(rule, list) \in Seq(InboundRule)
         /\ ToSet(Expanded(rule, list)) = Calls(labels, rule)
<1>1. list \in Seq(Namespace) /\ ToSet(list) = Stands(labels, rule)
  BY StandsForNamespaces, SortedList
<1>2. Len(list) \in Nat /\ DOMAIN list = 1..Len(list) /\ \A k \in 1..Len(list) : list[k] \in Namespace
  BY <1>1
<1>3. \A ns \in Namespace : Rule(rule.application, ns) \in InboundRule
  BY DEF Rule, InboundRule, InternalRule
<1>4. Expanded(rule, list) \in [1..Len(list) -> InboundRule]
  BY <1>2, <1>3 DEF Expanded
<1>5. Expanded(rule, list) \in Seq(InboundRule)
  BY <1>2, <1>4
<1>6. ToSet(Expanded(rule, list)) = {Rule(rule.application, ns) : ns \in ToSet(list)}
  BY <1>2 DEF Expanded, ToSet
<1> QED
  BY <1>1, <1>5, <1>6 DEF Calls

\* The elements of two sequences in a row.
LEMMA ConcatElements ==
  ASSUME NEW T, NEW s \in Seq(T), NEW t \in Seq(T)
  PROVE  s \o t \in Seq(T) /\ ToSet(s \o t) = ToSet(s) \cup ToSet(t)
<1> DEFINE st == s \o t
<1>1. /\ Len(s) \in Nat /\ Len(t) \in Nat
      /\ DOMAIN s = 1..Len(s) /\ DOMAIN t = 1..Len(t)
      /\ st \in Seq(T) /\ DOMAIN st = 1..(Len(s) + Len(t))
  OBVIOUS
<1>2. \A k \in 1..Len(s) : st[k] = s[k]
  OBVIOUS
<1>3. \A k \in 1..Len(t) : st[Len(s) + k] = t[k]
  OBVIOUS
<1> HIDE DEF st
<1>4. ASSUME NEW k \in DOMAIN st PROVE st[k] \in ToSet(s) \cup ToSet(t)
  <2>1. CASE k <= Len(s)
    BY <1>1, <1>2, <2>1 DEF ToSet
  <2>2. CASE ~ k <= Len(s)
    <3>1. k - Len(s) \in 1..Len(t) /\ Len(s) + (k - Len(s)) = k
      BY <1>1, <2>2
    <3> QED
      BY <1>1, <1>3, <3>1 DEF ToSet
  <2> QED
    BY <2>1, <2>2
<1>5. (\A k \in 1..Len(s) : k \in DOMAIN st) /\ \A k \in 1..Len(t) : Len(s) + k \in DOMAIN st
  BY <1>1
<1>6. ToSet(s) \subseteq ToSet(st)
  BY <1>1, <1>2, <1>5 DEF ToSet
<1>7. ToSet(t) \subseteq ToSet(st)
  BY <1>1, <1>3, <1>5 DEF ToSet
<1>8. ToSet(st) \subseteq ToSet(s) \cup ToSet(t)
  BY <1>4 DEF ToSet
<1>9. st \in Seq(T) /\ ToSet(st) = ToSet(s) \cup ToSet(t)
  BY <1>1, <1>6, <1>7, <1>8
<1> QED
  BY <1>9 DEF st

\* As long as labels, rules and policy are the same, so is the result.
LEMMA ResolvesOnce ==
  ASSUME NEW labels \in [Label -> SUBSET Namespace], NEW inh \in Seq(InternalRule),
         NEW n \in 0..Len(inh), NEW p, NEW q, Resolves(labels, inh, n, p), Resolves(labels, inh, n, q)
  PROVE  p = q
<1>1. PICK h : Chain(labels, h, inh, n) /\ p = h[n]
  BY DEF Resolves
<1>2. PICK g : Chain(labels, g, inh, n) /\ q = g[n]
  BY DEF Resolves
<1> DEFINE D == {j \in 0..n : h[j] # g[j]}
<1>3. n \in Nat /\ Len(inh) \in Nat
  OBVIOUS
<1>4. ASSUME D # {} PROVE FALSE
  <2>1. D \in SUBSET Nat
    BY <1>3
  <2>2. \A j \in 0..n : j \in D <=> h[j] # g[j]
    OBVIOUS
  <2>3. D \subseteq 0..n
    OBVIOUS
  <2> HIDE DEF D
  <2>4. PICK j \in D : \A k \in D : j <= k
    BY <1>4, <2>1, LeastElement
  <2>5. j # 0
    BY <1>1, <1>2, <2>2, <2>3, <2>4 DEF Chain
  <2>6. j \in 1..n /\ j - 1 \in 0..n /\ j - 1 < j /\ j \in 1..Len(inh)
    BY <1>3, <2>1, <2>3, <2>4, <2>5
  <2>7. j - 1 \notin D
    BY <2>1, <2>4, <2>6
  <2>8. h[j - 1] = g[j - 1]
    BY <2>2, <2>6, <2>7
  <2>9. inh[j] \in InternalRule
    BY <2>6
  <2>10. PICK l1 \in SortedLists(Stands(labels, inh[j])) :
           h[j] = h[j - 1] \o Expanded(inh[j], l1)
    BY <1>1, <2>6 DEF Chain
  <2>11. PICK l2 \in SortedLists(Stands(labels, inh[j])) :
           g[j] = g[j - 1] \o Expanded(inh[j], l2)
    BY <1>2, <2>6 DEF Chain
  <2>12. l1 = l2
    BY <2>9, StandsForNamespaces, SortedList
  <2>13. h[j] = g[j]
    BY <2>8, <2>10, <2>11, <2>12
  <2>14. j \in 0..n
    BY <2>3, <2>4
  <2> QED
    BY <2>2, <2>4, <2>13, <2>14
<1> QED
  BY <1>1, <1>2, <1>3, <1>4

\* Before the first rule.
LEMMA ResolvesNothing ==
  ASSUME NEW labels, NEW inh
  PROVE  Resolves(labels, inh, 0, <<>>) /\ Covers(labels, inh, 0) = {}
<1> DEFINE h == [j \in 0..0 |-> <<>>]
<1>1. h \in [0..0 -> Seq(InboundRule)] /\ h[0] = <<>>
  OBVIOUS
<1> HIDE DEF h
<1>2. Chain(labels, h, inh, 0)
  BY <1>1 DEF Chain
<1>3. Covers(labels, inh, 0) = {}
  BY DEF Covers
<1> QED
  BY <1>1, <1>2, <1>3 DEF Resolves

\* One rule more.
LEMMA ResolvesNext ==
  ASSUME NEW labels \in [Label -> SUBSET Namespace], NEW inh \in Seq(InternalRule),
         NEW n \in 1..Len(inh), NEW rules, Resolves(labels, inh, n - 1, rules),
         ToSet(rules) = Covers(labels, inh, n - 1),
         NEW list \in SortedLists(Stands(labels, inh[n]))
  PROVE  /\ rules \in Seq(InboundRule)
         /\ rules \o Expanded(inh[n], list) \in Seq(InboundRule)
         /\ Resolves(labels, inh, n, rules \o Expanded(inh[n], list))
         /\ ToSet(rules \o Expanded(inh[n], list)) = Covers(labels, inh, n)
<1> DEFINE more == Expanded(inh[n], list)
           next == rules \o more
<1>1. PICK h : Chain(labels, h, inh, n - 1) /\ rules = h[n - 1]
  BY DEF Resolves
<1>2. n \in Nat /\ n # 0 /\ Len(inh) \in Nat /\ inh[n] \in InternalRule
  OBVIOUS
<1>3. rules \in Seq(InboundRule)
  BY <1>1, <1>2 DEF Chain
<1>4. /\ more \in Seq(InboundRule)
      /\ ToSet(more) = Calls(labels, inh[n])
  BY <1>2, ExpandedList
<1>5. next = h[n - 1] \o Expanded(inh[n], list)
  BY <1>1
<1> HIDE DEF more
<1>6. next \in Seq(InboundRule)
  BY <1>3, <1>4
<1>7. ToSet(next) = ToSet(rules) \cup ToSet(more)
  BY <1>3, <1>4, ConcatElements
<1>8. Covers(labels, inh, n) = Covers(labels, inh, n - 1) \cup ToSet(more)
  <2>1. 1..n = 1..(n - 1) \cup {n}
    BY <1>2
  <2> QED
    BY <1>4, <2>1 DEF Covers
<1>9. Resolves(labels, inh, n, next)
  <2> DEFINE g == [j \in 0..n |-> IF j = n THEN next ELSE h[j]]
  <2>1. \A j \in 0..n : j # n => j \in 0..(n - 1)
    BY <1>2
  <2>2. h \in [0..(n - 1) -> Seq(InboundRule)] /\ h[0] = <<>>
    BY <1>1 DEF Chain
  <2> HIDE DEF next
  <2>3. g \in [0..n -> Seq(InboundRule)]
    BY <1>6, <2>1, <2>2
  <2>4. g[0] = <<>> /\ g[n] = next /\ g[n - 1] = h[n - 1]
    BY <1>2, <2>2
  <2>5. ASSUME NEW j \in 1..n
        PROVE  \E l \in SortedLists(Stands(labels, inh[j])) :
                 g[j] = g[j - 1] \o Expanded(inh[j], l)
    <3>1. CASE j = n
      BY <1>5, <2>4, <3>1 DEF next
    <3>2. CASE j # n
      <4>1. j \in 1..(n - 1) /\ g[j] = h[j] /\ g[j - 1] = h[j - 1]
        BY <1>2, <3>2
      <4> QED
        BY <1>1, <4>1 DEF Chain
    <3> QED
      BY <3>1, <3>2
  <2> HIDE DEF g
  <2>6. Chain(labels, g, inh, n)
    BY <2>3, <2>4, <2>5 DEF Chain
  <2> QED
    BY <2>4, <2>6 DEF Resolves
<1> QED
  BY <1>3, <1>6, <1>7, <1>8, <1>9 DEF more

-----------------------------------------------------------------------------
(* What the Jwker is to be, as a function of labels, Application and policy. *)

ClientsOf(policy) == IF policy = Nil THEN <<>> ELSE policy.clients

ClientRules(policy) ==
  [k \in DOMAIN ClientsOf(policy) |-> ClientRule(ClientsOf(policy)[k])]

Inherited(rules, policy) == IF policy # Nil /\ policy.inherit THEN rules ELSE <<>>

\* What a pass writes that nothing disturbs.
Written(labels, appRules, policy, j) ==
  LET inh == Inherited(appRules, policy) IN
  \E rules : /\ Resolves(labels, inh, Len(inh), rules)
             /\ ToSet(rules) = Covers(labels, inh, Len(inh))
             /\ j = UniqueSliceElements(rules \o ClientRules(policy))

LEMMA ClientRulesType ==
  ASSUME NEW policy \in Policies
  PROVE  /\ ClientRules(policy) \in Seq(InboundRule)
         /\ ToSet(ClientRules(policy)) =
              IF policy = Nil THEN {} ELSE {ClientRule(c) : c \in ToSet(policy.clients)}
<1> DEFINE cs == ClientsOf(policy)
<1>1. cs \in Seq(Client)
  BY InboundAssumption DEF ClientsOf
<1>2. ClientRules(policy) = [k \in DOMAIN cs |-> ClientRule(cs[k])]
  BY DEF ClientRules
<1>2a. policy = Nil => cs = <<>>
  BY DEF ClientsOf
<1>2b. policy # Nil => cs = policy.clients
  BY DEF ClientsOf
<1> HIDE DEF cs
<1>3. Len(cs) \in Nat /\ DOMAIN cs = 1..Len(cs) /\ \A k \in 1..Len(cs) : cs[k] \in Client
  BY <1>1
<1>4. \A c \in Client : ClientRule(c) \in InboundRule
  <2> SUFFICES ASSUME NEW c \in Client PROVE ClientRule(c) \in InboundRule
    OBVIOUS
  <2>1. /\ c.application \in Application
        /\ (IF c.namespace = Nil THEN Own ELSE c.namespace) \in Namespace
    BY InboundAssumption DEF Client
  <2> QED
    BY <2>1 DEF ClientRule, Rule, InboundRule
<1>5. ClientRules(policy) \in [1..Len(cs) -> InboundRule]
  BY <1>2, <1>3, <1>4
<1>6. ClientRules(policy) \in Seq(InboundRule)
  BY <1>3, <1>5
<1>7. ToSet(ClientRules(policy)) = {ClientRule(c) : c \in ToSet(cs)}
  BY <1>2, <1>3 DEF ToSet
<1>8. policy = Nil => ToSet(cs) = {}
  BY <1>2a DEF ToSet
<1> QED
  BY <1>2b, <1>6, <1>7, <1>8

LEMMA InheritedType ==
  ASSUME NEW rules \in AppRules, NEW policy \in Policies
  PROVE  /\ Inherited(rules, policy) \in AppRules \cup {<<>>}
         /\ Inherited(rules, policy) \in Seq(InternalRule)
         /\ Len(Inherited(rules, policy)) \in Nat
<1>1. rules \in Seq(InternalRule) /\ <<>> \in Seq(InternalRule)
  BY InboundAssumption
<1>2. /\ Inherited(rules, policy) \in AppRules \cup {<<>>}
      /\ Inherited(rules, policy) \in Seq(InternalRule)
  BY <1>1 DEF Inherited
<1> QED
  BY <1>2

\* It is one value, however namespaces are listed.
LEMMA WrittenOnce ==
  ASSUME NEW labels \in [Label -> SUBSET Namespace], NEW rules \in AppRules,
         NEW policy \in Policies, NEW j, NEW k,
         Written(labels, rules, policy, j), Written(labels, rules, policy, k)
  PROVE  j = k
<1> DEFINE inh == Inherited(rules, policy)
<1>1. inh \in Seq(InternalRule) /\ Len(inh) \in 0..Len(inh)
  BY InheritedType
<1>2. PICK p : /\ Resolves(labels, inh, Len(inh), p)
               /\ j = UniqueSliceElements(p \o ClientRules(policy))
  BY DEF Written
<1>3. PICK q : /\ Resolves(labels, inh, Len(inh), q)
               /\ k = UniqueSliceElements(q \o ClientRules(policy))
  BY DEF Written
<1> HIDE DEF inh
<1>4. p = q
  BY <1>1, <1>2, <1>3, ResolvesOnce
<1> QED
  BY <1>2, <1>3, <1>4

\* It has every rule that is called for, once.
LEMMA WrittenIsCalledFor ==
  ASSUME labelled \in [Label -> SUBSET Namespace], app \in AppRules, tokenx \in TokenX,
         NEW j, Written(labelled, app, tokenx.accessPolicy, j)
  PROVE  /\ j \in Seq(InboundRule)
         /\ ToSet(j) = CalledFor
         /\ Len(j) = Cardinality(CalledFor)
<1> DEFINE policy == tokenx.accessPolicy
           inh == Inherited(app, policy)
<1>1. policy \in Policies
  BY DEF TokenX
<1>2. PICK p : /\ Resolves(labelled, inh, Len(inh), p)
               /\ ToSet(p) = Covers(labelled, inh, Len(inh))
               /\ j = UniqueSliceElements(p \o ClientRules(policy))
  BY DEF Written
<1>3. inh \in Seq(InternalRule) /\ Len(inh) \in Nat
  BY <1>1, InheritedType
<1>4. CalledFor = ToSet(p) \cup ToSet(ClientRules(policy))
  <2>1. CASE policy = Nil
    <3>1. inh = <<>> /\ CalledFor = {}
      BY <2>1 DEF Inherited, CalledFor
    <3>2. ToSet(p) = {}
      BY <1>2, <3>1 DEF Covers
    <3>3. ToSet(ClientRules(policy)) = {}
      BY <1>1, <2>1, ClientRulesType
    <3> QED
      BY <3>1, <3>2, <3>3
  <2>2. CASE policy # Nil /\ ~policy.inherit
    <3>1. inh = <<>> /\ CalledFor = {ClientRule(c) : c \in ToSet(policy.clients)}
      BY <2>2 DEF Inherited, CalledFor
    <3>2. ToSet(p) = {}
      BY <1>2, <3>1 DEF Covers
    <3>3. ToSet(ClientRules(policy)) = {ClientRule(c) : c \in ToSet(policy.clients)}
      BY <1>1, <2>2, ClientRulesType
    <3> QED
      BY <3>1, <3>2, <3>3
  <2>3. CASE policy # Nil /\ policy.inherit
    <3>1. /\ inh = app
          /\ CalledFor = {ClientRule(c) : c \in ToSet(policy.clients)}
                         \cup UNION {Calls(labelled, r) : r \in ToSet(app)}
      BY <2>3 DEF Inherited, CalledFor, Calls
    <3>2. ToSet(p) = UNION {Calls(labelled, app[k]) : k \in 1..Len(app)}
      BY <1>2, <3>1 DEF Covers
    <3>3. ToSet(app) = {app[k] : k \in 1..Len(app)}
      BY <1>3, <3>1 DEF ToSet
    <3>4. ToSet(ClientRules(policy)) = {ClientRule(c) : c \in ToSet(policy.clients)}
      BY <1>1, <2>3, ClientRulesType
    <3>5. UNION {Calls(labelled, r) : r \in ToSet(app)}
            = UNION {Calls(labelled, app[k]) : k \in 1..Len(app)}
      BY <3>3
    <3> QED
      BY <3>1, <3>2, <3>4, <3>5
  <2> QED
    BY <2>1, <2>2, <2>3
<1> HIDE DEF policy, inh
<1>5. p \in Seq(InboundRule)
  <2>1. PICK h : Chain(labelled, h, inh, Len(inh)) /\ p = h[Len(inh)]
    BY <1>2 DEF Resolves
  <2> QED
    BY <1>3, <2>1 DEF Chain
<1> DEFINE all == p \o ClientRules(policy)
<1>6. all \in Seq(InboundRule) /\ ToSet(all) = CalledFor
  BY <1>1, <1>4, <1>5, ClientRulesType, ConcatElements
<1>7. j = UniqueSliceElements(all)
  BY <1>2
<1> HIDE DEF all
<1> QED
  BY <1>6, <1>7, UniqueElements

-----------------------------------------------------------------------------
(* The invariant. *)

PassOK == pass # Nil => pass \in Pass /\ pass.i <= Len(pass.inherited) + 1

\* A pass goes to the Application if there are rules to resolve.
PassShape ==
  pass # Nil => /\ pass.pc = "write" <=> ~pass.tokenx.enabled
                /\ pass.pc = "get" => pass.i = 1 /\ pass.rules = <<>>

\* A pass that nothing has disturbed works from what there is, and has resolved
\* the rules before its place with the labels of the moment.
Faithful ==
  pass # Nil /\ pass.undisturbed =>
    /\ pass.tokenx = tokenx
    /\ pass.pc = "inherit" =>
         /\ app # Nil
         /\ pass.inherited = Inherited(app, tokenx.accessPolicy)
         /\ Resolves(labelled, pass.inherited, pass.i - 1, pass.rules)
         /\ ToSet(pass.rules) = Covers(labelled, pass.inherited, pass.i - 1)

\* As long as nothing has changed, the Jwker is what the last pass wrote.
Outcome ==
  settled => IF tokenx.enabled
             THEN app # Nil /\ Written(labelled, app, tokenx.accessPolicy, jwker)
             ELSE jwker = Nil

\* Whoever is not woken up has missed nothing but labels.
Awake == ~queued /\ ~moved => IF pass = Nil THEN settled ELSE pass.undisturbed

IInv == TypeOK /\ PassShape /\ Faithful /\ Outcome /\ Awake

LEMMA InitInvariant == Init => IInv
<1> SUFFICES ASSUME Init PROVE IInv
  OBVIOUS
<1>0. events \in 0..MaxEvents
  BY InboundAssumption DEF Init
<1>1. TypeOK
  BY <1>0 DEF Init, TypeOK
<1>2. PassShape /\ Faithful /\ Outcome /\ Awake
  BY DEF Init, PassShape, Faithful, Outcome, Awake
<1> QED
  BY <1>1, <1>2 DEF IInv

\* The pass is given up, and is tried again.
LEMMA GivenUp ==
  ASSUME IInv, pass' = Nil, queued' = TRUE, events' \in 0..MaxEvents,
         UNCHANGED <<labelled, app, tokenx, jwker, moved, settled>>
  PROVE  IInv'
<1>1. TypeOK'
  BY DEF IInv, TypeOK
<1>2. PassShape' /\ Faithful' /\ Awake'
  BY DEF PassShape, Faithful, Awake
<1>3. Outcome'
  BY DEF IInv, Outcome
<1> QED
  BY <1>1, <1>2, <1>3 DEF IInv

\* Something changes under the pass.
LEMMA Disturbed ==
  ASSUME IInv, Disturb
  PROVE  /\ PassOK' /\ PassShape' /\ Faithful' /\ Outcome'
         /\ settled' \in BOOLEAN /\ events' \in 0..MaxEvents
<1>1. settled' = FALSE /\ events \in 0..MaxEvents /\ events > 0 /\ events' = events - 1
  BY DEF IInv, TypeOK, Disturb
<1>2. events' \in 0..MaxEvents
  BY <1>1, InboundAssumption
<1>3. Outcome'
  BY <1>1 DEF Outcome
<1>4. CASE pass = Nil
  <2>1. pass' = Nil
    BY <1>4 DEF Disturb
  <2> QED
    BY <1>1, <1>2, <1>3, <2>1 DEF PassOK, PassShape, Faithful
<1>5. CASE pass # Nil
  <2>1. pass \in Pass /\ pass.i <= Len(pass.inherited) + 1 /\ PassShape
    BY <1>5 DEF IInv, TypeOK
  <2>2. pass' = [pass EXCEPT !.undisturbed = FALSE]
    BY <1>5 DEF Disturb
  <2>3. /\ pass' \in Pass /\ pass'.undisturbed = FALSE
        /\ pass'.pc = pass.pc /\ pass'.tokenx = pass.tokenx /\ pass'.i = pass.i
        /\ pass'.rules = pass.rules /\ pass'.inherited = pass.inherited
    BY <2>1, <2>2 DEF Pass
  <2>4. PassOK'
    BY <2>1, <2>3 DEF PassOK
  <2>5. PassShape'
    BY <1>5, <2>1, <2>3 DEF PassShape
  <2>6. Faithful'
    BY <2>3 DEF Faithful
  <2> QED
    BY <1>1, <1>2, <1>3, <2>4, <2>5, <2>6
<1> QED
  BY <1>4, <1>5

LEMMA RelabelStep ==
  ASSUME IInv, NEW label \in Label, NEW namespace \in Namespace, Relabel(label, namespace)
  PROVE  IInv'
<1>1. Disturb /\ moved' = TRUE /\ UNCHANGED <<app, tokenx, jwker, queued>>
  BY DEF Relabel
<1>2. PassOK' /\ PassShape' /\ Faithful' /\ Outcome' /\ settled' \in BOOLEAN /\ events' \in 0..MaxEvents
  BY <1>1, Disturbed
<1>3. Awake'
  BY <1>1 DEF Awake
<1>4. labelled \in [Label -> SUBSET Namespace]
  BY DEF IInv, TypeOK
<1>5. labelled' \in [Label -> SUBSET Namespace]
  BY <1>4 DEF Relabel
<1>6. TypeOK'
  BY <1>1, <1>2, <1>5 DEF IInv, TypeOK, PassOK
<1> QED
  BY <1>2, <1>3, <1>6 DEF IInv

LEMMA ChangeApplicationStep ==
  ASSUME IInv, NEW rules \in AppRules \cup {Nil}, ChangeApplication(rules)
  PROVE  IInv'
<1>1. /\ Disturb /\ queued' = TRUE /\ app' = rules
      /\ UNCHANGED <<labelled, tokenx, jwker, moved>>
  BY DEF ChangeApplication
<1>2. PassOK' /\ PassShape' /\ Faithful' /\ Outcome' /\ settled' \in BOOLEAN /\ events' \in 0..MaxEvents
  BY <1>1, Disturbed
<1>3. Awake'
  BY <1>1 DEF Awake
<1>4. TypeOK'
  BY <1>1, <1>2 DEF IInv, TypeOK, PassOK
<1> QED
  BY <1>2, <1>3, <1>4 DEF IInv

LEMMA EditStep ==
  ASSUME IInv, NEW t \in TokenX, Edit(t)
  PROVE  IInv'
<1>1. /\ Disturb /\ queued' = TRUE /\ tokenx' = t
      /\ UNCHANGED <<labelled, app, jwker, moved>>
  BY DEF Edit
<1>2. PassOK' /\ PassShape' /\ Faithful' /\ Outcome' /\ settled' \in BOOLEAN /\ events' \in 0..MaxEvents
  BY <1>1, Disturbed
<1>3. Awake'
  BY <1>1 DEF Awake
<1>4. TypeOK'
  BY <1>1, <1>2 DEF IInv, TypeOK, PassOK
<1> QED
  BY <1>2, <1>3, <1>4 DEF IInv

LEMMA DriftStep ==
  ASSUME IInv, NEW rules \in {Nil, <<>>}, Drift(rules)
  PROVE  IInv'
<1>1. /\ Disturb /\ queued' = TRUE /\ jwker' = rules
      /\ UNCHANGED <<labelled, app, tokenx, moved>>
  BY DEF Drift
<1>2. PassOK' /\ PassShape' /\ Faithful' /\ Outcome' /\ settled' \in BOOLEAN /\ events' \in 0..MaxEvents
  BY <1>1, Disturbed
<1>3. Awake'
  BY <1>1 DEF Awake
<1>4. jwker' # Nil => jwker' \in Seq(InboundRule)
  <2>1. <<>> \in Seq(InboundRule)
    OBVIOUS
  <2> QED
    BY <1>1, <2>1
<1>5. TypeOK'
  BY <1>1, <1>2, <1>4 DEF IInv, TypeOK, PassOK
<1> QED
  BY <1>2, <1>3, <1>5 DEF IInv

LEMMA RestartStep == ASSUME IInv, Restart PROVE IInv'
<1>1. events' \in 0..MaxEvents
  BY InboundAssumption DEF IInv, TypeOK, Restart
<1> QED
  BY <1>1, GivenUp DEF Restart

LEMMA ListFailsStep == ASSUME IInv, ListFails PROVE IInv'
<1>1. events' \in 0..MaxEvents
  BY InboundAssumption DEF IInv, TypeOK, ListFails
<1> QED
  BY <1>1, GivenUp DEF ListFails, ReturnError

LEMMA WriteFailsStep == ASSUME IInv, WriteFails PROVE IInv'
<1>1. events' \in 0..MaxEvents
  BY InboundAssumption DEF IInv, TypeOK, WriteFails
<1> QED
  BY <1>1, GivenUp DEF WriteFails, ReturnError

LEMMA ResyncStep == ASSUME IInv, Resync PROVE IInv'
<1>1. queued' = TRUE /\ UNCHANGED <<labelled, app, tokenx, jwker, pass, moved, settled, events>>
  BY DEF Resync
<1>2. TypeOK'
  BY <1>1 DEF IInv, TypeOK
<1>3. PassShape' /\ Faithful' /\ Outcome'
  BY <1>1 DEF IInv, PassShape, Faithful, Outcome
<1>4. Awake'
  BY <1>1 DEF Awake
<1> QED
  BY <1>2, <1>3, <1>4 DEF IInv

LEMMA BeginPassStep == ASSUME IInv, BeginPass PROVE IInv'
<1>1. /\ pass' = [pc |-> IF tokenx.enabled THEN "get" ELSE "write", tokenx |-> tokenx,
                  inherited |-> <<>>, i |-> 1, rules |-> <<>>, undisturbed |-> TRUE]
      /\ queued' = FALSE /\ moved' = FALSE
      /\ UNCHANGED <<labelled, app, tokenx, jwker, settled, events>>
  BY DEF BeginPass
<1>2. tokenx \in TokenX /\ tokenx.enabled \in BOOLEAN
  BY DEF IInv, TypeOK, TokenX
<1>3. /\ pass' \in Pass
      /\ pass'.inherited = <<>> /\ pass'.i = 1 /\ pass'.rules = <<>> /\ pass'.tokenx = tokenx
      /\ pass'.pc = IF tokenx.enabled THEN "get" ELSE "write"
      /\ pass'.undisturbed = TRUE
  BY <1>1, <1>2 DEF Pass
<1>4. pass' # Nil
  BY <1>3, PassAssumption
<1>5. Len(<<>>) = 0
  OBVIOUS
<1>6. PassOK'
  BY <1>3, <1>5 DEF PassOK
<1>7. TypeOK'
  BY <1>1, <1>6 DEF IInv, TypeOK, PassOK
<1>8. PassShape'
  BY <1>2, <1>3 DEF PassShape
<1>9. Faithful'
  BY <1>1, <1>3 DEF Faithful
<1>10. Outcome'
  BY <1>1 DEF IInv, Outcome
<1>11. Awake'
  BY <1>3, <1>4 DEF Awake
<1> QED
  BY <1>7, <1>8, <1>9, <1>10, <1>11 DEF IInv

LEMMA GetApplicationStep == ASSUME IInv, GetApplication PROVE IInv'
<1>1. /\ pass # Nil /\ pass.pc = "get"
      /\ UNCHANGED <<labelled, app, tokenx, jwker, moved, settled, events>>
  BY DEF GetApplication, Reconciling
<1>2. CASE app = Nil
  <2>1. pass' = Nil /\ queued' = TRUE
    BY <1>2 DEF GetApplication, ReturnError
  <2>2. events' \in 0..MaxEvents
    BY <1>1 DEF IInv, TypeOK
  <2> QED
    BY <1>1, <2>1, <2>2, GivenUp
<1>3. CASE app # Nil
  <2> DEFINE inh == Inherited(app, pass.tokenx.accessPolicy)
  <2>1. pass' = [pass EXCEPT !.pc = "inherit", !.inherited = inh] /\ queued' = queued
    BY <1>3 DEF GetApplication, Inherited
  <2>2. pass \in Pass /\ PassShape /\ Faithful /\ Outcome /\ Awake
    BY <1>1 DEF IInv, TypeOK
  <2>3. app \in AppRules /\ pass.tokenx.accessPolicy \in Policies
    BY <1>3, <2>2 DEF IInv, TypeOK, Pass, TokenX
  <2>4. inh \in AppRules \cup {<<>>} /\ Len(inh) \in Nat
    BY <2>3, InheritedType
  <2>5. inh = Inherited(app, pass.tokenx.accessPolicy)
    OBVIOUS
  <2> HIDE DEF inh
  <2>6. /\ pass' \in Pass /\ pass'.pc = "inherit" /\ pass'.inherited = inh
        /\ pass'.tokenx = pass.tokenx /\ pass'.i = pass.i /\ pass'.rules = pass.rules
        /\ pass'.undisturbed = pass.undisturbed
    BY <2>1, <2>2, <2>4 DEF Pass
  <2>7. pass'.i = 1 /\ pass'.rules = <<>> /\ pass.tokenx.enabled
    BY <1>1, <2>2, <2>6 DEF PassShape
  <2>8. pass' # Nil
    BY <2>6, PassAssumption
  <2>9. PassOK'
    BY <2>4, <2>6, <2>7 DEF PassOK
  <2>10. TypeOK'
    BY <1>1, <2>1, <2>9 DEF IInv, TypeOK, PassOK
  <2>11. PassShape'
    BY <2>6, <2>7 DEF PassShape
  <2>12. ASSUME pass.undisturbed
         PROVE  /\ pass'.tokenx = tokenx /\ app # Nil
                /\ pass'.inherited = Inherited(app, tokenx.accessPolicy)
                /\ Resolves(labelled, pass'.inherited, pass'.i - 1, pass'.rules)
                /\ ToSet(pass'.rules) = Covers(labelled, pass'.inherited, pass'.i - 1)
    <3>1. pass.tokenx = tokenx
      BY <1>1, <2>2, <2>12 DEF Faithful
    <3>2. pass'.i - 1 = 0 /\ ToSet(<<>>) = {}
      BY <2>7 DEF ToSet
    <3>3. Resolves(labelled, inh, 0, <<>>) /\ Covers(labelled, inh, 0) = {}
      BY ResolvesNothing
    <3> QED
      BY <1>3, <2>5, <2>6, <2>7, <3>1, <3>2, <3>3
  <2>13. Faithful'
    BY <1>1, <2>6, <2>12 DEF Faithful
  <2>14. Outcome'
    BY <1>1, <2>2 DEF Outcome
  <2>15. Awake'
    BY <1>1, <2>1, <2>2, <2>6, <2>8 DEF Awake
  <2> QED
    BY <2>10, <2>11, <2>13, <2>14, <2>15 DEF IInv
<1> QED
  BY <1>2, <1>3

LEMMA InheritStep == ASSUME IInv, Inherit PROVE IInv'
<1> DEFINE inh == pass.inherited
           i == pass.i
           rules == pass.rules
<1>1. /\ pass # Nil /\ pass.pc = "inherit" /\ i <= Len(inh)
      /\ UNCHANGED <<labelled, app, tokenx, jwker, queued, moved, settled, events>>
  BY DEF Inherit, Reconciling
<1>2. PICK list \in GetNamespaceListForInboundRule(inh[i]) :
        pass' = [pass EXCEPT !.i = @ + 1, !.rules = @ \o Expanded(inh[i], list)]
  BY DEF Inherit, Expanded
<1>3. pass \in Pass /\ PassShape /\ Faithful /\ Outcome /\ Awake
  BY <1>1 DEF IInv, TypeOK
<1>4. /\ inh \in AppRules \cup {<<>>} /\ i \in Nat \ {0} /\ rules \in Seq(InboundRule)
      /\ labelled \in [Label -> SUBSET Namespace]
  BY <1>3 DEF IInv, TypeOK, Pass
<1>5. inh \in Seq(InternalRule) /\ Len(inh) \in Nat
  <2>1. \A r \in AppRules : r \in Seq(InternalRule)
    BY InboundAssumption
  <2>2. <<>> \in Seq(InternalRule)
    OBVIOUS
  <2> HIDE DEF inh
  <2>3. inh \in Seq(InternalRule)
    BY <1>4, <2>1, <2>2
  <2> QED
    BY <2>3
<1>6. i \in 1..Len(inh) /\ inh[i] \in InternalRule
  <2> HIDE DEF inh, i
  <2>1. i \in 1..Len(inh)
    BY <1>1, <1>4, <1>5
  <2> QED
    BY <1>5, <2>1
<1> DEFINE more == Expanded(inh[i], list)
           next == rules \o more
<1>7. list \in SortedLists(Stands(labelled, inh[i]))
  BY <1>2, <1>6, NamespaceList
<1>8. more \in Seq(InboundRule)
  BY <1>4, <1>6, <1>7, ExpandedList
<1>9. next \in Seq(InboundRule)
  <2> HIDE DEF rules, more
  <2> QED
    BY <1>4, <1>8
<1>10. pass' = [pass EXCEPT !.i = i + 1, !.rules = next]
  BY <1>2
<1>11. ASSUME Resolves(labelled, inh, i - 1, rules), ToSet(rules) = Covers(labelled, inh, i - 1)
       PROVE  Resolves(labelled, inh, i, next) /\ ToSet(next) = Covers(labelled, inh, i)
  <2> HIDE DEF inh, i, rules
  <2>1. /\ Resolves(labelled, inh, i, rules \o Expanded(inh[i], list))
        /\ ToSet(rules \o Expanded(inh[i], list)) = Covers(labelled, inh, i)
    <3>1. labelled \in [Label -> SUBSET Namespace] /\ inh \in Seq(InternalRule) /\ i \in 1..Len(inh)
      BY <1>4, <1>5, <1>6
    <3>2. list \in SortedLists(Stands(labelled, inh[i]))
      BY <1>7
    <3>3. Resolves(labelled, inh, i - 1, rules)
      BY <1>11
    <3>4. ToSet(rules) = Covers(labelled, inh, i - 1)
      BY <1>11
    <3> QED
      BY <3>1, <3>2, <3>3, <3>4, ResolvesNext, Zenon
  <2> QED
    BY <2>1
<1> HIDE DEF next
<1>12. /\ pass' \in Pass /\ pass'.pc = pass.pc /\ pass'.tokenx = pass.tokenx
       /\ pass'.inherited = inh /\ pass'.i = i + 1 /\ pass'.rules = next
       /\ pass'.undisturbed = pass.undisturbed
  <2> DEFINE k == i + 1
  <2>1. k \in Nat \ {0}
    BY <1>4
  <2>2. pass' = [pass EXCEPT !.i = k, !.rules = next]
    BY <1>10
  <2> HIDE DEF k
  <2>3. /\ pass' \in Pass /\ pass'.pc = pass.pc /\ pass'.tokenx = pass.tokenx
        /\ pass'.inherited = inh /\ pass'.i = k /\ pass'.rules = next
        /\ pass'.undisturbed = pass.undisturbed
    BY <1>3, <1>9, <2>1, <2>2 DEF Pass
  <2> QED
    BY <2>3 DEF k
<1>13. pass' # Nil
  BY <1>12, PassAssumption
<1>14. (i + 1) - 1 = i /\ i + 1 <= Len(inh) + 1
  BY <1>1, <1>4, <1>5
<1>15. PassOK'
  BY <1>12, <1>14 DEF PassOK
<1>16. TypeOK'
  BY <1>1, <1>15 DEF IInv, TypeOK, PassOK
<1>17. PassShape'
  BY <1>1, <1>3, <1>12 DEF PassShape
<1>18. ASSUME pass.undisturbed
       PROVE  /\ pass'.tokenx = tokenx /\ app # Nil
              /\ pass'.inherited = Inherited(app, tokenx.accessPolicy)
              /\ Resolves(labelled, pass'.inherited, pass'.i - 1, pass'.rules)
              /\ ToSet(pass'.rules) = Covers(labelled, pass'.inherited, pass'.i - 1)
  <2>1. /\ pass.tokenx = tokenx /\ app # Nil /\ inh = Inherited(app, tokenx.accessPolicy)
        /\ Resolves(labelled, inh, i - 1, rules) /\ ToSet(rules) = Covers(labelled, inh, i - 1)
    BY <1>1, <1>3, <1>18 DEF Faithful
  <2>2. Resolves(labelled, inh, i, next) /\ ToSet(next) = Covers(labelled, inh, i)
    BY <1>11, <2>1
  <2>3. pass'.i - 1 = i
    BY <1>12, <1>14
  <2> HIDE DEF inh, i
  <2> QED
    BY <1>12, <2>1, <2>2, <2>3
<1>19. Faithful'
  BY <1>1, <1>12, <1>18 DEF Faithful
<1>20. Outcome'
  BY <1>1, <1>3 DEF Outcome
<1>21. Awake'
  BY <1>1, <1>3, <1>12, <1>13 DEF Awake
<1> QED
  BY <1>16, <1>17, <1>19, <1>20, <1>21 DEF IInv

LEMMA WriteJwkerStep == ASSUME IInv, WriteJwker PROVE IInv'
<1>1. /\ Resolved /\ jwker' = GetDesired /\ queued' = (queued \/ jwker' # jwker)
      /\ settled' = pass.undisturbed /\ pass' = Nil
      /\ UNCHANGED <<labelled, app, tokenx, moved, events>>
  BY DEF WriteJwker
<1>2. pass # Nil /\ pass \in Pass /\ PassOK /\ PassShape /\ Faithful /\ Awake
  BY <1>1 DEF IInv, TypeOK, PassOK, Resolved, Reconciling
<1> DEFINE policy == pass.tokenx.accessPolicy
           all == pass.rules \o ClientRules(policy)
<1>3. /\ policy \in Policies /\ pass.rules \in Seq(InboundRule)
      /\ pass.undisturbed \in BOOLEAN /\ pass.tokenx.enabled \in BOOLEAN
  BY <1>2 DEF Pass, TokenX
<1>4. GetDesired = IF pass.tokenx.enabled THEN UniqueSliceElements(all) ELSE Nil
  BY DEF GetDesired, Clients, ClientRules, ClientsOf
<1>5. all \in Seq(InboundRule)
  <2>1. ClientRules(policy) \in Seq(InboundRule)
    BY <1>3, ClientRulesType
  <2> QED
    BY <1>3, <2>1
<1>6. UniqueSliceElements(all) \in Seq(InboundRule)
  <2> HIDE DEF all
  <2> QED
    BY <1>5, UniqueElements
<1>7. jwker' # Nil => jwker' \in Seq(InboundRule)
  BY <1>1, <1>4, <1>6
<1>8. TypeOK'
  <2>1. queued' \in BOOLEAN /\ settled' \in BOOLEAN
    BY <1>1, <1>3
  <2> QED
    BY <1>1, <1>7, <2>1 DEF IInv, TypeOK
<1>9. PassShape' /\ Faithful'
  BY <1>1 DEF PassShape, Faithful
<1>10. ASSUME pass.undisturbed, ~tokenx.enabled PROVE jwker' = Nil
  BY <1>1, <1>2, <1>4, <1>10 DEF Faithful
<1>11. ASSUME pass.undisturbed, tokenx.enabled
       PROVE  app # Nil /\ Written(labelled, app, tokenx.accessPolicy, jwker')
  <2>1. pass.tokenx = tokenx
    BY <1>2, <1>11 DEF Faithful
  <2>2. pass.pc = "inherit" /\ pass.i > Len(pass.inherited)
    BY <1>1, <1>2, <1>11, <2>1 DEF Resolved, Reconciling, PassShape
  <2>3. /\ app # Nil /\ pass.inherited = Inherited(app, tokenx.accessPolicy)
        /\ Resolves(labelled, pass.inherited, pass.i - 1, pass.rules)
        /\ ToSet(pass.rules) = Covers(labelled, pass.inherited, pass.i - 1)
    BY <1>2, <1>11, <2>2 DEF Faithful
  <2>4. app \in AppRules
    BY <2>3 DEF IInv, TypeOK
  <2>5. Len(pass.inherited) \in Nat
    BY <1>3, <2>1, <2>3, <2>4, InheritedType
  <2>6. pass.i - 1 = Len(pass.inherited)
    BY <1>2, <2>2, <2>5 DEF PassOK, Pass
  <2>7. jwker' = UniqueSliceElements(pass.rules \o ClientRules(tokenx.accessPolicy))
    BY <1>1, <1>4, <1>11, <2>1
  <2> QED
    BY <2>3, <2>6, <2>7 DEF Written
<1>12. Outcome'
  BY <1>1, <1>10, <1>11 DEF Outcome
<1>13. Awake'
  BY <1>1, <1>2 DEF Awake
<1> QED
  BY <1>8, <1>9, <1>12, <1>13 DEF IInv

LEMMA StepInvariant == IInv /\ [Next]_vars => IInv'
<1> SUFFICES ASSUME IInv, [Next]_vars PROVE IInv'
  OBVIOUS
<1>1. CASE BeginPass
  BY <1>1, BeginPassStep
<1>2. CASE GetApplication
  BY <1>2, GetApplicationStep
<1>3. CASE Inherit
  BY <1>3, InheritStep
<1>4. CASE WriteJwker
  BY <1>4, WriteJwkerStep
<1>5. CASE ListFails
  BY <1>5, ListFailsStep
<1>6. CASE WriteFails
  BY <1>6, WriteFailsStep
<1>7. CASE Environment
  BY <1>7, RelabelStep, ChangeApplicationStep, EditStep, DriftStep, RestartStep DEF Environment
<1>8. CASE Resync
  BY <1>8, ResyncStep
<1>9. CASE UNCHANGED vars
  BY <1>9 DEF vars, IInv, TypeOK, PassShape, Faithful, Outcome, Awake
<1> QED
  BY <1>1, <1>2, <1>3, <1>4, <1>5, <1>6, <1>7, <1>8, <1>9 DEF Next, Worker

-----------------------------------------------------------------------------
(* The theorems. *)

\* The inductive invariant holds.
THEOREM InboundInvariance == Spec => []IInv
BY InitInvariant, StepInvariant, PTL DEF Spec

\* Every variable keeps its type; every rule that the resolver writes to a Jwker
\* has a namespace (resolveJwkerInboundRules).
THEOREM InboundTypeCorrect == Spec => []TypeOK
<1>1. IInv => TypeOK
  BY DEF IInv
<1> QED
  BY <1>1, InboundInvariance, PTL

\* When the controller has nothing to do and no label has changed since its last
\* pass began, the Jwker has exactly the rules that the policy, the Application
\* and the labels of namespaces call for, each once.
THEOREM RestsWithCurrentRules == Spec => []RestsCurrent
<1>1. IInv => RestsCurrent
  <2> SUFFICES ASSUME IInv, ~queued, pass = Nil, ~moved PROVE Current
    BY DEF RestsCurrent
  <2>1. settled /\ Outcome /\ TypeOK
    BY DEF IInv, Awake
  <2>2. CASE ~tokenx.enabled
    BY <2>1, <2>2 DEF Outcome, Current
  <2>3. CASE tokenx.enabled
    <3>1. app # Nil /\ Written(labelled, app, tokenx.accessPolicy, jwker)
      BY <2>1, <2>3 DEF Outcome
    <3>2. app \in AppRules /\ labelled \in [Label -> SUBSET Namespace] /\ tokenx \in TokenX
      BY <2>1, <3>1 DEF TypeOK
    <3>3. /\ jwker \in Seq(InboundRule)
          /\ ToSet(jwker) = CalledFor /\ Len(jwker) = Cardinality(CalledFor)
      BY <3>1, <3>2, WrittenIsCalledFor
    <3>4. jwker # Nil
      BY <3>3, InboundAssumption
    <3> QED
      BY <2>3, <3>3, <3>4 DEF Current
  <2> QED
    BY <2>2, <2>3
<1> QED
  BY <1>1, InboundInvariance, PTL

\* A Jwker is not written anew as long as nothing has changed since the pass that
\* wrote it began: whatever order namespaces are listed in, getNamespaceList-
\* ForInboundRule sorts them, and UniqueSliceElements keeps their order.
THEOREM RewritesNothingUnchanged == Spec => RewritesOnlyOnChange
<1> DEFINE Kept == settled /\ settled' => jwker' = jwker
<1>1. IInv /\ IInv' /\ [Next]_vars => [Kept]_vars
  <2> SUFFICES ASSUME IInv, IInv', Next, settled, settled' PROVE jwker' = jwker
    OBVIOUS
  <2>1. CASE WriteJwker
    <3>1. UNCHANGED <<labelled, app, tokenx>>
      BY <2>1 DEF WriteJwker
    <3>2. Outcome /\ Outcome' /\ TypeOK
      BY DEF IInv
    <3>3. CASE ~tokenx.enabled
      BY <3>1, <3>2, <3>3 DEF Outcome
    <3>4. CASE tokenx.enabled
      <4>1. /\ app # Nil /\ Written(labelled, app, tokenx.accessPolicy, jwker)
            /\ Written(labelled, app, tokenx.accessPolicy, jwker')
        BY <3>1, <3>2, <3>4 DEF Outcome
      <4>2. /\ app \in AppRules /\ labelled \in [Label -> SUBSET Namespace]
            /\ tokenx.accessPolicy \in Policies
        BY <3>2, <4>1 DEF TypeOK, TokenX
      <4> QED
        BY <4>1, <4>2, WrittenOnce
    <3> QED
      BY <3>3, <3>4
  <2>2. CASE Environment
    BY <2>2 DEF Environment, Relabel, ChangeApplication, Edit, Drift, Disturb, Restart
  <2>3. CASE ~WriteJwker /\ ~Environment
    BY <2>3 DEF Next, Worker, BeginPass, GetApplication, Inherit, ListFails, WriteFails, Resync
  <2> QED
    BY <2>1, <2>2, <2>3
<1> QED
  BY <1>1, InboundInvariance, PTL DEF Spec, RewritesOnlyOnChange

=============================================================================
