---------------------------- MODULE PluginProofs ----------------------------
(***************************************************************************)
(* Theorems about kubectl-ifo: what list, tree and summary show of the     *)
(* store, that the tree shows every operation once and below the right     *)
(* parent, and that tree --for shows a family, whatever the operator does  *)
(* between the calls of the command.                                       *)
(***************************************************************************)
EXTENDS Plugin, FiniteSetTheorems, TLAPS

----------------------------------------------------------------------------
(* Numbers.                                                                *)

\* A set of numbers that is not empty has a least one.
LEMMA MinOf ==
    ASSUME NEW S \in SUBSET Nat, S # {}
    PROVE  Min(S) \in S /\ \A n \in S : Min(S) <= n
<1>1. PICK i \in S : \A j \in S : ~(<<j, i>> \in OpToRel(<, Nat))
  BY NatLessThanWellFounded, WFMin
<1>2. \A j \in S : i <= j
  <2> SUFFICES ASSUME NEW j \in S, j < i PROVE FALSE
    OBVIOUS
  <2>1. <<j, i>> \in OpToRel(<, Nat)
    BY DEF OpToRel
  <2> QED
    BY <1>1, <2>1
<1>3. \E i1 \in S : \A j \in S : i1 =< j
  BY <1>2
<1> QED
  BY <1>3 DEF Min

\* A set of numbers whose largest one is known.
LEMMA MaxIs ==
    ASSUME NEW S \in SUBSET Nat, NEW m \in S, \A n \in S : n <= m
    PROVE  Max(S) = m
<1>1. \E x \in S : \A y \in S : x >= y
  OBVIOUS
<1> DEFINE x == CHOOSE x \in S : \A y \in S : x >= y
<1>2. Max(S) = x
  BY DEF Max
<1>3. x \in S /\ \A y \in S : x >= y
  BY <1>1
<1> HIDE DEF x
<1> QED
  BY <1>2, <1>3

----------------------------------------------------------------------------
(* The orders in which a set can be listed.                                *)

LEMMA SeqsFacts ==
    ASSUME NEW S, IsFiniteSet(S), NEW s \in SetToSeqs(S)
    PROVE  /\ s \in Seq(S) /\ DOMAIN s = 1..Len(s)
           /\ Len(s) = Cardinality(S)
           /\ \A i, j \in DOMAIN s : s[i] = s[j] => i = j
           /\ \A x \in S : \E i \in DOMAIN s : s[i] = x
<1> DEFINE D == 1..Cardinality(S)
<1>1. Cardinality(S) \in Nat
  BY FS_CardinalityType
<1>2. s \in [D -> S] /\ \A i, j \in D : i # j => s[i] # s[j]
  BY DEF SetToSeqs
<1>3. IsFiniteSet(D) /\ Cardinality(D) = Cardinality(S)
  BY <1>1, FS_Interval
<1>4. s \in Injection(D, S)
  BY <1>2 DEF Injection, IsInjective
<1>5. s \in Surjection(D, S)
  BY <1>3, <1>4, FS_Injection
<1>6. \A x \in S : \E i \in D : s[i] = x
  BY <1>5 DEF Surjection
<1> QED
  BY <1>1, <1>2, <1>6

\* The names of a finite set can be put in their order: a name is preceded
\* by as many as are smaller.
LEMMA InOrderFacts ==
    ASSUME NEW S \in SUBSET Nat, IsFiniteSet(S)
    PROVE  InOrder(S) \in SetToSeqs(S)
<1> DEFINE n == Cardinality(S)
           Upto(x) == {z \in S : z <= x}
           rank == [w \in S |-> Cardinality(Upto(w))]
<1>1. n \in Nat /\ IsFiniteSet(1..n) /\ Cardinality(1..n) = n
  BY FS_CardinalityType, FS_Interval
<1>2. ASSUME NEW x \in S
      PROVE  IsFiniteSet(Upto(x)) /\ Cardinality(Upto(x)) \in 1..n
  <2>1. Upto(x) \in SUBSET S /\ x \in Upto(x)
    OBVIOUS
  <2>2. IsFiniteSet(Upto(x)) /\ Cardinality(Upto(x)) <= n
    BY <2>1, FS_Subset
  <2>3. Cardinality(Upto(x)) \in Nat /\ Cardinality(Upto(x)) # 0
    BY <2>1, <2>2, FS_CardinalityType, FS_EmptySet
  <2> QED
    BY <1>1, <2>2, <2>3
<1>3. ASSUME NEW x \in S, NEW y \in S, x < y
      PROVE  rank[x] < rank[y]
  <2>1. y <= y /\ ~(y <= x) /\ \A z \in S : z <= x => z <= y
    BY <1>3
  <2>2. y \in Upto(y) /\ y \notin Upto(x) /\ \A z \in Upto(x) : z \in Upto(y)
    BY <2>1, Zenon
  <2>3. Cardinality(Upto(x)) <= Cardinality(Upto(y)) /\ Cardinality(Upto(x)) # Cardinality(Upto(y))
    BY <1>2, <2>2, FS_Subset, Upto(x) \in SUBSET Upto(y)
  <2>4. rank[x] = Cardinality(Upto(x)) /\ rank[y] = Cardinality(Upto(y))
    OBVIOUS
  <2>5. Cardinality(Upto(x)) \in 1..n /\ Cardinality(Upto(y)) \in 1..n
    BY <1>2
  <2> HIDE DEF rank, Upto
  <2> QED
    BY <1>1, <2>3, <2>4, <2>5
<1>4. rank \in [S -> 1..n]
  BY <1>2
<1> HIDE DEF rank
<1>5. \A x, y \in S : rank[x] = rank[y] => x = y
  BY <1>1, <1>3, <1>4
<1>6. rank \in Injection(S, 1..n)
  BY <1>4, <1>5 DEF Injection, IsInjective
<1>7. rank \in Surjection(S, 1..n)
  BY <1>1, <1>6, FS_Injection
<1>8. \A k \in 1..n : \E x \in S : rank[x] = k
  BY <1>7 DEF Surjection
<1> DEFINE s == [k \in 1..n |-> CHOOSE x \in S : rank[x] = k]
<1>9. \A k \in 1..n : s[k] \in S /\ rank[s[k]] = k
  BY <1>8
<1>10. s \in [1..n -> S]
  BY <1>9
<1> HIDE DEF s
<1>11. \A i, j \in 1..n : i # j => s[i] # s[j]
  BY <1>9
<1>12. s \in SetToSeqs(S)
  BY <1>10, <1>11 DEF SetToSeqs
<1>13. \A i, j \in 1..n : i < j => s[i] < s[j]
  <2> TAKE i \in 1..n, j \in 1..n
  <2> HAVE i < j
  <2>1. s[i] \in Nat /\ s[j] \in Nat /\ s[i] \in S /\ s[j] \in S
    BY <1>9
  <2>2. ~(s[j] < s[i]) /\ s[i] # s[j]
    BY <1>1, <1>3, <1>9, <1>11, <2>1
  <2> QED
    BY <2>1, <2>2
<1>14. DOMAIN s = 1..n
  BY <1>10
<1>15. \E t \in SetToSeqs(S) : \A i, j \in DOMAIN t : i < j => t[i] < t[j]
  BY <1>12, <1>13, <1>14
<1> QED
  BY <1>15 DEF InOrder

----------------------------------------------------------------------------
(* What a list call returns.                                               *)

Ifo == [id : Id, created : Nat, phase : Phase, uid : Nat, kind : Nat, name : Nat,
        namespace : Nat, component : Nat, operation : Nat, owners : Seq(Nat),
        group : Nat, role : {"none", "root", "child"}]

StoreType == store \in [Id -> {None} \cup (Shape \X Phase)]

LEMMA FetchedType ==
    ASSUME NEW id \in Id, NEW o \in Shape \X Phase
    PROVE  Fetched(id, o) \in Ifo /\ Fetched(id, o).id = id
  BY PluginAssumption DEF Fetched, Ifo, IFOSpec

LEMMA ListFacts ==
    ASSUME StoreType, NEW opts, NEW l, l = List(opts)
    PROVE  /\ l \in Seq(Ifo) /\ DOMAIN l = 1..Len(l)
           /\ \A i \in DOMAIN l : /\ l[i].id \in Id
                                  /\ Selected(store[l[i].id], opts)
                                  /\ l[i] = Fetched(l[i].id, store[l[i].id])
           /\ \A i, j \in DOMAIN l : l[i].id = l[j].id => i = j
           /\ \A id \in Id : Selected(store[id], opts) => \E i \in DOMAIN l : l[i].id = id
<1> DEFINE S == {id \in Id : Selected(store[id], opts)}
           ids == InOrder(S)
<1>1. S \in SUBSET Nat /\ IsFiniteSet(S)
  BY PluginAssumption, FS_Subset
<1>2. ids \in SetToSeqs(S)
  BY <1>1, InOrderFacts
<1>3. l = [i \in DOMAIN ids |-> Fetched(ids[i], store[ids[i]])]
  BY DEF List
<1> HIDE DEF ids
<1>4. /\ ids \in Seq(S) /\ DOMAIN ids = 1..Len(ids)
      /\ \A i, j \in DOMAIN ids : ids[i] = ids[j] => i = j
      /\ \A x \in S : \E i \in DOMAIN ids : ids[i] = x
  BY <1>1, <1>2, SeqsFacts
<1>5. ASSUME NEW i \in DOMAIN ids
      PROVE  /\ ids[i] \in Id /\ Selected(store[ids[i]], opts)
             /\ l[i] = Fetched(ids[i], store[ids[i]])
             /\ l[i] \in Ifo /\ l[i].id = ids[i]
  <2>1. ids[i] \in Id /\ Selected(store[ids[i]], opts)
    BY <1>4
  <2>2. store[ids[i]] \in Shape \X Phase
    BY <2>1 DEF StoreType, Selected
  <2>3. l[i] = Fetched(ids[i], store[ids[i]])
    BY <1>3
  <2> QED
    BY <2>1, <2>2, <2>3, FetchedType
<1>6. l \in [1..Len(ids) -> Ifo] /\ Len(ids) \in Nat
  BY <1>3, <1>4, <1>5
<1>7. l \in Seq(Ifo) /\ DOMAIN l = DOMAIN ids /\ DOMAIN l = 1..Len(l)
  BY <1>4, <1>6
<1>8. \A i \in DOMAIN l : /\ l[i].id \in Id
                          /\ Selected(store[l[i].id], opts)
                          /\ l[i] = Fetched(l[i].id, store[l[i].id])
  BY <1>5, <1>7
<1>9. \A i, j \in DOMAIN l : l[i].id = l[j].id => i = j
  BY <1>4, <1>5, <1>7
<1>10. \A id \in Id : Selected(store[id], opts) => \E i \in DOMAIN l : l[i].id = id
  BY <1>4, <1>5, <1>7
<1> QED
  BY <1>7, <1>8, <1>9, <1>10

\* The selectors of the command line mean what the flags ask for.
LEMMA FlagsMean ==
    ASSUME NEW o \in Shape \X Phase, NEW f \in Flags
    PROVE  /\ Selected(o, buildListOptions(f)) <=> Asked(o, f)
           /\ LET opts == buildListOptions(f)
              IN  Selected(o, [opts EXCEPT !.fields = removeFieldSelector(@, "phase")])
                  <=> Matching(o, f)
<1>1. o # None
  BY PluginAssumption
<1>2. f.allPhases \in BOOLEAN
  BY PluginAssumption
<1>3. buildListOptions(f).labels \subseteq Labels(o[1])
      <=> /\ f.component \in {0, o[1].component} /\ f.kind \in {0, o[1].kind}
          /\ f.selector \subseteq Labels(o[1])
  <2>1. Pair("component", f.component) \subseteq Labels(o[1])
        <=> f.component \in {0, o[1].component}
    BY DEF Pair, Labels
  <2>2. Pair("subject-kind", f.kind) \subseteq Labels(o[1])
        <=> f.kind \in {0, o[1].kind}
    BY DEF Pair, Labels
  <2> QED
    BY <2>1, <2>2 DEF buildListOptions
<1> DEFINE ns == Pair("namespace", f.namespace) \cup Pair("operation", f.operation)
           ph == IF f.allPhases THEN {} ELSE {<<"phase", "Active">>}
<1>4. ns \subseteq Fields(o)
      <=> f.namespace \in {0, o[1].namespace} /\ f.operation \in {0, o[1].operation}
  <2>1. Pair("namespace", f.namespace) \subseteq Fields(o)
        <=> f.namespace \in {0, o[1].namespace}
    BY DEF Pair, Fields
  <2>2. Pair("operation", f.operation) \subseteq Fields(o)
        <=> f.operation \in {0, o[1].operation}
    BY DEF Pair, Fields
  <2> QED
    BY <2>1, <2>2
<1>5. ph \subseteq Fields(o) <=> f.allPhases \/ o[2] = "Active"
  BY <1>2 DEF Fields
<1>6. removeFieldSelector(ns \cup ph, "phase") = ns
  BY <1>2 DEF removeFieldSelector, Pair
<1>7. buildListOptions(f).fields = ns \cup ph
  BY DEF buildListOptions
<1> HIDE DEF ns, ph
<1>8. Selected(o, buildListOptions(f)) <=> Asked(o, f)
  BY <1>1, <1>3, <1>4, <1>5, <1>7 DEF Selected, Asked, Matching
<1>9. ASSUME NEW opts, opts = buildListOptions(f)
      PROVE  Selected(o, [opts EXCEPT !.fields = removeFieldSelector(@, "phase")])
             <=> Matching(o, f)
  <2> DEFINE wide == [opts EXCEPT !.fields = removeFieldSelector(@, "phase")]
  <2>1. wide.labels = opts.labels /\ wide.fields = removeFieldSelector(opts.fields, "phase")
    BY <1>9 DEF buildListOptions
  <2> HIDE DEF wide
  <2> QED
    BY <1>1, <1>3, <1>4, <1>6, <1>7, <1>9, <2>1 DEF Selected, Matching, wide
<1> QED
  BY <1>8, <1>9

----------------------------------------------------------------------------
(* The forest of a list of IFOs.                                           *)

LEMMA IfoFields ==
    ASSUME NEW l \in Seq(Ifo)
    PROVE  /\ DOMAIN l = 1..Len(l) /\ DOMAIN l \in SUBSET Nat /\ 0 \notin DOMAIN l
           /\ \A i \in DOMAIN l : /\ l[i].uid \in Nat /\ l[i].created \in Nat
                                  /\ DOMAIN l[i].owners \in SUBSET Nat
<1>1. \A i \in DOMAIN l : l[i] \in Ifo
  OBVIOUS
<1>2. \A x \in Ifo : x.uid \in Nat /\ x.created \in Nat /\ DOMAIN x.owners \in SUBSET Nat
  BY DEF Ifo
<1> QED
  BY <1>1, <1>2

LEMMA NodeFacts ==
    ASSUME NEW l \in Seq(Ifo), NEW i \in DOMAIN l
    PROVE  /\ NodeOf(l, i) \in Nodes(l)
           /\ l[NodeOf(l, i)].uid = l[i].uid
           /\ \A j \in DOMAIN l : l[j].uid = l[i].uid /\ l[i].uid # 0 => NodeOf(l, j) = NodeOf(l, i)
<1> DEFINE Same(k) == {j \in DOMAIN l : l[j].uid = l[k].uid}
           n == NodeOf(l, i)
<1>1. Same(i) \in SUBSET Nat /\ i \in Same(i)
  BY IfoFields
<1>2. l[i].uid # 0 => Min(Same(i)) \in Same(i)
  BY <1>1, MinOf
<1>3. n \in DOMAIN l /\ l[n].uid = l[i].uid
  BY <1>2 DEF NodeOf
<1>4. \A j \in DOMAIN l : l[j].uid = l[i].uid /\ l[i].uid # 0 => NodeOf(l, j) = n
  BY DEF NodeOf
<1>5. NodeOf(l, n) = n
  <2>1. CASE l[i].uid = 0
    BY <2>1 DEF NodeOf
  <2>2. CASE l[i].uid # 0
    BY <1>3, <1>4, <2>2
  <2> QED
    BY <2>1, <2>2
<1> QED
  BY <1>3, <1>4, <1>5 DEF Nodes

LEMMA ByUID ==
    ASSUME NEW l \in Seq(Ifo), NEW u
    PROVE  LET b == BySubjectUID(l, u)
           IN  /\ b # 0 <=> (u # 0 /\ \E i \in DOMAIN l : l[i].uid = u)
               /\ b # 0 => /\ b \in Nodes(l) /\ l[b].uid = u
                           /\ \A i \in DOMAIN l : l[i].uid = u => NodeOf(l, i) = b
<1> DEFINE found == {n \in Nodes(l) : l[n].uid = u /\ u # 0}
           b == BySubjectUID(l, u)
<1>1. found \in SUBSET Nat /\ 0 \notin found
  BY IfoFields DEF Nodes
<1>2. b = IF found = {} THEN 0 ELSE Min(found)
  BY DEF BySubjectUID
<1>3. found # {} => b \in found /\ b # 0
  BY <1>1, <1>2, MinOf
<1>4. ASSUME NEW i \in DOMAIN l, l[i].uid = u, u # 0
      PROVE  NodeOf(l, i) \in found
  BY <1>4, NodeFacts
<1>5. \A n \in found : n \in Nodes(l) /\ n \in DOMAIN l /\ NodeOf(l, n) = n /\ l[n].uid = u /\ u # 0
  BY DEF Nodes
<1>6. b # 0 <=> (u # 0 /\ \E i \in DOMAIN l : l[i].uid = u)
  BY <1>2, <1>3, <1>4, <1>5
<1>7. ASSUME b # 0
      PROVE  /\ b \in Nodes(l) /\ l[b].uid = u
             /\ \A i \in DOMAIN l : l[i].uid = u => NodeOf(l, i) = b
  <2>1. b \in found
    BY <1>2, <1>3, <1>7
  <2>2. b \in DOMAIN l /\ NodeOf(l, b) = b /\ l[b].uid = u /\ u # 0 /\ b \in Nodes(l)
    BY <1>5, <2>1
  <2>3. \A i \in DOMAIN l : l[i].uid = u => NodeOf(l, i) = NodeOf(l, b)
    BY <2>2, NodeFacts
  <2> QED
    BY <2>2, <2>3
<1> QED
  BY <1>6, <1>7

\* The roots of the trees of owner references.
Unowned(l) == {n \in Nodes(l) : ParentRefs(l, n) = {}}

\* The parent by owner references is one node, that of the first owner that
\* is listed.
LEMMA OwnerFacts ==
    ASSUME NEW l \in Seq(Ifo), NEW n \in Nodes(l), ParentRefs(l, n) # {}
    PROVE  LET k == Min(ParentRefs(l, n))
               m == BySubjectUID(l, l[n].owners[k])
           IN  /\ k \in ParentRefs(l, n) /\ \A j \in ParentRefs(l, n) : k <= j
               /\ m \in Nodes(l) /\ l[m].uid = l[n].owners[k]
               /\ \A i \in DOMAIN l : l[i].uid = l[n].owners[k] => NodeOf(l, i) = m
               /\ \A x : IsChild(l, n, x) <=> x = m
<1> DEFINE k == Min(ParentRefs(l, n))
           m == BySubjectUID(l, l[n].owners[k])
<1>1. ParentRefs(l, n) \in SUBSET Nat
  BY IfoFields DEF Nodes, ParentRefs
<1>2. k \in ParentRefs(l, n) /\ \A j \in ParentRefs(l, n) : k <= j
  BY <1>1, MinOf
<1>3. m # 0
  BY <1>2 DEF ParentRefs
<1>4. /\ m \in Nodes(l) /\ l[m].uid = l[n].owners[k]
      /\ \A i \in DOMAIN l : l[i].uid = l[n].owners[k] => NodeOf(l, i) = m
  BY <1>3, ByUID
<1>5. \A x : IsChild(l, n, x) <=> x = m
  BY DEF IsChild
<1> QED
  BY <1>2, <1>4, <1>5

\* The root of a group is one of its members, the earliest that says it is
\* the root, and the members agree on it.
LEMMA GroupFacts ==
    ASSUME NEW l \in Seq(Ifo), NEW n \in Unowned(l)
    PROVE  LET m == RootOf(l, Unowned(l), n)
               candidates == {x \in Unowned(l) : /\ l[x].role = "root" /\ l[n].group # 0
                                                 /\ l[x].group = l[n].group
                                                 /\ l[x].namespace = l[n].namespace}
           IN  /\ m = 0 <=> candidates = {}
               /\ m # 0 => /\ m \in candidates
                           /\ \A x \in candidates : l[m].created <= l[x].created
                           /\ RootOf(l, Unowned(l), m) = m
<1> DEFINE m == RootOf(l, Unowned(l), n)
           group(y) == {x \in Unowned(l) : groupKey(l[x]) = groupKey(l[y])}
           cands(y) == {x \in group(y) : l[x].role = "root"}
           earliest == {x \in cands(n) : \A z \in cands(n) : l[x].created <= l[z].created}
           candidates == {x \in Unowned(l) : /\ l[x].role = "root" /\ l[n].group # 0
                                             /\ l[x].group = l[n].group
                                             /\ l[x].namespace = l[n].namespace}
<1>1. Unowned(l) \subseteq DOMAIN l /\ \A x \in Unowned(l) : x \in Nat /\ x # 0 /\ l[x].created \in Nat
  BY IfoFields DEF Unowned, Nodes
<1>2. CASE l[n].group = 0
  BY <1>2 DEF RootOf
<1>3. CASE l[n].group # 0
  <2>1. candidates = cands(n)
    BY <1>3 DEF groupKey
  <2>2. m = IF cands(n) = {} THEN 0 ELSE Min(earliest)
    BY <1>3 DEF RootOf, findGroupRoot
  <2>3. ASSUME cands(n) # {} PROVE m \in earliest
    <3> DEFINE times == {l[x].created : x \in cands(n)}
    <3>1. times \in SUBSET Nat /\ times # {}
      BY <1>1, <2>3
    <3>2. Min(times) \in times /\ \A t \in times : Min(times) <= t
      BY <3>1, MinOf
    <3>3. PICK x \in cands(n) : l[x].created = Min(times)
      BY <3>2
    <3>4. \A z \in cands(n) : l[x].created <= l[z].created
      BY <3>2, <3>3
    <3>5. earliest \in SUBSET Nat /\ earliest # {}
      BY <1>1, <3>4
    <3> QED
      BY <2>2, <2>3, <3>5, MinOf
  <2>4. ASSUME cands(n) # {} PROVE RootOf(l, Unowned(l), m) = m
    <3>1. m \in group(n) /\ groupKey(l[m]) = groupKey(l[n]) /\ m \in Unowned(l)
      BY <2>3, <2>4
    <3>2. group(m) = group(n) /\ l[m].group = l[n].group
      BY <3>1 DEF groupKey
    <3> QED
      BY <1>3, <3>2 DEF RootOf
  <2>5. cands(n) # {} => m # 0
    BY <1>1, <2>3
  <2> QED
    BY <2>1, <2>2, <2>3, <2>4, <2>5
<1> QED
  BY <1>2, <1>3

Roots(l) == BuildForest(l).roots
Kids(l, m) == BuildForest(l).children[m]

LEMMA ForestIs ==
    ASSUME NEW l \in Seq(Ifo)
    PROVE  /\ Roots(l) = {n \in Unowned(l) : RootOf(l, Unowned(l), n) \in {0, n}}
           /\ \A m \in Nodes(l) :
                Kids(l, m) = {n \in Nodes(l) : IsChild(l, n, m)}
                             \cup {n \in Unowned(l) : n # m /\ RootOf(l, Unowned(l), n) = m}
<1>1. buildOwnerRefTrees(l).roots = Unowned(l)
  BY DEF buildOwnerRefTrees, Unowned
<1>2. \A m \in Nodes(l) :
        buildOwnerRefTrees(l).children[m] = {n \in Nodes(l) : IsChild(l, n, m)}
  BY DEF buildOwnerRefTrees
<1> DEFINE f == buildOwnerRefTrees(l)
<1> HIDE DEF f
<1>3. BuildForest(l) = Correlate(l, f)
  BY DEF BuildForest, f
<1>4. f.roots = Unowned(l) /\ \A m \in Nodes(l) : f.children[m] = {n \in Nodes(l) : IsChild(l, n, m)}
  BY <1>1, <1>2 DEF f
<1>5. Correlate(l, f).roots = {n \in Unowned(l) : RootOf(l, Unowned(l), n) \in {0, n}}
  BY <1>4 DEF Correlate
<1>6. \A m \in Nodes(l) :
        Correlate(l, f).children[m] =
            {n \in Nodes(l) : IsChild(l, n, m)}
            \cup {n \in Unowned(l) : n # m /\ RootOf(l, Unowned(l), n) = m}
  BY <1>4 DEF Correlate
<1> QED
  BY <1>3, <1>5, <1>6 DEF Roots, Kids

\* Every node is a root or the child of one other node.
LEMMA ForestFacts ==
    ASSUME NEW l \in Seq(Ifo)
    PROVE  /\ IsFiniteSet(Nodes(l)) /\ Roots(l) \subseteq Nodes(l) /\ Unowned(l) \subseteq Nodes(l)
           /\ \A m \in Nodes(l) : Kids(l, m) \subseteq Nodes(l)
           /\ \A n \in Nodes(l) : n \in Roots(l) \/ \E m \in Nodes(l) : n \in Kids(l, m)
           /\ \A m \in Nodes(l), n \in Roots(l) : n \notin Kids(l, m)
           /\ \A m1, m2 \in Nodes(l) : \A n \in Kids(l, m1) : n \in Kids(l, m2) => m1 = m2
           /\ \A m \in Nodes(l), n \in Unowned(l) : n \in Kids(l, m) => m \in Roots(l)
<1> DEFINE R(n) == RootOf(l, Unowned(l), n)
<1>1. IsFiniteSet(Nodes(l))
  <2>1. Nodes(l) \in SUBSET (1..Len(l)) /\ Len(l) \in Nat
    BY DEF Nodes
  <2>2. IsFiniteSet(1..Len(l))
    BY <2>1, FS_Interval
  <2> QED
    BY <2>1, <2>2, FS_Subset
<1>2. Unowned(l) \subseteq Nodes(l) /\ \A n \in Nodes(l) : n \notin Unowned(l) <=> ParentRefs(l, n) # {}
  BY DEF Unowned
<1>3. Roots(l) = {n \in Unowned(l) : R(n) \in {0, n}}
  BY ForestIs
<1>4. ASSUME NEW m \in Nodes(l), NEW n
      PROVE  n \in Kids(l, m)
             <=> \/ n \in Nodes(l) /\ IsChild(l, n, m)
                 \/ n \in Unowned(l) /\ n # m /\ R(n) = m
  BY ForestIs
<1>5. ASSUME NEW n \in Unowned(l)
      PROVE  /\ \A m : ~IsChild(l, n, m)
             /\ R(n) # 0 => R(n) \in Unowned(l) /\ R(R(n)) = R(n)
  <2>1. \A m : ~IsChild(l, n, m)
    BY DEF IsChild, Unowned
  <2>2. R(n) # 0 => R(n) \in Unowned(l) /\ R(R(n)) = R(n)
    BY GroupFacts
  <2> QED
    BY <2>1, <2>2
<1>6. ASSUME NEW n \in Nodes(l), n \notin Unowned(l)
      PROVE  \E m \in Nodes(l) : \A x : IsChild(l, n, x) <=> x = m
  BY <1>2, <1>6, OwnerFacts
<1> HIDE DEF R
<1>7. 0 \notin Nodes(l)
  BY IfoFields DEF Nodes
<1>8. \A n \in Nodes(l) : n \in Roots(l) \/ \E m \in Nodes(l) : n \in Kids(l, m)
  <2> TAKE n \in Nodes(l)
  <2>1. CASE n \notin Unowned(l)
    BY <1>4, <1>6, <2>1
  <2>2. CASE n \in Unowned(l) /\ R(n) \notin {0, n}
    BY <1>2, <1>4, <1>5, <2>2
  <2>3. CASE n \in Unowned(l) /\ R(n) \in {0, n}
    BY <1>3, <2>3
  <2> QED
    BY <2>1, <2>2, <2>3
<1>9. \A m \in Nodes(l), n \in Roots(l) : n \notin Kids(l, m)
  BY <1>3, <1>4, <1>5, <1>7
<1>10. \A m1, m2 \in Nodes(l) : \A n \in Kids(l, m1) : n \in Kids(l, m2) => m1 = m2
  <2> TAKE m1, m2 \in Nodes(l)
  <2> TAKE n \in Kids(l, m1)
  <2> HAVE n \in Kids(l, m2)
  <2>1. CASE n \in Unowned(l)
    BY <1>4, <1>5, <2>1
  <2>2. CASE n \notin Unowned(l)
    BY <1>4, <1>6, <2>2
  <2> QED
    BY <2>1, <2>2
<1>11. \A m \in Nodes(l), n \in Unowned(l) : n \in Kids(l, m) => m \in Roots(l)
  BY <1>3, <1>4, <1>5, <1>7
<1>12. \A m \in Nodes(l) : Kids(l, m) \subseteq Nodes(l)
  BY <1>2, <1>4
<1>13. Roots(l) \subseteq Nodes(l)
  BY <1>2, <1>3
<1> QED
  BY <1>1, <1>2, <1>8, <1>9, <1>10, <1>11, <1>12, <1>13

----------------------------------------------------------------------------
(* The printer.  lines are printed and the nodes on stk wait.              *)

Waiting(l) == [node : Nodes(l), depth : Nat]
Printed(l) == [node : Nodes(l), depth : Nat, shown : SUBSET Nat]

Listed(l, lines, stk) == stk \in Seq(Waiting(l)) /\ lines \in Seq(Printed(l))
NodeType(l, lines, stk) ==
    /\ Listed(l, lines, stk)
    /\ \A b \in DOMAIN lines : lines[b] = Line(l, lines[b].node, lines[b].depth)

\* No node is printed or waits twice.
Once(lines, stk) ==
    /\ \A a, b \in DOMAIN lines : lines[a].node = lines[b].node => a = b
    /\ \A a, b \in DOMAIN stk : stk[a].node = stk[b].node => a = b
    /\ \A a \in DOMAIN lines, b \in DOMAIN stk : lines[a].node # stk[b].node

Known(lines, stk, n) ==
    \/ \E a \in DOMAIN lines : lines[a].node = n
    \/ \E a \in DOMAIN stk : stk[a].node = n

\* Roots are printed or wait, and so do the children of what is printed.
Reached(l, lines, stk) ==
    /\ \A n \in Roots(l) : Known(lines, stk, n)
    /\ \A a \in DOMAIN lines : \A n \in Kids(l, lines[a].node) : Known(lines, stk, n)

\* A node that is printed at depth d as line b stands below its parent.
Placed(l, lines, b, n, d) ==
    IF d = 0 THEN n \in Roots(l)
    ELSE \E a \in 1 .. b - 1 :
            /\ lines[a].depth = d - 1
            /\ n \in Kids(l, lines[a].node)
            /\ \A c \in a + 1 .. b - 1 : lines[c].depth # d - 1

\* What waits would stand below its parent if it were printed next: the
\* deeper nodes go first.
Depths(l, lines, stk) ==
    /\ \A b \in DOMAIN lines : Placed(l, lines, b, lines[b].node, lines[b].depth)
    /\ \A b \in DOMAIN stk : Placed(l, lines, Len(lines) + 1, stk[b].node, stk[b].depth)
    /\ \A a, b \in DOMAIN stk : a < b => stk[b].depth <= stk[a].depth

Progress(l, lines, stk) ==
    /\ NodeType(l, lines, stk)
    /\ Once(lines, stk)
    /\ Reached(l, lines, stk)
    /\ Depths(l, lines, stk)

\* The roots are found, nothing is printed yet.
LEMMA ProgressInit ==
    ASSUME NEW l \in Seq(Ifo), NEW order \in SetToSeqs(Roots(l)), NEW stk,
           stk = [k \in DOMAIN order |-> [node |-> order[k], depth |-> 0]]
    PROVE  Progress(l, <<>>, stk)
<1>1. IsFiniteSet(Roots(l)) /\ Roots(l) \subseteq Nodes(l)
  BY ForestFacts, FS_Subset
<1>2. /\ order \in Seq(Roots(l)) /\ DOMAIN order = 1..Len(order)
      /\ \A i, j \in DOMAIN order : order[i] = order[j] => i = j
      /\ \A x \in Roots(l) : \E i \in DOMAIN order : order[i] = x
  BY <1>1, SeqsFacts
<1>3. /\ stk \in [1..Len(order) -> Waiting(l)] /\ Len(order) \in Nat
      /\ DOMAIN stk = DOMAIN order
      /\ \A i \in DOMAIN order : stk[i].node = order[i] /\ stk[i].depth = 0 /\ order[i] \in Roots(l)
  BY <1>1, <1>2 DEF Waiting
<1>4. stk \in Seq(Waiting(l))
  BY <1>3
<1>5. DOMAIN <<>> = {} /\ Len(<<>>) = 0 /\ 1..0 = {}
  OBVIOUS
<1>6. NodeType(l, <<>>, stk)
  BY <1>4, <1>5 DEF NodeType, Listed
<1>7. Once(<<>>, stk)
  BY <1>2, <1>3, <1>5 DEF Once
<1>8. Reached(l, <<>>, stk)
  BY <1>2, <1>3, <1>5 DEF Reached, Known
<1>9. Depths(l, <<>>, stk)
  BY <1>3, <1>5 DEF Depths, Placed
<1> QED
  BY <1>6, <1>7, <1>8, <1>9 DEF Progress

LEMMA NodeTypeFacts ==
    ASSUME NEW l, NEW lines, NEW stk, NodeType(l, lines, stk)
    PROVE  /\ DOMAIN stk = 1..Len(stk) /\ Len(stk) \in Nat
           /\ DOMAIN lines = 1..Len(lines) /\ Len(lines) \in Nat
           /\ \A b \in DOMAIN stk : stk[b].node \in Nodes(l) /\ stk[b].depth \in Nat
           /\ \A b \in DOMAIN lines : lines[b].node \in Nodes(l) /\ lines[b].depth \in Nat
           /\ stk # <<>> => 1 \in DOMAIN stk /\ Head(stk) = stk[1] /\ Len(stk) # 0
<1>1. \A x \in Waiting(l) : x.node \in Nodes(l) /\ x.depth \in Nat
  BY DEF Waiting
<1>2. \A x \in Printed(l) : x.node \in Nodes(l) /\ x.depth \in Nat
  BY DEF Printed
<1>3. stk \in Seq(Waiting(l)) /\ lines \in Seq(Printed(l))
  BY DEF NodeType, Listed
<1> QED
  BY <1>1, <1>2, <1>3

\* A child of the next node to be printed is new: it has no other parent,
\* and this one was not printed before.
LEMMA ChildIsNew ==
    ASSUME NEW l \in Seq(Ifo), NEW lines, NEW stk, Progress(l, lines, stk), stk # <<>>,
           NEW x \in Kids(l, stk[1].node)
    PROVE  ~Known(lines, stk, x)
<1> SUFFICES ASSUME Known(lines, stk, x) PROVE FALSE
  OBVIOUS
<1>1. NodeType(l, lines, stk) /\ Once(lines, stk) /\ Depths(l, lines, stk)
  BY DEF Progress
<1>2. /\ 1 \in DOMAIN stk /\ stk[1].node \in Nodes(l)
      /\ \A a \in DOMAIN lines : lines[a].node # stk[1].node /\ lines[a].node \in Nodes(l)
      /\ DOMAIN lines = 1..Len(lines) /\ Len(lines) \in Nat
      /\ \A a \in DOMAIN stk : stk[a].depth \in Nat
      /\ \A a \in DOMAIN lines : lines[a].depth \in Nat
  BY <1>1, NodeTypeFacts DEF Once
<1>3. x \notin Roots(l)
  BY <1>2, ForestFacts
<1>4. PICK b \in 1 .. Len(lines) + 1, d \in Nat : Placed(l, lines, b, x, d)
  <2>1. CASE \E a \in DOMAIN lines : lines[a].node = x
    BY <1>1, <1>2, <2>1 DEF Depths
  <2>2. CASE \E a \in DOMAIN stk : stk[a].node = x
    BY <1>1, <1>2, <2>2 DEF Depths
  <2> QED
    BY <2>1, <2>2 DEF Known
<1>5. PICK a \in 1 .. b - 1 : x \in Kids(l, lines[a].node)
  BY <1>3, <1>4 DEF Placed
<1>6. a \in DOMAIN lines
  BY <1>2, <1>4
<1>7. lines[a].node = stk[1].node
  BY <1>2, <1>5, <1>6, ForestFacts
<1> QED
  BY <1>2, <1>6, <1>7

LEMMA Shift ==
    ASSUME NEW c \in Nat, NEW n \in Nat, NEW k \in 1..n, k # 1
    PROVE  k + c - 1 \in 1 .. c + n - 1 /\ k + c - 1 \notin 1..c /\ (k + c - 1) - c + 1 = k
  OBVIOUS

\* The top of a stack is replaced by c other elements.
Pushed(S, s, new, t, c) ==
    /\ t \in Seq(S) /\ DOMAIN t \in SUBSET (Nat \ {0})
    /\ \A k \in 1..c : k \in DOMAIN t /\ t[k] = new[k]
    /\ \A k \in DOMAIN t : k \notin 1..c => /\ k - c + 1 \in DOMAIN s /\ k - c + 1 # 1
                                            /\ t[k] = s[k - c + 1]
    /\ \A k \in DOMAIN s : k # 1 => k + c - 1 \in DOMAIN t /\ t[k + c - 1] = s[k]

LEMMA PushFacts ==
    ASSUME NEW S, NEW s \in Seq(S), s # <<>>, NEW new \in Seq(S), NEW t, t = new \o Tail(s),
           NEW c, c = Len(new)
    PROVE  Pushed(S, s, new, t, c)
<1>1. Len(s) \in Nat /\ Len(s) # 0 /\ c \in Nat /\ DOMAIN s = 1..Len(s) /\ DOMAIN new = 1..c
  OBVIOUS
<1>2. Tail(s) \in Seq(S) /\ Len(Tail(s)) = Len(s) - 1 /\ \A k \in 1..Len(s) - 1 : Tail(s)[k] = s[k + 1]
  BY <1>1
<1>3. t \in Seq(S) /\ Len(t) = c + Len(s) - 1 /\ DOMAIN t = 1..Len(t)
  BY <1>1, <1>2
<1>4. \A k \in 1..Len(t) : t[k] = IF k <= c THEN new[k] ELSE Tail(s)[k - c]
  BY <1>1, <1>2, <1>3
<1>5. \A k \in 1..c : k \in DOMAIN t /\ t[k] = new[k]
  BY <1>1, <1>3, <1>4
<1>6. ASSUME NEW k \in DOMAIN t, k \notin 1..c
      PROVE  /\ k - c + 1 \in DOMAIN s /\ k - c + 1 # 1
             /\ t[k] = s[k - c + 1]
  <2>1. k \in Nat /\ k > c /\ k - c \in 1..Len(s) - 1 /\ k - c + 1 \in DOMAIN s
    BY <1>1, <1>3, <1>6
  <2> QED
    BY <1>1, <1>2, <1>3, <1>4, <2>1
<1>7. ASSUME NEW k \in DOMAIN s, k # 1
      PROVE  k + c - 1 \in DOMAIN t /\ t[k + c - 1] = s[k]
  <2>1. k + c - 1 \in DOMAIN t /\ k + c - 1 \notin 1..c /\ (k + c - 1) - c + 1 = k
    <3>1. k \in 1..Len(s)
      BY <1>1
    <3>2. k + c - 1 \in 1 .. c + Len(s) - 1 /\ k + c - 1 \notin 1..c /\ (k + c - 1) - c + 1 = k
      BY <1>1, <1>7, <3>1, Shift, Zenon
    <3> QED
      BY <1>3, <3>2, Zenon
  <2> QED
    BY <1>6, <2>1
<1>8. DOMAIN t \in SUBSET (Nat \ {0})
  BY <1>3
<1> QED
  BY <1>3, <1>5, <1>6, <1>7, <1>8, Zenon DEF Pushed

LEMMA AppendFacts ==
    ASSUME NEW S, NEW s \in Seq(S), NEW e \in S, NEW t, t = Append(s, e)
    PROVE  /\ t \in Seq(S) /\ Len(s) \in Nat /\ Len(t) = Len(s) + 1
           /\ DOMAIN s = 1..Len(s) /\ DOMAIN t = 1..Len(s) + 1
           /\ t[Len(s) + 1] = e /\ \A b \in 1..Len(s) : t[b] = s[b]
  OBVIOUS

\* What the printer does with the next node n, at depth d: its children,
\* order, replace it on the stack, and it is line L + 1.
StackStep(l, stk, stk2, order, n, d, c) ==
    /\ n \in Nodes(l) /\ d \in Nat /\ c \in Nat
    /\ 1 \in DOMAIN stk /\ stk[1].node = n /\ stk[1].depth = d
    /\ \A b \in DOMAIN stk : stk[b].depth \in Nat /\ b \in Nat /\ b # 0
    /\ \A i, j \in 1..c : order[i] = order[j] => i = j
    /\ \A x \in Kids(l, n) : \E i \in 1..c : order[i] = x
    /\ DOMAIN stk2 \in SUBSET (Nat \ {0})
    /\ \A k \in 1..c : /\ k \in DOMAIN stk2 /\ stk2[k].node = order[k]
                       /\ stk2[k].depth = d + 1 /\ order[k] \in Kids(l, n)
    /\ \A k \in DOMAIN stk2 : k \notin 1..c => /\ k - c + 1 \in DOMAIN stk /\ k - c + 1 # 1
                                               /\ stk2[k] = stk[k - c + 1]
    /\ \A k \in DOMAIN stk : k # 1 => k + c - 1 \in DOMAIN stk2 /\ stk2[k + c - 1] = stk[k]

LineStep(l, lines, lines2, n, d, L) ==
    /\ L \in Nat
    /\ Len(lines) = L /\ DOMAIN lines = 1..L /\ Len(lines2) = L + 1 /\ DOMAIN lines2 = 1..L + 1
    /\ lines2[L + 1] = Line(l, n, d) /\ lines2[L + 1].node = n /\ lines2[L + 1].depth = d
    /\ \A b \in 1..L : lines2[b] = lines[b]

Stepped(l, lines, stk, lines2, stk2, order, n, d, c, L) ==
    /\ StackStep(l, stk, stk2, order, n, d, c)
    /\ LineStep(l, lines, lines2, n, d, L)
    /\ \A k \in 1..c : ~Known(lines, stk, order[k])

LEMMA StepFacts ==
    ASSUME NEW l \in Seq(Ifo), NEW lines, NEW stk, Progress(l, lines, stk), stk # <<>>,
           NEW order \in SetToSeqs(Kids(l, Head(stk).node)), NEW lines2, NEW stk2,
           lines2 = Append(lines, Line(l, Head(stk).node, Head(stk).depth)),
           stk2 = [k \in DOMAIN order |-> [node |-> order[k], depth |-> Head(stk).depth + 1]]
                  \o Tail(stk)
    PROVE  /\ Listed(l, lines2, stk2)
           /\ Stepped(l, lines, stk, lines2, stk2, order, stk[1].node, stk[1].depth,
                      Len(order), Len(lines))
<1> DEFINE n == stk[1].node
           d == stk[1].depth
           c == Len(order)
           L == Len(lines)
           new == [k \in DOMAIN order |-> [node |-> order[k], depth |-> d + 1]]
<1>1. /\ NodeType(l, lines, stk) /\ Once(lines, stk) /\ Reached(l, lines, stk)
      /\ Depths(l, lines, stk)
  BY DEF Progress
<1>2. stk \in Seq(Waiting(l)) /\ lines \in Seq(Printed(l))
  BY <1>1 DEF NodeType, Listed
<1>3. Head(stk) = stk[1]
  BY <1>1, NodeTypeFacts
<1>4. /\ n \in Nodes(l) /\ d \in Nat /\ 1 \in DOMAIN stk
      /\ \A b \in DOMAIN stk : stk[b].node \in Nodes(l) /\ stk[b].depth \in Nat
      /\ \A b \in DOMAIN lines : lines[b].node \in Nodes(l) /\ lines[b].depth \in Nat
      /\ DOMAIN stk = 1..Len(stk) /\ Len(stk) \in Nat
  BY <1>1, NodeTypeFacts
<1>5. IsFiniteSet(Kids(l, n)) /\ Kids(l, n) \subseteq Nodes(l)
  BY <1>4, ForestFacts, FS_Subset
<1>6. /\ order \in Seq(Kids(l, n)) /\ DOMAIN order = 1..c /\ c \in Nat
      /\ \A i, j \in 1..c : order[i] = order[j] => i = j
      /\ \A x \in Kids(l, n) : \E i \in 1..c : order[i] = x
  BY <1>3, <1>5, SeqsFacts
<1>7. new \in [1..c -> Waiting(l)]
  BY <1>4, <1>5, <1>6 DEF Waiting
<1>8. stk2 = new \o Tail(stk)
  BY <1>3
<1>9. \A k \in 1..c : new[k].node = order[k] /\ new[k].depth = d + 1 /\ order[k] \in Kids(l, n)
  BY <1>6
<1> HIDE DEF n, d, c, new
<1>10. new \in Seq(Waiting(l)) /\ c = Len(new)
  BY <1>6, <1>7
<1>11. /\ stk2 \in Seq(Waiting(l)) /\ DOMAIN stk2 \in SUBSET (Nat \ {0})
       /\ \A k \in 1..c : k \in DOMAIN stk2 /\ stk2[k] = new[k]
       /\ \A k \in DOMAIN stk2 : k \notin 1..c => /\ k - c + 1 \in DOMAIN stk /\ k - c + 1 # 1
                                                  /\ stk2[k] = stk[k - c + 1]
       /\ \A k \in DOMAIN stk : k # 1 => k + c - 1 \in DOMAIN stk2 /\ stk2[k + c - 1] = stk[k]
  <2>1. Pushed(Waiting(l), stk, new, stk2, c)
    BY <1>2, <1>10, <1>8, PushFacts
  <2> QED
    BY <2>1, Zenon DEF Pushed
<1>12. \A k \in 1..c : /\ stk2[k].node = order[k] /\ stk2[k].depth = d + 1
                       /\ order[k] \in Kids(l, n)
  BY <1>11, <1>9
<1>13. Line(l, n, d) \in Printed(l) /\ Line(l, n, d).node = n /\ Line(l, n, d).depth = d
  BY <1>4, IfoFields DEF Line, Printed
<1>14. lines2 = Append(lines, Line(l, n, d))
  BY <1>3 DEF n, d
<1>15. /\ DOMAIN lines2 = 1..L + 1 /\ Len(lines2) = L + 1 /\ L \in Nat /\ DOMAIN lines = 1..L
       /\ lines2[L + 1] = Line(l, n, d) /\ lines2 \in Seq(Printed(l))
       /\ \A b \in 1..L : lines2[b] = lines[b]
  BY <1>2, <1>13, <1>14, AppendFacts
<1> HIDE DEF L
<1>16. L = Len(lines)
  BY DEF L
<1>17. lines2[L + 1].node = n /\ lines2[L + 1].depth = d
  BY <1>15, <1>13
<1>18. stk[1].node = n /\ stk[1].depth = d
  BY DEF n, d
<1>19. \A k \in 1..c : ~Known(lines, stk, order[k])
  BY <1>9, <1>18, ChildIsNew
<1>20. \A b \in DOMAIN stk : stk[b].depth \in Nat /\ b \in Nat /\ b # 0
  BY <1>4
<1>21. Stepped(l, lines, stk, lines2, stk2, order, n, d, c, L)
  <2>1. LineStep(l, lines, lines2, n, d, L)
    BY <1>15, <1>16, <1>17, Zenon DEF LineStep
  <2>2. n \in Nodes(l) /\ d \in Nat /\ 1 \in DOMAIN stk
    BY <1>4
  <2>3. \A k \in 1..c : /\ k \in DOMAIN stk2 /\ stk2[k].node = order[k]
                        /\ stk2[k].depth = d + 1 /\ order[k] \in Kids(l, n)
    BY <1>11, <1>12, Zenon
  <2>4. StackStep(l, stk, stk2, order, n, d, c)
    BY <1>6, <1>11, <1>18, <1>20, <2>2, <2>3, Zenon DEF StackStep
  <2> QED
    BY <1>19, <2>1, <2>4, Zenon DEF Stepped
<1> QED
  BY <1>11, <1>15, <1>21 DEF n, d, c, L, Listed

LEMMA StepType ==
    ASSUME NEW l, NEW lines, NEW stk, NEW lines2, NEW stk2, NEW order, NEW n, NEW d, NEW c, NEW L,
           Stepped(l, lines, stk, lines2, stk2, order, n, d, c, L), NodeType(l, lines, stk),
           Listed(l, lines2, stk2)
    PROVE  NodeType(l, lines2, stk2)
<1>1. ASSUME NEW b \in DOMAIN lines2
      PROVE  lines2[b] = Line(l, lines2[b].node, lines2[b].depth)
  <2>1. b = L + 1 \/ b \in 1..L
    BY DEF Stepped, StackStep, LineStep
  <2>2. \/ lines2[b] = Line(l, n, d) /\ lines2[b].node = n /\ lines2[b].depth = d
        \/ b \in DOMAIN lines /\ lines2[b] = lines[b]
    BY <2>1 DEF Stepped, StackStep, LineStep
  <2> QED
    BY <2>2 DEF NodeType
<1> QED
  BY <1>1 DEF NodeType

LEMMA StepOnce ==
    ASSUME NEW l, NEW lines, NEW stk, NEW lines2, NEW stk2, NEW order, NEW n, NEW d, NEW c, NEW L,
           Stepped(l, lines, stk, lines2, stk2, order, n, d, c, L), Once(lines, stk)
    PROVE  Once(lines2, stk2)
<1>1. /\ c \in Nat /\ L \in Nat /\ 1 \in DOMAIN stk /\ stk[1].node = n
      /\ DOMAIN lines = 1..L /\ DOMAIN lines2 = 1..L + 1 /\ lines2[L + 1].node = n
      /\ \A b \in 1..L : lines2[b] = lines[b]
      /\ DOMAIN stk2 \in SUBSET (Nat \ {0})
  BY DEF Stepped, StackStep, LineStep
<1>2. /\ \A i, j \in 1..c : order[i] = order[j] => i = j
      /\ \A k \in 1..c : stk2[k].node = order[k] /\ ~Known(lines, stk, order[k])
  BY DEF Stepped, StackStep, LineStep
<1>3. \A k \in DOMAIN stk2 : k \notin 1..c => /\ k - c + 1 \in DOMAIN stk /\ k - c + 1 # 1
                                              /\ stk2[k] = stk[k - c + 1]
  BY DEF Stepped, StackStep, LineStep
<1>4. /\ \A a, b \in DOMAIN lines : lines[a].node = lines[b].node => a = b
      /\ \A a, b \in DOMAIN stk : stk[a].node = stk[b].node => a = b
      /\ \A a \in DOMAIN lines, b \in DOMAIN stk : lines[a].node # stk[b].node
  BY DEF Once
<1>5. \A a, b \in DOMAIN lines2 : lines2[a].node = lines2[b].node => a = b
  BY <1>1, <1>4
<1>6. \A a, b \in DOMAIN stk2 : stk2[a].node = stk2[b].node => a = b
  <2> TAKE a, b \in DOMAIN stk2
  <2> HAVE stk2[a].node = stk2[b].node
  <2>1. CASE a \in 1..c /\ b \in 1..c
    BY <1>2, <2>1
  <2>2. CASE a \in 1..c /\ b \notin 1..c
    BY <1>2, <1>3, <2>2 DEF Known
  <2>3. CASE a \notin 1..c /\ b \in 1..c
    BY <1>2, <1>3, <2>3 DEF Known
  <2>4. CASE a \notin 1..c /\ b \notin 1..c
    <3>1. a - c + 1 = b - c + 1
      BY <1>3, <1>4, <2>4
    <3> QED
      BY <1>1, <3>1
  <2> QED
    BY <2>1, <2>2, <2>3, <2>4
<1>7. \A a \in DOMAIN lines2, b \in DOMAIN stk2 : lines2[a].node # stk2[b].node
  <2> TAKE a \in DOMAIN lines2, b \in DOMAIN stk2
  <2>1. CASE b \in 1..c
    <3>1. order[b] # n /\ \A k \in 1..L : lines[k].node # order[b]
      BY <1>1, <1>2, <2>1 DEF Known
    <3> QED
      BY <1>1, <1>2, <2>1, <3>1
  <2>2. CASE b \notin 1..c
    <3>1. stk2[b] = stk[b - c + 1] /\ b - c + 1 \in DOMAIN stk /\ b - c + 1 # 1
      BY <1>3, <2>2
    <3>2. stk[b - c + 1].node # n /\ \A k \in 1..L : lines[k].node # stk[b - c + 1].node
      BY <1>1, <1>4, <3>1
    <3> QED
      BY <1>1, <3>1, <3>2
  <2> QED
    BY <2>1, <2>2
<1> QED
  BY <1>5, <1>6, <1>7 DEF Once

LEMMA StepReached ==
    ASSUME NEW l, NEW lines, NEW stk, NEW lines2, NEW stk2, NEW order, NEW n, NEW d, NEW c, NEW L,
           Stepped(l, lines, stk, lines2, stk2, order, n, d, c, L), Reached(l, lines, stk)
    PROVE  Reached(l, lines2, stk2)
<1>1. /\ L \in Nat /\ 1 \in DOMAIN stk /\ stk[1].node = n
      /\ DOMAIN lines = 1..L /\ DOMAIN lines2 = 1..L + 1 /\ lines2[L + 1].node = n
      /\ \A b \in 1..L : lines2[b] = lines[b]
  BY DEF Stepped, StackStep, LineStep
<1>2. /\ \A x \in Kids(l, n) : \E i \in 1..c : order[i] = x
      /\ \A k \in 1..c : k \in DOMAIN stk2 /\ stk2[k].node = order[k]
      /\ \A k \in DOMAIN stk : k # 1 => k + c - 1 \in DOMAIN stk2 /\ stk2[k + c - 1] = stk[k]
  BY DEF Stepped, StackStep, LineStep
<1>3. ASSUME NEW x, Known(lines, stk, x) PROVE Known(lines2, stk2, x)
  <2>1. CASE \E a \in DOMAIN lines : lines[a].node = x
    BY <1>1, <2>1 DEF Known
  <2>2. CASE \E a \in DOMAIN stk : stk[a].node = x
    <3>1. PICK a \in DOMAIN stk : stk[a].node = x
      BY <2>2
    <3>2. CASE a = 1
      <4>1. L + 1 \in DOMAIN lines2 /\ lines2[L + 1].node = x
        BY <1>1, <3>1, <3>2
      <4> QED
        BY <4>1 DEF Known
    <3>3. CASE a # 1
      BY <1>2, <3>1, <3>3 DEF Known
    <3> QED
      BY <3>2, <3>3
  <2> QED
    BY <1>3, <2>1, <2>2 DEF Known
<1>4. \A x \in Roots(l) : Known(lines2, stk2, x)
  BY <1>3 DEF Reached
<1>5. ASSUME NEW a \in DOMAIN lines2, NEW x \in Kids(l, lines2[a].node)
      PROVE  Known(lines2, stk2, x)
  <2>1. CASE a \in 1..L
    BY <1>1, <1>3, <1>5, <2>1 DEF Reached
  <2>2. CASE a = L + 1
    <3>1. PICK i \in 1..c : order[i] = x
      BY <1>1, <1>2, <1>5, <2>2
    <3> QED
      BY <1>2, <3>1 DEF Known
  <2> QED
    BY <1>1, <2>1, <2>2
<1> QED
  BY <1>4, <1>5 DEF Reached

\* More lines do not change where a line stands.
LEMMA PlacedKept ==
    ASSUME NEW l, NEW lines, NEW lines2, NEW b, NEW x, NEW e,
           \A k \in 1 .. b - 1 : lines2[k] = lines[k], b \in Nat, Placed(l, lines, b, x, e)
    PROVE  Placed(l, lines2, b, x, e)
<1>1. CASE e = 0
  BY <1>1 DEF Placed
<1>2. CASE e # 0
  <2>1. PICK a \in 1 .. b - 1 : /\ lines[a].depth = e - 1
                                /\ x \in Kids(l, lines[a].node)
                                /\ \A k \in a + 1 .. b - 1 : lines[k].depth # e - 1
    BY <1>2 DEF Placed
  <2>2. \A k \in a + 1 .. b - 1 : k \in 1 .. b - 1
    OBVIOUS
  <2>3. /\ lines2[a].depth = e - 1
        /\ x \in Kids(l, lines2[a].node)
        /\ \A k \in a + 1 .. b - 1 : lines2[k].depth # e - 1
    BY <2>1, <2>2
  <2> QED
    BY <1>2, <2>3 DEF Placed
<1> QED
  BY <1>1, <1>2

\* A node at least as deep as x printed before it does not hide its parent.
LEMMA PlacedLater ==
    ASSUME NEW l, NEW lines, NEW b \in Nat, NEW x, NEW e \in Nat, NEW d \in Nat, e <= d,
           b # 0, lines[b].depth = d, Placed(l, lines, b, x, e)
    PROVE  Placed(l, lines, b + 1, x, e)
<1>1. CASE e = 0
  BY <1>1 DEF Placed
<1>2. CASE e # 0
  <2>1. PICK a \in 1 .. b - 1 : /\ lines[a].depth = e - 1
                                /\ x \in Kids(l, lines[a].node)
                                /\ \A k \in a + 1 .. b - 1 : lines[k].depth # e - 1
    BY <1>2 DEF Placed
  <2>2. lines[b].depth # e - 1
    OBVIOUS
  <2>3. a \in 1 .. (b + 1) - 1 /\ \A k \in a + 1 .. (b + 1) - 1 : k \in a + 1 .. b - 1 \/ k = b
    OBVIOUS
  <2>4. \A k \in a + 1 .. (b + 1) - 1 : lines[k].depth # e - 1
    BY <2>1, <2>2, <2>3
  <2> QED
    BY <1>2, <2>1, <2>3, <2>4 DEF Placed
<1> QED
  BY <1>1, <1>2

LEMMA StepDepths ==
    ASSUME NEW l, NEW lines, NEW stk, NEW lines2, NEW stk2, NEW order, NEW n, NEW d, NEW c, NEW L,
           Stepped(l, lines, stk, lines2, stk2, order, n, d, c, L), Depths(l, lines, stk)
    PROVE  Depths(l, lines2, stk2)
<1>1. /\ d \in Nat /\ c \in Nat /\ L \in Nat
      /\ 1 \in DOMAIN stk /\ stk[1].node = n /\ stk[1].depth = d
      /\ DOMAIN lines = 1..L /\ Len(lines) = L /\ DOMAIN lines2 = 1..L + 1 /\ Len(lines2) = L + 1
      /\ lines2[L + 1].node = n /\ lines2[L + 1].depth = d
      /\ \A b \in 1..L : lines2[b] = lines[b]
      /\ DOMAIN stk2 \in SUBSET (Nat \ {0})
  BY DEF Stepped, StackStep, LineStep
<1>2. \A k \in 1..c : stk2[k].node \in Kids(l, n) /\ stk2[k].depth = d + 1
  BY DEF Stepped, StackStep, LineStep
<1>3. \A k \in DOMAIN stk2 : k \notin 1..c => /\ k - c + 1 \in DOMAIN stk /\ k - c + 1 # 1
                                             /\ stk2[k] = stk[k - c + 1]
  BY DEF Stepped, StackStep, LineStep
<1>4. /\ \A b \in DOMAIN lines : Placed(l, lines, b, lines[b].node, lines[b].depth)
      /\ \A b \in DOMAIN stk : Placed(l, lines, L + 1, stk[b].node, stk[b].depth)
      /\ \A a, b \in DOMAIN stk : a < b => stk[b].depth <= stk[a].depth
  BY <1>1 DEF Depths
<1>5. \A b \in DOMAIN stk : stk[b].depth \in Nat /\ b \in Nat /\ b # 0
  BY DEF Stepped, StackStep, LineStep
<1>6. ASSUME NEW b \in DOMAIN lines2
      PROVE  Placed(l, lines2, b, lines2[b].node, lines2[b].depth)
  <2>1. /\ b \in Nat /\ \A k \in 1 .. b - 1 : k \in 1..L
        /\ b = L + 1 \/ b \in 1..L
    BY <1>1
  <2>2. Placed(l, lines, b, lines2[b].node, lines2[b].depth)
    BY <1>1, <1>4, <2>1
  <2> QED
    BY <1>1, <2>1, <2>2, PlacedKept
<1>7. ASSUME NEW k \in DOMAIN stk, k # 1
      PROVE  stk[k].depth <= d /\ Placed(l, lines2, L + 1 + 1, stk[k].node, stk[k].depth)
  <2>1. stk[k].depth \in Nat /\ 1 < k
    BY <1>5, <1>7
  <2>2. stk[k].depth <= d
    BY <1>1, <1>4, <2>1
  <2>3. Placed(l, lines, L + 1, stk[k].node, stk[k].depth)
    BY <1>4
  <2>4. L + 1 \in Nat /\ L + 1 # 0 /\ \A i \in 1 .. (L + 1) - 1 : lines2[i] = lines[i]
    BY <1>1
  <2>5. Placed(l, lines2, L + 1, stk[k].node, stk[k].depth)
    BY <2>3, <2>4, PlacedKept
  <2>6. Placed(l, lines2, L + 1 + 1, stk[k].node, stk[k].depth)
    BY <1>1, <2>1, <2>2, <2>4, <2>5, PlacedLater
  <2> QED
    BY <2>2, <2>6
<1>8. ASSUME NEW b \in DOMAIN stk2
      PROVE  Placed(l, lines2, Len(lines2) + 1, stk2[b].node, stk2[b].depth)
  <2>1. CASE b \in 1..c
    <3>1. /\ stk2[b].depth # 0 /\ lines2[L + 1].depth = stk2[b].depth - 1
          /\ stk2[b].node \in Kids(l, lines2[L + 1].node)
      BY <1>1, <1>2, <2>1
    <3>2. L + 1 \in 1 .. (L + 1 + 1) - 1 /\ \A k \in L + 1 + 1 .. (L + 1 + 1) - 1 : FALSE
      BY <1>1
    <3> QED
      BY <1>1, <3>1, <3>2 DEF Placed
  <2>2. CASE b \notin 1..c
    BY <1>1, <1>3, <1>7, <2>2
  <2> QED
    BY <2>1, <2>2
<1>9. ASSUME NEW a \in DOMAIN stk2, NEW b \in DOMAIN stk2, a < b
      PROVE  stk2[b].depth <= stk2[a].depth
  <2>1. CASE b \in 1..c
    <3>1. a \in 1..c
      BY <1>1, <1>9, <2>1
    <3> QED
      BY <1>1, <1>2, <2>1, <3>1
  <2>2. CASE b \notin 1..c /\ a \in 1..c
    <3>1. stk2[b].depth \in Nat /\ stk2[b].depth <= d
      BY <1>3, <1>5, <1>7, <2>2
    <3> QED
      BY <1>1, <1>2, <2>2, <3>1
  <2>3. CASE b \notin 1..c /\ a \notin 1..c
    <3>1. /\ stk2[b] = stk[b - c + 1] /\ b - c + 1 \in DOMAIN stk
          /\ stk2[a] = stk[a - c + 1] /\ a - c + 1 \in DOMAIN stk
      BY <1>3, <2>3
    <3>2. a - c + 1 < b - c + 1
      BY <1>1, <1>9
    <3> QED
      BY <1>4, <3>1, <3>2
  <2> QED
    BY <2>1, <2>2, <2>3
<1> QED
  BY <1>6, <1>8, <1>9 DEF Depths

LEMMA SteppedProgress ==
    ASSUME NEW l, NEW lines, NEW stk, NEW lines2, NEW stk2, NEW order, NEW n, NEW d, NEW c, NEW L,
           Stepped(l, lines, stk, lines2, stk2, order, n, d, c, L), Progress(l, lines, stk),
           Listed(l, lines2, stk2)
    PROVE  Progress(l, lines2, stk2)
<1>1. /\ NodeType(l, lines, stk) /\ Once(lines, stk) /\ Reached(l, lines, stk)
      /\ Depths(l, lines, stk)
  BY DEF Progress
<1>2. NodeType(l, lines2, stk2)
  BY <1>1, StepType
<1>3. Once(lines2, stk2) /\ Reached(l, lines2, stk2) /\ Depths(l, lines2, stk2)
  BY <1>1, StepOnce, StepReached, StepDepths
<1> QED
  BY <1>2, <1>3 DEF Progress

\* Printing the next node keeps the order of the tree.
LEMMA ProgressStep ==
    ASSUME NEW l \in Seq(Ifo), NEW lines, NEW stk, Progress(l, lines, stk), stk # <<>>,
           NEW order \in SetToSeqs(Kids(l, Head(stk).node)), NEW lines2, NEW stk2,
           lines2 = Append(lines, Line(l, Head(stk).node, Head(stk).depth)),
           stk2 = [k \in DOMAIN order |-> [node |-> order[k], depth |-> Head(stk).depth + 1]]
                  \o Tail(stk)
    PROVE  Progress(l, lines2, stk2)
<1>1. /\ Listed(l, lines2, stk2)
      /\ Stepped(l, lines, stk, lines2, stk2, order, stk[1].node, stk[1].depth,
                 Len(order), Len(lines))
  BY StepFacts
<1> QED
  BY <1>1, SteppedProgress

----------------------------------------------------------------------------
(* What is on the page once nothing waits any more.                        *)

LEMMA OwnersAgree ==
    ASSUME ifos \in Seq(Ifo), NEW n \in Nodes(ifos)
    PROVE  /\ ListedOwners(ifos[n]) = ParentRefs(ifos, n)
           /\ Free(n) <=> n \in Unowned(ifos)
<1>1. \A u : u \in Uids <=> u # 0 /\ \E i \in DOMAIN ifos : ifos[i].uid = u
  BY DEF Uids, ToSet
<1>2. \A u : BySubjectUID(ifos, u) # 0 <=> u \in Uids
  BY <1>1, ByUID
<1>3. ListedOwners(ifos[n]) = ParentRefs(ifos, n)
  BY <1>2 DEF ListedOwners, ParentRefs
<1> QED
  BY <1>3 DEF Free, Unowned

\* A line shows the operations of its node.
LEMMA LinesShow ==
    ASSUME NEW lines, Progress(ifos, lines, <<>>), NEW b \in DOMAIN lines
    PROVE  lines[b].shown = {k \in DOMAIN ifos : NodeOf(ifos, k) = lines[b].node}
<1>1. lines[b] = Line(ifos, lines[b].node, lines[b].depth)
  BY DEF Progress, NodeType
<1> QED
  BY <1>1 DEF Line

\* A node is on the page, or its owner is not either.
LEMMA AllPrinted ==
    ASSUME ifos \in Seq(Ifo), NEW lines, Progress(ifos, lines, <<>>), NEW i \in DOMAIN ifos
    PROVE  LET with(j) == {b \in DOMAIN lines : j \in lines[b].shown}
               n == NodeOf(ifos, i)
           IN  \/ \E b : with(i) = {b}
               \/ /\ with(i) = {}
                  /\ ListedOwners(ifos[n]) # {}
                  /\ \A j \in DOMAIN ifos : ifos[j].uid = Owner(ifos[n]) => with(j) = {}
<1> DEFINE with(j) == {b \in DOMAIN lines : j \in lines[b].shown}
           n == NodeOf(ifos, i)
           m == BySubjectUID(ifos, ifos[n].owners[Min(ParentRefs(ifos, n))])
<1>1. /\ NodeType(ifos, lines, <<>>) /\ Once(lines, <<>>) /\ Reached(ifos, lines, <<>>)
  BY DEF Progress
<1>2. n \in Nodes(ifos)
  BY NodeFacts
<1>3. \A x : Known(lines, <<>>, x) <=> \E b \in DOMAIN lines : lines[b].node = x
  BY DEF Known
<1>4. \A b \in DOMAIN lines : lines[b].node \in Nodes(ifos)
  BY <1>1, NodeTypeFacts
<1>5. ASSUME NEW j \in DOMAIN ifos, NEW b \in DOMAIN lines
      PROVE  j \in lines[b].shown <=> NodeOf(ifos, j) = lines[b].node
  BY LinesShow
<1>6. CASE Known(lines, <<>>, n)
  <2>1. PICK b \in DOMAIN lines : lines[b].node = n
    BY <1>3, <1>6
  <2>2. with(i) = {b}
    BY <1>1, <1>5, <2>1 DEF Once
  <2> QED
    BY <2>2
<1>7. CASE ~Known(lines, <<>>, n)
  <2>1. with(i) = {}
    BY <1>3, <1>5, <1>7
  <2>2. n \notin Unowned(ifos)
    <3> SUFFICES ASSUME n \in Unowned(ifos) PROVE FALSE
      OBVIOUS
    <3>1. n \notin Roots(ifos)
      BY <1>1, <1>7 DEF Reached
    <3>2. PICK x \in Nodes(ifos) : n \in Kids(ifos, x)
      BY <1>2, <3>1, ForestFacts
    <3>3. Known(lines, <<>>, x)
      BY <1>1, <3>2, ForestFacts DEF Reached
    <3> QED
      BY <1>1, <1>3, <1>7, <3>2, <3>3 DEF Reached
  <2>3. ListedOwners(ifos[n]) = ParentRefs(ifos, n) /\ ParentRefs(ifos, n) # {}
    BY <1>2, <2>2, OwnersAgree DEF Unowned
  <2>4. /\ m \in Nodes(ifos) /\ IsChild(ifos, n, m)
        /\ \A j \in DOMAIN ifos : ifos[j].uid = Owner(ifos[n]) => NodeOf(ifos, j) = m
    BY <1>2, <2>3, OwnerFacts DEF Owner
  <2> HIDE DEF m
  <2>5. n \in Kids(ifos, m)
    BY <1>2, <2>4, ForestIs
  <2>6. \A b \in DOMAIN lines : lines[b].node # m
    BY <1>1, <1>7, <2>5 DEF Reached
  <2>7. \A j \in DOMAIN ifos : ifos[j].uid = Owner(ifos[n]) => with(j) = {}
    BY <1>5, <2>4, <2>6
  <2> QED
    BY <2>1, <2>3, <2>7
<1> QED
  BY <1>6, <1>7

LEMMA GroupsAgree ==
    ASSUME ifos \in Seq(Ifo), NEW n \in Unowned(ifos)
    PROVE  LET m == RootOf(ifos, Unowned(ifos), n)
           IN  /\ GroupRoots(n) # {} => m # 0
               /\ m # 0 => EarliestRoot(n, m)
<1>1. GroupRoots(n) = {x \in Unowned(ifos) : /\ ifos[x].role = "root" /\ ifos[n].group # 0
                                             /\ ifos[x].group = ifos[n].group
                                             /\ ifos[x].namespace = ifos[n].namespace}
  BY OwnersAgree DEF GroupRoots, Unowned
<1> QED
  BY <1>1, GroupFacts DEF EarliestRoot

\* Every line stands below the line of the parent.
LEMMA AllPlaced ==
    ASSUME ifos \in Seq(Ifo), NEW lines, Progress(ifos, lines, <<>>), NEW b \in DOMAIN lines
    PROVE  LET n == lines[b].node
               m == lines[Above(lines, b)].node
           IN  IF lines[b].depth = 0
               THEN Free(n) /\ (GroupRoots(n) # {} => EarliestRoot(n, n))
               ELSE \/ ~Free(n) /\ ifos[m].uid = Owner(ifos[n])
                    \/ Free(n) /\ EarliestRoot(n, m)
<1> DEFINE n == lines[b].node
           m == lines[Above(lines, b)].node
           e == lines[b].depth
           R == RootOf(ifos, Unowned(ifos), n)
<1>1. NodeType(ifos, lines, <<>>) /\ Placed(ifos, lines, b, n, e)
  BY DEF Progress, Depths
<1>2. /\ DOMAIN lines = 1..Len(lines) /\ Len(lines) \in Nat /\ n \in Nodes(ifos) /\ e \in Nat
      /\ \A a \in DOMAIN lines : lines[a].node \in Nodes(ifos)
  BY <1>1, NodeTypeFacts
<1>3. CASE e = 0
  <2>1. n \in Unowned(ifos) /\ R \in {0, n}
    BY <1>1, <1>3, ForestIs DEF Placed
  <2>2. Free(n)
    BY <1>2, <2>1, OwnersAgree
  <2>3. GroupRoots(n) # {} => EarliestRoot(n, n)
    BY <2>1, GroupsAgree
  <2> QED
    BY <1>3, <2>2, <2>3
<1>4. CASE e # 0
  <2>1. PICK a \in 1 .. b - 1 : /\ lines[a].depth = e - 1
                                /\ n \in Kids(ifos, lines[a].node)
                                /\ \A k \in a + 1 .. b - 1 : lines[k].depth # e - 1
    BY <1>1, <1>4 DEF Placed
  <2> DEFINE higher == {k \in 1 .. b - 1 : lines[k].depth = lines[b].depth - 1}
  <2>2. higher \in SUBSET Nat /\ a \in higher /\ \A k \in higher : k <= a
    BY <1>2, <2>1
  <2>3. Above(lines, b) = a
    BY <2>2, MaxIs DEF Above
  <2>4. m = lines[a].node /\ m \in Nodes(ifos) /\ n \in Kids(ifos, m)
    BY <1>2, <2>1, <2>3
  <2> HIDE DEF m, n
  <2>5. CASE IsChild(ifos, n, m)
    <3>1. ParentRefs(ifos, n) # {}
      BY <2>5 DEF IsChild
    <3>2. ~Free(n) /\ ListedOwners(ifos[n]) = ParentRefs(ifos, n)
      BY <1>2, <3>1, OwnersAgree DEF Unowned
    <3>3. ifos[m].uid = Owner(ifos[n])
      BY <1>2, <2>5, <3>1, <3>2, OwnerFacts DEF Owner
    <3> QED
      BY <1>4, <3>2, <3>3 DEF m, n
  <2>6. CASE n \in Unowned(ifos) /\ RootOf(ifos, Unowned(ifos), n) = m
    <3>1. m # 0
      BY <2>4, IfoFields DEF Nodes
    <3>2. Free(n) /\ EarliestRoot(n, m)
      BY <1>2, <2>6, <3>1, OwnersAgree, GroupsAgree
    <3> QED
      BY <1>4, <3>2 DEF m, n
  <2> QED
    BY <2>4, <2>5, <2>6, ForestIs
<1> QED
  BY <1>3, <1>4

----------------------------------------------------------------------------
(* The inductive invariant: what the command holds, what it prints, what   *)
(* it was asked for, and how far tree --for has got.                       *)

CommandInv ==
    /\ StoreType
    /\ command \in Command /\ flags \in Flags
    /\ ifos \in Seq(Ifo) /\ children \in Seq(Ifo)
    /\ pc \in {"list", "get", "summary", "tree", "for"} => pc = command.verb /\ ifos = <<>>
    /\ pc \in {"forChildren", "forGrandchildren"} => command.verb = "for"
    /\ pc = "print" => command.verb \in {"tree", "for"}
    /\ pc \notin {"print", "done"} => output = Nothing

PrintInv ==
    /\ pc = "print" => output.kind = "tree"
    /\ output.kind = "tree" =>
        /\ output = [kind |-> "tree", lines |-> output.lines]
        /\ pc \in {"print", "done"} /\ (pc = "done" <=> stack = <<>>)
        /\ Progress(ifos, output.lines, stack)

AskedInv ==
    pc \in {"print", "done"} =>
        /\ command.verb \in {"list", "tree"} =>
            FetchedIds = {id \in Stored : Asked(store[id], flags)}
        /\ command.verb = "list" =>
            \A i, j \in DOMAIN output.rows :
                i < j => output.rows[i].created >= output.rows[j].created
        /\ command.verb = "summary" => SummaryAgrees

\* The stored operations that were asked for and that the operator has left
\* alone.  Of a set q of operations in the store st: those of the resource,
\* those with a first owner in a set.
Quiet == {id \in steady \cap Stored : Asked(store[id], flags)}
TargetOf(st, q, cmd) == {id \in q : st[id][1].kind = cmd.kind /\ st[id][1].name = cmd.name}
OwnedBy(st, q, uids) == {id \in q : FirstOwner(st[id], uids)}

Ids(l) == {i.id : i \in ToSet(l)}
UidOf(l) == IF l = <<>> THEN {} ELSE {l[1].uid} \ {0}
UidsOf(l) == {i.uid : i \in ToSet(l)} \ {0}

\* Nothing is fetched that is not linked to the resource.
Linked(cmd, l) ==
    \A i \in ToSet(l) : \/ i.kind = cmd.kind /\ i.name = cmd.name
                        \/ i.owners # <<>> /\ i.owners[1] \in UidsOf(l)

\* The children are fetched; the children of some, todo, are not.
Underway(st, q, l, todo) ==
    /\ todo # <<>> /\ ToSet(todo) \subseteq ToSet(l)
    /\ OwnedBy(st, q, UidOf(l)) \subseteq Ids(l)
    /\ \A id \in OwnedBy(st, q, UidOf(l)) :
        \/ st[id][1].uid = 0
        \/ \E c \in ToSet(todo) : c.uid = st[id][1].uid
        \/ OwnedBy(st, q, {st[id][1].uid}) \subseteq Ids(l)

Complete(st, q, l) ==
    /\ OwnedBy(st, q, UidOf(l)) \subseteq Ids(l)
    /\ OwnedBy(st, q, {st[id][1].uid : id \in OwnedBy(st, q, UidOf(l))} \ {0}) \subseteq Ids(l)

FamilyInv ==
    command.verb = "for" =>
        /\ pc \in {"forChildren", "forGrandchildren", "print", "done"} =>
            TargetOf(store, Quiet, command) \subseteq Ids(ifos) /\ Linked(command, ifos)
        /\ pc \in {"forChildren", "forGrandchildren"} => ifos # <<>> /\ ifos[1].uid # 0
        /\ pc = "forGrandchildren" => Underway(store, Quiet, ifos, children)
        /\ pc \in {"print", "done"} => Complete(store, Quiet, ifos)

\* A fetched name is that of one object.  While it is stored it has the
\* subject it was fetched with; once it is deleted it does not come back.
Faithful(st, sd, l) ==
    \A x \in ToSet(l) :
        /\ x.id \in Id
        /\ st[x.id] = None => x.id \notin sd
        /\ st[x.id] # None => st[x.id][1].uid = x.uid
OneSubject(l) == \A x, y \in ToSet(l) : x.id = y.id => x.uid = y.uid
Distinct(l) == \A i, j \in DOMAIN l : l[i].id = l[j].id => i = j

IdentityInv ==
    /\ pc \in {"forChildren", "forGrandchildren"} => Faithful(store, steady, ifos)
    /\ command.verb \in {"tree", "for"} => OneSubject(ifos)
    /\ command.verb = "tree" => Distinct(ifos)
    /\ output.kind = "tree" => command.verb \in {"tree", "for"}

PluginInv == CommandInv /\ PrintInv /\ AskedInv /\ FamilyInv /\ IdentityInv

----------------------------------------------------------------------------
(* What a command holds.                                                   *)

LEMMA ListType ==
    ASSUME StoreType, NEW opts
    PROVE  List(opts) \in Seq(Ifo)
  BY ListFacts

LEMMA RowsFacts ==
    ASSUME NEW l \in Seq(Ifo), NEW rows \in NewestFirst(l)
    PROVE  /\ rows \in Seq(Ifo) /\ ToSet(rows) = ToSet(l)
           /\ \A i, j \in DOMAIN rows : i < j => rows[i].created >= rows[j].created
<1>1. IsFiniteSet(ToSet(l)) /\ ToSet(l) \subseteq Ifo
  <2>1. ToSet(l) = {l[i] : i \in 1..Len(l)} /\ Len(l) \in Nat
    BY DEF ToSet
  <2>2. IsFiniteSet(1..Len(l))
    BY <2>1, FS_Interval
  <2> DEFINE f == [i \in 1..Len(l) |-> l[i]]
  <2>3. f \in Surjection(1..Len(l), ToSet(l))
    BY <2>1 DEF Surjection
  <2>4. IsFiniteSet(ToSet(l))
    BY <2>2, <2>3, FS_Surjection
  <2> QED
    BY <2>1, <2>4
<1>2. rows \in SetToSeqs(ToSet(l))
  BY DEF NewestFirst
<1>3. /\ rows \in Seq(ToSet(l)) /\ DOMAIN rows = 1..Len(rows)
      /\ \A x \in ToSet(l) : \E i \in DOMAIN rows : rows[i] = x
  BY <1>1, <1>2, SeqsFacts
<1>4. ToSet(rows) = {rows[i] : i \in DOMAIN rows} /\ \A i \in DOMAIN rows : rows[i] \in ToSet(l)
  BY <1>3 DEF ToSet
<1>5. ToSet(rows) = ToSet(l)
  BY <1>3, <1>4
<1>6. \A i, j \in DOMAIN rows : i < j => rows[i].created >= rows[j].created
  BY DEF NewestFirst
<1>7. rows \in Seq(Ifo)
  BY <1>1, <1>3
<1> QED
  BY <1>5, <1>6, <1>7

LEMMA ShowCommand ==
    ASSUME CommandInv, NEW l \in Seq(Ifo), NEW out, Show(l, out)
    PROVE  CommandInv'
  BY DEF Show, CommandInv, StoreType

LEMMA ShowTreeCommand ==
    ASSUME CommandInv, NEW l \in Seq(Ifo), ShowTree(l), command.verb \in {"tree", "for"}
    PROVE  CommandInv'
<1>1. pc' \in {"print", "done"} /\ ifos' = l /\ children' = <<>> /\ UNCHANGED <<store, command, flags>>
  BY DEF ShowTree
<1> QED
  BY <1>1 DEF CommandInv, StoreType

LEMMA FetchCommand ==
    ASSUME CommandInv, NEW l \in Seq(Ifo), NEW label \in {"forChildren", "forGrandchildren"},
           NEW todo \in Seq(Ifo), Fetch(l, label, todo), command.verb = "for",
           pc \notin {"print", "done"}
    PROVE  CommandInv'
<1>1. ifos' \in Seq(Ifo)
  BY DEF Fetch, CommandInv
<1> QED
  BY <1>1 DEF Fetch, CommandInv, StoreType

LEMMA ChangedStore ==
    ASSUME StoreType, NEW id \in Id, NEW o \in {None} \cup (Shape \X Phase), Changed(id, o)
    PROVE  /\ StoreType' /\ UNCHANGED cliVars /\ pc \in {"forChildren", "forGrandchildren"}
           /\ steady' = steady \ {id}
           /\ \A i \in Id : i # id => store'[i] = store[i]
  BY DEF StoreType, Changed

\* What the operator does to the store.
LEMMA OperatorChanges ==
    ASSUME StoreType, NEW id \in Id,
           \/ \E spec \in Shape : Create(id, spec)
           \/ \E phase \in {"Active", "Completed"} : SetPhase(id, phase)
           \/ Delete(id)
    PROVE  \E o \in {None} \cup (Shape \X Phase) : Changed(id, o)
<1>1. CASE \E spec \in Shape : Create(id, spec)
  BY <1>1 DEF Create, Phase
<1>2. ASSUME NEW phase \in {"Active", "Completed"}, SetPhase(id, phase)
      PROVE  \E o \in {None} \cup (Shape \X Phase) : Changed(id, o)
  <2>1. store[id] \in Shape \X Phase
    BY <1>2 DEF SetPhase, StoreType
  <2>2. <<store[id][1], phase>> \in Shape \X Phase
    BY <2>1 DEF Phase
  <2> QED
    BY <1>2, <2>2 DEF SetPhase
<1>3. CASE Delete(id)
  BY <1>3 DEF Delete
<1> QED
  BY <1>1, <1>2, <1>3

LEMMA CommandStep ==
    ASSUME CommandInv, FamilyInv, Next
    PROVE  CommandInv'
<1>1. StoreType /\ ifos \in Seq(Ifo) /\ children \in Seq(Ifo)
  BY DEF CommandInv
<1>2. ASSUME NEW id \in Id, NEW o \in {None} \cup (Shape \X Phase), Changed(id, o)
      PROVE  CommandInv'
  BY <1>1, <1>2, ChangedStore DEF CommandInv, cliVars
<1>3. CASE runList
  <2>1. PICK rows \in NewestFirst(List(buildListOptions(flags))) :
            Show(rows, [kind |-> "rows", rows |-> rows])
    BY <1>3 DEF runList
  <2> QED
    BY <1>1, <2>1, ListType, RowsFacts, ShowCommand
<1>4. CASE runGet
  <2> DEFINE ifo == Fetched(command.id, store[command.id])
  <2>1. command.id \in Id
    BY PluginAssumption DEF CommandInv
  <2>2. store[command.id] \in Shape \X Phase
    BY <1>1, <1>4, <2>1 DEF runGet, StoreType
  <2>3. ifo \in Ifo
    BY <2>1, <2>2, FetchedType
  <2>4. Show(<<ifo>>, [kind |-> "rows", rows |-> <<ifo>>])
    BY <1>4 DEF runGet
  <2> HIDE DEF ifo
  <2>5. <<ifo>> \in Seq(Ifo)
    BY <2>3
  <2>6. \E l \in Seq(Ifo) : \E out : Show(l, out)
    BY <2>4, <2>5, Zenon
  <2> QED
    BY <2>6, ShowCommand
<1>5. CASE runSummary
  BY <1>1, <1>5, ListType, ShowCommand DEF runSummary
<1>6. CASE runTree
  BY <1>1, <1>6, ListType, ShowTreeCommand DEF runTree, CommandInv
<1>7. CASE printSubtree
  <2>1. pc' \in {"print", "done"} /\ pc = "print" /\ UNCHANGED <<store, command, flags, ifos, children>>
    BY <1>7 DEF printSubtree
  <2> QED
    BY <2>1 DEF CommandInv, StoreType
<1>8. CASE forTarget
  <2> DEFINE l == List(Narrowed({<<"subject-kind", command.kind>>,
                                 <<"subject-name", command.name>>}))
  <2>1. l \in Seq(Ifo)
    BY <1>1, ListType
  <2>2. command.verb = "for" /\ pc = "for" /\ (ShowTree(l) \/ Fetch(l, "forChildren", <<>>))
    BY <1>8 DEF forTarget, CommandInv
  <2> HIDE DEF l
  <2>3. <<>> \in Seq(Ifo) /\ pc \notin {"print", "done"}
    BY <2>2
  <2>4. CASE ShowTree(l)
    BY <2>1, <2>2, <2>4, ShowTreeCommand
  <2>5. CASE Fetch(l, "forChildren", <<>>)
    BY <2>1, <2>2, <2>3, <2>5, FetchCommand
  <2> QED
    BY <2>2, <2>4, <2>5
<1>9. CASE forChildren
  <2> DEFINE l == List(Narrowed({<<"owner-uid", ifos[1].uid>>}))
  <2>1. l \in Seq(Ifo)
    BY <1>1, ListType
  <2>2. /\ command.verb = "for" /\ pc = "forChildren"
        /\ ShowTree(ifos) \/ Fetch(l, "forGrandchildren", l)
    BY <1>9 DEF forChildren, CommandInv
  <2> HIDE DEF l
  <2> QED
    BY <1>1, <2>1, <2>2, ShowTreeCommand, FetchCommand
<1>10. CASE forGrandchildren
  <2> DEFINE child == Head(children)
             l == IF child.uid = 0 THEN <<>> ELSE List(gcOpts(child))
  <2>1. l \in Seq(Ifo)
    BY <1>1, ListType
  <2>2. /\ command.verb = "for" /\ pc = "forGrandchildren"
        /\ ShowTree(ifos \o l) \/ Fetch(l, "forGrandchildren", Tail(children))
    BY <1>10 DEF forGrandchildren, CommandInv
  <2>3. children # <<>> /\ Tail(children) \in Seq(Ifo)
    BY <1>1, <2>2 DEF FamilyInv, Underway
  <2> HIDE DEF l
  <2>4. ifos \o l \in Seq(Ifo)
    BY <1>1, <2>1
  <2>5. CASE ShowTree(ifos \o l)
    BY <2>2, <2>4, <2>5, ShowTreeCommand
  <2>6. CASE Fetch(l, "forGrandchildren", Tail(children))
    BY <2>1, <2>2, <2>3, <2>6, FetchCommand
  <2> QED
    BY <2>2, <2>5, <2>6
<1>11. CASE Fail
  BY <1>11 DEF Fail, CommandInv, StoreType
<1> QED
  BY <1>1, <1>2, <1>3, <1>4, <1>5, <1>6, <1>7, <1>8, <1>9, <1>10, <1>11, OperatorChanges DEF Next

----------------------------------------------------------------------------
(* The tree on the page.                                                   *)

LEMMA ShowPrint ==
    ASSUME NEW l, NEW out, Show(l, out), out.kind # "tree"
    PROVE  PrintInv'
  BY DEF Show, PrintInv

LEMMA ShowTreePrint ==
    ASSUME NEW l \in Seq(Ifo), ShowTree(l)
    PROVE  PrintInv'
<1>1. /\ ifos' = l /\ output' = [kind |-> "tree", lines |-> <<>>]
      /\ pc' \in {"print", "done"} /\ (pc' = "done" <=> stack' = <<>>)
  BY DEF ShowTree
<1>2. PICK order \in PrintForest(l, Roots(l)) :
          stack' = [k \in DOMAIN order |-> [node |-> order[k], depth |-> 0]]
  BY DEF ShowTree, Roots
<1>3. order \in SetToSeqs(Roots(l))
  BY DEF PrintForest
<1>4. Progress(l, <<>>, stack')
  BY <1>2, <1>3, ProgressInit
<1>5. output'.kind = "tree" /\ output'.lines = <<>>
  BY <1>1
<1>6. Progress(ifos', output'.lines, stack')
  BY <1>1, <1>4, <1>5
<1> QED
  BY <1>1, <1>5, <1>6 DEF PrintInv

\* An action that does not print and after which the command is not over.
LEMMA QuietPrint ==
    ASSUME CommandInv, pc \notin {"print", "done"}, pc' \notin {"print", "done"},
           UNCHANGED output
    PROVE  PrintInv'
  BY DEF PrintInv, CommandInv, Nothing

LEMMA PrintStep ==
    ASSUME CommandInv, PrintInv, Next
    PROVE  PrintInv'
<1>1. StoreType /\ ifos \in Seq(Ifo) /\ children \in Seq(Ifo)
  BY DEF CommandInv
<1>2. ASSUME NEW id \in Id, NEW o \in {None} \cup (Shape \X Phase), Changed(id, o)
      PROVE  PrintInv'
  BY <1>2, QuietPrint DEF Changed, cliVars
<1>3. CASE runList
  BY <1>3, ShowPrint DEF runList
<1>4. CASE runGet
  BY <1>4, ShowPrint DEF runGet
<1>5. CASE runSummary
  BY <1>5, ShowPrint DEF runSummary
<1>6. CASE runTree
  BY <1>1, <1>6, ListType, ShowTreePrint DEF runTree
<1>7. CASE printSubtree
  <2> DEFINE n == Head(stack).node
             depth == Head(stack).depth
  <2>1. /\ pc = "print" /\ output = [kind |-> "tree", lines |-> output.lines]
        /\ stack # <<>> /\ Progress(ifos, output.lines, stack)
    BY <1>7 DEF printSubtree, PrintInv
  <2>2. /\ output' = [output EXCEPT !.lines = Append(@, Line(ifos, n, depth))]
        /\ ifos' = ifos /\ pc' \in {"print", "done"} /\ (pc' = "done" <=> stack' = <<>>)
    BY <1>7 DEF printSubtree
  <2>3. PICK order \in sortChildren(ifos, Kids(ifos, n)) :
            stack' = [k \in DOMAIN order |-> [node |-> order[k], depth |-> depth + 1]]
                     \o Tail(stack)
    BY <1>7 DEF printSubtree, Kids
  <2>4. order \in SetToSeqs(Kids(ifos, n))
    BY DEF sortChildren
  <2> DEFINE more == Append(output.lines, Line(ifos, n, depth))
  <2> HIDE DEF more
  <2>5. output' = [kind |-> "tree", lines |-> more]
    BY <2>1, <2>2 DEF more
  <2>6. output'.kind = "tree" /\ output'.lines = more
    BY <2>5
  <2>7. Progress(ifos, more, stack')
    BY <1>1, <2>1, <2>3, <2>4, ProgressStep DEF more
  <2>8. Progress(ifos', output'.lines, stack')
    BY <2>2, <2>6, <2>7
  <2> QED
    BY <2>2, <2>5, <2>6, <2>8 DEF PrintInv
<1>8. CASE forTarget
  <2> DEFINE l == List(Narrowed({<<"subject-kind", command.kind>>,
                                 <<"subject-name", command.name>>}))
  <2>1. l \in Seq(Ifo)
    BY <1>1, ListType
  <2>2. pc = "for" /\ (ShowTree(l) \/ Fetch(l, "forChildren", <<>>))
    BY <1>8 DEF forTarget
  <2> HIDE DEF l
  <2> QED
    BY <2>1, <2>2, ShowTreePrint, QuietPrint DEF Fetch
<1>9. CASE forChildren
  <2> DEFINE l == List(Narrowed({<<"owner-uid", ifos[1].uid>>}))
  <2>1. pc = "forChildren" /\ (ShowTree(ifos) \/ Fetch(l, "forGrandchildren", l))
    BY <1>9 DEF forChildren
  <2> HIDE DEF l
  <2> QED
    BY <1>1, <2>1, ShowTreePrint, QuietPrint DEF Fetch
<1>10. CASE forGrandchildren
  <2> DEFINE child == Head(children)
             l == IF child.uid = 0 THEN <<>> ELSE List(gcOpts(child))
  <2>1. l \in Seq(Ifo)
    BY <1>1, ListType
  <2>2. /\ pc = "forGrandchildren"
        /\ ShowTree(ifos \o l) \/ Fetch(l, "forGrandchildren", Tail(children))
    BY <1>10 DEF forGrandchildren
  <2> HIDE DEF l
  <2>3. ifos \o l \in Seq(Ifo)
    BY <1>1, <2>1
  <2>4. CASE ShowTree(ifos \o l)
    BY <2>3, <2>4, ShowTreePrint
  <2>5. CASE Fetch(l, "forGrandchildren", Tail(children))
    BY <2>2, <2>5, QuietPrint DEF Fetch
  <2> QED
    BY <2>2, <2>4, <2>5
<1>11. CASE Fail
  BY <1>11, QuietPrint DEF Fail, PrintInv
<1> QED
  BY <1>1, <1>2, <1>3, <1>4, <1>5, <1>6, <1>7, <1>8, <1>9, <1>10, <1>11, OperatorChanges DEF Next

----------------------------------------------------------------------------
(* What was asked for.                                                     *)

LEMMA IdsOf ==
    ASSUME NEW l, NEW x
    PROVE  x \in Ids(l) <=> \E i \in DOMAIN l : l[i].id = x
  BY DEF Ids, ToSet

\* A list call fetches what its selectors let through, as it is stored.
LEMMA ListIds ==
    ASSUME StoreType, NEW opts, NEW l, l = List(opts)
    PROVE  /\ Ids(l) = {id \in Stored : Selected(store[id], opts)}
           /\ \A i \in DOMAIN l : LET o == store[l[i].id]
                                  IN  /\ l[i].id \in Stored /\ o \in Shape \X Phase
                                      /\ Selected(o, opts)
                                      /\ l[i].phase = o[2]
                                      /\ l[i].uid = o[1].uid /\ l[i].kind = o[1].kind
                                      /\ l[i].name = o[1].name
                                      /\ l[i].component = o[1].component
                                      /\ l[i].operation = o[1].operation
                                      /\ l[i].owners = o[1].owners
<1>1. /\ \A i \in DOMAIN l : /\ l[i].id \in Id /\ Selected(store[l[i].id], opts)
                             /\ l[i] = Fetched(l[i].id, store[l[i].id])
      /\ \A id \in Id : Selected(store[id], opts) => \E i \in DOMAIN l : l[i].id = id
  BY ListFacts
<1>2. \A id \in Id : Selected(store[id], opts) => id \in Stored /\ store[id] \in Shape \X Phase
  BY DEF Selected, Stored, StoreType
<1>3. Ids(l) = {id \in Stored : Selected(store[id], opts)}
  <2>1. \A x \in Ids(l) : x \in Stored /\ Selected(store[x], opts)
    BY <1>1, <1>2, IdsOf
  <2>2. \A x \in Stored : Selected(store[x], opts) => x \in Ids(l)
    BY <1>1, IdsOf DEF Stored
  <2> QED
    BY <2>1, <2>2
<1>4. ASSUME NEW i \in DOMAIN l, NEW o, o = store[l[i].id]
      PROVE  /\ l[i].id \in Stored /\ o \in Shape \X Phase
             /\ Selected(o, opts)
             /\ l[i].phase = o[2]
             /\ l[i].uid = o[1].uid /\ l[i].kind = o[1].kind
             /\ l[i].name = o[1].name
             /\ l[i].component = o[1].component
             /\ l[i].operation = o[1].operation
             /\ l[i].owners = o[1].owners
  <2>1. l[i] = Fetched(l[i].id, o) /\ l[i].id \in Stored /\ o \in Shape \X Phase
        /\ Selected(o, opts)
    BY <1>1, <1>2, <1>4
  <2> QED
    BY <2>1 DEF Fetched
<1> QED
  BY <1>3, <1>4

\* What list and tree fetch.
LEMMA AskedIds ==
    ASSUME CommandInv
    PROVE  Ids(List(buildListOptions(flags))) = {id \in Stored : Asked(store[id], flags)}
<1>1. StoreType /\ flags \in Flags
  BY DEF CommandInv
<1>2. \A id \in Stored : store[id] \in Shape \X Phase
  BY <1>1 DEF StoreType, Stored
<1>3. Ids(List(buildListOptions(flags))) = {id \in Stored : Selected(store[id], buildListOptions(flags))}
  BY <1>1, ListIds
<1> QED
  BY <1>1, <1>2, <1>3, FlagsMean

\* Positions count what they hold: a name is listed once.
LEMMA CountIs ==
    ASSUME StoreType, NEW opts, NEW l, l = List(opts), NEW I \in SUBSET DOMAIN l, NEW T,
           \A x : x \in T <=> \E i \in I : l[i].id = x
    PROVE  Cardinality(I) = Cardinality(T)
<1>1. /\ l \in Seq(Ifo) /\ DOMAIN l = 1..Len(l)
      /\ \A i, j \in DOMAIN l : l[i].id = l[j].id => i = j
  BY ListFacts
<1>2. IsFiniteSet(I)
  <2>1. I \in SUBSET (1..Len(l)) /\ Len(l) \in Nat
    BY <1>1
  <2> QED
    BY <2>1, FS_Interval, FS_Subset
<1> DEFINE f == [i \in I |-> l[i].id]
<1>3. f \in Surjection(I, T)
  BY DEF Surjection
<1>4. f \in Injection(I, T)
  BY <1>1 DEF Injection, IsInjective
<1> HIDE DEF f
<1> QED
  BY <1>2, <1>3, <1>4, FS_Surjection

\* The two tables of the summary of l agree with the store st.
Agrees(st, f, l, C, K) ==
    LET matching == {id \in {x \in Id : st[x] # None} : Matching(st[id], f)}
        active == {id \in matching : st[id][2] = "Active"}
        Of(c) == {id \in matching : st[id][1].component = c}
        Doing(k, o) == {id \in active : st[id][1].kind = k /\ st[id][1].operation = o}
    IN  /\ matching = Ids(l)
        /\ DOMAIN C = {st[id][1].component : id \in matching}
        /\ \A c \in DOMAIN C : /\ C[c].active = Cardinality(Of(c) \cap active)
                               /\ C[c].completed = Cardinality(Of(c) \ active)
        /\ \A id \in active : /\ st[id][1].kind \in DOMAIN K
                              /\ st[id][1].operation \in DOMAIN K[st[id][1].kind]
        /\ \A k \in DOMAIN K : \A o \in DOMAIN K[k] : K[k][o] = Cardinality(Doing(k, o))

LEMMA SummaryMeans ==
    /\ SummaryAgrees <=> Agrees(store, flags, ifos, output.byComponent, output.byKind)
    /\ SummaryAgrees' <=> Agrees(store', flags', ifos', output'.byComponent, output'.byKind)
  BY DEF SummaryAgrees, Agrees, Stored, FetchedIds, Ids

LEMMA SummaryFacts ==
    ASSUME CommandInv, NEW opts, opts = buildListOptions(flags), NEW l,
           l = List([opts EXCEPT !.fields = removeFieldSelector(@, "phase")])
    PROVE  Agrees(store, flags, l, printComponentSummary(l), printOperationSummary(l))
<1> DEFINE matching == {id \in Stored : Matching(store[id], flags)}
           active == {id \in matching : store[id][2] = "Active"}
           Of(c) == {id \in matching : store[id][1].component = c}
           Doing(k, o) == {id \in active : store[id][1].kind = k /\ store[id][1].operation = o}
           C == printComponentSummary(l)
           K == printOperationSummary(l)
           wide == [opts EXCEPT !.fields = removeFieldSelector(@, "phase")]
<1>1. StoreType /\ flags \in Flags /\ l = List(wide)
  BY DEF CommandInv
<1>2. \A id \in Stored : store[id] \in Shape \X Phase
  BY <1>1 DEF StoreType, Stored
<1>3. \A id \in Stored : Selected(store[id], wide) <=> Matching(store[id], flags)
  BY <1>1, <1>2, FlagsMean
<1> HIDE DEF wide
<1>4. Ids(l) = {id \in Stored : Selected(store[id], wide)}
  BY <1>1, ListIds
<1>5. matching = Ids(l)
  BY <1>3, <1>4
<1>6. \A i \in DOMAIN l : /\ l[i].id \in matching
                          /\ l[i].phase = store[l[i].id][2]
                          /\ l[i].kind = store[l[i].id][1].kind
                          /\ l[i].component = store[l[i].id][1].component
                          /\ l[i].operation = store[l[i].id][1].operation
  <2> TAKE i \in DOMAIN l
  <2> DEFINE o == store[l[i].id]
  <2>1. /\ l[i].phase = o[2] /\ l[i].kind = o[1].kind
        /\ l[i].component = o[1].component /\ l[i].operation = o[1].operation
    BY <1>1, ListIds
  <2>2. l[i].id \in matching
    BY <1>5, IdsOf
  <2> QED
    BY <2>1, <2>2
<1>7. \A id \in matching : \E i \in DOMAIN l : l[i].id = id
  BY <1>5, IdsOf
<1> HIDE DEF matching
<1>8. ASSUME NEW c
      PROVE  /\ Count(l, LAMBDA i : i.component = c /\ i.phase = "Active") = Cardinality(Of(c) \cap active)
             /\ Count(l, LAMBDA i : i.component = c /\ i.phase # "Active") = Cardinality(Of(c) \ active)
  <2> DEFINE I == {i \in DOMAIN l : l[i].component = c /\ l[i].phase = "Active"}
             J == {i \in DOMAIN l : l[i].component = c /\ l[i].phase # "Active"}
  <2>1. \A x : x \in Of(c) \cap active <=> \E i \in I : l[i].id = x
    BY <1>6, <1>7
  <2>2. \A x : x \in Of(c) \ active <=> \E i \in J : l[i].id = x
    BY <1>6, <1>7
  <2>3. Cardinality(I) = Cardinality(Of(c) \cap active)
    BY <1>1, <2>1, CountIs
  <2>4. Cardinality(J) = Cardinality(Of(c) \ active)
    BY <1>1, <2>2, CountIs
  <2> QED
    BY <2>3, <2>4 DEF Count
<1>9. ASSUME NEW k, NEW o
      PROVE  Cardinality({i \in DOMAIN l : l[i].phase = "Active" /\ l[i].kind = k /\ l[i].operation = o})
             = Cardinality(Doing(k, o))
  <2> DEFINE I == {i \in DOMAIN l : l[i].phase = "Active" /\ l[i].kind = k /\ l[i].operation = o}
  <2>1. \A x : x \in Doing(k, o) <=> \E i \in I : l[i].id = x
    BY <1>6, <1>7
  <2> QED
    BY <1>1, <2>1, CountIs
<1>10. DOMAIN C = {store[id][1].component : id \in matching}
  <2>1. DOMAIN C = {l[i].component : i \in DOMAIN l}
    BY DEF printComponentSummary, ToSet
  <2>2. \A x \in DOMAIN C : \E id \in matching : x = store[id][1].component
    BY <1>6, <2>1
  <2>3. \A id \in matching : \E i \in DOMAIN l : l[i].component = store[id][1].component
    BY <1>6, <1>7
  <2>4. \A id \in matching : store[id][1].component \in DOMAIN C
    BY <2>1, <2>3
  <2> HIDE DEF C
  <2> QED
    BY <2>2, <2>4
<1>11. \A c \in DOMAIN C : /\ C[c].active = Cardinality(Of(c) \cap active)
                           /\ C[c].completed = Cardinality(Of(c) \ active)
  BY <1>8 DEF printComponentSummary
<1>12. ASSUME NEW id \in active
       PROVE  /\ store[id][1].kind \in DOMAIN K
              /\ store[id][1].operation \in DOMAIN K[store[id][1].kind]
  <2>1. PICK i \in DOMAIN l : l[i].id = id
    BY <1>7
  <2>2. /\ l[i] \in ToSet(l) /\ l[i].phase = "Active" /\ l[i].kind = store[id][1].kind
        /\ l[i].operation = store[id][1].operation
    BY <1>6, <2>1 DEF ToSet
  <2> QED
    BY <2>2 DEF printOperationSummary
<1>13. ASSUME NEW k \in DOMAIN K, NEW o \in DOMAIN K[k]
       PROVE  K[k][o] = Cardinality(Doing(k, o))
  <2>1. K[k][o] = Cardinality({i \in DOMAIN l :
                        l[i].phase = "Active" /\ l[i].kind = k /\ l[i].operation = o})
    BY DEF printOperationSummary, Count
  <2>2. Cardinality({i \in DOMAIN l : l[i].phase = "Active" /\ l[i].kind = k /\ l[i].operation = o})
        = Cardinality(Doing(k, o))
    <3> HIDE DEF K, Doing
    <3> QED
      BY <1>9, Zenon
  <2> HIDE DEF K, Doing
  <2> QED
    BY <2>1, <2>2
<1> QED
  BY <1>5, <1>10, <1>11, <1>12, <1>13 DEF matching, Agrees, Stored

LEMMA AskedStep ==
    ASSUME CommandInv, AskedInv, Next
    PROVE  AskedInv'
<1>1. /\ StoreType /\ ifos \in Seq(Ifo)
      /\ pc \in {"list", "get", "summary", "tree", "for"} => pc = command.verb
      /\ pc \in {"forChildren", "forGrandchildren"} => command.verb = "for"
      /\ pc = "print" => command.verb \in {"tree", "for"}
  BY DEF CommandInv
<1>2. FetchedIds = Ids(ifos) /\ FetchedIds' = Ids(ifos')
  BY DEF FetchedIds, Ids
<1>3. UNCHANGED store => Stored' = Stored
  BY DEF Stored
<1>4. ASSUME NEW id \in Id, NEW o \in {None} \cup (Shape \X Phase), Changed(id, o)
      PROVE  AskedInv'
  BY <1>4 DEF Changed, cliVars, AskedInv
<1>5. CASE runList
  <2> DEFINE l == List(buildListOptions(flags))
  <2>1. PICK rows \in NewestFirst(l) : Show(rows, [kind |-> "rows", rows |-> rows])
    BY <1>5 DEF runList
  <2>2. command.verb = "list"
    BY <1>1, <1>5 DEF runList
  <2>3. /\ ifos' = rows /\ output'.rows = rows /\ pc' = "done"
        /\ UNCHANGED <<store, command, flags>>
    BY <2>1 DEF Show
  <2>4. l \in Seq(Ifo)
    BY <1>1, ListType
  <2>5. Ids(l) = {id \in Stored : Asked(store[id], flags)}
    BY AskedIds
  <2> HIDE DEF l
  <2>6. /\ ToSet(rows) = ToSet(l)
        /\ \A i, j \in DOMAIN rows : i < j => rows[i].created >= rows[j].created
    BY <2>4, RowsFacts
  <2>7. Ids(rows) = Ids(l)
    BY <2>6 DEF Ids
  <2>8. FetchedIds' = {id \in Stored' : Asked(store'[id], flags')}
    BY <1>2, <1>3, <2>3, <2>5, <2>7
  <2> QED
    BY <2>2, <2>3, <2>6, <2>8 DEF AskedInv
<1>6. CASE runGet
  <2>1. command.verb = "get" /\ command' = command
    BY <1>1, <1>6 DEF runGet, Show
  <2> QED
    BY <2>1 DEF AskedInv
<1>7. CASE runSummary
  <2> DEFINE opts == buildListOptions(flags)
             l == List([opts EXCEPT !.fields = removeFieldSelector(@, "phase")])
  <2>1. command.verb = "summary"
    BY <1>1, <1>7 DEF runSummary
  <2>2. Show(l, [kind |-> "summary", byComponent |-> printComponentSummary(l),
                 byKind |-> printOperationSummary(l)])
    BY <1>7 DEF runSummary
  <2>3. Agrees(store, flags, l, printComponentSummary(l), printOperationSummary(l))
    BY SummaryFacts
  <2> HIDE DEF l
  <2>4. /\ ifos' = l /\ pc' = "done" /\ UNCHANGED <<store, command, flags>>
        /\ output'.byComponent = printComponentSummary(l)
        /\ output'.byKind = printOperationSummary(l)
    BY <2>2 DEF Show
  <2>5. SummaryAgrees'
    BY <2>3, <2>4, SummaryMeans
  <2> QED
    BY <2>1, <2>4, <2>5 DEF AskedInv
<1>8. CASE runTree
  <2> DEFINE l == List(buildListOptions(flags))
  <2>1. command.verb = "tree" /\ ShowTree(l)
    BY <1>1, <1>8 DEF runTree
  <2>2. Ids(l) = {id \in Stored : Asked(store[id], flags)}
    BY AskedIds
  <2> HIDE DEF l
  <2>3. ifos' = l /\ UNCHANGED <<store, command, flags>>
    BY <2>1 DEF ShowTree
  <2>4. FetchedIds' = {id \in Stored' : Asked(store'[id], flags')}
    BY <1>2, <1>3, <2>2, <2>3
  <2> QED
    BY <2>1, <2>3, <2>4 DEF AskedInv
<1>9. CASE printSubtree
  <2>1. /\ pc = "print" /\ command.verb \in {"tree", "for"}
        /\ UNCHANGED <<store, command, flags, ifos>>
    BY <1>1, <1>9 DEF printSubtree
  <2>2. FetchedIds' = FetchedIds /\ Stored' = Stored
    BY <1>2, <1>3, <2>1
  <2> QED
    BY <2>1, <2>2 DEF AskedInv
<1>10. CASE forTarget \/ forChildren \/ forGrandchildren
  <2>1. command.verb = "for"
    BY <1>1, <1>10 DEF forTarget, forChildren, forGrandchildren
  <2>2. command' = command
    <3>1. CASE forTarget
      BY <3>1 DEF forTarget, ShowTree, Fetch
    <3>2. CASE forChildren
      BY <3>2 DEF forChildren, ShowTree, Fetch
    <3>3. CASE forGrandchildren
      BY <3>3 DEF forGrandchildren, ShowTree, Fetch
    <3> QED
      BY <1>10, <3>1, <3>2, <3>3
  <2> QED
    BY <2>1, <2>2 DEF AskedInv
<1>11. CASE Fail
  BY <1>11 DEF Fail, AskedInv
<1> QED
  BY <1>1, <1>4, <1>5, <1>6, <1>7, <1>8, <1>9, <1>10, <1>11, OperatorChanges DEF Next

----------------------------------------------------------------------------
(* tree --for.                                                             *)

LEMMA KindLabels ==
    ASSUME NEW o, NEW k, NEW n
    PROVE  /\ <<"subject-kind", k>> \in Labels(o[1]) <=> o[1].kind = k
           /\ <<"subject-name", n>> \in Labels(o[1]) <=> o[1].name = n
<1>1. <<"subject-kind", k>> \in Labels(o[1]) <=> o[1].kind = k
  BY DEF Labels
<1>2. <<"subject-name", n>> \in Labels(o[1]) <=> o[1].name = n
  BY DEF Labels
<1> QED
  BY <1>1, <1>2

LEMMA OwnerLabel ==
    ASSUME NEW o, NEW u
    PROVE  {<<"owner-uid", u>>} \subseteq Labels(o[1]) <=> FirstOwner(o, {u})
<1>1. <<"owner-uid", u>> \in Labels(o[1]) <=> FirstOwner(o, {u})
  BY DEF Labels, FirstOwner
<1> QED
  BY <1>1

LEMMA NarrowedMeans ==
    ASSUME CommandInv, NEW o \in Shape \X Phase, NEW pairs
    PROVE  Selected(o, Narrowed(pairs)) <=> Asked(o, flags) /\ pairs \subseteq Labels(o[1])
<1> DEFINE opts == buildListOptions(flags)
<1>1. opts = [labels |-> opts.labels, fields |-> opts.fields]
  BY DEF buildListOptions
<1>2. Selected(o, opts) <=> Asked(o, flags)
  BY FlagsMean DEF CommandInv
<1>3. Narrowed(pairs) = [opts EXCEPT !.labels = opts.labels \cup pairs]
  BY DEF Narrowed
<1> HIDE DEF opts
<1>4. Narrowed(pairs).labels = opts.labels \cup pairs /\ Narrowed(pairs).fields = opts.fields
  BY <1>1, <1>3
<1> QED
  BY <1>2, <1>4 DEF Selected

LEMMA gcOptsMean ==
    ASSUME CommandInv, NEW o \in Shape \X Phase, NEW child
    PROVE  /\ Selected(o, gcOpts(child)) => FirstOwner(o, {child.uid})
           /\ Asked(o, flags) /\ FirstOwner(o, {child.uid}) => Selected(o, gcOpts(child))
<1> DEFINE opts == buildListOptions(flags)
<1>1. opts = [labels |-> opts.labels, fields |-> opts.fields]
  BY DEF buildListOptions
<1>2. Selected(o, opts) <=> Asked(o, flags)
  BY FlagsMean DEF CommandInv
<1>3. gcOpts(child) = [opts EXCEPT !.labels = {<<"owner-uid", child.uid>>}]
  BY DEF gcOpts
<1> HIDE DEF opts
<1>4. gcOpts(child).labels = {<<"owner-uid", child.uid>>} /\ gcOpts(child).fields = opts.fields
  BY <1>1, <1>3
<1>5. Selected(o, gcOpts(child)) <=> FirstOwner(o, {child.uid}) /\ o # None /\ opts.fields \subseteq Fields(o)
  BY <1>4, OwnerLabel DEF Selected
<1>6. Asked(o, flags) => o # None /\ opts.fields \subseteq Fields(o)
  BY <1>2 DEF Selected
<1> QED
  BY <1>5, <1>6

LEMMA QuietFacts ==
    ASSUME StoreType, NEW id \in Quiet
    PROVE  id \in Stored /\ store[id] \in Shape \X Phase /\ Asked(store[id], flags)
  BY DEF Quiet, Stored, StoreType

LEMMA TargetFetched ==
    ASSUME CommandInv, NEW l,
           l = List(Narrowed({<<"subject-kind", command.kind>>, <<"subject-name", command.name>>}))
    PROVE  /\ TargetOf(store, Quiet, command) \subseteq Ids(l)
           /\ \A i \in ToSet(l) : i.kind = command.kind /\ i.name = command.name
<1> DEFINE pairs == {<<"subject-kind", command.kind>>, <<"subject-name", command.name>>}
           opts == Narrowed(pairs)
<1>1. StoreType /\ l = List(opts)
  BY DEF CommandInv
<1>2. ASSUME NEW o \in Shape \X Phase
      PROVE  Selected(o, opts) <=> Asked(o, flags) /\ o[1].kind = command.kind /\ o[1].name = command.name
  <2>1. pairs \subseteq Labels(o[1]) <=> o[1].kind = command.kind /\ o[1].name = command.name
    <3>1. /\ <<"subject-kind", command.kind>> \in Labels(o[1]) <=> o[1].kind = command.kind
          /\ <<"subject-name", command.name>> \in Labels(o[1]) <=> o[1].name = command.name
      BY KindLabels
    <3> QED
      BY <3>1, Zenon
  <2> HIDE DEF pairs
  <2> QED
    BY <2>1, NarrowedMeans
<1> HIDE DEF opts
<1>3. Ids(l) = {id \in Stored : Selected(store[id], opts)}
  BY <1>1, ListIds
<1>4. TargetOf(store, Quiet, command) \subseteq Ids(l)
  BY <1>1, <1>2, <1>3, QuietFacts DEF TargetOf
<1>5. ASSUME NEW k \in DOMAIN l PROVE l[k].kind = command.kind /\ l[k].name = command.name
  BY <1>1, <1>2, ListIds
<1> QED
  BY <1>4, <1>5 DEF ToSet

\* l holds what q has below the subject u, and nothing else.
Holds(st, q, u, l) ==
    /\ OwnedBy(st, q, {u}) \subseteq Ids(l)
    /\ \A i \in ToSet(l) : i.owners # <<>> /\ i.owners[1] = u
    /\ \A id \in OwnedBy(st, q, {u}) : \E c \in ToSet(l) : c.uid = st[id][1].uid

LEMMA ChildrenFetched ==
    ASSUME CommandInv, NEW u, NEW l, l = List(Narrowed({<<"owner-uid", u>>}))
    PROVE  Holds(store, Quiet, u, l)
<1> DEFINE pairs == {<<"owner-uid", u>>}
           opts == Narrowed(pairs)
<1>1. StoreType /\ l = List(opts)
  BY DEF CommandInv
<1>2. ASSUME NEW o \in Shape \X Phase
      PROVE  Selected(o, opts) <=> Asked(o, flags) /\ FirstOwner(o, {u})
  <2>1. pairs \subseteq Labels(o[1]) <=> FirstOwner(o, {u})
    BY OwnerLabel, Zenon
  <2> HIDE DEF pairs
  <2> QED
    BY <2>1, NarrowedMeans
<1> HIDE DEF opts
<1>3. Ids(l) = {id \in Stored : Selected(store[id], opts)}
  BY <1>1, ListIds
<1>4. OwnedBy(store, Quiet, {u}) \subseteq Ids(l)
  BY <1>1, <1>2, <1>3, QuietFacts DEF OwnedBy
<1>5. ASSUME NEW k \in DOMAIN l
      PROVE  /\ l[k].owners # <<>> /\ l[k].owners[1] = u
             /\ l[k].uid = store[l[k].id][1].uid
  BY <1>1, <1>2, ListIds DEF FirstOwner
<1>6. ASSUME NEW id \in OwnedBy(store, Quiet, {u})
      PROVE  \E c \in ToSet(l) : c.uid = store[id][1].uid
  <2>1. PICK k \in DOMAIN l : l[k].id = id
    BY <1>4, IdsOf
  <2> QED
    BY <1>5, <2>1 DEF ToSet
<1> QED
  BY <1>4, <1>5, <1>6 DEF ToSet, Holds

LEMMA GrandchildrenFetched ==
    ASSUME CommandInv, NEW child, NEW l, l = List(gcOpts(child))
    PROVE  /\ OwnedBy(store, Quiet, {child.uid}) \subseteq Ids(l)
           /\ \A i \in ToSet(l) : i.owners # <<>> /\ i.owners[1] = child.uid
<1>1. StoreType
  BY DEF CommandInv
<1>2. Ids(l) = {id \in Stored : Selected(store[id], gcOpts(child))}
  BY <1>1, ListIds
<1>3. OwnedBy(store, Quiet, {child.uid}) \subseteq Ids(l)
  BY <1>1, <1>2, gcOptsMean, QuietFacts DEF OwnedBy
<1>4. ASSUME NEW k \in DOMAIN l
      PROVE  l[k].owners # <<>> /\ l[k].owners[1] = child.uid
  BY <1>1, gcOptsMean, ListIds DEF FirstOwner
<1> QED
  BY <1>3, <1>4 DEF ToSet

Joined(a, b, l) ==
    /\ ToSet(l) = ToSet(a) \cup ToSet(b) /\ Ids(l) = Ids(a) \cup Ids(b)
    /\ UidsOf(a) \subseteq UidsOf(l)
    /\ a # <<>> => l # <<>> /\ l[1] = a[1] /\ UidOf(l) = UidOf(a)
    /\ a = <<>> => l = b

LEMMA ConcatFacts ==
    ASSUME NEW a \in Seq(Ifo), NEW b \in Seq(Ifo), NEW l, l = a \o b
    PROVE  Joined(a, b, l)
<1>1. /\ Len(a) \in Nat /\ Len(b) \in Nat /\ DOMAIN a = 1..Len(a) /\ DOMAIN b = 1..Len(b)
      /\ l \in Seq(Ifo) /\ Len(l) = Len(a) + Len(b) /\ DOMAIN l = 1..Len(l)
      /\ \A i \in 1..Len(l) : l[i] = IF i <= Len(a) THEN a[i] ELSE b[i - Len(a)]
  OBVIOUS
<1>2. ASSUME NEW i \in DOMAIN l PROVE l[i] \in ToSet(a) \cup ToSet(b)
  <2>1. CASE i <= Len(a)
    BY <1>1, <2>1 DEF ToSet
  <2>2. CASE ~(i <= Len(a))
    <3>1. i - Len(a) \in DOMAIN b /\ l[i] = b[i - Len(a)]
      BY <1>1, <2>2
    <3> QED
      BY <3>1 DEF ToSet
  <2> QED
    BY <2>1, <2>2
<1>3. ASSUME NEW i \in DOMAIN a PROVE i \in DOMAIN l /\ l[i] = a[i]
  BY <1>1
<1>4. ASSUME NEW i \in DOMAIN b PROVE i + Len(a) \in DOMAIN l /\ l[i + Len(a)] = b[i]
  BY <1>1
<1>5. ToSet(l) = ToSet(a) \cup ToSet(b)
  <2>1. \A x : x \in ToSet(l) <=> \E i \in DOMAIN l : l[i] = x
    BY DEF ToSet
  <2>2. \A x : x \in ToSet(a) <=> \E i \in DOMAIN a : a[i] = x
    BY DEF ToSet
  <2>3. \A x : x \in ToSet(b) <=> \E i \in DOMAIN b : b[i] = x
    BY DEF ToSet
  <2>4. \A x \in ToSet(l) : x \in ToSet(a) \cup ToSet(b)
    BY <1>2, <2>1
  <2>5. \A x \in ToSet(a) : x \in ToSet(l)
    BY <1>3, <2>1, <2>2
  <2>6. \A x \in ToSet(b) : x \in ToSet(l)
    BY <1>4, <2>1, <2>3
  <2> QED
    BY <2>4, <2>5, <2>6, Zenon
<1>6. Ids(l) = Ids(a) \cup Ids(b) /\ UidsOf(a) \subseteq UidsOf(l)
  BY <1>5 DEF Ids, UidsOf
<1>7. a # <<>> => l # <<>> /\ l[1] = a[1] /\ UidOf(l) = UidOf(a)
  <2> SUFFICES ASSUME a # <<>> PROVE l # <<>> /\ l[1] = a[1] /\ UidOf(l) = UidOf(a)
    OBVIOUS
  <2>1. 1 \in DOMAIN a
    BY <1>1
  <2>2. l # <<>> /\ l[1] = a[1]
    BY <1>1, <1>3, <2>1
  <2> QED
    BY <2>2 DEF UidOf
<1>8. a = <<>> => l = b
  OBVIOUS
<1> QED
  BY <1>5, <1>6, <1>7, <1>8, Zenon DEF Joined

LEMMA LinkedMore ==
    ASSUME NEW cmd, NEW a \in Seq(Ifo), NEW b \in Seq(Ifo), NEW l, l = a \o b, Linked(cmd, a),
           \A i \in ToSet(b) : i.owners # <<>> /\ i.owners[1] \in UidsOf(a)
    PROVE  Linked(cmd, l)
<1>1. ToSet(l) = ToSet(a) \cup ToSet(b) /\ UidsOf(a) \subseteq UidsOf(l)
  BY ConcatFacts DEF Joined
<1> QED
  BY <1>1 DEF Linked

LEMMA OwnedFacts ==
    ASSUME NEW st, NEW q, NEW U
    PROVE  /\ OwnedBy(st, q, {}) = {}
           /\ \A id \in OwnedBy(st, q, U) : \E u \in U : id \in OwnedBy(st, q, {u})
  BY DEF OwnedBy, FirstOwner

LEMMA CompleteFrom ==
    ASSUME NEW st, NEW q, NEW l, OwnedBy(st, q, UidOf(l)) \subseteq Ids(l),
           \A id \in OwnedBy(st, q, UidOf(l)) :
                \/ st[id][1].uid = 0
                \/ OwnedBy(st, q, {st[id][1].uid}) \subseteq Ids(l)
    PROVE  Complete(st, q, l)
<1> DEFINE U == {st[id][1].uid : id \in OwnedBy(st, q, UidOf(l))} \ {0}
<1>1. \A u \in U : OwnedBy(st, q, {u}) \subseteq Ids(l)
  OBVIOUS
<1>2. \A id \in OwnedBy(st, q, U) : \E u \in U : id \in OwnedBy(st, q, {u})
  BY OwnedFacts
<1>3. OwnedBy(st, q, U) \subseteq Ids(l)
  BY <1>1, <1>2
<1> QED
  BY <1>3 DEF Complete

\* When the operator touches something, what is quiet only shrinks.
LEMMA Shrinks ==
    ASSUME NEW st, NEW q, NEW st2, NEW q2, q2 \subseteq q, \A id \in q2 : st2[id] = st[id]
    PROVE  /\ \A cmd : TargetOf(st2, q2, cmd) \subseteq TargetOf(st, q, cmd)
           /\ \A U : OwnedBy(st2, q2, U) \subseteq OwnedBy(st, q, U)
           /\ \A l, todo : Underway(st, q, l, todo) => Underway(st2, q2, l, todo)
<1>1. \A cmd : TargetOf(st2, q2, cmd) \subseteq TargetOf(st, q, cmd)
  BY DEF TargetOf
<1>2. \A U : OwnedBy(st2, q2, U) \subseteq OwnedBy(st, q, U)
  BY DEF OwnedBy
<1>3. \A U : \A id \in OwnedBy(st2, q2, U) : st2[id] = st[id]
  BY DEF OwnedBy
<1>4. ASSUME NEW l, NEW todo, Underway(st, q, l, todo) PROVE Underway(st2, q2, l, todo)
  <2>1. OwnedBy(st2, q2, UidOf(l)) \subseteq Ids(l)
    BY <1>2, <1>4 DEF Underway
  <2>2. ASSUME NEW id \in OwnedBy(st2, q2, UidOf(l))
        PROVE  \/ st2[id][1].uid = 0
               \/ \E c \in ToSet(todo) : c.uid = st2[id][1].uid
               \/ OwnedBy(st2, q2, {st2[id][1].uid}) \subseteq Ids(l)
    <3>1. st2[id] = st[id] /\ id \in OwnedBy(st, q, UidOf(l))
      BY <1>2, <1>3
    <3>2. OwnedBy(st2, q2, {st[id][1].uid}) \subseteq OwnedBy(st, q, {st[id][1].uid})
      BY <1>2
    <3> QED
      BY <1>4, <3>1, <3>2 DEF Underway
  <2> QED
    BY <1>4, <2>1, <2>2 DEF Underway
<1> QED
  BY <1>1, <1>2, <1>4

LEMMA QuietKept ==
    ASSUME UNCHANGED <<store, flags, steady>>
    PROVE  Quiet' = Quiet
  BY DEF Quiet, Stored

LEMMA ShowTreeFamily ==
    ASSUME NEW l, ShowTree(l), TargetOf(store, Quiet, command) \subseteq Ids(l),
           Linked(command, l), Complete(store, Quiet, l)
    PROVE  FamilyInv'
<1>1. /\ ifos' = l /\ pc' \in {"print", "done"}
      /\ UNCHANGED <<store, flags, steady>> /\ command' = command
  BY DEF ShowTree
<1>2. Quiet' = Quiet /\ store' = store
  BY <1>1, QuietKept
<1> QED
  BY <1>1, <1>2 DEF FamilyInv

LEMMA ChangedFamily ==
    ASSUME CommandInv, FamilyInv, NEW id \in Id, NEW o \in {None} \cup (Shape \X Phase),
           Changed(id, o)
    PROVE  FamilyInv'
<1>1. StoreType
  BY DEF CommandInv
<1>2. /\ steady' = steady \ {id} /\ \A i \in Id : i # id => store'[i] = store[i]
      /\ UNCHANGED <<command, flags, pc, ifos, children>>
      /\ pc \in {"forChildren", "forGrandchildren"}
  BY <1>1, ChangedStore DEF cliVars
<1>3. Quiet' = {i \in steady' : i \in Id /\ store'[i] # None /\ Asked(store'[i], flags')}
  BY DEF Quiet, Stored
<1>4. Quiet = {i \in steady : i \in Id /\ store[i] # None /\ Asked(store[i], flags)}
  BY DEF Quiet, Stored
<1>5. Quiet' \subseteq Quiet /\ \A i \in Quiet' : store'[i] = store[i]
  BY <1>2, <1>3, <1>4
<1>6. /\ TargetOf(store', Quiet', command) \subseteq TargetOf(store, Quiet, command)
      /\ Underway(store, Quiet, ifos, children) => Underway(store', Quiet', ifos, children)
  BY <1>5, Shrinks
<1> QED
  BY <1>2, <1>6 DEF FamilyInv

LEMMA HeadTailFacts ==
    ASSUME NEW s \in Seq(Ifo), s # <<>>
    PROVE  /\ Head(s) \in ToSet(s) /\ Tail(s) \in Seq(Ifo)
           /\ ToSet(s) \subseteq {Head(s)} \cup ToSet(Tail(s))
           /\ ToSet(Tail(s)) \subseteq ToSet(s)
           /\ Len(s) = 1 <=> Tail(s) = <<>>
<1> DEFINE t == Tail(s)
<1>1. /\ Len(s) \in Nat /\ Len(s) # 0 /\ DOMAIN s = 1..Len(s) /\ Head(s) = s[1]
      /\ t \in Seq(Ifo) /\ Len(t) = Len(s) - 1 /\ DOMAIN t = 1..Len(s) - 1
      /\ \A k \in DOMAIN t : t[k] = s[k + 1]
  OBVIOUS
<1> HIDE DEF t
<1>2. Head(s) \in ToSet(s)
  BY <1>1 DEF ToSet
<1>3. ASSUME NEW i \in DOMAIN s PROVE s[i] \in {Head(s)} \cup ToSet(t)
  <2>1. CASE i = 1
    BY <1>1, <2>1
  <2>2. CASE i # 1
    <3>1. i - 1 \in DOMAIN t /\ t[i - 1] = s[i]
      BY <1>1, <2>2
    <3> QED
      BY <3>1 DEF ToSet
  <2> QED
    BY <2>1, <2>2
<1>4. \A k \in DOMAIN t : k + 1 \in DOMAIN s /\ t[k] = s[k + 1]
  BY <1>1
<1>5. ToSet(t) \subseteq ToSet(s)
  BY <1>4 DEF ToSet
<1>6. ToSet(s) \subseteq {Head(s)} \cup ToSet(t)
  BY <1>3 DEF ToSet
<1>7. Len(s) = 1 <=> t = <<>>
  BY <1>1
<1> QED
  BY <1>1, <1>2, <1>5, <1>6, <1>7 DEF t

LEMMA FamilyStep ==
    ASSUME CommandInv, FamilyInv, Next
    PROVE  FamilyInv'
<1>1. /\ StoreType /\ ifos \in Seq(Ifo) /\ children \in Seq(Ifo)
      /\ pc \in {"list", "get", "summary", "tree", "for"} => pc = command.verb /\ ifos = <<>>
      /\ pc \in {"forChildren", "forGrandchildren"} => command.verb = "for"
  BY DEF CommandInv
<1>2. <<>> \in Seq(Ifo) /\ ToSet(<<>>) = {} /\ Ids(<<>>) = {}
  BY DEF ToSet, Ids
<1>3. ASSUME NEW id \in Id, NEW o \in {None} \cup (Shape \X Phase), Changed(id, o)
      PROVE  FamilyInv'
  BY <1>3, ChangedFamily
<1>4. CASE runList \/ runGet \/ runSummary \/ runTree
  <2>1. pc \in {"list", "get", "summary", "tree"} /\ command' = command
    BY <1>4 DEF runList, runGet, runSummary, runTree, Show, ShowTree
  <2>2. command'.verb # "for"
    BY <1>1, <2>1
  <2> QED
    BY <2>2 DEF FamilyInv
<1>5. CASE printSubtree
  <2>1. /\ pc = "print" /\ pc' \in {"print", "done"}
        /\ UNCHANGED <<store, flags, steady>> /\ command' = command /\ ifos' = ifos
    BY <1>5 DEF printSubtree
  <2>2. Quiet' = Quiet /\ store' = store
    BY <2>1, QuietKept
  <2> QED
    BY <2>1, <2>2 DEF FamilyInv
<1>6. CASE forTarget
  <2> DEFINE l == List(Narrowed({<<"subject-kind", command.kind>>,
                                 <<"subject-name", command.name>>}))
  <2>1. /\ l \in Seq(Ifo) /\ TargetOf(store, Quiet, command) \subseteq Ids(l)
        /\ \A i \in ToSet(l) : i.kind = command.kind /\ i.name = command.name
    BY <1>1, ListType, TargetFetched
  <2>2. /\ pc = "for"
        /\ \/ (l = <<>> \/ l[1].uid = 0) /\ ShowTree(l)
           \/ ~(l = <<>> \/ l[1].uid = 0) /\ Fetch(l, "forChildren", <<>>)
    BY <1>6 DEF forTarget
  <2> HIDE DEF l
  <2>3. Linked(command, l)
    BY <2>1 DEF Linked
  <2>4. CASE (l = <<>> \/ l[1].uid = 0) /\ ShowTree(l)
    <3>1. UidOf(l) = {}
      BY <2>4 DEF UidOf
    <3>2. OwnedBy(store, Quiet, UidOf(l)) = {}
      BY <3>1, OwnedFacts
    <3>3. Complete(store, Quiet, l)
      BY <3>2, CompleteFrom
    <3> QED
      BY <2>1, <2>3, <2>4, <3>3, ShowTreeFamily
  <2>5. CASE l # <<>> /\ l[1].uid # 0 /\ Fetch(l, "forChildren", <<>>)
    <3>1. /\ ifos' = ifos \o l /\ pc' = "forChildren"
          /\ UNCHANGED <<store, flags, steady>> /\ command' = command
      BY <2>5 DEF Fetch
    <3>2. Quiet' = Quiet /\ store' = store
      BY <3>1, QuietKept
    <3>3. ifos' = l
      BY <1>1, <2>1, <2>2, <3>1, ConcatFacts DEF Joined
    <3> QED
      BY <2>1, <2>3, <2>5, <3>1, <3>2, <3>3 DEF FamilyInv
  <2> QED
    BY <2>2, <2>4, <2>5
<1>7. CASE forChildren
  <2> DEFINE u == ifos[1].uid
             l == List(Narrowed({<<"owner-uid", u>>}))
  <2>1. l \in Seq(Ifo) /\ Holds(store, Quiet, u, l)
    BY <1>1, ListType, ChildrenFetched
  <2>2. /\ pc = "forChildren"
        /\ \/ l = <<>> /\ ShowTree(ifos)
           \/ l # <<>> /\ Fetch(l, "forGrandchildren", l)
    BY <1>7 DEF forChildren
  <2> HIDE DEF l
  <2>3. /\ TargetOf(store, Quiet, command) \subseteq Ids(ifos) /\ Linked(command, ifos)
        /\ ifos # <<>> /\ u # 0
    BY <1>1, <2>2 DEF FamilyInv
  <2>4. UidOf(ifos) = {u} /\ u \in UidsOf(ifos)
    <3>1. ifos[1] \in ToSet(ifos)
      BY <1>1, <2>3 DEF ToSet
    <3> QED
      BY <2>3, <3>1 DEF UidOf, UidsOf
  <2> HIDE DEF u
  <2>5. CASE l = <<>> /\ ShowTree(ifos)
    <3>1. OwnedBy(store, Quiet, UidOf(ifos)) = {}
      BY <1>2, <2>1, <2>4, <2>5 DEF Holds
    <3>2. Complete(store, Quiet, ifos)
      BY <3>1, CompleteFrom
    <3> QED
      BY <2>3, <2>5, <3>2, ShowTreeFamily
  <2>6. CASE l # <<>> /\ Fetch(l, "forGrandchildren", l)
    <3>1. /\ ifos' = ifos \o l /\ pc' = "forGrandchildren" /\ children' = l
          /\ UNCHANGED <<store, flags, steady>> /\ command' = command
      BY <2>6 DEF Fetch
    <3>2. Quiet' = Quiet /\ store' = store
      BY <3>1, QuietKept
    <3> DEFINE more == ifos \o l
    <3>3. Joined(ifos, l, more)
      BY <1>1, <2>1, ConcatFacts
    <3>4. Linked(command, more)
      BY <1>1, <2>1, <2>3, <2>4, LinkedMore DEF Holds
    <3>5. ifos' = more
      BY <3>1
    <3> HIDE DEF more
    <3>6. /\ ToSet(more) = ToSet(ifos) \cup ToSet(l) /\ Ids(more) = Ids(ifos) \cup Ids(l)
          /\ more # <<>> /\ more[1] = ifos[1] /\ UidOf(more) = UidOf(ifos)
      BY <2>3, <3>3 DEF Joined
    <3>7. Underway(store, Quiet, more, l)
      BY <2>1, <2>4, <2>6, <3>6 DEF Underway, Holds
    <3>8. TargetOf(store, Quiet, command) \subseteq Ids(more) /\ more[1].uid # 0
      BY <2>3, <3>6 DEF u
    <3>9. pc' = "forGrandchildren" /\ children' = l /\ command' = command
      BY <3>1
    <3> QED
      BY <3>5, <3>2, <3>6, <3>4, <3>7, <3>8, <3>9 DEF FamilyInv
  <2> QED
    BY <2>2, <2>5, <2>6
<1>8. CASE forGrandchildren
  <2> DEFINE child == Head(children)
             l == IF child.uid = 0 THEN <<>> ELSE List(gcOpts(child))
             more == ifos \o l
  <2>1. /\ pc = "forGrandchildren"
        /\ \/ Len(children) = 1 /\ ShowTree(more)
           \/ Len(children) # 1 /\ Fetch(l, "forGrandchildren", Tail(children))
    BY <1>8 DEF forGrandchildren
  <2>2. /\ TargetOf(store, Quiet, command) \subseteq Ids(ifos) /\ Linked(command, ifos)
        /\ ifos # <<>> /\ ifos[1].uid # 0 /\ Underway(store, Quiet, ifos, children)
    BY <1>1, <2>1 DEF FamilyInv
  <2>3. children # <<>> /\ ToSet(children) \subseteq ToSet(ifos)
    BY <2>2 DEF Underway
  <2>4. /\ child \in ToSet(children) /\ Tail(children) \in Seq(Ifo)
        /\ ToSet(children) \subseteq {child} \cup ToSet(Tail(children))
        /\ ToSet(Tail(children)) \subseteq ToSet(children)
        /\ Len(children) = 1 <=> Tail(children) = <<>>
    BY <1>1, <2>3, HeadTailFacts
  <2> HIDE DEF child
  <2>5. /\ l \in Seq(Ifo)
        /\ child.uid # 0 => OwnedBy(store, Quiet, {child.uid}) \subseteq Ids(l)
        /\ \A i \in ToSet(l) : i.owners # <<>> /\ i.owners[1] = child.uid /\ child.uid # 0
    <3>1. CASE child.uid = 0
      BY <1>2, <3>1
    <3>2. CASE child.uid # 0
      BY <1>1, <3>2, ListType, GrandchildrenFetched
    <3> QED
      BY <3>1, <3>2
  <2> HIDE DEF l
  <2>6. child.uid # 0 => child.uid \in UidsOf(ifos)
    BY <2>3, <2>4 DEF UidsOf
  <2>7. Joined(ifos, l, more)
    BY <1>1, <2>5, ConcatFacts
  <2>8. Linked(command, more)
    BY <1>1, <2>2, <2>5, <2>6, LinkedMore
  <2>9. Fetch(l, "forGrandchildren", Tail(children)) => ifos' = more
    BY DEF Fetch
  <2> HIDE DEF more
  <2>10. /\ ToSet(more) = ToSet(ifos) \cup ToSet(l) /\ Ids(more) = Ids(ifos) \cup Ids(l)
         /\ more # <<>> /\ more[1] = ifos[1] /\ UidOf(more) = UidOf(ifos)
    BY <2>2, <2>7 DEF Joined
  <2>11. OwnedBy(store, Quiet, UidOf(more)) \subseteq Ids(more)
    BY <2>2, <2>10 DEF Underway
  <2>12. ASSUME NEW id \in OwnedBy(store, Quiet, UidOf(more))
         PROVE  \/ store[id][1].uid = 0
                \/ \E c \in ToSet(Tail(children)) : c.uid = store[id][1].uid
                \/ OwnedBy(store, Quiet, {store[id][1].uid}) \subseteq Ids(more)
    <3>1. \/ store[id][1].uid = 0
          \/ \E c \in ToSet(children) : c.uid = store[id][1].uid
          \/ OwnedBy(store, Quiet, {store[id][1].uid}) \subseteq Ids(ifos)
      BY <2>2, <2>10 DEF Underway
    <3>2. CASE store[id][1].uid = child.uid
      BY <2>5, <2>10, <3>2
    <3>3. CASE store[id][1].uid # child.uid
      BY <2>4, <2>10, <3>1, <3>3
    <3> QED
      BY <3>2, <3>3
  <2>13. TargetOf(store, Quiet, command) \subseteq Ids(more)
    BY <2>2, <2>10
  <2>14. CASE Len(children) = 1 /\ ShowTree(more)
    <3>1. ToSet(Tail(children)) = {}
      BY <1>2, <2>4, <2>14
    <3>2. Complete(store, Quiet, more)
      BY <2>11, <2>12, <3>1, CompleteFrom
    <3> QED
      BY <2>8, <2>13, <2>14, <3>2, ShowTreeFamily
  <2>15. CASE Len(children) # 1 /\ Fetch(l, "forGrandchildren", Tail(children))
    <3> DEFINE rest == Tail(children)
    <3>1. /\ ifos' = more /\ pc' = "forGrandchildren" /\ children' = rest
          /\ UNCHANGED <<store, flags, steady>> /\ command' = command
      BY <2>15, <2>9 DEF Fetch
    <3>2. Quiet' = Quiet /\ store' = store
      BY <3>1, QuietKept
    <3>3. rest # <<>> /\ ToSet(rest) \subseteq ToSet(more)
      BY <2>3, <2>4, <2>10, <2>15
    <3> HIDE DEF rest
    <3>4. Underway(store, Quiet, more, rest)
      BY <2>11, <2>12, <3>3 DEF Underway, rest
    <3>5. pc' = "forGrandchildren" /\ children' = rest /\ command' = command /\ ifos' = more
      BY <3>1
    <3>6. more # <<>> /\ more[1].uid # 0
      BY <2>2, <2>10
    <3> QED
      BY <2>8, <2>13, <3>2, <3>4, <3>5, <3>6 DEF FamilyInv
  <2> QED
    BY <2>1, <2>14, <2>15
<1>9. CASE Fail
  BY <1>9 DEF Fail, FamilyInv
<1> QED
  BY <1>1, <1>3, <1>4, <1>5, <1>6, <1>7, <1>8, <1>9, OperatorChanges DEF Next

----------------------------------------------------------------------------
(* What a name stands for.                                                 *)

\* What is stored under the fetched names has the subjects fetched.
Stands(st, l) == \A x \in ToSet(l) : x.id \in Id /\ st[x.id] # None /\ st[x.id][1].uid = x.uid

LEMMA ListStands ==
    ASSUME StoreType, NEW opts, NEW l, l = List(opts)
    PROVE  Stands(store, l) /\ Distinct(l)
<1>1. \A i \in DOMAIN l : /\ l[i].id \in Stored
                          /\ l[i].uid = store[l[i].id][1].uid
  BY ListIds
<1>2. Distinct(l)
  BY ListFacts DEF Distinct
<1> QED
  BY <1>1, <1>2 DEF Stands, Stored, ToSet

LEMMA StandsMore ==
    ASSUME NEW st, NEW sd, NEW a \in Seq(Ifo), NEW b \in Seq(Ifo), NEW l, l = a \o b,
           Faithful(st, sd, a), OneSubject(a), Stands(st, b)
    PROVE  Faithful(st, sd, l) /\ OneSubject(l)
<1>1. ToSet(l) = ToSet(a) \cup ToSet(b)
  BY ConcatFacts DEF Joined
<1>2. Faithful(st, sd, l)
  BY <1>1 DEF Faithful, Stands
<1>3. OneSubject(l)
  BY <1>1 DEF OneSubject, Faithful, Stands
<1> QED
  BY <1>2, <1>3

LEMMA NothingStands ==
    ASSUME NEW st, NEW sd
    PROVE  Faithful(st, sd, <<>>) /\ OneSubject(<<>>) /\ Distinct(<<>>) /\ Stands(st, <<>>)
<1>1. ToSet(<<>>) = {} /\ DOMAIN <<>> = {}
  BY DEF ToSet
<1> QED
  BY <1>1 DEF Faithful, OneSubject, Distinct, Stands

\* The operator gives no name a second subject.
LEMMA OperatorIdentity ==
    ASSUME StoreType, IdentityInv, NEW id \in Id,
           \/ \E spec \in Shape : Create(id, spec)
           \/ \E phase \in {"Active", "Completed"} : SetPhase(id, phase)
           \/ Delete(id)
    PROVE  IdentityInv'
<1>1. PICK o \in {None} \cup (Shape \X Phase) : Changed(id, o)
  BY OperatorChanges
<1>2. /\ UNCHANGED cliVars /\ pc \in {"forChildren", "forGrandchildren"}
      /\ steady' = steady \ {id}
      /\ \A i \in Id : i # id => store'[i] = store[i]
  BY <1>1, ChangedStore
<1>3. \/ store[id] = None /\ id \in steady
      \/ store[id] # None /\ store'[id] # None /\ store'[id][1] = store[id][1]
      \/ store'[id] = None
  <2>1. ASSUME NEW phase \in {"Active", "Completed"}, SetPhase(id, phase)
        PROVE  store[id] # None /\ store'[id] # None /\ store'[id][1] = store[id][1]
    <3>1. store[id] \in Shape \X Phase
      BY <2>1 DEF SetPhase, StoreType
    <3>2. <<store[id][1], phase>> \in Shape \X Phase
      BY <3>1 DEF Phase
    <3>3. store'[id] = <<store[id][1], phase>>
      BY <2>1 DEF SetPhase, Changed, StoreType
    <3> QED
      BY <2>1, <3>2, <3>3, PluginAssumption DEF SetPhase
  <2>2. CASE Delete(id)
    BY <2>2 DEF Delete, Changed, StoreType
  <2>3. CASE \E spec \in Shape : Create(id, spec)
    BY <2>3 DEF Create
  <2> QED
    BY <2>1, <2>2, <2>3
<1>4. Faithful(store, steady, ifos)
  BY <1>2 DEF IdentityInv
<1>5. Faithful(store', steady', ifos)
  <2> SUFFICES ASSUME NEW x \in ToSet(ifos)
               PROVE  /\ x.id \in Id
                      /\ store'[x.id] = None => x.id \notin steady'
                      /\ store'[x.id] # None => store'[x.id][1].uid = x.uid
    BY DEF Faithful
  <2>1. /\ x.id \in Id
        /\ store[x.id] = None => x.id \notin steady
        /\ store[x.id] # None => store[x.id][1].uid = x.uid
    BY <1>4 DEF Faithful
  <2>2. CASE x.id # id
    BY <1>2, <2>1, <2>2
  <2>3. CASE x.id = id
    BY <1>2, <1>3, <2>1, <2>3
  <2> QED
    BY <2>2, <2>3
<1> QED
  BY <1>2, <1>5 DEF IdentityInv, cliVars

LEMMA IdentityStep ==
    ASSUME CommandInv, IdentityInv, Next
    PROVE  IdentityInv'
<1>1. StoreType /\ ifos \in Seq(Ifo)
  BY DEF CommandInv
<1>2. ASSUME NEW l \in Seq(Ifo), OneSubject(l), command.verb = "for", ShowTree(l)
      PROVE  IdentityInv'
  <2>1. ifos' = l /\ pc' \in {"print", "done"} /\ command' = command
    BY <1>2 DEF ShowTree
  <2> QED
    BY <1>2, <2>1 DEF IdentityInv
<1>3. ASSUME NEW l \in Seq(Ifo), Stands(store, l), command.verb = "for",
             Faithful(store, steady, ifos),
             \/ ShowTree(ifos \o l)
             \/ \E label, todo : Fetch(l, label, todo)
      PROVE  IdentityInv'
  <2>1. OneSubject(ifos)
    BY <1>3 DEF IdentityInv
  <2>2. Faithful(store, steady, ifos \o l) /\ OneSubject(ifos \o l)
    BY <1>1, <1>3, <2>1, StandsMore
  <2>3. ifos \o l \in Seq(Ifo)
    BY <1>1
  <2>4. CASE ShowTree(ifos \o l)
    BY <1>2, <1>3, <2>2, <2>3, <2>4
  <2>5. CASE \E label, todo : Fetch(l, label, todo)
    <3>1. ifos' = ifos \o l /\ UNCHANGED <<store, command, steady>>
      BY <2>5 DEF Fetch
    <3> QED
      BY <1>3, <2>2, <3>1 DEF IdentityInv
  <2> QED
    BY <1>3, <2>4, <2>5
<1>4. CASE runList \/ runGet \/ runSummary
  <2>1. /\ pc \in {"list", "get", "summary"} /\ pc' = "done" /\ command' = command
    BY <1>4 DEF runList, runGet, runSummary, Show
  <2>2. command.verb \notin {"tree", "for"}
    BY <2>1 DEF CommandInv
  <2>3. output'.kind # "tree"
    BY <1>4 DEF runList, runGet, runSummary, Show
  <2> QED
    BY <2>1, <2>2, <2>3 DEF IdentityInv
<1>5. CASE runTree
  <2> DEFINE l == List(buildListOptions(flags))
  <2>1. ifos' = l /\ pc' \in {"print", "done"} /\ command'.verb = "tree"
    BY <1>5 DEF runTree, ShowTree, CommandInv
  <2>2. Stands(store, l) /\ Distinct(l)
    BY <1>1, ListStands
  <2> HIDE DEF l
  <2>3. OneSubject(l)
    BY <2>2 DEF OneSubject, Stands
  <2> QED
    BY <2>1, <2>2, <2>3 DEF IdentityInv
<1>6. CASE printSubtree
  <2>1. /\ pc' \in {"print", "done"} /\ UNCHANGED <<command, ifos>>
        /\ command.verb \in {"tree", "for"}
    BY <1>6 DEF printSubtree, CommandInv
  <2> QED
    BY <2>1 DEF IdentityInv
<1>7. CASE forTarget
  <2> DEFINE l == List(Narrowed({<<"subject-kind", command.kind>>,
                                 <<"subject-name", command.name>>}))
  <2>1. l \in Seq(Ifo) /\ Stands(store, l)
    BY <1>1, ListType, ListStands
  <2>2. /\ command.verb = "for" /\ ifos = <<>>
        /\ ShowTree(l) \/ Fetch(l, "forChildren", <<>>)
    BY <1>7 DEF forTarget, CommandInv
  <2> HIDE DEF l
  <2>3. ifos \o l = l /\ Faithful(store, steady, ifos)
    BY <2>1, <2>2, NothingStands
  <2> QED
    BY <1>3, <2>1, <2>2, <2>3
<1>8. CASE forChildren
  <2> DEFINE l == List(Narrowed({<<"owner-uid", ifos[1].uid>>}))
  <2>1. l \in Seq(Ifo) /\ Stands(store, l)
    BY <1>1, ListType, ListStands
  <2>2. /\ command.verb = "for" /\ pc = "forChildren"
        /\ ShowTree(ifos) \/ Fetch(l, "forGrandchildren", l)
    BY <1>8 DEF forChildren, CommandInv
  <2> HIDE DEF l
  <2>3. Faithful(store, steady, ifos) /\ OneSubject(ifos)
    BY <2>2 DEF IdentityInv
  <2> QED
    BY <1>1, <1>2, <1>3, <2>1, <2>2, <2>3
<1>9. CASE forGrandchildren
  <2> DEFINE child == Head(children)
             l == IF child.uid = 0 THEN <<>> ELSE List(gcOpts(child))
  <2>1. l \in Seq(Ifo) /\ Stands(store, l)
    BY <1>1, ListType, ListStands, NothingStands
  <2>2. /\ command.verb = "for" /\ pc = "forGrandchildren"
        /\ ShowTree(ifos \o l) \/ Fetch(l, "forGrandchildren", Tail(children))
    BY <1>9 DEF forGrandchildren, CommandInv
  <2> HIDE DEF l
  <2>3. Faithful(store, steady, ifos)
    BY <2>2 DEF IdentityInv
  <2> QED
    BY <1>3, <2>1, <2>2, <2>3
<1>10. CASE Fail
  <2>1. ifos' = <<>> /\ pc' = "failed" /\ UNCHANGED <<command, output>>
    BY <1>10 DEF Fail
  <2> QED
    BY <2>1, NothingStands DEF IdentityInv
<1> QED
  BY <1>1, <1>4, <1>5, <1>6, <1>7, <1>8, <1>9, <1>10, OperatorIdentity DEF Next

----------------------------------------------------------------------------
(* The theorems.                                                           *)

LEMMA InvInit ==
    ASSUME Init
    PROVE  PluginInv
<1>1. pc = command.verb /\ command \in Command /\ output = Nothing /\ ifos = <<>>
  BY DEF Init
<1>2. pc \in {"list", "get", "summary", "tree", "for"}
  BY <1>1, PluginAssumption
<1>3. CommandInv
  BY <1>2 DEF Init, CommandInv, StoreType
<1>4. PrintInv
  BY <1>1, <1>2 DEF PrintInv, Nothing
<1>5. AskedInv /\ FamilyInv
  BY <1>2 DEF AskedInv, FamilyInv
<1>6. IdentityInv
  BY <1>1, <1>2, NothingStands DEF IdentityInv, Nothing
<1> QED
  BY <1>3, <1>4, <1>5, <1>6 DEF PluginInv

LEMMA InvStutters ==
    ASSUME PluginInv, UNCHANGED vars
    PROVE  PluginInv'
<1>1. UNCHANGED <<store, flags, steady>> /\ UNCHANGED <<command, pc, ifos, children, stack, output>>
  BY DEF vars, cliVars
<1>2. CommandInv'
  BY <1>1 DEF PluginInv, CommandInv, StoreType
<1>3. PrintInv'
  BY <1>1 DEF PluginInv, PrintInv
<1>4. FamilyInv'
  BY <1>1, QuietKept DEF PluginInv, FamilyInv
<1>5. FetchedIds' = FetchedIds /\ Stored' = Stored
  BY <1>1 DEF FetchedIds, Stored
<1>6. SummaryAgrees' <=> SummaryAgrees
  BY <1>1, SummaryMeans
<1>7. AskedInv'
  BY <1>1, <1>5, <1>6 DEF PluginInv, AskedInv
<1>8. IdentityInv'
  BY <1>1 DEF PluginInv, IdentityInv
<1> QED
  BY <1>2, <1>3, <1>4, <1>7, <1>8 DEF PluginInv

\* What a command of kubectl-ifo holds, has printed and has fetched so far,
\* after every API call of pkg/plugin/cmd and every line of
\* pkg/plugin/output/tree.go.
THEOREM PluginInvariant == Spec => []PluginInv
<1>1. Init => PluginInv
  BY InvInit
<1>2. PluginInv /\ [Next]_vars => PluginInv'
  <2> SUFFICES ASSUME PluginInv, [Next]_vars PROVE PluginInv'
    OBVIOUS
  <2>1. CASE Next
    BY <2>1, CommandStep, PrintStep, AskedStep, FamilyStep, IdentityStep DEF PluginInv
  <2>2. CASE UNCHANGED vars
    BY <2>2, InvStutters
  <2> QED
    BY <2>1, <2>2
<1> QED
  BY <1>1, <1>2, PTL DEF Spec

\* list and tree show the stored operations that satisfy every filter, list
\* with the newest on top, and the summary counts every operation the
\* filters let through, whatever is stored and whatever is asked for
\* (buildListOptions, runList, runTree and runSummary of pkg/plugin/cmd).
THEOREM Asks == Spec => []ShowsWhatWasAsked
<1>1. PluginInv => ShowsWhatWasAsked
  BY DEF PluginInv, AskedInv, ShowsWhatWasAsked
<1> QED
  BY <1>1, PluginInvariant, PTL

LEMMA SameNode ==
    ASSUME NEW l \in Seq(Ifo), NEW i \in DOMAIN l, NEW j \in DOMAIN l,
           l[i].uid = l[j].uid, l[i].uid # 0
    PROVE  NodeOf(l, i) = NodeOf(l, j)
  BY DEF NodeOf

\* The tree loses no operation but those whose owner references lead into a
\* cycle, and shows an operation on one line, that of its subject, however
\* often tree --for fetched it; without --for each operation is printed
\* exactly once (BuildForest of pkg/plugin/model/tree.go, printSubtree of
\* pkg/plugin/output/tree.go, listForResource of pkg/plugin/cmd/tree.go),
\* for every store and everything the operator does between the calls.
THEOREM Shows == Spec => []TreeShowsAll
<1>1. PluginInv => TreeShowsAll
  <2> SUFFICES ASSUME PluginInv, TreePrinted, NEW i \in DOMAIN ifos
               PROVE  LET id == ifos[i].id
                          n == NodeOf(ifos, i)
                      IN  IF LinesOf(id) = {}
                          THEN /\ ListedOwners(ifos[n]) # {}
                               /\ \A j \in DOMAIN ifos :
                                    ifos[j].uid = Owner(ifos[n]) => LinesOf(ifos[j].id) = {}
                          ELSE /\ ifos[i].uid # 0 => Cardinality(LinesOf(id)) = 1
                               /\ command.verb = "tree" => Cardinality(Places(id)) = 1
    BY DEF TreeShowsAll
  <2> DEFINE lines == output.lines
             with(j) == {b \in DOMAIN lines : j \in lines[b].shown}
             n == NodeOf(ifos, i)
  <2>1. ifos \in Seq(Ifo) /\ Progress(ifos, lines, <<>>)
    BY DEF PluginInv, CommandInv, PrintInv, TreePrinted
  <2>2. \A j \in DOMAIN ifos : ifos[j].uid \in Nat /\ ifos[j] \in ToSet(ifos)
    BY <2>1, IfoFields DEF ToSet
  <2>3. command.verb \in {"tree", "for"}
    BY DEF PluginInv, IdentityInv, TreePrinted
  <2>4. /\ OneSubject(ifos)
        /\ command.verb = "tree" => Distinct(ifos)
    BY <2>3 DEF PluginInv, IdentityInv
  <2>5. \A b \in DOMAIN lines :
            lines[b].shown = {k \in DOMAIN ifos : NodeOf(ifos, k) = lines[b].node}
    BY <2>1, LinesShow
  <2>6. \A j \in DOMAIN ifos : with(j) = {b \in DOMAIN lines : lines[b].node = NodeOf(ifos, j)}
    BY <2>5
  <2>7. \A x : LinesOf(x) =
            {b \in DOMAIN lines : \E k \in DOMAIN ifos : b \in with(k) /\ ifos[k].id = x}
    BY <2>5 DEF LinesOf
  <2>8. ASSUME NEW j \in DOMAIN ifos, ifos[j].uid # 0
        PROVE  LinesOf(ifos[j].id) = with(j)
    <3>1. \A k \in DOMAIN ifos : ifos[k].id = ifos[j].id => ifos[k].uid = ifos[j].uid
      BY <2>2, <2>4 DEF OneSubject
    <3>2. \A k \in DOMAIN ifos : ifos[k].id = ifos[j].id => with(k) = with(j)
      BY <2>1, <2>6, <2>8, <3>1, SameNode
    <3> QED
      BY <2>7, <3>2
  <2>9. \/ \E b : with(i) = {b}
        \/ /\ with(i) = {}
           /\ ListedOwners(ifos[n]) # {}
           /\ \A j \in DOMAIN ifos : ifos[j].uid = Owner(ifos[n]) => with(j) = {}
    BY <2>1, AllPrinted
  <2>10. with(i) \subseteq LinesOf(ifos[i].id)
    BY <2>7
  <2>11. CASE LinesOf(ifos[i].id) = {}
    <3>1. /\ ListedOwners(ifos[n]) # {}
          /\ \A j \in DOMAIN ifos : ifos[j].uid = Owner(ifos[n]) => with(j) = {}
      BY <2>9, <2>10, <2>11
    <3>2. Owner(ifos[n]) # 0
      <4>1. n \in Nodes(ifos)
        BY <2>1, NodeFacts
      <4>2. DOMAIN ifos[n].owners \in SUBSET Nat
        BY <2>1, <4>1, IfoFields DEF Nodes
      <4>3. ListedOwners(ifos[n]) \in SUBSET Nat
        BY <4>2 DEF ListedOwners
      <4>4. Min(ListedOwners(ifos[n])) \in ListedOwners(ifos[n])
        BY <3>1, <4>3, MinOf
      <4> QED
        BY <4>4 DEF Owner, ListedOwners, Uids
    <3>3. ASSUME NEW j \in DOMAIN ifos, ifos[j].uid = Owner(ifos[n])
          PROVE  LinesOf(ifos[j].id) = {}
      BY <2>8, <3>1, <3>2, <3>3
    <3> QED
      BY <2>11, <3>1, <3>3
  <2>12. CASE LinesOf(ifos[i].id) # {}
    <3>1. ASSUME ifos[i].uid # 0 PROVE Cardinality(LinesOf(ifos[i].id)) = 1
      BY <2>8, <2>9, <2>12, <3>1, FS_Singleton
    <3>2. ASSUME command.verb = "tree" PROVE Cardinality(Places(ifos[i].id)) = 1
      <4>1. \A k \in DOMAIN ifos : ifos[k].id = ifos[i].id => k = i
        BY <2>4, <3>2 DEF Distinct
      <4>2. LinesOf(ifos[i].id) = with(i)
        BY <2>7, <4>1
      <4>3. PICK b : with(i) = {b}
        BY <2>9, <2>12, <4>2
      <4>4. Places(ifos[i].id) = {<<b, i>>}
        BY <4>1, <4>3 DEF Places
      <4> QED
        BY <4>4, FS_Singleton
    <3> QED
      BY <2>12, <3>1, <3>2
  <2> QED
    BY <2>11, <2>12
<1> QED
  BY <1>1, PluginInvariant, PTL

\* Every line of the tree stands below the line of its first listed owner,
\* or of the earliest root of its correlation group, or at the margin if it
\* has neither (buildOwnerRefTrees and LabelCorrelator of pkg/plugin/model).
THEOREM Hierarchy == Spec => []HierarchyShown
<1>1. PluginInv => HierarchyShown
  <2> SUFFICES ASSUME PluginInv, TreePrinted PROVE HierarchyShown
    BY DEF HierarchyShown
  <2>1. ifos \in Seq(Ifo) /\ Progress(ifos, output.lines, <<>>)
    BY DEF PluginInv, CommandInv, PrintInv, TreePrinted
  <2> QED
    BY <2>1, AllPlaced DEF HierarchyShown
<1> QED
  BY <1>1, PluginInvariant, PTL

\* tree --for shows the operations of the resource, its children and theirs
\* that are left alone while the command runs, and nothing that is not
\* linked to the resource, whatever the operator creates, completes and
\* deletes between the calls of listForResource (pkg/plugin/cmd/tree.go).
THEOREM Family == Spec => []ForShowsFamily
<1>1. PluginInv => ForShowsFamily
  <2> SUFFICES ASSUME PluginInv, pc = "done", command.verb = "for" PROVE ForShowsFamily
    BY DEF ForShowsFamily
  <2>1. /\ TargetOf(store, Quiet, command) \subseteq Ids(ifos) /\ Linked(command, ifos)
        /\ Complete(store, Quiet, ifos)
    BY DEF PluginInv, FamilyInv
  <2>2. FetchedIds = Ids(ifos) /\ Uids = UidsOf(ifos)
    BY DEF FetchedIds, Ids, Uids, UidsOf
  <2>3. \A i \in ToSet(ifos) :
          \/ i.kind = command.kind /\ i.name = command.name
          \/ i.owners # <<>> /\ i.owners[1] \in Uids
    BY <2>1, <2>2 DEF Linked
  <2> DEFINE owned == OwnedBy(store, Quiet, UidOf(ifos))
             uids == {store[id][1].uid : id \in owned} \ {0}
  <2>4. TargetOf(store, Quiet, command) \cup owned \cup OwnedBy(store, Quiet, uids) \subseteq FetchedIds
    BY <2>1, <2>2 DEF Complete
  <2> QED
    BY <2>3, <2>4 DEF ForShowsFamily, Quiet, TargetOf, OwnedBy, UidOf
<1> QED
  BY <1>1, PluginInvariant, PTL
=============================================================================
