-------------------------- MODULE RuleCacheProofs --------------------------
(***************************************************************************)
(* For every set of names, GVRs and bodies: the rule cache keeps at most   *)
(* one ruleset per name and GVR as the program uses it; and under every    *)
(* call of its exported interface the gauge counts its entries and a call  *)
(* for one ruleset leaves the entries of the others alone.                 *)
(***************************************************************************)
EXTENDS RuleCache, FiniteSetTheorems, TLAPS

----------------------------------------------------------------------------
(* The helpers.                                                            *)

\* The swap-with-last delete yields a list of the same elements' type, one
\* shorter, whatever the index.
LEMMA SwapDeleteType ==
    ASSUME NEW S, NEW s \in Seq(S), Len(s) # 0, NEW i
    PROVE  /\ SwapDelete(s, i) \in Seq(S)
           /\ Len(SwapDelete(s, i)) = Len(s) - 1
           /\ \A j \in 1..(Len(s) - 1) :
                SwapDelete(s, i)[j] = IF j = i THEN s[Len(s)] ELSE s[j]
<1>1. Len(s) - 1 \in Nat /\ Len(s) \in 1..Len(s) /\ 1..(Len(s) - 1) \subseteq 1..Len(s)
  OBVIOUS
<1>2. \A j \in 1..Len(s) : s[j] \in S
  OBVIOUS
<1>3. SwapDelete(s, i) \in [1..(Len(s) - 1) -> S]
  BY <1>1, <1>2 DEF SwapDelete
<1>4. SwapDelete(s, i) \in Seq(S) /\ Len(SwapDelete(s, i)) = Len(s) - 1
  BY <1>1, <1>3
<1> QED
  BY <1>1, <1>4 DEF SwapDelete

\* A list in which no two rulesets have one name.
Distinct(s) == \A i, j \in 1..Len(s) : s[i].name = s[j].name => i = j

\* Where names are distinct, First picks the one entry of a name.
LEMMA FirstOfName ==
    ASSUME NEW s \in Seq(OperationRuleSet), Distinct(s), NEW n \in Name,
           NEW k \in Named(s, n)
    PROVE  First(Named(s, n)) = k
<1>1. k \in 1..Len(s) /\ k \in Int
  BY DEF Named
<1>2. Named(s, n) = {k}
  BY DEF Named, Distinct
<1> QED
  BY <1>1, <1>2 DEF First

\* removeRule keeps the type and the distinctness of every list, and
\* leaves no entry of the removed name under the target GVR.
LEMMA RemoveRuleKeeps ==
    ASSUME NEW c \in [GVR -> Seq(OperationRuleSet)],
           NEW or \in OperationRuleSet
    PROVE  /\ removeRule(c, or) \in [GVR -> Seq(OperationRuleSet)]
           /\ (\A g \in GVR : Distinct(c[g])) =>
                /\ \A g \in GVR : Distinct(removeRule(c, or)[g])
                /\ Named(removeRule(c, or)[or.gvr], or.name) = {}
<1> DEFINE s == c[or.gvr]
           i == First(Named(s, or.name))
           t == SwapDelete(s, i)
<1>1. or.gvr \in GVR /\ or.name \in Name /\ s \in Seq(OperationRuleSet)
  BY DEF OperationRuleSet
<1>2. CASE ~Holds(c, or)
  <2>1. removeRule(c, or) = c
    BY <1>2 DEF removeRule
  <2>2. Named(c[or.gvr], or.name) = {}
    BY <1>2 DEF Holds
  <2> QED
    BY <2>1, <2>2
<1>3. CASE Holds(c, or)
  <2>1. removeRule(c, or) = [c EXCEPT ![or.gvr] = t]
    BY <1>3 DEF removeRule
  <2>2. PICK k \in Named(s, or.name) : TRUE
    BY <1>3 DEF Holds
  <2>3. k \in 1..Len(s) /\ s[k].name = or.name /\ Len(s) # 0
    BY <1>1, <2>2 DEF Named
  <2>4. /\ t \in Seq(OperationRuleSet)
        /\ Len(t) = Len(s) - 1
        /\ \A j \in 1..(Len(s) - 1) : t[j] = IF j = i THEN s[Len(s)] ELSE s[j]
    BY <1>1, <2>3, SwapDeleteType
  <2> HIDE DEF t
  <2>5. removeRule(c, or) \in [GVR -> Seq(OperationRuleSet)]
    BY <1>1, <2>1, <2>4
  <2>6. ASSUME \A g \in GVR : Distinct(c[g])
        PROVE  Distinct(t) /\ Named(t, or.name) = {}
    <3>1. Distinct(s)
      BY <1>1, <2>6
    <3>2. i = k
      BY <1>1, <2>2, <3>1, FirstOfName
    <3> HIDE DEF i, s
    <3>3. Len(s) \in Nat
      BY <1>1
    <3>4. Distinct(t)
      BY <2>3, <2>4, <3>1, <3>2, <3>3 DEF Distinct
    <3>5. \A j \in 1..Len(t) : t[j].name # or.name
      BY <2>3, <2>4, <3>1, <3>2, <3>3 DEF Distinct
    <3> QED
      BY <3>4, <3>5 DEF Named
  <2> QED
    BY <1>1, <2>1, <2>5, <2>6
<1> QED
  BY <1>2, <1>3

\* Appending a ruleset keeps the type; it keeps the distinctness when the
\* target GVR has no entry of that name.
LEMMA AddRuleKeeps ==
    ASSUME NEW c \in [GVR -> Seq(OperationRuleSet)],
           NEW or \in OperationRuleSet
    PROVE  /\ addRule(c, or) \in [GVR -> Seq(OperationRuleSet)]
           /\ (\A g \in GVR : Distinct(c[g])) /\ Named(c[or.gvr], or.name) = {}
                => \A g \in GVR : Distinct(addRule(c, or)[g])
<1> DEFINE s == c[or.gvr]
           t == Append(s, or)
<1>1. or.gvr \in GVR /\ s \in Seq(OperationRuleSet)
  BY DEF OperationRuleSet
<1>2. addRule(c, or) = [c EXCEPT ![or.gvr] = t]
  BY DEF addRule
<1>3. /\ t \in Seq(OperationRuleSet)
      /\ Len(t) = Len(s) + 1
      /\ \A j \in 1..Len(t) : t[j] = IF j = Len(s) + 1 THEN or ELSE s[j]
  BY <1>1
<1> HIDE DEF t
<1>4. ASSUME Distinct(s), Named(s, or.name) = {}
      PROVE  Distinct(t)
  <2>1. \A j \in 1..Len(s) : s[j].name # or.name
    BY <1>4 DEF Named
  <2>2. Len(s) \in Nat
    BY <1>1
  <2> HIDE DEF s
  <2> SUFFICES ASSUME NEW i \in 1..Len(t), NEW j \in 1..Len(t), t[i].name = t[j].name
               PROVE  i = j
    BY DEF Distinct
  <2> QED
    BY <1>3, <1>4, <2>1, <2>2 DEF Distinct
<1> QED
  BY <1>1, <1>2, <1>3, <1>4

----------------------------------------------------------------------------
(* The specification.                                                      *)

LEMMA UniqueNamesIsDistinct == UniqueNames <=> \A g \in GVR : Distinct(cache[g])
  BY DEF UniqueNames, Distinct

\* The cache stays a map from GVRs to lists of rulesets, and no call brings
\* a second ruleset of one name into a list (rule_cache.go:42-61).
LEMMA RuleCacheStep ==
    ASSUME RuleCacheTypeOK, NEW or \in OperationRuleSet,
           AddOrUpdateRule(or) \/ RemoveRule(or)
    PROVE  RuleCacheTypeOK' /\ (UniqueNames => UniqueNames')
<1> DEFINE rem == removeRule(cache, or)
           add == addRule(rem, or)
<1>1. cache \in [GVR -> Seq(OperationRuleSet)] /\ activeRulesets \in Int
  BY DEF RuleCacheTypeOK
<1>2. /\ rem \in [GVR -> Seq(OperationRuleSet)]
      /\ UniqueNames => /\ \A g \in GVR : Distinct(rem[g])
                        /\ Named(rem[or.gvr], or.name) = {}
  BY <1>1, RemoveRuleKeeps, UniqueNamesIsDistinct
<1> HIDE DEF rem
<1>3. /\ add \in [GVR -> Seq(OperationRuleSet)]
      /\ UniqueNames => \A g \in GVR : Distinct(add[g])
  BY <1>2, AddRuleKeeps
<1> HIDE DEF add
<1>4. cache' = add \/ cache' = rem
  BY DEF AddOrUpdateRule, RemoveRule, rem, add
<1>5. activeRulesets' \in Int
  BY <1>1 DEF AddOrUpdateRule, RemoveRule
<1>6. RuleCacheTypeOK'
  BY <1>2, <1>3, <1>4, <1>5 DEF RuleCacheTypeOK
<1>7. UniqueNames => UniqueNames'
  <2> HAVE UniqueNames
  <2>1. \A g \in GVR : Distinct(cache'[g])
    BY <1>2, <1>3, <1>4
  <2> QED
    BY <2>1 DEF UniqueNames, Distinct
<1> QED
  BY <1>6, <1>7

\* Every behaviour of the cache as the program uses it keeps the type and
\* lists each name at most once per GVR.
THEOREM RuleCacheCorrect == RuleCacheSpec => [](RuleCacheTypeOK /\ UniqueNames)
<1> DEFINE Inv == RuleCacheTypeOK /\ UniqueNames
<1>1. RuleCacheInit => Inv
  BY DEF RuleCacheInit, RuleCacheTypeOK, UniqueNames
<1>2. Inv /\ [RuleCacheNext]_ruleVars => Inv'
  <2> SUFFICES ASSUME Inv, [RuleCacheNext]_ruleVars PROVE Inv'
    OBVIOUS
  <2>1. CASE RuleCacheNext
    BY <2>1, RuleCacheStep DEF RuleCacheNext
  <2>2. CASE UNCHANGED ruleVars
    BY <2>2 DEF ruleVars, RuleCacheTypeOK, UniqueNames
  <2> QED
    BY <2>1, <2>2
<1> QED
  BY <1>1, <1>2, PTL DEF RuleCacheSpec

----------------------------------------------------------------------------
(* The gauge.  An index is a place in a list; adding a ruleset takes the   *)
(* place behind the last one, removing one frees the last place.           *)

PlacesCounted == IsFiniteSet(Places(cache)) /\ GaugeExact

\* A place belongs to one list, and a list of length n has n of them.
LEMMA InPlaces ==
    ASSUME NEW c \in [GVR -> Seq(OperationRuleSet)]
    PROVE  \A p : p \in Places(c) <=>
                    \E g \in GVR, i \in Nat : p = <<g, i>> /\ 1 <= i /\ i <= Len(c[g])
<1>1. \A g \in GVR : Len(c[g]) \in Nat
  OBVIOUS
<1>2. \A g \in GVR : \A i : i \in 1..Len(c[g]) <=> i \in Nat /\ 1 <= i /\ i <= Len(c[g])
  BY <1>1
<1> SUFFICES ASSUME NEW p
             PROVE  p \in Places(c) <=>
                      \E g \in GVR, i \in Nat : p = <<g, i>> /\ 1 <= i /\ i <= Len(c[g])
  OBVIOUS
<1> DEFINE T(g) == {<<g, i>> : i \in 1..Len(c[g])}
<1>3. \A g : p \in T(g) <=> \E i \in 1..Len(c[g]) : p = <<g, i>>
  OBVIOUS
<1> HIDE DEF T
<1>4. p \in UNION {T(g) : g \in GVR} <=> \E g \in GVR : p \in T(g)
  OBVIOUS
<1>5. p \in Places(c) <=> \E g \in GVR : p \in T(g)
  BY <1>4 DEF Places, T
<1> QED
  BY <1>2, <1>3, <1>5, Zenon

\* addRule takes one new place (rule_cache.go:63-68).
LEMMA AddRulePlaces ==
    ASSUME NEW c \in [GVR -> Seq(OperationRuleSet)], IsFiniteSet(Places(c)),
           NEW or \in OperationRuleSet
    PROVE  /\ IsFiniteSet(Places(addRule(c, or)))
           /\ Cardinality(Places(addRule(c, or))) = Cardinality(Places(c)) + 1
<1> DEFINE h == or.gvr
           n == Len(c[h])
<1>1. h \in GVR /\ c[h] \in Seq(OperationRuleSet)
  BY DEF OperationRuleSet
<1>2. n \in Nat
  BY <1>1
<1>3. addRule(c, or) \in [GVR -> Seq(OperationRuleSet)]
  BY AddRuleKeeps
<1>4. \A g \in GVR : Len(addRule(c, or)[g]) = IF g = h THEN n + 1 ELSE Len(c[g])
  BY <1>1 DEF addRule
<1> HIDE DEF h, n
<1>5. <<h, n + 1>> \notin Places(c)
  BY <1>2, InPlaces DEF n
<1>6. \A p : p \in Places(addRule(c, or)) <=> p \in Places(c) \/ p = <<h, n + 1>>
  <2>1. ASSUME NEW p, p \in Places(addRule(c, or))
        PROVE  p \in Places(c) \/ p = <<h, n + 1>>
    <3>1. PICK g \in GVR, i \in Nat :
            p = <<g, i>> /\ 1 <= i /\ i <= Len(addRule(c, or)[g])
      BY <1>3, <2>1, InPlaces
    <3>2. i <= Len(c[g]) \/ (g = h /\ i = n + 1)
      BY <1>2, <1>4, <3>1 DEF n
    <3> QED
      BY <3>1, <3>2, InPlaces
  <2>2. ASSUME NEW p, p \in Places(c) \/ p = <<h, n + 1>>
        PROVE  p \in Places(addRule(c, or))
    <3>1. CASE p = <<h, n + 1>>
      <4>1. n + 1 \in Nat /\ 1 <= n + 1 /\ n + 1 <= Len(addRule(c, or)[h])
        BY <1>1, <1>2, <1>4
      <4> QED
        BY <1>1, <1>3, <3>1, <4>1, InPlaces
    <3>2. CASE p \in Places(c)
      <4>1. PICK g \in GVR, i \in Nat : p = <<g, i>> /\ 1 <= i /\ i <= Len(c[g])
        BY <3>2, InPlaces
      <4>2. i <= Len(addRule(c, or)[g])
        BY <1>2, <1>4, <4>1 DEF n
      <4> QED
        BY <1>3, <4>1, <4>2, InPlaces
    <3> QED
      BY <2>2, <3>1, <3>2
  <2> QED
    BY <2>1, <2>2
<1>7. Places(addRule(c, or)) = Places(c) \cup {<<h, n + 1>>}
  BY <1>6
<1> QED
  BY <1>5, <1>7, FS_AddElement

\* The swap-with-last delete frees the last place of the list, whichever
\* index it deletes (rule_cache.go:70-85).
LEMMA RemoveRulePlaces ==
    ASSUME NEW c \in [GVR -> Seq(OperationRuleSet)], IsFiniteSet(Places(c)),
           NEW or \in OperationRuleSet
    PROVE  /\ IsFiniteSet(Places(removeRule(c, or)))
           /\ Cardinality(Places(removeRule(c, or))) =
                Cardinality(Places(c)) - (IF Holds(c, or) THEN 1 ELSE 0)
<1> DEFINE h == or.gvr
           n == Len(c[h])
<1>1. h \in GVR /\ c[h] \in Seq(OperationRuleSet)
  BY DEF OperationRuleSet
<1>2. n \in Nat
  BY <1>1
<1>3. removeRule(c, or) \in [GVR -> Seq(OperationRuleSet)]
  BY RemoveRuleKeeps
<1>4. CASE ~Holds(c, or)
  <2>1. Cardinality(Places(c)) \in Nat
    BY FS_CardinalityType
  <2> QED
    BY <1>4, <2>1 DEF removeRule
<1>5. CASE Holds(c, or)
  <2>1. n # 0
    BY <1>1, <1>5 DEF Holds, Named
  <2> DEFINE t == SwapDelete(c[h], First(Named(c[h], or.name)))
  <2>2. t \in Seq(OperationRuleSet) /\ Len(t) = n - 1
    BY <1>1, <2>1, SwapDeleteType
  <2>3. removeRule(c, or) = [c EXCEPT ![h] = t]
    BY <1>5 DEF removeRule
  <2> HIDE DEF t, h, n
  <2>4. \A g \in GVR : Len(removeRule(c, or)[g]) = IF g = h THEN n - 1 ELSE Len(c[g])
    BY <1>1, <2>2, <2>3
  <2>5. <<h, n>> \in Places(c)
    BY <1>1, <1>2, <2>1, InPlaces DEF n
  <2>6. \A p : p \in Places(removeRule(c, or)) <=> p \in Places(c) /\ p # <<h, n>>
    <3>1. ASSUME NEW p, p \in Places(removeRule(c, or))
          PROVE  p \in Places(c) /\ p # <<h, n>>
      <4>1. PICK g \in GVR, i \in Nat :
              p = <<g, i>> /\ 1 <= i /\ i <= Len(removeRule(c, or)[g])
        BY <1>3, <3>1, InPlaces
      <4>2. i <= Len(c[g]) /\ (g = h => i # n)
        BY <1>2, <2>4, <4>1 DEF n
      <4> QED
        BY <4>1, <4>2, InPlaces
    <3>2. ASSUME NEW p, p \in Places(c), p # <<h, n>>
          PROVE  p \in Places(removeRule(c, or))
      <4>1. PICK g \in GVR, i \in Nat : p = <<g, i>> /\ 1 <= i /\ i <= Len(c[g])
        BY <3>2, InPlaces
      <4>2. i <= Len(removeRule(c, or)[g])
        BY <1>2, <2>4, <3>2, <4>1 DEF n
      <4> QED
        BY <1>3, <4>1, <4>2, InPlaces
    <3> QED
      BY <3>1, <3>2
  <2>7. Places(removeRule(c, or)) = Places(c) \ {<<h, n>>}
    BY <2>6
  <2> QED
    BY <1>5, <2>5, <2>7, FS_RemoveElement
<1> QED
  BY <1>4, <1>5

\* Each of the three calls changes the gauge by what it changes the number
\* of entries (rule_cache.go:34-61).
LEMMA GaugeStep ==
    ASSUME RuleCacheTypeOK, PlacesCounted, NEW or \in OperationRuleSet,
           AddOrUpdateRule(or) \/ AddRule(or) \/ RemoveRule(or)
    PROVE  RuleCacheTypeOK' /\ PlacesCounted'
<1> DEFINE rem == removeRule(cache, or)
           n == Cardinality(Places(cache))
           d == IF Holds(cache, or) THEN 1 ELSE 0
<1>1. /\ cache \in [GVR -> Seq(OperationRuleSet)] /\ activeRulesets = n
      /\ IsFiniteSet(Places(cache)) /\ n \in Nat
  BY FS_CardinalityType DEF RuleCacheTypeOK, PlacesCounted, GaugeExact
<1>2. /\ rem \in [GVR -> Seq(OperationRuleSet)]
      /\ IsFiniteSet(Places(rem)) /\ Cardinality(Places(rem)) = n - d
  BY <1>1, RemoveRuleKeeps, RemoveRulePlaces
<1> HIDE DEF n
<1>3. d \in 0..1
  OBVIOUS
<1>4. CASE AddRule(or)
  <2>1. cache' = addRule(cache, or) /\ activeRulesets' = n + 1
    BY <1>1, <1>4 DEF AddRule
  <2>2. /\ cache' \in [GVR -> Seq(OperationRuleSet)]
        /\ IsFiniteSet(Places(cache')) /\ Cardinality(Places(cache')) = n + 1
    BY <1>1, <2>1, AddRuleKeeps, AddRulePlaces DEF n
  <2> QED
    BY <1>1, <2>1, <2>2 DEF RuleCacheTypeOK, PlacesCounted, GaugeExact, Places
<1>5. CASE RemoveRule(or)
  <2>1. cache' = rem /\ activeRulesets' = n - d
    BY <1>1, <1>5 DEF RemoveRule
  <2> QED
    BY <1>1, <1>2, <1>3, <2>1 DEF RuleCacheTypeOK, PlacesCounted, GaugeExact, Places
<1>6. CASE AddOrUpdateRule(or)
  <2>1. cache' = addRule(rem, or) /\ activeRulesets' = n + 1 - d
    BY <1>1, <1>6 DEF AddOrUpdateRule
  <2> HIDE DEF rem
  <2>2. /\ cache' \in [GVR -> Seq(OperationRuleSet)]
        /\ IsFiniteSet(Places(cache')) /\ Cardinality(Places(cache')) = (n - d) + 1
    BY <1>2, <2>1, AddRuleKeeps, AddRulePlaces
  <2> QED
    BY <1>1, <1>3, <2>1, <2>2 DEF RuleCacheTypeOK, PlacesCounted, GaugeExact, Places
<1> QED
  BY <1>4, <1>5, <1>6

LEMMA GaugeInvHolds == RuleCacheAPISpec => [](RuleCacheTypeOK /\ PlacesCounted)
<1> DEFINE Inv == RuleCacheTypeOK /\ PlacesCounted
<1>1. RuleCacheInit => Inv
  <2> SUFFICES ASSUME RuleCacheInit PROVE Inv
    OBVIOUS
  <2>1. \A g \in GVR : cache[g] = <<>> /\ 1..Len(cache[g]) = {}
    BY DEF RuleCacheInit
  <2>2. Places(cache) = {}
    BY <2>1 DEF Places
  <2>3. cache \in [GVR -> Seq(OperationRuleSet)]
    BY DEF RuleCacheInit
  <2>4. IsFiniteSet(Places(cache)) /\ Cardinality(Places(cache)) = 0
    BY <2>2, FS_EmptySet, Zenon
  <2> QED
    BY <2>3, <2>4 DEF RuleCacheInit, RuleCacheTypeOK, PlacesCounted, GaugeExact
<1>2. Inv /\ [RuleCacheAPINext]_ruleVars => Inv'
  <2> SUFFICES ASSUME Inv, [RuleCacheAPINext]_ruleVars PROVE Inv'
    OBVIOUS
  <2>1. CASE RuleCacheAPINext
    BY <2>1, GaugeStep DEF RuleCacheAPINext, RuleCacheNext
  <2>2. CASE UNCHANGED ruleVars
    BY <2>2 DEF ruleVars, RuleCacheTypeOK, PlacesCounted, GaugeExact, Places
  <2> QED
    BY <2>1, <2>2
<1> QED
  BY <1>1, <1>2, PTL DEF RuleCacheAPISpec

\* The ActiveRulesets gauge equals the number of entries after every
\* sequence of AddRule, AddOrUpdateRule and RemoveRule.
THEOREM RulesetGaugeCorrect == RuleCacheAPISpec => []GaugeExact
  BY GaugeInvHolds, PTL DEF PlacesCounted

----------------------------------------------------------------------------
(* The entries of other names.  They are compared by where an entry stands *)
(* in a list: the same number of places before and after.                  *)

Standing(s, n, r) == {i \in 1..Len(s) : s[i].name # n /\ s[i] = r}

\* Every entry of another name than n stands in as many places of t as of s.
Alike(s, t, n) ==
    \A r : /\ Standing(t, n, r) = {} <=> Standing(s, n, r) = {}
           /\ Cardinality(Standing(t, n, r)) = Cardinality(Standing(s, n, r))

LEMMA AlikeReflexive == \A s, n : Alike(s, s, n)
  BY DEF Alike

\* Such lists hold the same entries of other names.
LEMMA SameStanding ==
    ASSUME NEW c, NEW d, NEW g, NEW n, Alike(c[g], d[g], n)
    PROVE  Others(d, g, n) = Others(c, g, n)
<1> DEFINE rest(s) == {i \in 1..Len(s) : s[i].name # n}
           held(s) == {s[i] : i \in rest(s)}
<1>1. \A s, r : {i \in rest(s) : s[i] = r} = Standing(s, n, r)
  BY DEF Standing
<1>2. \A s, r : r \in held(s) <=> Standing(s, n, r) # {}
  BY DEF Standing
<1>3. held(d[g]) = held(c[g])
  BY <1>2 DEF Alike
<1> DEFINE num(s, r) == Cardinality({i \in rest(s) : s[i] = r})
<1>4. \A r : num(d[g], r) = num(c[g], r)
  BY <1>1, Zenon DEF Alike
<1> HIDE DEF held, num
<1>5. [r \in held(d[g]) |-> num(d[g], r)] = [r \in held(c[g]) |-> num(c[g], r)]
  BY <1>3, <1>4
<1> QED
  BY <1>5 DEF Others, held, num

\* An index of the list that has the name is where First points.
LEMMA FirstHasName ==
    ASSUME NEW s \in Seq(OperationRuleSet), NEW n, Named(s, n) # {}
    PROVE  First(Named(s, n)) \in 1..Len(s) /\ s[First(Named(s, n))].name = n
<1>1. Named(s, n) \subseteq Nat
  BY DEF Named
<1>2. PICK i \in Named(s, n) : \A j \in Named(s, n) : ~(<<j, i>> \in OpToRel(<, Nat))
  BY <1>1, NatLessThanWellFounded, WFMin
<1>3. \A j \in Named(s, n) : i <= j
  <2> TAKE j \in Named(s, n)
  <2>1. i \in Nat /\ j \in Nat
    BY <1>1
  <2>2. ~(j < i)
    BY <1>2, <2>1 DEF OpToRel
  <2> QED
    BY <2>1, <2>2
<1>4. First(Named(s, n)) \in Named(s, n)
  BY <1>3 DEF First
<1> QED
  BY <1>4 DEF Named

\* Appending an entry of name n moves no other.
LEMMA AppendKeepsOthers ==
    ASSUME NEW s \in Seq(OperationRuleSet), NEW or \in OperationRuleSet
    PROVE  Alike(s, Append(s, or), or.name)
<1>1. \A r : Standing(Append(s, or), or.name, r) = Standing(s, or.name, r)
  BY DEF Standing
<1> QED
  BY <1>1, Zenon DEF Alike

\* The swap-with-last delete of an entry of name n moves at most one other,
\* from the end of the list to the place that became free.
LEMMA SwapDeleteKeepsOthers ==
    ASSUME NEW s \in Seq(OperationRuleSet), NEW n,
           NEW k \in 1..Len(s), s[k].name = n
    PROVE  Alike(s, SwapDelete(s, k), n)
<1> SUFFICES ASSUME NEW r
             PROVE  LET A == Standing(s, n, r)
                        B == Standing(SwapDelete(s, k), n, r)
                    IN  (B = {} <=> A = {}) /\ Cardinality(B) = Cardinality(A)
  BY DEF Alike
<1> DEFINE t == SwapDelete(s, k)
           L == Len(s)
           A == Standing(s, n, r)
           B == Standing(t, n, r)
<1>1. L \in Nat /\ L # 0
  OBVIOUS
<1>2. /\ Len(t) = L - 1
      /\ \A j \in 1..(L - 1) : t[j] = IF j = k THEN s[L] ELSE s[j]
  BY <1>1, SwapDeleteType
<1> HIDE DEF t
<1>3. k \notin A
  BY DEF Standing
<1>4. ASSUME L \notin A PROVE (B = {} <=> A = {}) /\ Cardinality(B) = Cardinality(A)
  <2>1. B = A
    BY <1>1, <1>2, <1>4 DEF Standing
  <2> QED
    BY <2>1, Zenon
<1>5. ASSUME L \in A PROVE (B = {} <=> A = {}) /\ Cardinality(B) = Cardinality(A)
  <2>1. k # L /\ k \in 1..(L - 1)
    BY <1>1, <1>3, <1>5
  <2>2. B = (A \ {L}) \cup {k}
    BY <1>1, <1>2, <1>5, <2>1 DEF Standing
  <2>3. IsFiniteSet(A)
    <3>1. IsFiniteSet(1..L)
      BY <1>1, FS_Interval
    <3> QED
      BY <3>1, FS_Subset DEF Standing
  <2>4. /\ IsFiniteSet(A \ {L}) /\ Cardinality(A \ {L}) = Cardinality(A) - 1
        /\ Cardinality(A) \in Nat
    BY <1>5, <2>3, FS_RemoveElement, FS_CardinalityType
  <2>5. Cardinality((A \ {L}) \cup {k}) = Cardinality(A \ {L}) + 1
    BY <1>3, <2>4, FS_AddElement
  <2>6. Cardinality(B) = Cardinality(A)
    BY <2>2, <2>4, <2>5
  <2>7. k \in B
    BY <2>2
  <2>8. A # {} /\ B # {}
    BY <1>5, <2>7
  <2> QED
    BY <2>6, <2>8, Zenon
<1> QED
  BY <1>4, <1>5 DEF t

\* removeRule keeps the entries of other names, in every GVR.
LEMMA RemoveRuleOthers ==
    ASSUME NEW c \in [GVR -> Seq(OperationRuleSet)], NEW or \in OperationRuleSet,
           NEW g \in GVR
    PROVE  Others(removeRule(c, or), g, or.name) = Others(c, g, or.name)
<1> DEFINE s == c[or.gvr]
           k == First(Named(s, or.name))
<1>1. CASE ~Holds(c, or)
  BY <1>1 DEF removeRule
<1>2. CASE Holds(c, or)
  <2>1. or.gvr \in GVR /\ s \in Seq(OperationRuleSet)
    BY DEF OperationRuleSet
  <2>2. k \in 1..Len(s) /\ s[k].name = or.name
    BY <1>2, <2>1, FirstHasName DEF Holds
  <2>3. removeRule(c, or) = [c EXCEPT ![or.gvr] = SwapDelete(s, k)]
    BY <1>2 DEF removeRule
  <2> HIDE DEF k
  <2>5. CASE g # or.gvr
    <3>1. removeRule(c, or)[g] = c[g]
      BY <2>3, <2>5
    <3> QED
      BY <3>1, AlikeReflexive, SameStanding
  <2>6. CASE g = or.gvr
    <3>1. removeRule(c, or)[g] = SwapDelete(s, k) /\ c[g] = s
      BY <2>1, <2>3, <2>6
    <3> HIDE DEF s
    <3>2. Alike(c[g], removeRule(c, or)[g], or.name)
      BY <2>1, <2>2, <3>1, SwapDeleteKeepsOthers
    <3> QED
      BY <3>2, SameStanding
  <2> QED
    BY <2>5, <2>6
<1> QED
  BY <1>1, <1>2

\* addRule keeps the entries of other names, in every GVR.
LEMMA AddRuleOthers ==
    ASSUME NEW c \in [GVR -> Seq(OperationRuleSet)], NEW or \in OperationRuleSet,
           NEW g \in GVR
    PROVE  Others(addRule(c, or), g, or.name) = Others(c, g, or.name)
<1>1. or.gvr \in GVR /\ c[or.gvr] \in Seq(OperationRuleSet)
  BY DEF OperationRuleSet
<1>3. addRule(c, or)[g] = IF g = or.gvr THEN Append(c[g], or) ELSE c[g]
  BY <1>1 DEF addRule
<1>4. Alike(c[g], addRule(c, or)[g], or.name)
  BY <1>1, <1>3, AppendKeepsOthers, AlikeReflexive
<1> QED
  BY <1>4, SameStanding

\* A call for one ruleset, the swap-with-last delete included, loses,
\* duplicates or rewrites no entry of another name.
THEOREM OtherRulesetsKept == RuleCacheAPISpec => OthersKept
<1>1. RuleCacheTypeOK /\ [RuleCacheAPINext]_ruleVars =>
        [\E n \in Name : \A g \in GVR : Others(cache', g, n) = Others(cache, g, n)]_ruleVars
  <2> SUFFICES ASSUME RuleCacheTypeOK, NEW or \in OperationRuleSet,
                      AddOrUpdateRule(or) \/ AddRule(or) \/ RemoveRule(or)
               PROVE  \A g \in GVR : Others(cache', g, or.name) = Others(cache, g, or.name)
    BY DEF RuleCacheAPINext, RuleCacheNext, OperationRuleSet
  <2> TAKE g \in GVR
  <2> DEFINE rem == removeRule(cache, or)
  <2>1. cache \in [GVR -> Seq(OperationRuleSet)] /\ rem \in [GVR -> Seq(OperationRuleSet)]
    BY RemoveRuleKeeps DEF RuleCacheTypeOK
  <2>2. Others(rem, g, or.name) = Others(cache, g, or.name)
    BY <2>1, RemoveRuleOthers
  <2>3. Others(addRule(cache, or), g, or.name) = Others(cache, g, or.name)
    BY <2>1, AddRuleOthers
  <2>4. Others(addRule(rem, or), g, or.name) = Others(rem, g, or.name)
    BY <2>1, AddRuleOthers
  <2> QED
    BY <2>2, <2>3, <2>4 DEF AddOrUpdateRule, AddRule, RemoveRule
<1> QED
  BY <1>1, GaugeInvHolds, PTL DEF RuleCacheAPISpec, OthersKept
=============================================================================
