-------------------------- MODULE ConditionsProofs --------------------------
(***************************************************************************)
(* The condition collection is a set of conditions with rounds of staging, *)
(* for every set of types and condition contents and every order of calls. *)
(***************************************************************************)
EXTENDS Conditions, FiniteSetTheorems, TLAPS

----------------------------------------------------------------------------
(* Lists of conditions, at most one of a type.                             *)

Distinct(l) == \A i, j \in 1..Len(l) : l[i].type = l[j].type => i = j

\* Where a list without duplicates holds a condition of a type.
LEMMA FindIs ==
    ASSUME NEW l \in Seq(Condition), Distinct(l), NEW t
    PROVE  /\ find(l, t) \in 0..Len(l)
           /\ find(l, t) # 0 => l[find(l, t)].type = t
           /\ \A i \in 1..Len(l) : l[i].type = t => find(l, t) = i
<1> DEFINE I == {i \in 1..Len(l) : l[i].type = t}
<1>1. Len(l) \in Nat
  OBVIOUS
<1>2. find(l, t) = IF I # {} THEN Min(I) ELSE 0
  BY DEF find, SelectInSeq
<1>3. CASE I = {}
  BY <1>1, <1>2, <1>3
<1>4. CASE I # {}
  <2>1. PICK i \in I : TRUE
    BY <1>4
  <2>2. \A j \in I : j = i
    BY <2>1 DEF Distinct
  <2>3. Min(I) = i
    BY <1>1, <2>1, <2>2 DEF Min
  <2>4. find(l, t) = i
    BY <1>2, <1>4, <2>3
  <2> QED
    BY <1>1, <2>1, <2>2, <2>4
<1> QED
  BY <1>3, <1>4

\* A set of numbers without a least one is empty: what induction comes from.
LEMMA LeastNumber ==
    ASSUME NEW B \in SUBSET Nat, \A n \in B : \E m \in B : m < n
    PROVE  B = {}
<1> SUFFICES ASSUME B # {} PROVE FALSE
  OBVIOUS
<1>1. PICK i \in B : \A j \in B : ~(<<j, i>> \in OpToRel(<, Nat))
  BY NatLessThanWellFounded, WFMin
<1>2. PICK m \in B : m < i
  OBVIOUS
<1>3. <<m, i>> \in OpToRel(<, Nat)
  BY <1>2 DEF OpToRel
<1> QED
  BY <1>1, <1>2, <1>3

\* The loop of Kept: what is kept of the first n conditions, for every n.
LEMMA KeptLoop ==
    ASSUME NEW l \in Seq(Condition), NEW I
    PROVE  \E kept : /\ Kept(l, I) = kept[Len(l)]
                     /\ kept[0] = <<>>
                     /\ \A n \in 1..Len(l) :
                          kept[n] = IF n \in I THEN Append(kept[n - 1], l[n]) ELSE kept[n - 1]
<1> DEFINE step(F, n) == IF n = 0 THEN <<>>
                         ELSE IF n \in I THEN Append(F[n - 1], l[n]) ELSE F[n - 1]
           Loop(F, m) == F = [n \in 0..m |-> step(F, n)]
           B == {m \in Nat : ~\E F : Loop(F, m)}
<1>1. ASSUME NEW m \in B PROVE \E k \in B : k < m
  <2>1. CASE m = 0
    <3> DEFINE F == [n \in 0..0 |-> <<>>]
    <3>1. Loop(F, 0)
      OBVIOUS
    <3> QED
      BY <1>1, <2>1, <3>1
  <2>2. CASE m # 0
    <3>1. m - 1 \in Nat /\ m \in Nat /\ m - 1 < m
      BY <2>2
    <3> SUFFICES ASSUME \E F : Loop(F, m - 1) PROVE FALSE
      BY <3>1
    <3>2. PICK F : Loop(F, m - 1)
      OBVIOUS
    <3> DEFINE G == [n \in 0..m |-> IF n = m THEN step(F, m) ELSE F[n]]
    <3>3. \A n \in 0..(m - 1) : F[n] = step(F, n)
      BY <3>2
    <3>4. \A n \in 0..m : n - 1 \in 0..(m - 1) \/ n = 0
      BY <3>1
    <3>5. \A n \in 0..(m - 1) : n \in 0..m /\ n # m /\ G[n] = F[n]
      BY <3>1
    <3>6. \A n \in 0..m : step(G, n) = step(F, n)
      BY <3>4, <3>5
    <3>7. \A n \in 0..m : n = m \/ n \in 0..(m - 1)
      BY <3>1
    <3>8. \A n \in 0..m : G[n] = step(G, n)
      BY <3>3, <3>5, <3>6, <3>7
    <3>9. Loop(G, m)
      <4>1. G = [n \in 0..m |-> G[n]]
        OBVIOUS
      <4> HIDE DEF G, step
      <4>2. [n \in 0..m |-> G[n]] = [n \in 0..m |-> step(G, n)]
        BY <3>8
      <4> QED
        BY <4>1, <4>2
    <3> QED
      BY <1>1, <3>9
  <2> QED
    BY <2>1, <2>2
<1>2. B = {}
  <2>1. B \in SUBSET Nat
    OBVIOUS
  <2> HIDE DEF B
  <2> QED
    BY <1>1, <2>1, LeastNumber
<1>3. Len(l) \in Nat
  OBVIOUS
<1>4. \E F : Loop(F, Len(l))
  BY <1>2, <1>3
<1> DEFINE kept == CHOOSE F : Loop(F, Len(l))
<1>5. Kept(l, I) = kept[Len(l)]
  BY DEF Kept
<1>6. Loop(kept, Len(l))
  BY <1>4
<1> HIDE DEF kept
<1>7. \A n \in 0..Len(l) : kept[n] = step(kept, n)
  BY <1>6
<1>8. 0 \in 0..Len(l) /\ \A n \in 1..Len(l) : n \in 0..Len(l) /\ n # 0
  BY <1>3
<1> QED
  BY <1>5, <1>7, <1>8

\* The conditions at the indices in I are kept and no others, and a list
\* without duplicates stays one.
LEMMA KeptIs ==
    ASSUME NEW l \in Seq(Condition), Distinct(l), NEW I
    PROVE  /\ Kept(l, I) \in Seq(Condition)
           /\ Distinct(Kept(l, I))
           /\ \A j \in 1..Len(Kept(l, I)) : \E i \in 1..Len(l) : i \in I /\ Kept(l, I)[j] = l[i]
           /\ \A i \in 1..Len(l) : i \in I => \E j \in 1..Len(Kept(l, I)) : Kept(l, I)[j] = l[i]
<1> DEFINE From(s, n) == \A j \in 1..Len(s) : \E i \in 1..n : i \in I /\ s[j] = l[i]
           Onto(s, n) == \A i \in 1..n : i \in I => \E j \in 1..Len(s) : s[j] = l[i]
           Good(s, n) == s \in Seq(Condition) /\ Distinct(s) /\ From(s, n) /\ Onto(s, n)
<1>1. PICK kept : /\ Kept(l, I) = kept[Len(l)]
                  /\ kept[0] = <<>>
                  /\ \A n \in 1..Len(l) :
                       kept[n] = IF n \in I THEN Append(kept[n - 1], l[n]) ELSE kept[n - 1]
  BY KeptLoop
<1>2. Len(l) \in Nat
  OBVIOUS
<1> DEFINE B == {n \in 0..Len(l) : ~Good(kept[n], n)}
<1>3. Good(kept[0], 0)
  <2>1. <<>> \in Seq(Condition) /\ Len(<<>>) = 0 /\ 1..0 = {}
    OBVIOUS
  <2>2. Good(<<>>, 0)
    BY <2>1 DEF Distinct
  <2> HIDE DEF Good
  <2> QED
    BY <1>1, <2>2
<1>4. ASSUME NEW n \in 1..Len(l), Good(kept[n - 1], n - 1) PROVE Good(kept[n], n)
  <2> DEFINE s == kept[n - 1]
             c == l[n]
  <2>1. /\ n \in Nat /\ n - 1 \in Nat
        /\ \A i : i \in 1..n <=> i \in 1..(n - 1) \/ i = n
        /\ n \notin 1..(n - 1)
        /\ \A i \in 1..n : i \in 1..Len(l)
    BY <1>2
  <2>2. c \in Condition
    OBVIOUS
  <2>3. s \in Seq(Condition) /\ Distinct(s) /\ From(s, n - 1) /\ Onto(s, n - 1)
    BY <1>4
  <2> HIDE DEF s, c
  <2>4. CASE n \notin I
    <3>1. kept[n] = s
      BY <1>1, <1>4, <2>4 DEF s
    <3>2. From(s, n) /\ Onto(s, n)
      BY <2>1, <2>3, <2>4
    <3> QED
      BY <2>3, <3>1, <3>2
  <2>5. CASE n \in I
    <3> DEFINE u == Append(s, c)
    <3>1. kept[n] = u
      BY <1>1, <1>4, <2>5 DEF s, c
    <3>2. /\ u \in Seq(Condition) /\ Len(s) \in Nat /\ Len(u) = Len(s) + 1
          /\ u[Len(s) + 1] = c
          /\ \A j \in 1..Len(s) : u[j] = s[j]
      BY <2>2, <2>3
    <3> HIDE DEF u
    <3>3. \A j : j \in 1..Len(u) <=> j \in 1..Len(s) \/ j = Len(s) + 1
      BY <3>2
    <3>4. From(u, n)
      <4> SUFFICES ASSUME NEW j \in 1..Len(u)
                   PROVE  \E i \in 1..n : i \in I /\ u[j] = l[i]
        OBVIOUS
      <4>1. CASE j = Len(s) + 1
        BY <2>1, <2>5, <3>2, <4>1 DEF c
      <4>2. CASE j \in 1..Len(s)
        BY <2>1, <2>3, <3>2, <4>2
      <4> QED
        BY <3>3, <4>1, <4>2
    <3>5. Onto(u, n)
      BY <2>1, <2>3, <3>2, <3>3 DEF c
    <3>6. \A j \in 1..Len(s) : s[j].type # c.type
      <4> SUFFICES ASSUME NEW j \in 1..Len(s), s[j].type = c.type PROVE FALSE
        OBVIOUS
      <4>1. PICK i \in 1..(n - 1) : s[j] = l[i]
        BY <2>3
      <4>2. i \in 1..Len(l) /\ i # n
        BY <2>1, <4>1
      <4> QED
        BY <4>1, <4>2 DEF Distinct, c
    <3>7. Distinct(u)
      <4> SUFFICES ASSUME NEW i \in 1..Len(u), NEW j \in 1..Len(u), u[i].type = u[j].type
                   PROVE  i = j
        BY DEF Distinct
      <4>1. CASE i \in 1..Len(s) /\ j \in 1..Len(s)
        BY <2>3, <3>2, <4>1 DEF Distinct
      <4>2. CASE i = Len(s) + 1 /\ j \in 1..Len(s)
        BY <3>2, <3>6, <4>2
      <4>3. CASE i \in 1..Len(s) /\ j = Len(s) + 1
        BY <3>2, <3>6, <4>3
      <4> QED
        BY <3>3, <4>1, <4>2, <4>3
    <3> QED
      BY <3>1, <3>2, <3>4, <3>5, <3>7
  <2> QED
    BY <2>4, <2>5
<1> HIDE DEF Good
<1>5. B = {}
  <2>1. ASSUME NEW n \in B PROVE \E m \in B : m < n
    <3>1. n \in 0..Len(l) /\ ~Good(kept[n], n) /\ n # 0
      BY <1>3
    <3>2. n \in 1..Len(l) /\ n - 1 \in 0..Len(l) /\ n - 1 < n
      BY <1>2, <3>1
    <3> QED
      BY <1>4, <3>1, <3>2
  <2>2. B \in SUBSET Nat
    BY <1>2
  <2> HIDE DEF B
  <2> QED
    BY <2>1, <2>2, LeastNumber
<1>6. Good(kept[Len(l)], Len(l))
  BY <1>2, <1>5
<1>7. Good(Kept(l, I), Len(l))
  BY <1>1, <1>6
<1> QED
  BY <1>7 DEF Good

----------------------------------------------------------------------------
(* A list without duplicates as a map from types to conditions.            *)

At(l, t) == IF find(l, t) = 0 THEN None ELSE l[find(l, t)]

Proper(l) == l \in Seq(Condition) /\ Distinct(l)

LEMMA AtIs ==
    ASSUME NEW l, Proper(l)
    PROVE  /\ \A t : /\ At(l, t) \in Condition \cup {None}
                     /\ At(l, t) # None => At(l, t).type = t
                     /\ At(l, t) # None => \E i \in 1..Len(l) : l[i] = At(l, t)
                     /\ (\A i \in 1..Len(l) : l[i].type # t) => At(l, t) = None
                     /\ find(l, t) = 0 <=> At(l, t) = None
           /\ \A i \in 1..Len(l) : l[i] \in Condition /\ At(l, l[i].type) = l[i]
<1>1. l \in Seq(Condition) /\ Distinct(l) /\ Len(l) \in Nat
  BY DEF Proper
<1>2. \A i \in 1..Len(l) : l[i] \in Condition /\ l[i] # None
  BY <1>1, ConditionsAssumption
<1>3. \A t : /\ find(l, t) \in 0..Len(l)
             /\ find(l, t) # 0 => l[find(l, t)].type = t
             /\ \A i \in 1..Len(l) : l[i].type = t => find(l, t) = i
  BY <1>1, FindIs
<1>4. \A t : find(l, t) # 0 => find(l, t) \in 1..Len(l)
  BY <1>1, <1>3
<1>5. \A i \in 1..Len(l) : i # 0
  BY <1>1
<1>6. \A i \in 1..Len(l) : At(l, l[i].type) = l[i]
  BY <1>3, <1>5 DEF At
<1>7. \A t : find(l, t) # 0 => /\ At(l, t) = l[find(l, t)]
                               /\ At(l, t) \in Condition /\ At(l, t) # None
  BY <1>2, <1>4 DEF At
<1> QED
  BY <1>2, <1>3, <1>4, <1>6, <1>7 DEF At

LEMMA HeldAt ==
    ASSUME NEW l, Proper(l), NEW t, At(l, t) # None
    PROVE  \E i \in 1..Len(l) : l[i] = At(l, t) /\ l[i].type = t
<1>1. At(l, t).type = t /\ \E i \in 1..Len(l) : l[i] = At(l, t)
  BY AtIs, Zenon
<1> QED
  BY <1>1

\* The conditions that are kept stay where a client finds them.
LEMMA KeptAt ==
    ASSUME NEW l, Proper(l), NEW I
    PROVE  /\ Proper(Kept(l, I))
           /\ \A i \in 1..Len(l) : i \in I => At(Kept(l, I), l[i].type) = l[i]
           /\ \A i \in 1..Len(l) : i \notin I => At(Kept(l, I), l[i].type) = None
           /\ \A t : At(l, t) = None => At(Kept(l, I), t) = None
<1> DEFINE k == Kept(l, I)
<1>1. /\ k \in Seq(Condition) /\ Distinct(k)
      /\ \A j \in 1..Len(k) : \E i \in 1..Len(l) : i \in I /\ k[j] = l[i]
      /\ \A i \in 1..Len(l) : i \in I => \E j \in 1..Len(k) : k[j] = l[i]
  BY KeptIs DEF Proper
<1> HIDE DEF k
<1>2. Proper(k)
  BY <1>1 DEF Proper
<1>3. \A i \in 1..Len(l) : i \in I => At(k, l[i].type) = l[i]
  <2> SUFFICES ASSUME NEW i \in 1..Len(l), i \in I PROVE At(k, l[i].type) = l[i]
    OBVIOUS
  <2>1. PICK j \in 1..Len(k) : k[j] = l[i]
    BY <1>1
  <2>2. At(k, k[j].type) = k[j]
    BY <1>2, AtIs
  <2> QED
    BY <2>1, <2>2
<1>4. \A i \in 1..Len(l) : i \notin I => At(k, l[i].type) = None
  <2> SUFFICES ASSUME NEW i \in 1..Len(l), i \notin I, NEW j \in 1..Len(k), k[j].type = l[i].type
               PROVE  FALSE
    BY <1>2, AtIs
  <2>1. PICK h \in 1..Len(l) : h \in I /\ k[j] = l[h]
    BY <1>1
  <2> QED
    BY <2>1 DEF Proper, Distinct
<1>5. \A t : At(l, t) = None => At(k, t) = None
  <2> SUFFICES ASSUME NEW t, At(l, t) = None, NEW j \in 1..Len(k), k[j].type = t
               PROVE  FALSE
    BY <1>2, AtIs
  <2>1. PICK h \in 1..Len(l) : k[j] = l[h]
    BY <1>1
  <2>2. At(l, l[h].type) = l[h] /\ l[h] \in Condition
    BY AtIs
  <2> QED
    BY <2>1, <2>2, ConditionsAssumption
<1> QED
  BY <1>2, <1>3, <1>4, <1>5 DEF k

\* A loop over the list that leaves the types alone.
LEMMA MappedAt ==
    ASSUME NEW l, Proper(l), NEW m \in Seq(Condition), Len(m) = Len(l),
           \A i \in 1..Len(l) : m[i].type = l[i].type
    PROVE  /\ Proper(m)
           /\ \A i \in 1..Len(l) : At(m, l[i].type) = m[i]
           /\ \A t : At(l, t) = None => At(m, t) = None
<1>1. Proper(m)
  BY DEF Proper, Distinct
<1>2. \A i \in 1..Len(l) : At(m, l[i].type) = m[i]
  <2> SUFFICES ASSUME NEW i \in 1..Len(l) PROVE At(m, l[i].type) = m[i]
    OBVIOUS
  <2>1. At(m, m[i].type) = m[i]
    BY <1>1, AtIs
  <2> QED
    BY <2>1
<1>3. \A t : At(l, t) = None => At(m, t) = None
  <2> SUFFICES ASSUME NEW t, At(l, t) = None, NEW j \in 1..Len(m), m[j].type = t
               PROVE  FALSE
    BY <1>1, AtIs
  <2>1. At(l, l[j].type) = l[j] /\ l[j] \in Condition
    BY AtIs
  <2> QED
    BY <2>1, ConditionsAssumption
<1> QED
  BY <1>1, <1>2, <1>3

LEMMA AppendAt ==
    ASSUME NEW l, Proper(l), NEW c \in Condition, At(l, c.type) = None
    PROVE  /\ Proper(Append(l, c))
           /\ At(Append(l, c), c.type) = c
           /\ \A t : t # c.type => At(Append(l, c), t) = At(l, t)
<1> DEFINE m == Append(l, c)
<1>1. /\ m \in Seq(Condition) /\ Len(l) \in Nat /\ Len(m) = Len(l) + 1
      /\ m[Len(l) + 1] = c /\ \A i \in 1..Len(l) : m[i] = l[i]
  BY DEF Proper
<1> HIDE DEF m
<1>2. \A i : i \in 1..Len(m) <=> i \in 1..Len(l) \/ i = Len(l) + 1
  BY <1>1
<1>3. \A i \in 1..Len(l) : l[i].type # c.type
  <2> SUFFICES ASSUME NEW i \in 1..Len(l), l[i].type = c.type PROVE FALSE
    OBVIOUS
  <2>1. At(l, l[i].type) = l[i] /\ l[i] \in Condition
    BY AtIs
  <2> QED
    BY <2>1, ConditionsAssumption
<1>4. Proper(m)
  <2> SUFFICES ASSUME NEW i \in 1..Len(m), NEW j \in 1..Len(m), m[i].type = m[j].type
               PROVE  i = j
    BY <1>1 DEF Proper, Distinct
  <2>1. CASE i \in 1..Len(l) /\ j \in 1..Len(l)
    BY <1>1, <2>1 DEF Proper, Distinct
  <2>2. CASE i = Len(l) + 1 /\ j \in 1..Len(l)
    BY <1>1, <1>3, <2>2
  <2>3. CASE i \in 1..Len(l) /\ j = Len(l) + 1
    BY <1>1, <1>3, <2>3
  <2> QED
    BY <1>2, <2>1, <2>2, <2>3
<1>5. At(m, c.type) = c
  <2>1. Len(l) + 1 \in 1..Len(m)
    BY <1>2
  <2>2. At(m, m[Len(l) + 1].type) = m[Len(l) + 1]
    BY <1>4, <2>1, AtIs
  <2> QED
    BY <1>1, <2>2
<1>6. \A t : t # c.type => At(m, t) = At(l, t)
  <2> SUFFICES ASSUME NEW t, t # c.type PROVE At(m, t) = At(l, t)
    OBVIOUS
  <2>1. CASE At(l, t) = None
    <3> SUFFICES ASSUME NEW j \in 1..Len(m), m[j].type = t PROVE FALSE
      BY <1>4, <2>1, AtIs
    <3>1. j \in 1..Len(l) /\ m[j] = l[j]
      BY <1>1, <1>2
    <3>2. At(l, l[j].type) = l[j] /\ l[j] \in Condition
      BY <3>1, AtIs
    <3> QED
      BY <2>1, <3>1, <3>2, ConditionsAssumption
  <2>2. CASE At(l, t) # None
    <3>1. PICK i \in 1..Len(l) : l[i] = At(l, t) /\ l[i].type = t
      BY <2>2, HeldAt
    <3>2. i \in 1..Len(m) /\ m[i] = l[i]
      BY <1>1, <1>2
    <3>3. At(m, m[i].type) = m[i]
      BY <1>4, <3>2, AtIs
    <3> QED
      BY <3>1, <3>2, <3>3
  <2> QED
    BY <2>1, <2>2
<1> QED
  BY <1>4, <1>5, <1>6 DEF m


\* A condition with its flag set or cleared.
Flagged(c, b) == [c EXCEPT !.staged = b]

LEMMA FlaggedIs ==
    ASSUME NEW c \in Condition, NEW b \in BOOLEAN
    PROVE  /\ Flagged(c, b) \in Condition /\ Flagged(c, b).type = c.type
           /\ Flagged(c, b).info = c.info /\ Flagged(c, b).staged = b
           /\ Flagged(c, b).lastTransitionTime = c.lastTransitionTime
  BY DEF Flagged, Condition

LEMMA UpdateIs ==
    ASSUME NEW c \in Condition, NEW info \in Info, now \in 0..MaxTime
    PROVE  /\ Update(c, info) \in Condition /\ Update(c, info).type = c.type
           /\ Update(c, info).info = info /\ Update(c, info).staged = TRUE
           /\ c.info = info => Update(c, info).lastTransitionTime = c.lastTransitionTime
  BY DEF Update, Condition

\* A loop that changes conditions but not their types changes what a client
\* finds in the same way.
LEMMA LoopAt ==
    ASSUME NEW l, Proper(l), NEW f \in [Condition -> Condition],
           \A c \in Condition : f[c].type = c.type,
           NEW m, m = [i \in 1..Len(l) |-> f[l[i]]]
    PROVE  /\ Proper(m)
           /\ \A t : At(m, t) = IF At(l, t) = None THEN None ELSE f[At(l, t)]
<1>1. l \in Seq(Condition) /\ Len(l) \in Nat /\ \A i \in 1..Len(l) : l[i] \in Condition
  BY DEF Proper
<1>2. m \in Seq(Condition) /\ Len(m) = Len(l)
  BY <1>1
<1>3. \A i \in 1..Len(l) : m[i] = f[l[i]] /\ m[i].type = l[i].type
  BY <1>1
<1>4. /\ Proper(m)
      /\ \A i \in 1..Len(l) : At(m, l[i].type) = m[i]
      /\ \A t : At(l, t) = None => At(m, t) = None
  BY <1>2, <1>3, MappedAt
<1>5. ASSUME NEW t, At(l, t) # None PROVE At(m, t) = f[At(l, t)]
  <2>1. PICK i \in 1..Len(l) : l[i] = At(l, t) /\ l[i].type = t
    BY <1>5, HeldAt
  <2> QED
    BY <1>3, <1>4, <2>1
<1> QED
  BY <1>4, <1>5

\* A loop that keeps the conditions in a set.
LEMMA FilterAt ==
    ASSUME NEW l, Proper(l), NEW S, NEW I, \A i \in 1..Len(l) : i \in I <=> l[i] \in S
    PROVE  /\ Proper(Kept(l, I))
           /\ \A t : At(Kept(l, I), t) =
                       IF At(l, t) # None /\ At(l, t) \in S THEN At(l, t) ELSE None
<1>1. /\ Proper(Kept(l, I))
      /\ \A i \in 1..Len(l) : i \in I => At(Kept(l, I), l[i].type) = l[i]
      /\ \A i \in 1..Len(l) : i \notin I => At(Kept(l, I), l[i].type) = None
      /\ \A t : At(l, t) = None => At(Kept(l, I), t) = None
  BY KeptAt
<1>2. ASSUME NEW t, At(l, t) # None
      PROVE  At(Kept(l, I), t) = IF At(l, t) \in S THEN At(l, t) ELSE None
  <2>1. PICK i \in 1..Len(l) : l[i] = At(l, t) /\ l[i].type = t
    BY <1>2, HeldAt
  <2> QED
    BY <1>1, <2>1
<1> QED
  BY <1>1, <1>2


----------------------------------------------------------------------------
(* What each operation does to the condition of each type.                 *)

LEMMA ReadEffect ==
    ASSUME Proper(list), Read
    PROVE  /\ Proper(list')
           /\ \A t : At(list', t) = IF At(list, t) = None THEN None
                                    ELSE Flagged(At(list, t), FALSE)
<1> DEFINE f == [c \in Condition |-> Flagged(c, FALSE)]
<1>1. f \in [Condition -> Condition] /\ \A c \in Condition : f[c].type = c.type
  BY FlaggedIs
<1>2. \A i \in 1..Len(list) : list[i] \in Condition
  BY DEF Proper
<1>3. list' = [i \in 1..Len(list) |-> f[list[i]]]
  BY <1>2 DEF Read, Flagged
<1>4. \A c \in Condition : f[c] = Flagged(c, FALSE)
  OBVIOUS
<1> HIDE DEF f
<1>5. /\ Proper(list')
      /\ \A t : At(list', t) = IF At(list, t) = None THEN None ELSE f[At(list, t)]
  BY <1>1, <1>3, LoopAt
<1>6. \A t : At(list, t) # None => At(list, t) \in Condition
  BY AtIs
<1> QED
  BY <1>4, <1>5, <1>6

LEMMA BeginEffect ==
    ASSUME Proper(list), BeginStagingConditions
    PROVE  /\ Proper(list')
           /\ \A t : At(list', t) = IF At(list, t) = None THEN None
                                    ELSE Flagged(At(list, t), At(list, t).info.durable)
<1> DEFINE f == [c \in Condition |-> Flagged(c, c.info.durable)]
<1>1. \A c \in Condition : c.info.durable \in BOOLEAN
  BY ConditionsAssumption DEF Condition
<1>2. f \in [Condition -> Condition] /\ \A c \in Condition : f[c].type = c.type
  BY <1>1, FlaggedIs
<1>3. \A i \in 1..Len(list) : list[i] \in Condition
  BY DEF Proper
<1>4. list' = [i \in 1..Len(list) |-> f[list[i]]]
  BY <1>3 DEF BeginStagingConditions, Flagged
<1>5. \A c \in Condition : f[c] = Flagged(c, c.info.durable)
  OBVIOUS
<1> HIDE DEF f
<1>6. /\ Proper(list')
      /\ \A t : At(list', t) = IF At(list, t) = None THEN None ELSE f[At(list, t)]
  BY <1>2, <1>4, LoopAt
<1>7. \A t : At(list, t) # None => At(list, t) \in Condition
  BY AtIs
<1> QED
  BY <1>5, <1>6, <1>7

LEMMA EndEffect ==
    ASSUME Proper(list), EndStagingConditions
    PROVE  /\ Proper(list')
           /\ \A t : At(list', t) = IF At(list, t) # None /\ At(list, t).staged
                                    THEN At(list, t) ELSE None
<1> DEFINE S == {c \in Condition : c.staged}
           I == {i \in 1..Len(list) : list[i].staged}
<1>1. \A i \in 1..Len(list) : list[i] \in Condition
  BY DEF Proper
<1>2. \A i \in 1..Len(list) : i \in I <=> list[i] \in S
  BY <1>1
<1>3. list' = Kept(list, I)
  BY DEF EndStagingConditions
<1>4. \A c \in Condition : c \in S <=> c.staged
  OBVIOUS
<1> HIDE DEF S, I
<1>5. /\ Proper(list')
      /\ \A t : At(list', t) = IF At(list, t) # None /\ At(list, t) \in S
                               THEN At(list, t) ELSE None
  BY <1>2, <1>3, FilterAt
<1>6. \A t : At(list, t) # None => At(list, t) \in Condition
  BY AtIs
<1> QED
  BY <1>4, <1>5, <1>6

LEMMA SetEffect ==
    ASSUME Proper(list), now \in 0..MaxTime, NEW t \in CondType, NEW info \in Info,
           SetCondition(t, info)
    PROVE  /\ Proper(list')
           /\ At(list', t) = IF At(list, t) = None
                             THEN [type |-> t, info |-> info,
                                   lastTransitionTime |-> now, staged |-> TRUE]
                             ELSE Update(At(list, t), info)
           /\ \A u : u # t => At(list', u) = At(list, u)
<1>1. find(list, t) = 0 <=> At(list, t) = None
  BY AtIs
<1>2. CASE At(list, t) = None
  <2> DEFINE c == [type |-> t, info |-> info, lastTransitionTime |-> now, staged |-> TRUE]
  <2>1. c \in Condition /\ c.type = t
    BY DEF Condition
  <2>2. list' = Append(list, c)
    BY <1>1, <1>2 DEF SetCondition
  <2> HIDE DEF c
  <2>3. /\ Proper(list') /\ At(list', t) = c
        /\ \A u : u # t => At(list', u) = At(list, u)
    BY <1>2, <2>1, <2>2, AppendAt
  <2> QED
    BY <1>2, <2>3 DEF c
<1>3. CASE At(list, t) # None
  <2> DEFINE f == [c \in Condition |-> IF c.type = t THEN Update(c, info) ELSE c]
             i == find(list, t)
  <2>1. f \in [Condition -> Condition] /\ \A c \in Condition : f[c].type = c.type
    BY UpdateIs
  <2>2. list \in Seq(Condition) /\ Len(list) \in Nat /\ Distinct(list)
    BY DEF Proper
  <2>3. i \in 1..Len(list) /\ list[i].type = t /\ \A j \in 1..Len(list) : list[j].type = t => j = i
    <3>1. i \in 0..Len(list) /\ i # 0
      BY <1>1, <1>3, <2>2, FindIs
    <3>2. list[i].type = t /\ \A j \in 1..Len(list) : list[j].type = t => j = i
      BY <3>1, <2>2, FindIs
    <3> HIDE DEF i
    <3> QED
      BY <2>2, <3>1, <3>2
  <2>4. list' = [list EXCEPT ![i] = Update(@, info)]
    BY <1>1, <1>3 DEF SetCondition
  <2> HIDE DEF i
  <2>5. list' = [j \in 1..Len(list) |-> f[list[j]]]
    <3>1. list' = [j \in 1..Len(list) |-> IF j = i THEN Update(list[j], info) ELSE list[j]]
      <4>1. DOMAIN list = 1..Len(list)
        BY <2>2
      <4>2. [list EXCEPT ![i] = Update(@, info)]
              = [j \in DOMAIN list |-> IF j = i THEN Update(list[j], info) ELSE list[j]]
        BY <2>3, <4>1
      <4> QED
        BY <2>4, <4>1, <4>2
    <3>2. \A j \in 1..Len(list) : list[j] \in Condition /\ (j = i <=> list[j].type = t)
      BY <2>2, <2>3
    <3>3. \A j \in 1..Len(list) :
            f[list[j]] = IF j = i THEN Update(list[j], info) ELSE list[j]
      BY <3>2
    <3> HIDE DEF f
    <3> QED
      BY <3>1, <3>3
  <2>6. \A c \in Condition : f[c] = IF c.type = t THEN Update(c, info) ELSE c
    OBVIOUS
  <2> HIDE DEF f
  <2>7. /\ Proper(list')
        /\ \A u : At(list', u) = IF At(list, u) = None THEN None ELSE f[At(list, u)]
    BY <2>1, <2>5, LoopAt
  <2>8. \A u : At(list, u) # None => At(list, u) \in Condition /\ At(list, u).type = u
    BY AtIs
  <2> QED
    BY <1>3, <2>6, <2>7, <2>8
<1> QED
  BY <1>2, <1>3

\* A loop that sets or clears the flag of the condition of one type.
LEMMA FlagEffect ==
    ASSUME Proper(list), NEW t, NEW b \in BOOLEAN,
           list' = [i \in 1..Len(list) |->
                      IF list[i].type = t THEN [list[i] EXCEPT !.staged = b] ELSE list[i]]
    PROVE  /\ Proper(list')
           /\ At(list', t) = IF At(list, t) = None THEN None ELSE Flagged(At(list, t), b)
           /\ \A u : u # t => At(list', u) = At(list, u)
<1> DEFINE f == [c \in Condition |-> IF c.type = t THEN Flagged(c, b) ELSE c]
<1>1. f \in [Condition -> Condition] /\ \A c \in Condition : f[c].type = c.type
  BY FlaggedIs
<1>2. \A i \in 1..Len(list) : list[i] \in Condition
  BY DEF Proper
<1>3. list' = [i \in 1..Len(list) |-> f[list[i]]]
  BY <1>2 DEF Flagged
<1>4. \A c \in Condition : f[c] = IF c.type = t THEN Flagged(c, b) ELSE c
  OBVIOUS
<1> HIDE DEF f
<1>5. /\ Proper(list')
      /\ \A u : At(list', u) = IF At(list, u) = None THEN None ELSE f[At(list, u)]
  BY ONLY Proper(list), <1>1, <1>3, LoopAt
<1>6. \A u : At(list, u) # None => At(list, u) \in Condition /\ At(list, u).type = u
  BY AtIs
<1> QED
  BY <1>4, <1>5, <1>6

LEMMA StageEffect ==
    ASSUME Proper(list), NEW t, StageCondition(t)
    PROVE  /\ Proper(list')
           /\ At(list', t) = IF At(list, t) = None THEN None ELSE Flagged(At(list, t), TRUE)
           /\ \A u : u # t => At(list', u) = At(list, u)
  BY FlagEffect DEF StageCondition

LEMMA DeleteEffect ==
    ASSUME Proper(list), NEW t, DeleteCondition(t)
    PROVE  /\ Proper(list')
           /\ At(list', t) = IF staging /\ At(list, t) # None
                             THEN Flagged(At(list, t), FALSE) ELSE None
           /\ \A u : u # t => At(list', u) = At(list, u)
<1>1. CASE staging
  <2>1. list' = [i \in 1..Len(list) |->
                   IF list[i].type = t THEN [list[i] EXCEPT !.staged = FALSE] ELSE list[i]]
    BY <1>1 DEF DeleteCondition
  <2> QED
    BY <1>1, <2>1, FlagEffect
<1>2. CASE ~staging
  <2> DEFINE S == {c \in Condition : c.type # t}
             I == {i \in 1..Len(list) : list[i].type # t}
  <2>1. \A i \in 1..Len(list) : list[i] \in Condition
    BY DEF Proper
  <2>2. \A i \in 1..Len(list) : i \in I <=> list[i] \in S
    BY <2>1
  <2>3. list' = Kept(list, I)
    BY <1>2 DEF DeleteCondition
  <2>4. \A c \in Condition : c \in S <=> c.type # t
    OBVIOUS
  <2> HIDE DEF S, I
  <2>5. /\ Proper(list')
        /\ \A u : At(list', u) = IF At(list, u) # None /\ At(list, u) \in S
                                 THEN At(list, u) ELSE None
    BY <2>2, <2>3, FilterAt
  <2>6. \A u : At(list, u) # None => At(list, u) \in Condition /\ At(list, u).type = u
    BY AtIs
  <2> QED
    BY <1>2, <2>4, <2>5, <2>6
<1> QED
  BY <1>1, <1>2

----------------------------------------------------------------------------
(* Queries, as a client of the map would ask them.                         *)

LEMMA QueriesAt ==
    ASSUME Proper(list)
    PROVE  /\ \A t : Entry(t) = IF At(list, t) = None THEN None ELSE At(list, t).info
           /\ \A t : FindCondition(t) = IF staging /\ At(list, t) # None /\ ~At(list, t).staged
                                        THEN None ELSE At(list, t)
           /\ \A t : t \in Types(list) <=> At(list, t) # None
           /\ \A t : At(list, t) # None => /\ t \in CondType
                                           /\ At(list, t).info \in Info
                                           /\ At(list, t).info # None
                                           /\ At(list, t).staged \in BOOLEAN
<1>1. \A t : find(list, t) = 0 <=> At(list, t) = None
  BY AtIs
<1>2. \A t : Entry(t) = IF At(list, t) = None THEN None ELSE At(list, t).info
  BY <1>1 DEF Entry, At
<1>3. \A t : FindCondition(t) = IF staging /\ At(list, t) # None /\ ~At(list, t).staged
                                THEN None ELSE At(list, t)
  BY <1>1 DEF FindCondition, At
<1>4. \A t : t \in Types(list) <=> At(list, t) # None
  <2> SUFFICES ASSUME NEW t PROVE t \in Types(list) <=> At(list, t) # None
    OBVIOUS
  <2>1. CASE At(list, t) # None
    <3>1. PICK i \in 1..Len(list) : list[i].type = t
      BY <2>1, HeldAt
    <3> QED
      BY <2>1, <3>1 DEF Types
  <2>2. CASE At(list, t) = None
    <3> SUFFICES ASSUME NEW i \in 1..Len(list), list[i].type = t PROVE FALSE
      BY <2>2 DEF Types
    <3>1. At(list, list[i].type) = list[i] /\ list[i] \in Condition
      BY AtIs
    <3> QED
      BY <2>2, <3>1, ConditionsAssumption
  <2> QED
    BY <2>1, <2>2
<1>5. \A t : At(list, t) # None => At(list, t) \in Condition /\ At(list, t).type = t
  BY AtIs
<1>6. \A c \in Condition : /\ c.type \in CondType /\ c.info \in Info /\ c.info # None
                           /\ c.staged \in BOOLEAN
  BY ConditionsAssumption DEF Condition
<1> QED
  BY <1>2, <1>3, <1>4, <1>5, <1>6


----------------------------------------------------------------------------
(* The inductive invariant: one condition of a type, no assertions outside *)
(* a round, and a report in three disjoint parts that accounts for every   *)
(* difference from what was read.                                          *)

InfoAt(l, t) == IF At(l, t) = None THEN None ELSE At(l, t).info

ReportInv ==
    /\ explain \in [added : SUBSET CondType, updated : SUBSET CondType,
                    deleted : SUBSET CondType]
    /\ explain.added \cap (explain.updated \cup explain.deleted) = {}
    /\ explain.updated \cap explain.deleted = {}
    /\ \A t \in CondType \ Reported : base[t] = InfoAt(list, t)

CollectionInv ==
    /\ Proper(list)
    /\ staging \in BOOLEAN
    /\ now \in 0..MaxTime
    /\ ~staging => asserted = {}
    /\ ReportInv

LEMMA CollectionInit == Init => CollectionInv
<1> SUFFICES ASSUME Init PROVE CollectionInv
  OBVIOUS
<1>1. list = <<>> /\ <<>> \in Seq(Condition) /\ Len(<<>>) = 0 /\ 1..0 = {}
  BY DEF Init
<1>2. Proper(list)
  BY <1>1 DEF Proper, Distinct
<1>3. \A t : At(list, t) = None
  BY <1>1, <1>2, AtIs
<1>4. ReportInv
  BY <1>3 DEF Init, ReportInv, Empty, InfoAt, Reported
<1>5. now \in 0..MaxTime
  BY ConditionsAssumption DEF Init
<1> QED
  BY <1>2, <1>4, <1>5 DEF Init, CollectionInv

\* The report of a step that may change the conditions of the types in S,
\* and says so.
LEMMA ReportStep ==
    ASSUME ReportInv, NEW S,
           explain' \in [added : SUBSET CondType, updated : SUBSET CondType,
                         deleted : SUBSET CondType],
           explain'.added \cap (explain'.updated \cup explain'.deleted) = {},
           explain'.updated \cap explain'.deleted = {},
           base' = base,
           \A t : t \in Reported \cup S => t \in Reported',
           \A t : t \notin S => InfoAt(list', t) = InfoAt(list, t)
    PROVE  ReportInv'
<1>1. \A t \in CondType \ Reported' : base'[t] = InfoAt(list', t)
  BY DEF ReportInv
<1> QED
  BY <1>1 DEF ReportInv

LEMMA CollectionStep == CollectionInv /\ [Next]_vars => CollectionInv'
<1> SUFFICES ASSUME CollectionInv, [Next]_vars PROVE CollectionInv'
  OBVIOUS
<1> USE DEF CollectionInv
<1>0. \A t : At(list, t) # None => /\ At(list, t) \in Condition
                                   /\ At(list, t).staged \in BOOLEAN
                                   /\ At(list, t).info.durable \in BOOLEAN
  <2>1. \A c \in Condition : c.staged \in BOOLEAN /\ c.info.durable \in BOOLEAN
    BY ConditionsAssumption DEF Condition
  <2> QED
    BY <2>1, AtIs
<1>a. \A c \in Condition, b \in BOOLEAN : /\ Flagged(c, b) # None
                                          /\ Flagged(c, b).info = c.info
  BY FlaggedIs, ConditionsAssumption
<1>b. /\ explain \in [added : SUBSET CondType, updated : SUBSET CondType,
                      deleted : SUBSET CondType]
      /\ explain.added \cap (explain.updated \cup explain.deleted) = {}
      /\ explain.updated \cap explain.deleted = {}
  BY DEF ReportInv
<1>c. ASSUME explain' = explain, base' = base, \A t : InfoAt(list', t) = InfoAt(list, t)
      PROVE  ReportInv'
  <2>1. Reported' = Reported
    BY <1>c DEF Reported
  <2>2. \A t \in CondType \ Reported' : base'[t] = InfoAt(list', t)
    BY <1>c, <2>1 DEF ReportInv
  <2> QED
    BY <1>b, <1>c, <2>2 DEF ReportInv
<1>1. CASE Tick
  <2>1. ReportInv'
    BY <1>1, <1>c DEF Tick
  <2> QED
    BY <1>1, <2>1, ConditionsAssumption DEF Tick
<1>2. CASE Read
  <2>1. Proper(list') /\ \A t : InfoAt(list', t) = InfoAt(list, t)
    BY <1>0, <1>2, <1>a, ReadEffect DEF InfoAt
  <2>2. \A t \in CondType : base'[t] = InfoAt(list, t)
    BY <1>2, QueriesAt DEF Read, InfoAt
  <2>3. ReportInv'
    BY <1>2, <2>1, <2>2 DEF Read, ReportInv, Empty, Reported
  <2> QED
    BY <1>2, <2>1, <2>3 DEF Read
<1>3. CASE BeginStagingConditions
  <2>1. Proper(list') /\ \A t : InfoAt(list', t) = InfoAt(list, t)
    BY <1>0, <1>3, <1>a, BeginEffect DEF InfoAt
  <2>2. ReportInv'
    BY <1>3, <1>c, <2>1 DEF BeginStagingConditions
  <2> QED
    BY <1>3, <2>1, <2>2 DEF BeginStagingConditions
<1>4. CASE EndStagingConditions
  <2> DEFINE S == {list[i].type : i \in {j \in 1..Len(list) : ~list[j].staged}}
  <2>1. Proper(list')
    BY <1>4, EndEffect
  <2>2. \A t : t \notin S => At(list', t) = At(list, t)
    <3> SUFFICES ASSUME NEW t, t \notin S, At(list, t) # None PROVE At(list, t).staged
      BY <1>4, EndEffect
    <3>1. PICK i \in 1..Len(list) : list[i] = At(list, t) /\ list[i].type = t
      BY HeldAt
    <3> QED
      BY <3>1
  <2>3. S \in SUBSET CondType
    <3>1. \A i \in 1..Len(list) : list[i] \in Condition
      BY DEF Proper
    <3>2. \A c \in Condition : c.type \in CondType
      BY DEF Condition
    <3> QED
      BY <3>1, <3>2
  <2>4. explain' = deleted(explain, S) /\ base' = base
    BY <1>4 DEF EndStagingConditions
  <2> HIDE DEF S
  <2>5. ReportInv'
    BY <1>b, <2>2, <2>3, <2>4, ReportStep DEF deleted, Reported, InfoAt
  <2> QED
    BY <1>4, <2>1, <2>5 DEF EndStagingConditions
<1>5. ASSUME NEW t \in CondType, NEW info \in Info, SetCondition(t, info)
      PROVE  CollectionInv'
  <2>1. Proper(list') /\ \A u : u # t => InfoAt(list', u) = InfoAt(list, u)
    BY <1>5, SetEffect DEF InfoAt
  <2>2. find(list, t) = 0 <=> At(list, t) = None
    BY AtIs
  <2>3. CASE At(list, t) = None
    <3>1. explain' = added(explain, t) /\ base' = base
      BY <1>5, <2>2, <2>3 DEF SetCondition
    <3>2. ReportInv'
      BY <1>b, <2>1, <3>1, ReportStep DEF added, Reported
    <3> QED
      BY <1>5, <2>1, <3>2 DEF SetCondition
  <2>4. CASE At(list, t) # None
    <3>1. list[find(list, t)] = At(list, t)
      BY <2>2, <2>4 DEF At
    <3>2. At(list', t) = Update(At(list, t), info)
      BY <1>5, <2>4, SetEffect
    <3>3. CASE At(list, t).info = info
      <4>1. InfoAt(list', t) = InfoAt(list, t)
        <5>1. At(list', t) \in Condition /\ At(list', t).info = info
          <6>1. At(list, t) \in Condition /\ now \in 0..MaxTime
            BY <1>0, <2>4
          <6>2. /\ Update(At(list, t), info) \in Condition
                /\ Update(At(list, t), info).info = info
            BY <6>1, UpdateIs, Zenon
          <6> QED
            BY <3>2, <6>2
        <5> QED
          BY <2>4, <3>3, <5>1, ConditionsAssumption DEF InfoAt
      <4>2. explain' = explain /\ base' = base
        BY <1>5, <2>2, <2>4, <3>1, <3>3 DEF SetCondition
      <4>3. ReportInv'
        BY <1>c, <2>1, <4>1, <4>2
      <4> QED
        BY <1>5, <2>1, <4>3 DEF SetCondition
    <3>4. CASE At(list, t).info # info
      <4>1. explain' = updated(explain, t) /\ base' = base
        BY <1>5, <2>2, <2>4, <3>1, <3>4 DEF SetCondition
      <4>2. ReportInv'
        <5>1. CASE t \in explain.added
          BY <1>b, <2>1, <4>1, <5>1, ReportStep DEF updated, Reported
        <5>2. CASE t \notin explain.added
          <6>1. explain' = [explain EXCEPT !.updated = @ \cup {t}, !.deleted = @ \ {t}]
            BY <4>1, <5>2 DEF updated
          <6>2. /\ explain'.added = explain.added
                /\ explain'.updated = explain.updated \cup {t}
                /\ explain'.deleted = explain.deleted \ {t}
                /\ explain' \in [added : SUBSET CondType, updated : SUBSET CondType,
                                 deleted : SUBSET CondType]
            BY <1>b, <6>1
          <6> QED
            BY <1>b, <2>1, <4>1, <5>2, <6>2, ReportStep DEF Reported
        <5> QED
          BY <5>1, <5>2
      <4> QED
        BY <1>5, <2>1, <4>2 DEF SetCondition
    <3> QED
      BY <3>3, <3>4
  <2> QED
    BY <2>3, <2>4
<1>6. ASSUME NEW t \in CondType, StageCondition(t) PROVE CollectionInv'
  <2>1. Proper(list') /\ \A u : InfoAt(list', u) = InfoAt(list, u)
    BY <1>0, <1>6, <1>a, StageEffect DEF InfoAt
  <2>2. ReportInv'
    BY <1>6, <1>c, <2>1 DEF StageCondition
  <2> QED
    BY <1>6, <2>1, <2>2 DEF StageCondition
<1>7. ASSUME NEW t \in CondType, DeleteCondition(t) PROVE CollectionInv'
  <2> DEFINE S == Types(list) \cap {t}
  <2>1. Proper(list') /\ \A u : u # t => InfoAt(list', u) = InfoAt(list, u)
    <3>1. Proper(list') /\ \A u : u # t => At(list', u) = At(list, u)
      BY <1>7, DeleteEffect
    <3> QED
      BY <3>1 DEF InfoAt
  <2>2. t \notin S => InfoAt(list', t) = InfoAt(list, t)
    BY <1>7, DeleteEffect, QueriesAt DEF InfoAt
  <2>3. explain' = deleted(explain, S) /\ base' = base /\ S \in SUBSET {t}
    BY <1>7 DEF DeleteCondition
  <2> HIDE DEF S
  <2>4. ReportInv'
    <3>1. \A u : u \notin S => InfoAt(list', u) = InfoAt(list, u)
      BY <2>1, <2>2, <2>3
    <3> QED
      BY <1>b, <2>3, <3>1, ReportStep DEF deleted, Reported
  <2> QED
    BY <1>7, <2>1, <2>4 DEF DeleteCondition
<1>8. CASE UNCHANGED vars
  <2>1. ReportInv'
    BY <1>8, <1>c DEF vars
  <2> QED
    BY <1>8, <2>1 DEF vars
<1> QED
  BY <1>1, <1>2, <1>3, <1>4, <1>5, <1>6, <1>7, <1>8 DEF Next


LEMMA CollectionCorrect == Spec => []CollectionInv
  BY CollectionInit, CollectionStep, PTL DEF Spec

\* Explain leaves out no type that came, went or changed since the resource
\* was read, and lists none twice, whatever the order of the calls.
THEOREM ReportIsComplete == Spec => []ChangesAreReported
<1>1. CollectionInv => ChangesAreReported
  <2> SUFFICES ASSUME CollectionInv PROVE ChangesAreReported
    OBVIOUS
  <2>1. \A t : Entry(t) = InfoAt(list, t)
    BY QueriesAt DEF CollectionInv, InfoAt
  <2> QED
    BY <2>1 DEF CollectionInv, ReportInv, ChangesAreReported
<1> QED
  BY <1>1, CollectionCorrect, PTL

\* HasBlockerCondition, which scans the list, agrees with FindCondition and
\* HasCondition, which look a type up: the reconciler never holds a ruleset
\* back for a condition that only an earlier pass asserted.
THEOREM BlockersAreOfThisRound == Spec => []BlockersAreSeen
<1>1. CollectionInv => BlockersAreSeen
  <2> SUFFICES ASSUME CollectionInv PROVE BlockersAreSeen
    OBVIOUS
  <2>1. Proper(list)
    BY DEF CollectionInv
  <2>2. /\ \A t : FindCondition(t) = IF staging /\ At(list, t) # None /\ ~At(list, t).staged
                                     THEN None ELSE At(list, t)
        /\ \A t : At(list, t) # None => t \in CondType
    BY <2>1, QueriesAt
  <2>3. \A i \in 1..Len(list) : /\ At(list, list[i].type) = list[i]
                                /\ list[i] # None /\ list[i].type \in CondType
    <3>1. \A i \in 1..Len(list) : At(list, list[i].type) = list[i] /\ list[i] \in Condition
      BY <2>1, AtIs
    <3> QED
      BY <3>1, ConditionsAssumption DEF Condition
  <2>4. \A t : HasCondition({t}) <=> /\ FindCondition(t) # None
                                     /\ FindCondition(t).info.status = "True"
    BY DEF HasCondition
  <2>5. ASSUME HasBlockerCondition
        PROVE  \E t \in CondType : /\ HasCondition({t})
                                   /\ FindCondition(t).info.category \in {"Critical", "Error"}
    <3>1. PICK i \in 1..Len(list) : /\ list[i].info.status = "True"
                                    /\ list[i].info.category \in {"Critical", "Error"}
                                    /\ staging => list[i].staged
      BY <2>5 DEF HasBlockerCondition, HasConditionCategory
    <3>2. FindCondition(list[i].type) = list[i]
      BY <2>2, <2>3, <3>1
    <3> QED
      BY <2>3, <2>4, <3>1, <3>2
  <2>6. ASSUME NEW t \in CondType, HasCondition({t}),
               FindCondition(t).info.category \in {"Critical", "Error"}
        PROVE  HasBlockerCondition
    <3>1. /\ At(list, t) # None /\ FindCondition(t) = At(list, t)
          /\ staging => At(list, t).staged
          /\ At(list, t).info.status = "True"
          /\ At(list, t).info.category \in {"Critical", "Error"}
      BY <2>2, <2>4, <2>6
    <3>2. PICK i \in 1..Len(list) : list[i] = At(list, t)
      BY <2>1, <3>1, HeldAt
    <3> QED
      BY <3>1, <3>2 DEF HasBlockerCondition, HasConditionCategory
  <2> QED
    BY <2>5, <2>6 DEF BlockersAreSeen
<1> QED
  BY <1>1, CollectionCorrect, PTL

\* No step gives a condition a new transition time and the content it had:
\* what a reconciler asserts again in the next pass is written back as it is.
THEOREM TimesSettle == Spec => TimeOnlyWithChange
<1> DEFINE Kept1(t) == (/\ At(list, t) # None /\ At(list', t) # None
                        /\ At(list, t).info = At(list', t).info)
                       => At(list', t).lastTransitionTime = At(list, t).lastTransitionTime
<1>1. ASSUME CollectionInv, [Next]_vars, NEW t \in CondType PROVE Kept1(t)
  <2>0. Proper(list) /\ now \in 0..MaxTime
    BY <1>1 DEF CollectionInv
  <2>a. At(list, t) # None => /\ At(list, t) \in Condition
                              /\ At(list, t).info.durable \in BOOLEAN
    <3>1. \A c \in Condition : c.info.durable \in BOOLEAN
      BY ConditionsAssumption DEF Condition
    <3> QED
      BY <2>0, <3>1, AtIs
  <2>b. \A b \in BOOLEAN : At(list, t) # None =>
          Flagged(At(list, t), b).lastTransitionTime = At(list, t).lastTransitionTime
    BY <2>a, FlaggedIs
  <2>1. CASE Tick
    BY <2>1 DEF Tick
  <2>2. CASE Read
    BY <2>0, <2>2, <2>b, ReadEffect
  <2>3. CASE BeginStagingConditions
    BY <2>0, <2>3, <2>a, <2>b, BeginEffect
  <2>4. CASE EndStagingConditions
    BY <2>0, <2>4, EndEffect
  <2>5. ASSUME NEW u \in CondType, NEW info \in Info, SetCondition(u, info) PROVE Kept1(t)
    <3>1. CASE t # u
      <4>1. At(list', t) = At(list, t)
        BY <2>0, <2>5, <3>1, SetEffect
      <4> QED
        BY <4>1
    <3>2. CASE t = u /\ At(list, t) # None
      <4>1. At(list', t) = Update(At(list, t), info)
        BY <2>0, <2>5, <3>2, SetEffect
      <4>2. /\ Update(At(list, t), info).info = info
            /\ At(list, t).info = info =>
                 Update(At(list, t), info).lastTransitionTime = At(list, t).lastTransitionTime
        BY <2>0, <2>5, <2>a, <3>2, UpdateIs
      <4> QED
        BY <4>1, <4>2
    <3> QED
      BY <3>1, <3>2
  <2>6. ASSUME NEW u \in CondType, StageCondition(u) PROVE Kept1(t)
    BY <2>0, <2>6, <2>b, StageEffect
  <2>7. ASSUME NEW u \in CondType, DeleteCondition(u) PROVE Kept1(t)
    BY <2>0, <2>7, <2>b, DeleteEffect
  <2>8. CASE UNCHANGED vars
    BY <2>8 DEF vars
  <2> QED
    BY <1>1, <2>1, <2>2, <2>3, <2>4, <2>5, <2>6, <2>7, <2>8 DEF Next
<1> HIDE DEF Kept1
<1> DEFINE Settles == \A t \in CondType :
                        LET i == find(list, t)
                            j == find(list', t)
                        IN  i # 0 /\ j # 0 /\ list[i].info = list'[j].info
                            => list'[j].lastTransitionTime = list[i].lastTransitionTime
<1>2. CollectionInv /\ [Next]_vars => [Settles]_vars
  <2> SUFFICES ASSUME CollectionInv, [Next]_vars, NEW t \in CondType,
                      find(list, t) # 0, find(list', t) # 0,
                      list[find(list, t)].info = list'[find(list', t)].info
               PROVE  list'[find(list', t)].lastTransitionTime
                        = list[find(list, t)].lastTransitionTime
    OBVIOUS
  <2>1. CollectionInv'
    BY CollectionStep
  <2>2. Proper(list) /\ Proper(list')
    BY <2>1 DEF CollectionInv
  <2>3. At(list, t) # None /\ At(list', t) # None
    BY <2>2, AtIs
  <2>4. At(list, t) = list[find(list, t)] /\ At(list', t) = list'[find(list', t)]
    BY DEF At
  <2>5. Kept1(t)
    BY <1>1
  <2> QED
    BY <2>3, <2>4, <2>5 DEF Kept1
<1>3. Spec => [][Settles]_vars
  BY <1>2, CollectionCorrect, PTL DEF Spec
<1> QED
  BY <1>3 DEF TimeOnlyWithChange


----------------------------------------------------------------------------
(* The refinement of ConditionSet.                                         *)

\* What the mapping makes of the list, by type.
Held(l, s, t) ==
    IF At(l, t) = None \/ (s /\ ~At(l, t).staged) THEN None ELSE At(l, t).info

Stale(l, s, t) ==
    IF At(l, t) # None /\ s /\ ~At(l, t).staged THEN At(l, t).info ELSE None

HeldMap == [t \in CondType |-> IF Seen(t) THEN Entry(t) ELSE None]

StaleMap == [t \in CondType |-> IF Seen(t) THEN None ELSE Entry(t)]

LEMMA MappingIs ==
    CollectionInv => /\ HeldMap = [t \in CondType |-> Held(list, staging, t)]
                     /\ StaleMap = [t \in CondType |-> Stale(list, staging, t)]
<1> SUFFICES ASSUME CollectionInv PROVE /\ HeldMap = [t \in CondType |-> Held(list, staging, t)]
                                        /\ StaleMap = [t \in CondType |-> Stale(list, staging, t)]
  OBVIOUS
<1>1. /\ \A t : Entry(t) = IF At(list, t) = None THEN None ELSE At(list, t).info
      /\ \A t : FindCondition(t) = IF staging /\ At(list, t) # None /\ ~At(list, t).staged
                                   THEN None ELSE At(list, t)
  BY QueriesAt DEF CollectionInv
<1>2. \A t \in CondType : /\ (IF Seen(t) THEN Entry(t) ELSE None) = Held(list, staging, t)
                          /\ (IF Seen(t) THEN None ELSE Entry(t)) = Stale(list, staging, t)
  BY <1>1 DEF Seen, Held, Stale
<1> QED
  BY <1>2 DEF HeldMap, StaleMap

LEMMA AbstractInit == Init => Abstract!CInit
<1> SUFFICES ASSUME Init PROVE Abstract!CInit
  OBVIOUS
<1>1. CollectionInv
  BY CollectionInit
<1>2. \A t : At(list, t) = None
  <2>1. list = <<>> /\ Len(<<>>) = 0 /\ 1..0 = {}
    BY DEF Init
  <2> QED
    BY <1>1, <2>1, AtIs DEF CollectionInv
<1>3. HeldMap = Abstract!Nothing /\ StaleMap = Abstract!Nothing
  BY <1>1, <1>2, MappingIs DEF Abstract!Nothing, Held, Stale
<1> QED
  BY <1>3 DEF Init, Abstract!CInit, HeldMap, StaleMap

LEMMA AbstractStep == CollectionInv /\ [Next]_vars => [Abstract!CNext]_(Abstract!cvars)
<1> SUFFICES ASSUME CollectionInv, [Next]_vars
             PROVE  Abstract!CNext \/ UNCHANGED Abstract!cvars
  OBVIOUS
<1>1. CollectionInv'
  BY CollectionStep
<1>2. /\ HeldMap = [t \in CondType |-> Held(list, staging, t)]
      /\ StaleMap = [t \in CondType |-> Stale(list, staging, t)]
  BY MappingIs
<1>3. /\ HeldMap' = [t \in CondType |-> Held(list', staging', t)]
      /\ StaleMap' = [t \in CondType |-> Stale(list', staging', t)]
  <2>1. (CollectionInv => /\ HeldMap = [t \in CondType |-> Held(list, staging, t)]
                          /\ StaleMap = [t \in CondType |-> Stale(list, staging, t)])'
    BY MappingIs, PTL
  <2> QED
    BY <1>1, <2>1
<1> HIDE DEF HeldMap, StaleMap
<1>4. Proper(list) /\ staging \in BOOLEAN /\ now \in 0..MaxTime /\ (~staging => asserted = {})
  BY DEF CollectionInv
<1>5. \A t : At(list, t) # None => /\ At(list, t) \in Condition
                                   /\ At(list, t).staged \in BOOLEAN
                                   /\ At(list, t).info \in Info /\ At(list, t).info # None
                                   /\ At(list, t).info.durable \in BOOLEAN
  <2>1. \A t : At(list, t) # None => At(list, t) \in Condition
    BY <1>4, AtIs
  <2>2. \A c \in Condition : /\ c.staged \in BOOLEAN /\ c.info \in Info /\ c.info # None
                             /\ c.info.durable \in BOOLEAN
    BY ConditionsAssumption DEF Condition
  <2> QED
    BY <2>1, <2>2
<1>6. \A c \in Condition, b \in BOOLEAN : /\ Flagged(c, b) # None
                                          /\ Flagged(c, b).info = c.info
                                          /\ Flagged(c, b).staged = b
  BY FlaggedIs, ConditionsAssumption
<1>7. \A t \in CondType : Abstract!Known(t) = InfoAt(list, t)
  <2>1. \A t \in CondType : (IF HeldMap[t] # None THEN HeldMap[t] ELSE StaleMap[t])
                              = InfoAt(list, t)
    BY <1>2, <1>5 DEF Held, Stale, InfoAt
  <2> QED
    BY <2>1 DEF Abstract!Known, HeldMap, StaleMap
<1>8. ASSUME HeldMap' = HeldMap, StaleMap' = StaleMap, staging' = staging, asserted' = asserted
      PROVE  UNCHANGED Abstract!cvars
  BY <1>8 DEF Abstract!cvars, HeldMap, StaleMap
<1>9. CASE Tick
  BY <1>2, <1>3, <1>8, <1>9 DEF Tick
<1>10. CASE Read
  <2>1. \A t : At(list', t) = IF At(list, t) = None THEN None ELSE Flagged(At(list, t), FALSE)
    BY <1>4, <1>10, ReadEffect
  <2>2. ~staging /\ staging' = staging /\ asserted' = asserted
    BY <1>10 DEF Read
  <2>3. \A t : /\ Held(list', staging', t) = Held(list, staging, t)
               /\ Stale(list', staging', t) = Stale(list, staging, t)
    BY <1>5, <1>6, <2>1, <2>2 DEF Held, Stale
  <2>4. HeldMap' = HeldMap /\ StaleMap' = StaleMap
    BY <1>2, <1>3, <2>3
  <2> QED
    BY <1>8, <2>2, <2>4
<1>11. CASE BeginStagingConditions
  <2>1. \A t : At(list', t) = IF At(list, t) = None THEN None
                              ELSE Flagged(At(list, t), At(list, t).info.durable)
    BY <1>4, <1>11, BeginEffect
  <2>2. staging' = TRUE /\ asserted' = {}
    BY <1>11 DEF BeginStagingConditions
  <2>3. \A t \in CondType :
          /\ Held(list', staging', t) = IF InfoAt(list, t) # None /\ InfoAt(list, t).durable
                                        THEN InfoAt(list, t) ELSE None
          /\ Stale(list', staging', t) = IF InfoAt(list, t) # None /\ ~InfoAt(list, t).durable
                                         THEN InfoAt(list, t) ELSE None
    BY <1>5, <1>6, <2>1, <2>2 DEF Held, Stale, InfoAt
  <2>4. /\ HeldMap' = [t \in CondType |-> IF Abstract!Known(t) # None /\ Abstract!Known(t).durable
                                          THEN Abstract!Known(t) ELSE None]
        /\ StaleMap' = [t \in CondType |-> IF Abstract!Known(t) # None /\ ~Abstract!Known(t).durable
                                           THEN Abstract!Known(t) ELSE None]
    BY <1>3, <1>7, <2>3
  <2>5. Abstract!CBegin
    BY <2>2, <2>4 DEF Abstract!CBegin, HeldMap, StaleMap
  <2> QED
    BY <2>5 DEF Abstract!CNext
<1>12. CASE EndStagingConditions
  <2>1. \A t : At(list', t) = IF At(list, t) # None /\ At(list, t).staged
                              THEN At(list, t) ELSE None
    BY <1>4, <1>12, EndEffect
  <2>2. staging = TRUE /\ staging' = FALSE /\ asserted' = {}
    BY <1>4, <1>12 DEF EndStagingConditions
  <2>3. \A t : /\ Held(list', staging', t) = Held(list, staging, t)
               /\ Stale(list', staging', t) = None
    BY <1>5, <2>1, <2>2 DEF Held, Stale
  <2>4. HeldMap' = HeldMap /\ StaleMap' = Abstract!Nothing
    BY <1>2, <1>3, <2>3 DEF Abstract!Nothing
  <2>5. Abstract!CEnd
    BY <2>2, <2>4 DEF Abstract!CEnd, HeldMap, StaleMap
  <2> QED
    BY <2>5 DEF Abstract!CNext
<1>13. ASSUME NEW t \in CondType, NEW x, NEW y,
              Held(list', staging', t) = x, Stale(list', staging', t) = y,
              staging' = staging, \A u : u # t => At(list', u) = At(list, u)
       PROVE  HeldMap' = [HeldMap EXCEPT ![t] = x] /\ StaleMap' = [StaleMap EXCEPT ![t] = y]
  <2>1. \A u : u # t => /\ Held(list', staging', u) = Held(list, staging, u)
                        /\ Stale(list', staging', u) = Stale(list, staging, u)
    BY <1>13 DEF Held, Stale
  <2>2. \A u \in CondType : /\ Held(list', staging', u) =
                                 IF u = t THEN x ELSE Held(list, staging, u)
                            /\ Stale(list', staging', u) =
                                 IF u = t THEN y ELSE Stale(list, staging, u)
    BY <1>13, <2>1
  <2>3. /\ [HeldMap EXCEPT ![t] = x] =
             [u \in CondType |-> IF u = t THEN x ELSE Held(list, staging, u)]
        /\ [StaleMap EXCEPT ![t] = y] =
             [u \in CondType |-> IF u = t THEN y ELSE Stale(list, staging, u)]
    BY <1>2
  <2> QED
    BY <1>3, <2>2, <2>3
<1>14. ASSUME NEW t \in CondType, NEW info \in Info, SetCondition(t, info)
       PROVE  Abstract!CNext
  <2>1. /\ \A u : u # t => At(list', u) = At(list, u)
        /\ At(list', t) = IF At(list, t) = None
                          THEN [type |-> t, info |-> info,
                                lastTransitionTime |-> now, staged |-> TRUE]
                          ELSE Update(At(list, t), info)
    BY <1>4, <1>14, SetEffect
  <2>2. At(list', t) \in Condition /\ At(list', t).info = info /\ At(list', t).staged
    <3>1. CASE At(list, t) = None
      BY <1>4, <1>14, <2>1, <3>1 DEF Condition
    <3>2. CASE At(list, t) # None
      <4>1. At(list, t) \in Condition
        BY <1>5, <3>2
      <4>2. /\ Update(At(list, t), info) \in Condition
            /\ Update(At(list, t), info).info = info
            /\ Update(At(list, t), info).staged = TRUE
        BY <1>4, <1>14, <4>1, UpdateIs, Zenon
      <4> QED
        BY <2>1, <3>2, <4>2
    <3> QED
      BY <3>1, <3>2
  <2>3. At(list', t) # None
    BY <2>2, ConditionsAssumption
  <2>4. Held(list', staging', t) = info /\ Stale(list', staging', t) = None
    BY <2>2, <2>3 DEF Held, Stale
  <2>5. /\ staging' = staging
        /\ asserted' = IF staging THEN asserted \cup {t} ELSE {}
    BY <1>14 DEF SetCondition
  <2>6. HeldMap' = [HeldMap EXCEPT ![t] = info] /\ StaleMap' = [StaleMap EXCEPT ![t] = None]
    BY <1>13, <2>1, <2>4, <2>5
  <2>7. Abstract!CSet(t, info)
    BY <2>5, <2>6 DEF Abstract!CSet, HeldMap, StaleMap
  <2> QED
    BY <1>14, <2>7 DEF Abstract!CNext
<1>15. ASSUME NEW t \in CondType, StageCondition(t)
       PROVE  Abstract!CNext \/ UNCHANGED Abstract!cvars
  <2>1. /\ \A u : u # t => At(list', u) = At(list, u)
        /\ At(list', t) = IF At(list, t) = None THEN None ELSE Flagged(At(list, t), TRUE)
    BY <1>4, <1>15, StageEffect
  <2>2. t \in Types(list) <=> At(list, t) # None
    BY <1>4, QueriesAt
  <2>3. /\ staging' = staging
        /\ asserted' = IF staging THEN asserted \cup (Types(list) \cap {t}) ELSE {}
    BY <1>15 DEF StageCondition
  <2>4. CASE At(list, t) = None
    <3>1. \A u : At(list', u) = At(list, u)
      BY <2>1, <2>4
    <3>2. asserted' = asserted
      BY <1>4, <2>2, <2>3, <2>4
    <3>3. HeldMap' = HeldMap /\ StaleMap' = StaleMap
      <4>1. \A u : /\ Held(list', staging', u) = Held(list, staging, u)
                   /\ Stale(list', staging', u) = Stale(list, staging, u)
        BY <2>3, <3>1 DEF Held, Stale
      <4> QED
        BY <1>2, <1>3, <4>1
    <3> QED
      BY <1>8, <2>3, <3>2, <3>3
  <2>5. CASE At(list, t) # None
    <3>1. At(list', t) # None /\ At(list', t).info = At(list, t).info /\ At(list', t).staged
      BY <1>5, <1>6, <2>1, <2>5
    <3>2. Held(list', staging', t) = InfoAt(list, t) /\ Stale(list', staging', t) = None
      BY <2>5, <3>1 DEF Held, Stale, InfoAt
    <3>3. Abstract!Known(t) = InfoAt(list, t) /\ InfoAt(list, t) # None
      BY <1>5, <1>7, <2>5 DEF InfoAt
    <3>4. /\ HeldMap' = [HeldMap EXCEPT ![t] = Abstract!Known(t)]
          /\ StaleMap' = [StaleMap EXCEPT ![t] = None]
      BY <1>13, <2>1, <2>3, <3>2, <3>3
    <3>5. asserted' = IF staging THEN asserted \cup {t} ELSE {}
      BY <2>2, <2>3, <2>5
    <3>6. Abstract!CStage(t)
      BY <2>3, <3>3, <3>4, <3>5 DEF Abstract!CStage, HeldMap, StaleMap
    <3> QED
      BY <3>6 DEF Abstract!CNext
  <2> QED
    BY <2>4, <2>5
<1>16. ASSUME NEW t \in CondType, DeleteCondition(t) PROVE Abstract!CNext
  <2>1. /\ \A u : u # t => At(list', u) = At(list, u)
        /\ At(list', t) = IF staging /\ At(list, t) # None
                          THEN Flagged(At(list, t), FALSE) ELSE None
    BY <1>4, <1>16, DeleteEffect
  <2>2. staging' = staging /\ asserted' = asserted \ {t}
    BY <1>16 DEF DeleteCondition
  <2>3. /\ Held(list', staging', t) = None
        /\ Stale(list', staging', t) = IF staging THEN InfoAt(list, t) ELSE None
    BY <1>4, <1>5, <1>6, <2>1, <2>2 DEF Held, Stale, InfoAt
  <2>4. /\ HeldMap' = [HeldMap EXCEPT ![t] = None]
        /\ StaleMap' = [StaleMap EXCEPT ![t] = IF staging THEN Abstract!Known(t) ELSE None]
    BY <1>7, <1>13, <2>1, <2>2, <2>3
  <2>5. Abstract!CDelete(t)
    BY <2>2, <2>4 DEF Abstract!CDelete, HeldMap, StaleMap
  <2> QED
    BY <2>5 DEF Abstract!CNext
<1>17. CASE UNCHANGED vars
  BY <1>2, <1>3, <1>8, <1>17 DEF vars
<1> QED
  BY <1>9, <1>10, <1>11, <1>12, <1>14, <1>15, <1>16, <1>17 DEF Next

\* The list with its flags, as the code keeps it, is a set of conditions with
\* rounds of staging to a client: every call does what ConditionSet says.
THEOREM ConditionsRefineSet == Spec => ImplementsConditionSet
  BY AbstractInit, AbstractStep, CollectionCorrect, PTL
     DEF Spec, ImplementsConditionSet, Abstract!CSpec
=============================================================================
