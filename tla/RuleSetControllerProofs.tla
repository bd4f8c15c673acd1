---------------------- MODULE RuleSetControllerProofs ----------------------
(***************************************************************************)
(* The reconciler, the API server and the manager's lagging copy, for      *)
(* every set of names, GVRs and specs and any number of edits, failing     *)
(* calls and restarts.                                                     *)
(***************************************************************************)
EXTENDS RuleSetController, RuleCacheProofs, WatchesProofs

----------------------------------------------------------------------------
(* The inductive invariant.                                                *)

\* An entry of c under g, for n, with that spec.
Entry(c, g, n, b) == \E i \in Named(c[g], n) : c[g][i].body = b

\* While a request is worked on there is a copy of its object.
AtWork ==
    /\ pc = "idle" => req = None /\ loc = NoCopy
    /\ pc # "idle" => req \in Name /\ loc.obj \in ORS
    /\ pc \in {"teardown", "prune", "removefin"} => loc.obj.deleting

\* A stored object that is being deleted is there because of its finalizer.
DeletingIsFinalized ==
    \A n \in Name : ors[n] # None /\ ors[n].deleting => ors[n].fin

\* What rules and watches are between the two calls of Teardown and of
\* Setup.  A rule whose GVR has no watch yet is the only one of its GVR, so
\* removing it after a failed registration leaves the GVR without rules.
BetweenCalls ==
    /\ pc = "prune" => GVRs(cache) \subseteq watches
    /\ pc = "register" =>
        /\ GVRs(cache) = watches \cup {loc.obj.gvr}
        /\ Entry(cache, loc.obj.gvr, req, loc.obj.body)
        /\ loc.obj.gvr \notin watches => Len(cache[loc.obj.gvr]) = 1

\* The conditions staged so far are true of the local copy.
StagedIsTrue ==
    /\ pc \in {"setup", "register", "status"} =>
        ("InvalidRule" \in loc.obj.conds) = (loc.obj.body \notin Compiles)
    /\ pc \in {"setup", "register"} => "Ready" \notin loc.obj.conds
    /\ pc = "status" /\ "Ready" \in loc.obj.conds =>
        loc.obj.gvr \in watches /\ Entry(cache, loc.obj.gvr, req, loc.obj.body)

\* No event of n is outstanding: the manager's copy is the stored version,
\* and it was so when the worker last took n from the queue.
Seen(n) == cached[n].cur /\ n \notin queue

\* A reconcile of an object that was not written since it began works on
\* the stored object, which has its finalizer from then on.
WorksOnStored ==
    \A n \in Name : req = n /\ Seen(n) =>
        /\ ors[n] # None
        /\ pc \in {"teardown", "prune", "removefin", "addfin"} => loc.obj = ors[n]
        /\ pc \in {"validate", "setup", "register", "status"} => ors[n].fin

\* LoadedIsFinalized without Loaded: a ruleset is finalized before it is
\* loaded, and it is not loaded in every quiet state.
QuietIsFinalized ==
    RequeueInterval > 0 => \A n \in Name : ors[n] # None /\ Quiet(n) => ors[n].fin

ControllerInv ==
    /\ TypeOK
    /\ UniqueNames
    /\ WatchesInv
    /\ AtWork
    /\ DeletingIsFinalized
    /\ WatchesMatchRules
    /\ BetweenCalls
    /\ StagedIsTrue
    /\ CopiesCurrent
    /\ WorksOnStored
    /\ QuietIsFinalized
    /\ ReadyIsLoaded

----------------------------------------------------------------------------
(* What loading and unloading a ruleset does to the lists.                 *)

\* removeRule shortens the list of the ruleset's GVR by one or leaves the
\* cache alone; no entry of another name is lost.
LEMMA UnloadEffect ==
    ASSUME NEW c \in [GVR -> Seq(OperationRuleSet)], NEW or \in OperationRuleSet
    PROVE  LET r == removeRule(c, or)
           IN  /\ r \in [GVR -> Seq(OperationRuleSet)]
               /\ \A g \in GVR : g # or.gvr => r[g] = c[g]
               /\ Holds(c, or) => Len(r[or.gvr]) = Len(c[or.gvr]) - 1
               /\ ~Holds(c, or) => r = c
               /\ \A g \in GVR, n \in Name, b \in Body :
                    n # or.name /\ Entry(c, g, n, b) => Entry(r, g, n, b)
<1> DEFINE h == or.gvr
           s == c[h]
           k == First(Named(s, or.name))
           t == SwapDelete(s, k)
           r == removeRule(c, or)
<1>1. h \in GVR /\ or.name \in Name /\ s \in Seq(OperationRuleSet)
  BY DEF OperationRuleSet
<1>2. r \in [GVR -> Seq(OperationRuleSet)]
  BY RemoveRuleKeeps
<1>3. CASE ~Holds(c, or)
  BY <1>2, <1>3 DEF removeRule
<1>4. CASE Holds(c, or)
  <2>1. r = [c EXCEPT ![h] = t]
    BY <1>4 DEF removeRule
  <2>2. k \in 1..Len(s) /\ s[k].name = or.name
    BY <1>1, <1>4, FirstHasName DEF Holds
  <2>3. Len(s) \in Nat /\ Len(s) # 0
    BY <1>1, <2>2
  <2>4. /\ Len(t) = Len(s) - 1
        /\ \A j \in 1..(Len(s) - 1) : t[j] = IF j = k THEN s[Len(s)] ELSE s[j]
    BY <1>1, <2>3, SwapDeleteType
  <2> HIDE DEF k, t
  <2>5. r[h] = t /\ \A g \in GVR : g # h => r[g] = c[g]
    BY <1>1, <2>1
  <2>6. \A n \in Name, b \in Body : n # or.name /\ Entry(c, h, n, b) => Entry(r, h, n, b)
    <3> SUFFICES ASSUME NEW n \in Name, NEW b \in Body, n # or.name, Entry(c, h, n, b)
                 PROVE  Entry(r, h, n, b)
      OBVIOUS
    <3>1. PICK i \in 1..Len(s) : s[i].name = n /\ s[i].body = b
      BY DEF Entry, Named
    <3>2. i # k
      BY <2>2, <3>1
    <3> DEFINE j == IF i = Len(s) THEN k ELSE i
    <3>3. j \in 1..(Len(s) - 1) /\ t[j] = s[i]
      BY <2>2, <2>3, <2>4, <3>1, <3>2
    <3> HIDE DEF j
    <3>4. j \in 1..Len(t)
      BY <2>3, <2>4, <3>3
    <3> QED
      BY <2>5, <3>1, <3>3, <3>4 DEF Entry, Named
  <2>7. \A g \in GVR, n \in Name, b \in Body :
            n # or.name /\ Entry(c, g, n, b) => Entry(r, g, n, b)
    <3> SUFFICES ASSUME NEW g \in GVR, NEW n \in Name, NEW b \in Body,
                        n # or.name, Entry(c, g, n, b), g # h
                 PROVE  Entry(r, g, n, b)
      BY <2>6
    <3> QED
      BY <2>5 DEF Entry
  <2> QED
    BY <1>2, <1>4, <2>4, <2>5, <2>7
<1> QED
  BY <1>3, <1>4

\* addRule appends.
LEMMA LoadEffect ==
    ASSUME NEW c \in [GVR -> Seq(OperationRuleSet)], NEW or \in OperationRuleSet
    PROVE  LET a == addRule(c, or)
           IN  /\ \A g \in GVR : g # or.gvr => a[g] = c[g]
               /\ Len(a[or.gvr]) = Len(c[or.gvr]) + 1
               /\ Entry(a, or.gvr, or.name, or.body)
               /\ \A g \in GVR, n \in Name, b \in Body :
                    Entry(c, g, n, b) => Entry(a, g, n, b)
<1> DEFINE h == or.gvr
           s == c[h]
           t == Append(s, or)
           a == addRule(c, or)
<1>1. h \in GVR /\ s \in Seq(OperationRuleSet)
  BY DEF OperationRuleSet
<1>2. /\ Len(s) \in Nat /\ Len(t) = Len(s) + 1 /\ t[Len(s) + 1] = or
      /\ \A i \in 1..Len(s) : t[i] = s[i]
  BY <1>1
<1>3. a = [c EXCEPT ![h] = t]
  BY DEF addRule
<1> HIDE DEF t
<1>4. a[h] = t /\ \A g \in GVR : g # h => a[g] = c[g]
  BY <1>1, <1>3
<1>5. Entry(a, h, or.name, or.body)
  <2>1. Len(s) + 1 \in 1..Len(t)
    BY <1>2
  <2> QED
    BY <1>2, <1>4, <2>1 DEF Entry, Named
<1>6. ASSUME NEW g \in GVR, NEW n \in Name, NEW b \in Body, Entry(c, g, n, b)
      PROVE  Entry(a, g, n, b)
  <2>1. CASE g # h
    BY <1>4, <1>6, <2>1 DEF Entry
  <2>2. CASE g = h
    <3>1. PICK i \in 1..Len(s) : s[i].name = n /\ s[i].body = b
      BY <1>6, <2>2 DEF Entry, Named
    <3>2. i \in 1..Len(t)
      BY <1>2, <3>1
    <3> QED
      BY <1>2, <1>4, <2>2, <3>1, <3>2 DEF Entry, Named
  <2> QED
    BY <2>1, <2>2
<1> QED
  BY <1>2, <1>4, <1>5, <1>6

\* A list is empty or it has a length.
LEMMA InGVRs ==
    ASSUME NEW c \in [GVR -> Seq(OperationRuleSet)]
    PROVE  /\ \A g \in GVR : Len(c[g]) \in Nat
           /\ \A g : g \in GVRs(c) <=> g \in GVR /\ Len(c[g]) # 0
<1>1. \A s \in Seq(OperationRuleSet) : Len(s) \in Nat /\ (s = <<>> <=> Len(s) = 0)
  OBVIOUS
<1>2. \A g \in GVR : c[g] \in Seq(OperationRuleSet)
  OBVIOUS
<1> QED
  BY <1>1, <1>2 DEF GVRs

LEMMA RemoveRuleEffect ==
    ASSUME RuleCacheTypeOK, NEW or \in OperationRuleSet, RemoveRule(or)
    PROVE  /\ GVRs(cache') \subseteq GVRs(cache)
           /\ Holds(cache, or) /\ Len(cache[or.gvr]) = 1 =>
                GVRs(cache') = GVRs(cache) \ {or.gvr}
           /\ \A g \in GVR, n \in Name, b \in Body :
                n # or.name /\ Entry(cache, g, n, b) => Entry(cache', g, n, b)
<1> DEFINE r == removeRule(cache, or)
<1>1. cache \in [GVR -> Seq(OperationRuleSet)] /\ cache' = r /\ or.gvr \in GVR
  BY DEF RuleCacheTypeOK, RemoveRule, OperationRuleSet
<1>2. /\ r \in [GVR -> Seq(OperationRuleSet)]
      /\ \A g \in GVR : g # or.gvr => r[g] = cache[g]
      /\ Holds(cache, or) => Len(r[or.gvr]) = Len(cache[or.gvr]) - 1
      /\ ~Holds(cache, or) => r = cache
      /\ \A g \in GVR, n \in Name, b \in Body :
            n # or.name /\ Entry(cache, g, n, b) => Entry(r, g, n, b)
  BY <1>1, UnloadEffect
<1> HIDE DEF r
<1>3. /\ \A g \in GVR : Len(cache[g]) \in Nat /\ Len(r[g]) \in Nat
      /\ \A g : g \in GVRs(cache) <=> g \in GVR /\ Len(cache[g]) # 0
      /\ \A g : g \in GVRs(r) <=> g \in GVR /\ Len(r[g]) # 0
  BY <1>1, <1>2, InGVRs
<1>4. Holds(cache, or) => Len(cache[or.gvr]) # 0
  BY <1>1, <1>2, <1>3
<1>5. GVRs(r) \subseteq GVRs(cache)
  BY <1>1, <1>2, <1>3, <1>4
<1>6. Holds(cache, or) /\ Len(cache[or.gvr]) = 1 => GVRs(r) = GVRs(cache) \ {or.gvr}
  BY <1>1, <1>2, <1>3
<1> QED
  BY <1>1, <1>2, <1>5, <1>6

LEMMA AddOrUpdateRuleEffect ==
    ASSUME RuleCacheTypeOK, NEW or \in OperationRuleSet, AddOrUpdateRule(or)
    PROVE  /\ GVRs(cache') = GVRs(cache) \cup {or.gvr}
           /\ Entry(cache', or.gvr, or.name, or.body)
           /\ or.gvr \notin GVRs(cache) => Len(cache'[or.gvr]) = 1
           /\ \A g \in GVR, n \in Name, b \in Body :
                n # or.name /\ Entry(cache, g, n, b) => Entry(cache', g, n, b)
<1> DEFINE r == removeRule(cache, or)
           a == addRule(r, or)
<1>1. cache \in [GVR -> Seq(OperationRuleSet)] /\ cache' = a /\ or.gvr \in GVR
  BY DEF RuleCacheTypeOK, AddOrUpdateRule, OperationRuleSet
<1>2. /\ r \in [GVR -> Seq(OperationRuleSet)]
      /\ \A g \in GVR : g # or.gvr => r[g] = cache[g]
      /\ Holds(cache, or) => Len(r[or.gvr]) = Len(cache[or.gvr]) - 1
      /\ ~Holds(cache, or) => r = cache
      /\ \A g \in GVR, n \in Name, b \in Body :
            n # or.name /\ Entry(cache, g, n, b) => Entry(r, g, n, b)
  BY <1>1, UnloadEffect
<1> HIDE DEF r
<1>3. /\ a \in [GVR -> Seq(OperationRuleSet)]
      /\ \A g \in GVR : g # or.gvr => a[g] = r[g]
      /\ Len(a[or.gvr]) = Len(r[or.gvr]) + 1
      /\ Entry(a, or.gvr, or.name, or.body)
      /\ \A g \in GVR, n \in Name, b \in Body : Entry(r, g, n, b) => Entry(a, g, n, b)
  BY <1>2, AddRuleKeeps, LoadEffect
<1> HIDE DEF a
<1>4. /\ \A g \in GVR : Len(cache[g]) \in Nat /\ Len(r[g]) \in Nat /\ Len(a[g]) \in Nat
      /\ \A g : g \in GVRs(cache) <=> g \in GVR /\ Len(cache[g]) # 0
      /\ \A g : g \in GVRs(a) <=> g \in GVR /\ Len(a[g]) # 0
  BY <1>1, <1>2, <1>3, InGVRs
<1>5. GVRs(a) = GVRs(cache) \cup {or.gvr}
  <2>1. Len(a[or.gvr]) # 0
    BY <1>1, <1>3, <1>4
  <2>2. \A g \in GVR : g # or.gvr => a[g] = cache[g]
    BY <1>2, <1>3
  <2> QED
    BY <1>1, <1>4, <2>1, <2>2
<1>6. or.gvr \notin GVRs(cache) => Len(a[or.gvr]) = 1
  BY <1>1, <1>2, <1>3, <1>4
<1>7. \A g \in GVR, n \in Name, b \in Body :
        n # or.name /\ Entry(cache, g, n, b) => Entry(a, g, n, b)
  BY <1>2, <1>3
<1> QED
  BY <1>1, <1>3, <1>5, <1>6, <1>7

----------------------------------------------------------------------------
(* Stored objects and their copies.                                        *)

\* The updates the actions make give objects.
LEMMA ORSFields ==
    ASSUME NEW o \in ORS
    PROVE  /\ o # None
           /\ o.gvr \in GVR /\ o.body \in Body /\ o.deleting \in BOOLEAN /\ o.fin \in BOOLEAN
           /\ o.conds \in SUBSET CondType /\ o.watchActive \in BOOLEAN
           /\ Settled(o) \in ORS \cup {None}
           /\ Settled(o) # None => Settled(o) = o
           /\ Settled(o) = None <=> o.deleting /\ ~o.fin
  BY ControllerAssumption DEF ORS, Settled

\* After a write a copy that counts as current is one the write did not
\* concern or did not change.
LEMMA WriteEffect ==
    ASSUME TypeOK, NEW n \in Name, NEW o \in ORS \cup {None}, Write(n, o)
    PROVE  /\ ors' \in [Name -> ORS \cup {None}]
           /\ cached' \in [Name -> Copy]
           /\ ors'[n] = o
           /\ \A m \in Name : m # n => ors'[m] = ors[m]
           /\ \A m \in Name : cached'[m].cur =>
                cached[m].cur /\ cached'[m] = cached[m] /\ ors'[m] = ors[m]
<1>1. ors \in [Name -> ORS \cup {None}] /\ cached \in [Name -> Copy]
  BY DEF TypeOK
<1>2. ors' = [ors EXCEPT ![n] = o]
  BY DEF Write
<1>3. CASE o = ors[n]
  BY <1>1, <1>2, <1>3 DEF Write
<1>4. CASE o # ors[n]
  <2>1. cached' = [cached EXCEPT ![n] = Stale(cached[n])]
    BY <1>1, <1>4 DEF Write
  <2>2. \A c \in Copy : Stale(c) \in Copy /\ Stale(c).cur = FALSE
    BY DEF Copy, Stale
  <2> QED
    BY <1>1, <1>2, <2>1, <2>2
<1> QED
  BY <1>3, <1>4

\* The parts of the invariant about rules and watches alone.
RulesInv == RuleCacheTypeOK /\ UniqueNames /\ WatchesInv

LEMMA RulesUnchanged ==
    ASSUME RulesInv, UNCHANGED <<ruleVars, watchVars>>
    PROVE  RulesInv'
  BY DEF RulesInv, ruleVars, watchVars, RuleCacheTypeOK, UniqueNames, WatchesInv,
         WatchesTypeOK, WatchGaugeExact, NoLeakedInformer, StartedHasHandler, WatchWillRun

\* Somebody else writes: what the worker has in hand stays as it is, but it
\* is not the stored version any more.
LEMMA UserWriteStep ==
    ASSUME ControllerInv, NEW n \in Name, NEW o \in ORS \cup {None}, UserWrite(n, o),
           o # None /\ o.deleting => o.fin
    PROVE  ControllerInv'
<1> USE DEF ControllerInv
<1>1. /\ ors' \in [Name -> ORS \cup {None}]
      /\ cached' \in [Name -> Copy]
      /\ ors'[n] = o
      /\ \A m \in Name : m # n => ors'[m] = ors[m]
      /\ \A m \in Name : cached'[m].cur =>
            cached[m].cur /\ cached'[m] = cached[m] /\ ors'[m] = ors[m]
  BY WriteEffect DEF UserWrite
<1>2. /\ cache' = cache /\ watches' = watches
      /\ queue' = queue /\ delayed' = delayed /\ pc' = pc /\ req' = req
  BY DEF UserWrite, ruleVars, watchVars
<1>3. /\ loc' \in Copy /\ loc'.obj = loc.obj
      /\ loc'.cur => loc.cur /\ req # n
      /\ n # req => loc' = loc
  BY DEF UserWrite, TypeOK, Copy, Stale
<1>4. RulesInv'
  BY RulesUnchanged DEF RulesInv, TypeOK, UserWrite
<1>5. TypeOK'
  <2>1. edits' \in 0..MaxEdits
    BY ControllerAssumption DEF UserWrite, TypeOK
  <2> QED
    BY <1>1, <1>2, <1>3, <1>4, <2>1 DEF TypeOK, RulesInv, WatchesInv, UserWrite
<1>6. AtWork'
  BY <1>2, <1>3, ControllerAssumption DEF AtWork
<1>7. DeletingIsFinalized'
  BY <1>1 DEF DeletingIsFinalized
<1>8. WatchesMatchRules' /\ BetweenCalls' /\ StagedIsTrue'
  BY <1>2, <1>3 DEF WatchesMatchRules, BetweenCalls, StagedIsTrue, GVRs, Entry
<1>9. CopiesCurrent'
  <2>1. \A m \in Name : cached'[m].cur => cached'[m].obj = ors'[m]
    BY <1>1 DEF CopiesCurrent
  <2>2. ASSUME loc'.cur
        PROVE  /\ ors'[req'] # None
               /\ loc'.obj.gvr = ors'[req'].gvr /\ loc'.obj.body = ors'[req'].body
    <3>1. loc.cur /\ req \in Name /\ req # n
      BY <1>3, <2>2 DEF AtWork, NoCopy
    <3> QED
      BY <1>1, <1>2, <1>3, <3>1 DEF CopiesCurrent
  <2> QED
    BY <2>1, <2>2 DEF CopiesCurrent
<1>10. WorksOnStored'
  BY <1>1, <1>2, <1>3 DEF WorksOnStored, Seen
<1>11. QuietIsFinalized' /\ ReadyIsLoaded'
  <2>1. \A m \in Name : Quiet(m)' => Quiet(m) /\ ors'[m] = ors[m]
    BY <1>1, <1>2 DEF Quiet
  <2> QED
    BY <1>2, <2>1 DEF QuietIsFinalized, ReadyIsLoaded
<1> QED
  BY <1>4, <1>5, <1>6, <1>7, <1>8, <1>9, <1>10, <1>11 DEF RulesInv

LEMMA UserStepKeeps == ControllerInv /\ UserStep => ControllerInv'
<1> SUFFICES ASSUME ControllerInv, UserStep PROVE ControllerInv'
  OBVIOUS
<1> USE DEF ControllerInv
<1>1. \A n \in Name : ors[n] # None => ors[n] \in ORS
  BY DEF TypeOK
<1>2. ASSUME NEW n \in Name, NEW g \in GVR, NEW b \in Body, UserCreate(n, g, b)
      PROVE  ControllerInv'
  <2> DEFINE o == [gvr |-> g, body |-> b, deleting |-> FALSE, fin |-> FALSE,
                   conds |-> {}, watchActive |-> FALSE]
  <2>1. o \in ORS /\ ~o.deleting
    BY DEF ORS
  <2> HIDE DEF o
  <2>2. UserWrite(n, o)
    BY <1>2 DEF UserCreate, o
  <2> QED
    BY <2>1, <2>2, UserWriteStep
<1>3. ASSUME NEW n \in Name, NEW g \in GVR, NEW b \in Body, UserUpdate(n, g, b)
      PROVE  ControllerInv'
  <2> DEFINE o == [ors[n] EXCEPT !.gvr = g, !.body = b]
  <2>1. ors[n] # None /\ UserWrite(n, o)
    BY <1>3 DEF UserUpdate
  <2>2. o \in ORS /\ o.deleting = ors[n].deleting /\ o.fin = ors[n].fin
    <3>1. ors[n] \in ORS
      BY <1>1, <2>1
    <3> QED
      BY <3>1 DEF ORS
  <2> HIDE DEF o
  <2>3. o.deleting => o.fin
    BY <2>1, <2>2 DEF DeletingIsFinalized
  <2> QED
    BY <2>1, <2>2, <2>3, UserWriteStep
<1>4. ASSUME NEW n \in Name, UserDelete(n) PROVE ControllerInv'
  <2> DEFINE d == [ors[n] EXCEPT !.deleting = TRUE]
             o == Settled(d)
  <2>1. ors[n] # None /\ UserWrite(n, o)
    BY <1>4 DEF UserDelete
  <2>2. d \in ORS
    BY <1>1, <2>1 DEF ORS
  <2> HIDE DEF d
  <2>3. o \in ORS \cup {None} /\ (o # None /\ o.deleting => o.fin)
    BY <2>2, ORSFields
  <2> HIDE DEF o
  <2> QED
    BY <2>1, <2>3, UserWriteStep
<1>5. ASSUME NEW g \in GVR, ToggleServed(g) PROVE ControllerInv'
  <2>1. /\ UNCHANGED <<ruleVars, watchVars, ors, cached, recVars, faults, crashes>>
        /\ served' \subseteq GVR
    BY <1>5 DEF ToggleServed, TypeOK
  <2>2. edits' \in 0..MaxEdits
    BY <1>5, ControllerAssumption DEF ToggleServed, TypeOK
  <2>3. RulesInv'
    BY <2>1, RulesUnchanged DEF RulesInv, TypeOK
  <2>4. TypeOK'
    BY <2>1, <2>2, <2>3 DEF TypeOK, RulesInv, WatchesInv, recVars
  <2>5. /\ AtWork' /\ DeletingIsFinalized' /\ WatchesMatchRules' /\ BetweenCalls'
        /\ StagedIsTrue' /\ CopiesCurrent' /\ WorksOnStored'
        /\ QuietIsFinalized' /\ ReadyIsLoaded'
    BY <2>1 DEF AtWork, DeletingIsFinalized, WatchesMatchRules, BetweenCalls, StagedIsTrue,
                CopiesCurrent, WorksOnStored, QuietIsFinalized, ReadyIsLoaded, Quiet, Seen,
                Entry, recVars, ruleVars, watchVars
  <2> QED
    BY <2>3, <2>4, <2>5 DEF RulesInv
<1> QED
  BY <1>2, <1>3, <1>4, <1>5 DEF UserStep

----------------------------------------------------------------------------
(* The manager's cache, the queue and the timers.                          *)

\* SyncCache and Requeue put a name into the queue, so it is not quiet.
LEMMA DeliveryStep ==
    ASSUME ControllerInv, NEW n \in Name, SyncCache(n) \/ Requeue(n)
    PROVE  ControllerInv'
<1> USE DEF ControllerInv
<1>1. /\ UNCHANGED <<ruleVars, watchVars, ors, served, edits, pc, req, loc, requeue,
                     faults, crashes>>
      /\ queue' = queue \cup {n}
  BY DEF SyncCache, Requeue, apiVars
<1>2. /\ cached' \in [Name -> Copy]
      /\ \A m \in Name : m # n => cached'[m] = cached[m]
      /\ \A m \in Name : cached'[m].cur => cached'[m].obj = ors[m]
  <2>1. CASE SyncCache(n)
    <3> DEFINE c == [obj |-> ors[n], cur |-> TRUE]
    <3>1. c \in Copy /\ c.obj = ors[n]
      BY DEF TypeOK, Copy
    <3>2. cached' = [cached EXCEPT ![n] = c]
      BY <2>1 DEF SyncCache
    <3> HIDE DEF c
    <3> QED
      BY <3>1, <3>2 DEF TypeOK, CopiesCurrent
  <2>2. CASE Requeue(n)
    BY <2>2 DEF Requeue, apiVars, TypeOK, CopiesCurrent
  <2> QED
    BY <2>1, <2>2
<1>3. delayed' \subseteq delayed /\ (\A m \in Name : m # n /\ m \notin delayed' => m \notin delayed)
  BY DEF SyncCache, Requeue
<1>4. RulesInv'
  BY <1>1, RulesUnchanged DEF RulesInv, TypeOK
<1>5. TypeOK'
  BY <1>1, <1>2, <1>3, <1>4 DEF TypeOK, RulesInv, WatchesInv
<1>6. /\ AtWork' /\ DeletingIsFinalized' /\ WatchesMatchRules' /\ BetweenCalls'
      /\ StagedIsTrue'
  BY <1>1 DEF AtWork, DeletingIsFinalized, WatchesMatchRules, BetweenCalls, StagedIsTrue,
              Entry, ruleVars, watchVars
<1>7. CopiesCurrent'
  BY <1>1, <1>2 DEF CopiesCurrent
<1>8. WorksOnStored'
  BY <1>1, <1>2 DEF WorksOnStored, Seen
<1>9. QuietIsFinalized' /\ ReadyIsLoaded'
  <2>1. \A m \in Name : Quiet(m)' => Quiet(m)
    BY <1>1, <1>2, <1>3 DEF Quiet
  <2> QED
    BY <1>1, <2>1 DEF QuietIsFinalized, ReadyIsLoaded, ruleVars, watchVars
<1> QED
  BY <1>4, <1>5, <1>6, <1>7, <1>8, <1>9 DEF RulesInv

\* A request begins.
LEMMA GetStep ==
    ASSUME ControllerInv, NEW n \in Name, Get(n)
    PROVE  ControllerInv'
<1> USE DEF ControllerInv
<1>1. /\ UNCHANGED <<ruleVars, watchVars, ors, served, cached, edits, requeue, crashes>>
      /\ queue' = queue \ {n} /\ pc = "idle"
      /\ req = None /\ loc = NoCopy
      /\ faults' \in 0..MaxFaults
  BY ControllerAssumption DEF Get, apiVars, AtWork, Fault, NoFault, TypeOK
<1>2. RulesInv'
  BY <1>1, RulesUnchanged DEF RulesInv, TypeOK
<1>3. cached[n] \in Copy /\ ors[n] \in ORS \cup {None} /\ (cached[n].cur => cached[n].obj = ors[n])
  BY DEF TypeOK, CopiesCurrent
<1>4. cached[n].obj \in ORS \cup {None}
  BY <1>3 DEF Copy
<1>5. DeletingIsFinalized'
  BY <1>1 DEF DeletingIsFinalized
<1>6. CASE \/ cached[n].obj = None /\ UNCHANGED <<pc, req, loc, delayed>>
           \/ delayed' = RequeueAfter(n) /\ UNCHANGED <<pc, req, loc>>
  <2>1. /\ pc' = pc /\ req' = req /\ loc' = loc
        /\ delayed' \in {delayed, delayed \cup {n}}
        /\ cached[n].obj # None /\ RequeueInterval > 0 => n \in delayed'
    BY <1>6 DEF RequeueAfter
  <2>2. TypeOK'
    BY <1>1, <1>2, <2>1 DEF TypeOK, RulesInv, WatchesInv
  <2>3. AtWork' /\ WatchesMatchRules' /\ BetweenCalls' /\ StagedIsTrue'
    BY <1>1, <2>1 DEF AtWork, WatchesMatchRules, BetweenCalls, StagedIsTrue, ruleVars, watchVars
  <2>4. CopiesCurrent' /\ WorksOnStored'
    BY <1>1, <2>1, ControllerAssumption DEF CopiesCurrent, WorksOnStored
  <2>5. QuietIsFinalized' /\ ReadyIsLoaded'
    <3>1. RequeueInterval > 0 => \A m \in Name : Quiet(m)' => ors[m] = None \/ Quiet(m)
      BY <1>1, <1>3, <2>1 DEF Quiet
    <3> QED
      BY <1>1, <3>1 DEF QuietIsFinalized, ReadyIsLoaded, ruleVars, watchVars
  <2> QED
    BY <1>2, <1>5, <2>2, <2>3, <2>4, <2>5 DEF RulesInv
<1>7. CASE /\ cached[n].obj # None
           /\ req' = n /\ loc' = cached[n]
           /\ pc' = IF cached[n].obj.deleting THEN "teardown" ELSE "addfin"
           /\ UNCHANGED delayed
  <2>1. /\ req' = n /\ loc' = cached[n] /\ delayed' = delayed
        /\ pc' = IF cached[n].obj.deleting THEN "teardown" ELSE "addfin"
    BY <1>7
  <2>2. TypeOK'
    <3>1. pc' \in PC
      BY <2>1 DEF PC
    <3> QED
      BY <1>1, <1>2, <1>3, <2>1, <3>1 DEF TypeOK, RulesInv, WatchesInv
  <2>3. AtWork'
    BY <1>4, <1>7, <2>1 DEF AtWork
  <2>4. WatchesMatchRules' /\ BetweenCalls' /\ StagedIsTrue'
    BY <1>1, <2>1 DEF WatchesMatchRules, BetweenCalls, StagedIsTrue, ruleVars, watchVars
  <2>5. CopiesCurrent'
    BY <1>1, <1>3, <1>7, <2>1 DEF CopiesCurrent
  <2>6. WorksOnStored'
    BY <1>1, <1>3, <1>7, <2>1 DEF WorksOnStored, Seen
  <2>7. QuietIsFinalized' /\ ReadyIsLoaded'
    <3>1. \A m \in Name : Quiet(m)' => Quiet(m)
      BY <1>1, <2>1, ControllerAssumption DEF Quiet
    <3> QED
      BY <1>1, <3>1 DEF QuietIsFinalized, ReadyIsLoaded, ruleVars, watchVars
  <2> QED
    BY <1>2, <1>5, <2>2, <2>3, <2>4, <2>5, <2>6, <2>7 DEF RulesInv
<1> QED
  BY <1>6, <1>7 DEF Get

----------------------------------------------------------------------------
(* Reconcile.                                                              *)

LEMMA EntryListed ==
    ASSUME NEW c \in [GVR -> Seq(OperationRuleSet)], NEW g \in GVR, NEW n, NEW b,
           Entry(c, g, n, b)
    PROVE  g \in GVRs(c)
<1>1. PICK i \in 1..Len(c[g]) : TRUE
  BY DEF Entry, Named
<1> QED
  BY <1>1, InGVRs

Early == {"teardown", "prune", "removefin", "addfin"}
Late == {"validate", "setup", "register", "status"}

\* The parts of the invariant about the objects and their copies.
ObjectsInv ==
    /\ TypeOK /\ UniqueNames /\ WatchesInv
    /\ DeletingIsFinalized
    /\ CopiesCurrent
    /\ WorksOnStored
    /\ QuietIsFinalized
    /\ ReadyIsLoaded

\* A step of Reconcile that calls no API but discovery and may load or
\* unload the ruleset at hand, keeps what is known of the objects.
LEMMA LocalStep ==
    ASSUME ControllerInv, req \in Name, pc' \in PC,
           UNCHANGED <<apiVars, queue, delayed, req, crashes>>,
           loc' \in Copy, loc'.cur = loc.cur,
           loc'.obj.gvr = loc.obj.gvr, loc'.obj.body = loc.obj.body,
           requeue' \in BOOLEAN, faults' \in 0..MaxFaults,
           pc' \in Early => pc \in Early /\ loc'.obj = loc.obj,
           pc' \in Late => pc \in Late,
           RulesInv',
           \A g \in GVR, n \in Name, b \in Body :
                n # req /\ Entry(cache, g, n, b) => Entry(cache', g, n, b),
           \A g \in watches : g \in GVRs(cache') => g \in watches'
    PROVE  ObjectsInv'
<1> USE DEF ControllerInv
<1>1. UNCHANGED <<ors, served, cached, edits>>
  BY DEF apiVars
<1>2. TypeOK'
  BY <1>1 DEF TypeOK, RulesInv, WatchesInv
<1>3. DeletingIsFinalized' /\ CopiesCurrent'
  BY <1>1 DEF DeletingIsFinalized, CopiesCurrent
<1>4. WorksOnStored'
  BY <1>1 DEF WorksOnStored, Seen, Early, Late
<1>5. \A n \in Name : Quiet(n)' => Quiet(n) /\ n # req
  BY <1>1 DEF Quiet
<1>6. QuietIsFinalized'
  BY <1>1, <1>5 DEF QuietIsFinalized
<1>7. ReadyIsLoaded'
  <2> SUFFICES ASSUME RequeueInterval > 0,
                      NEW n \in Name, Quiet(n)', ors[n] # None, ~ors[n].deleting,
                      "Ready" \in ors[n].conds
               PROVE  ors[n].gvr \in watches' /\ Entry(cache', ors[n].gvr, n, ors[n].body)
    BY <1>1 DEF ReadyIsLoaded, Entry
  <2> DEFINE g == ors[n].gvr
             b == ors[n].body
  <2>1. g \in watches /\ Entry(cache, g, n, b)
    BY <1>5 DEF ReadyIsLoaded, Entry
  <2>2. g \in GVR /\ b \in Body
    <3>1. ors[n] \in ORS
      BY DEF TypeOK
    <3> QED
      BY <3>1, ORSFields
  <2> HIDE DEF g, b
  <2>3. Entry(cache', g, n, b)
    BY <1>5, <2>1, <2>2
  <2>4. g \in GVRs(cache')
    BY <1>2, <2>2, <2>3, EntryListed DEF TypeOK, RuleCacheTypeOK
  <2>5. g \in watches' /\ Entry(cache', g, n, b)
    BY <2>1, <2>3, <2>4
  <2> QED
    BY <2>5 DEF g, b
<1> QED
  BY <1>2, <1>3, <1>4, <1>6, <1>7 DEF ObjectsInv, RulesInv

\* The ruleset of the local copy.
LEMMA RuleAtHand ==
    ASSUME ControllerInv, pc # "idle"
    PROVE  /\ req \in Name /\ loc.obj \in ORS /\ loc \in Copy
           /\ Rule \in OperationRuleSet
           /\ Rule.name = req /\ Rule.gvr = loc.obj.gvr /\ Rule.body = loc.obj.body
           /\ loc.obj.gvr \in GVR
<1>1. req \in Name /\ loc.obj \in ORS /\ loc \in Copy
  BY DEF ControllerInv, AtWork, TypeOK
<1>2. loc.obj.gvr \in GVR /\ loc.obj.body \in Body
  BY <1>1, ORSFields
<1> QED
  BY <1>1, <1>2 DEF Rule, OperationRuleSet

LEMMA TeardownRuleStep == ControllerInv /\ TeardownRule => ControllerInv'
<1> SUFFICES ASSUME ControllerInv, TeardownRule PROVE ControllerInv'
  OBVIOUS
<1>1. /\ pc = "teardown" /\ pc' = "prune" /\ RemoveRule(Rule)
      /\ UNCHANGED <<watchVars, apiVars, queue, delayed, req, loc, requeue, faults, crashes>>
  BY DEF TeardownRule
<1>2. req \in Name /\ loc \in Copy /\ Rule \in OperationRuleSet /\ Rule.name = req
  BY <1>1, RuleAtHand
<1>3. RuleCacheTypeOK /\ UniqueNames /\ WatchesInv
  BY DEF ControllerInv, TypeOK
<1>4. RulesInv'
  <2>1. RuleCacheTypeOK' /\ UniqueNames'
    BY <1>1, <1>2, <1>3, RuleCacheStep
  <2>2. WatchesInv'
    BY <1>1, <1>3 DEF watchVars, WatchesInv, WatchesTypeOK, WatchGaugeExact,
                      NoLeakedInformer, StartedHasHandler, WatchWillRun
  <2> QED
    BY <2>1, <2>2 DEF RulesInv
<1>5. /\ GVRs(cache') \subseteq GVRs(cache)
      /\ \A g \in GVR, n \in Name, b \in Body :
            n # req /\ Entry(cache, g, n, b) => Entry(cache', g, n, b)
  BY <1>1, <1>2, <1>3, RemoveRuleEffect
<1>6. ObjectsInv'
  <2>1. pc' \in PC /\ pc' \in Early /\ pc \in Early /\ pc' \notin Late
    BY <1>1 DEF PC, Early, Late
  <2>2. requeue' \in BOOLEAN /\ faults' \in 0..MaxFaults /\ watches' = watches
    BY <1>1 DEF ControllerInv, TypeOK, watchVars
  <2> QED
    BY <1>1, <1>2, <1>4, <1>5, <2>1, <2>2, LocalStep
<1>7. AtWork'
  BY <1>1 DEF ControllerInv, AtWork
<1>8. WatchesMatchRules' /\ BetweenCalls' /\ StagedIsTrue'
  <2>1. watches = GVRs(cache) /\ watches' = watches
    BY <1>1 DEF ControllerInv, WatchesMatchRules, watchVars
  <2> QED
    BY <1>1, <1>5, <2>1 DEF WatchesMatchRules, BetweenCalls, StagedIsTrue
<1> QED
  BY <1>6, <1>7, <1>8 DEF ControllerInv, ObjectsInv

LEMMA TeardownPruneStep == ControllerInv /\ TeardownPrune => ControllerInv'
<1> SUFFICES ASSUME ControllerInv, TeardownPrune PROVE ControllerInv'
  OBVIOUS
<1>1. /\ pc = "prune" /\ pc' = "removefin" /\ Prune
      /\ UNCHANGED <<ruleVars, apiVars, queue, delayed, req, loc, requeue, faults, crashes>>
  BY DEF TeardownPrune
<1>2. req \in Name /\ loc \in Copy
  BY <1>1, RuleAtHand
<1>3. cache' = cache /\ watches' = watches \cap GVRs(cache)
  BY <1>1 DEF ruleVars, Prune, Stop
<1>4. RulesInv'
  <2>1. RuleCacheTypeOK' /\ UniqueNames'
    BY <1>1 DEF ControllerInv, TypeOK, RuleCacheTypeOK, UniqueNames, ruleVars
  <2>2. WatchesInv'
    BY <1>1, StopStep DEF ControllerInv, Prune
  <2> QED
    BY <2>1, <2>2 DEF RulesInv
<1>5. ObjectsInv'
  <2>1. pc' \in PC /\ pc' \in Early /\ pc \in Early /\ pc' \notin Late
    BY <1>1 DEF PC, Early, Late
  <2>2. requeue' \in BOOLEAN /\ faults' \in 0..MaxFaults
    BY <1>1 DEF ControllerInv, TypeOK
  <2> QED
    BY <1>1, <1>2, <1>3, <1>4, <2>1, <2>2, LocalStep
<1>6. AtWork'
  BY <1>1 DEF ControllerInv, AtWork
<1>7. WatchesMatchRules' /\ BetweenCalls' /\ StagedIsTrue'
  <2>1. watches' = GVRs(cache')
    BY <1>1, <1>3 DEF ControllerInv, BetweenCalls
  <2> QED
    BY <1>1, <2>1 DEF WatchesMatchRules, BetweenCalls, StagedIsTrue
<1> QED
  BY <1>5, <1>6, <1>7 DEF ControllerInv, ObjectsInv

\* Staged conditions replace those of the copy.
LEMMA CondsUpdate ==
    ASSUME NEW l \in Copy, l.obj \in ORS, NEW C \in SUBSET CondType
    PROVE  LET u == [l EXCEPT !.obj.conds = C]
           IN  /\ u \in Copy /\ u.obj \in ORS /\ u.cur = l.cur
               /\ u.obj.gvr = l.obj.gvr /\ u.obj.body = l.obj.body
               /\ u.obj.conds = C
  BY DEF Copy, ORS

LEMMA SetupUpdate ==
    ASSUME NEW l \in Copy, l.obj \in ORS, NEW c \in CondType, NEW w \in BOOLEAN
    PROVE  LET u == [l EXCEPT !.obj.conds = @ \cup {c}, !.obj.watchActive = w]
           IN  /\ u \in Copy /\ u.obj \in ORS /\ u.cur = l.cur
               /\ u.obj.gvr = l.obj.gvr /\ u.obj.body = l.obj.body
               /\ u.obj.conds = l.obj.conds \cup {c}
  BY DEF Copy, ORS

LEMMA VerdictType ==
    ASSUME NEW found
    PROVE  /\ Verdict(found) \in SUBSET CondType
           /\ ("InvalidRule" \in Verdict(found)) = (loc.obj.body \notin Compiles)
           /\ "Ready" \notin Verdict(found)
  BY DEF Verdict, CondType

LEMMA ValidateStep == ControllerInv /\ Validate => ControllerInv'
<1> SUFFICES ASSUME ControllerInv, Validate PROVE ControllerInv'
  OBVIOUS
<1>1. /\ pc = "validate"
      /\ UNCHANGED <<ruleVars, watchVars, apiVars, queue, delayed, req, crashes>>
  BY DEF Validate
<1>2. PICK found \in {loc.obj.gvr \in served, FALSE} :
        /\ IF found = (loc.obj.gvr \in served) THEN NoFault ELSE Fault
        /\ loc' = [loc EXCEPT !.obj.conds = Verdict(found)]
        /\ IF Verdict(found) = {"Validated"}
           THEN pc' = "setup" /\ UNCHANGED requeue
           ELSE pc' = "status" /\ requeue' = TRUE
  BY Zenon DEF Validate
<1>3. req \in Name /\ loc \in Copy /\ loc.obj \in ORS
  BY <1>1, RuleAtHand
<1>4. /\ loc' \in Copy /\ loc'.obj \in ORS /\ loc'.cur = loc.cur
      /\ loc'.obj.gvr = loc.obj.gvr /\ loc'.obj.body = loc.obj.body
      /\ loc'.obj.conds = Verdict(found)
  BY <1>2, <1>3, VerdictType, CondsUpdate
<1>5. /\ ("InvalidRule" \in loc'.obj.conds) = (loc.obj.body \notin Compiles)
      /\ "Ready" \notin loc'.obj.conds
  BY <1>4, VerdictType
<1>6. pc' \in {"setup", "status"} /\ requeue' \in BOOLEAN
  BY <1>2 DEF ControllerInv, TypeOK
<1>7. faults' \in 0..MaxFaults
  BY <1>2, ControllerAssumption DEF ControllerInv, TypeOK, Fault, NoFault
<1>8. RulesInv'
  BY <1>1, RulesUnchanged DEF ControllerInv, TypeOK, RulesInv
<1>9. cache' = cache /\ watches' = watches
  BY <1>1 DEF ruleVars, watchVars
<1>10. ObjectsInv'
  <2>1. pc' \in PC /\ pc' \notin Early /\ pc \in Late
    BY <1>1, <1>6 DEF PC, Early, Late
  <2> QED
    BY <1>1, <1>3, <1>4, <1>6, <1>7, <1>8, <1>9, <2>1, LocalStep
<1>11. AtWork'
  BY <1>1, <1>3, <1>4, <1>6 DEF AtWork
<1>12. WatchesMatchRules' /\ BetweenCalls'
  BY <1>1, <1>6, <1>9 DEF ControllerInv, WatchesMatchRules, BetweenCalls
<1>13. StagedIsTrue'
  BY <1>4, <1>5, <1>6 DEF StagedIsTrue
<1> QED
  BY <1>10, <1>11, <1>12, <1>13 DEF ControllerInv, ObjectsInv

LEMMA SetupRuleStep == ControllerInv /\ SetupRule => ControllerInv'
<1> SUFFICES ASSUME ControllerInv, SetupRule PROVE ControllerInv'
  OBVIOUS
<1>1. /\ pc = "setup" /\ pc' = "register" /\ AddOrUpdateRule(Rule)
      /\ UNCHANGED <<watchVars, apiVars, queue, delayed, req, loc, requeue, faults, crashes>>
  BY DEF SetupRule
<1>2. /\ req \in Name /\ loc \in Copy /\ Rule \in OperationRuleSet /\ Rule.name = req
      /\ Rule.gvr = loc.obj.gvr /\ Rule.body = loc.obj.body
  BY <1>1, RuleAtHand
<1>3. RuleCacheTypeOK /\ UniqueNames /\ WatchesInv
  BY DEF ControllerInv, TypeOK
<1>4. RulesInv'
  <2>1. RuleCacheTypeOK' /\ UniqueNames'
    BY <1>1, <1>2, <1>3, RuleCacheStep
  <2>2. WatchesInv'
    BY <1>1, <1>3 DEF watchVars, WatchesInv, WatchesTypeOK, WatchGaugeExact,
                      NoLeakedInformer, StartedHasHandler, WatchWillRun
  <2> QED
    BY <2>1, <2>2 DEF RulesInv
<1>5. /\ GVRs(cache') = GVRs(cache) \cup {loc.obj.gvr}
      /\ Entry(cache', loc.obj.gvr, req, loc.obj.body)
      /\ loc.obj.gvr \notin GVRs(cache) => Len(cache'[loc.obj.gvr]) = 1
      /\ \A g \in GVR, n \in Name, b \in Body :
            n # req /\ Entry(cache, g, n, b) => Entry(cache', g, n, b)
  BY <1>1, <1>2, <1>3, AddOrUpdateRuleEffect
<1>6. watches' = watches /\ watches = GVRs(cache)
  BY <1>1 DEF ControllerInv, WatchesMatchRules, watchVars
<1>7. ObjectsInv'
  <2>1. pc' \in PC /\ pc' \notin Early /\ pc \in Late
    BY <1>1 DEF PC, Early, Late
  <2>2. requeue' \in BOOLEAN /\ faults' \in 0..MaxFaults
    BY <1>1 DEF ControllerInv, TypeOK
  <2> QED
    BY <1>1, <1>2, <1>4, <1>5, <1>6, <2>1, <2>2, LocalStep
<1>8. AtWork'
  BY <1>1 DEF ControllerInv, AtWork
<1>9. WatchesMatchRules' /\ BetweenCalls'
  BY <1>1, <1>5, <1>6 DEF WatchesMatchRules, BetweenCalls
<1>10. StagedIsTrue'
  BY <1>1 DEF ControllerInv, StagedIsTrue
<1> QED
  BY <1>7, <1>8, <1>9, <1>10 DEF ControllerInv, ObjectsInv

\* A registration that fails takes the rule back, and with it the GVR: it
\* had no watch, so the rule was its only one.
LEMMA SetupWatchStep == ControllerInv /\ SetupWatch => ControllerInv'
<1> SUFFICES ASSUME ControllerInv, SetupWatch PROVE ControllerInv'
  OBVIOUS
<1> DEFINE g0 == loc.obj.gvr
<1>1. /\ pc = "register" /\ pc' = "status" /\ Register(g0)
      /\ UNCHANGED <<apiVars, queue, delayed, req, faults, crashes>>
  BY DEF SetupWatch
<1>2. /\ req \in Name /\ loc \in Copy /\ Rule \in OperationRuleSet /\ Rule.name = req
      /\ Rule.gvr = g0 /\ Rule.body = loc.obj.body /\ g0 \in GVR /\ loc.obj \in ORS
  BY <1>1, RuleAtHand
<1>3. RuleCacheTypeOK /\ UniqueNames /\ WatchesInv
  BY DEF ControllerInv, TypeOK
<1>4. WatchesInv'
  BY <1>1, <1>2, <1>3, RegisterStep
<1>5. /\ GVRs(cache) = watches \cup {g0}
      /\ Entry(cache, g0, req, loc.obj.body)
      /\ g0 \notin watches => Len(cache[g0]) = 1
      /\ ("InvalidRule" \in loc.obj.conds) = (loc.obj.body \notin Compiles)
      /\ "Ready" \notin loc.obj.conds
  BY <1>1 DEF ControllerInv, BetweenCalls, StagedIsTrue
<1>6. pc' \in PC /\ pc' \notin Early /\ pc \in Late
  BY <1>1 DEF PC, Early, Late
<1>7. faults' \in 0..MaxFaults /\ requeue \in BOOLEAN
  BY <1>1 DEF ControllerInv, TypeOK
<1>8. CASE RegisterFails(g0)
  <2>1. /\ RemoveRule(Rule) /\ requeue' = TRUE
        /\ loc' = [loc EXCEPT !.obj.conds = @ \cup {"WatchFailed"}, !.obj.watchActive = FALSE]
    BY <1>8 DEF SetupWatch
  <2>2. watches' = watches /\ g0 \notin watches
    BY <1>1, <1>8 DEF Register, RegisterFails, Exists, watchVars
  <2>3. /\ loc' \in Copy /\ loc'.obj \in ORS /\ loc'.cur = loc.cur
        /\ loc'.obj.gvr = g0 /\ loc'.obj.body = loc.obj.body
        /\ loc'.obj.conds = loc.obj.conds \cup {"WatchFailed"}
    <3>1. "WatchFailed" \in CondType
      BY DEF CondType
    <3> QED
      BY <1>2, <2>1, <3>1, SetupUpdate
  <2>4. RulesInv'
    BY <1>2, <1>3, <1>4, <2>1, RuleCacheStep DEF RulesInv
  <2>5. Holds(cache, Rule)
    BY <1>2, <1>5 DEF Holds, Entry
  <2>6. /\ GVRs(cache') = watches
        /\ \A g \in GVR, n \in Name, b \in Body :
              n # req /\ Entry(cache, g, n, b) => Entry(cache', g, n, b)
    <3>1. GVRs(cache') = GVRs(cache) \ {g0}
      BY <1>2, <1>3, <1>5, <2>1, <2>2, <2>5, RemoveRuleEffect
    <3>2. GVRs(cache') = watches
      BY <1>5, <2>2, <3>1
    <3> QED
      BY <1>2, <1>3, <2>1, <3>2, RemoveRuleEffect
  <2>7. ObjectsInv'
    BY <1>1, <1>2, <1>6, <1>7, <2>1, <2>2, <2>3, <2>4, <2>6, LocalStep
  <2>8. AtWork'
    BY <1>1, <1>2, <2>3 DEF AtWork
  <2>9. WatchesMatchRules' /\ BetweenCalls'
    BY <1>1, <2>2, <2>6 DEF WatchesMatchRules, BetweenCalls
  <2>10. StagedIsTrue'
    BY <1>1, <1>5, <2>3 DEF StagedIsTrue
  <2> QED
    BY <2>7, <2>8, <2>9, <2>10 DEF ControllerInv, ObjectsInv
<1>9. CASE ~RegisterFails(g0)
  <2>1. /\ UNCHANGED ruleVars /\ requeue' = requeue
        /\ loc' = [loc EXCEPT !.obj.conds = @ \cup {"Ready"}, !.obj.watchActive = TRUE]
    BY <1>9 DEF SetupWatch
  <2>2. watches' = watches \cup {g0}
    BY <1>1, <1>9 DEF Register, RegisterFails, Start, Exists, watchVars
  <2>3. /\ loc' \in Copy /\ loc'.obj \in ORS /\ loc'.cur = loc.cur
        /\ loc'.obj.gvr = g0 /\ loc'.obj.body = loc.obj.body
        /\ loc'.obj.conds = loc.obj.conds \cup {"Ready"}
    <3>1. "Ready" \in CondType
      BY DEF CondType
    <3> QED
      BY <1>2, <2>1, <3>1, SetupUpdate
  <2>4. cache' = cache
    BY <2>1 DEF ruleVars
  <2>5. RulesInv'
    BY <1>3, <1>4, <2>1, <2>4 DEF RulesInv, ruleVars, RuleCacheTypeOK, UniqueNames
  <2>6. ObjectsInv'
    BY <1>1, <1>2, <1>6, <1>7, <2>1, <2>2, <2>3, <2>4, <2>5, LocalStep
  <2>7. AtWork'
    BY <1>1, <1>2, <2>3 DEF AtWork
  <2>8. WatchesMatchRules' /\ BetweenCalls'
    BY <1>1, <1>5, <2>2, <2>4 DEF WatchesMatchRules, BetweenCalls
  <2>9. StagedIsTrue'
    BY <1>1, <1>5, <2>2, <2>3, <2>4 DEF StagedIsTrue
  <2> QED
    BY <2>6, <2>7, <2>8, <2>9 DEF ControllerInv, ObjectsInv
<1> QED
  BY <1>8, <1>9

\* Reconcile returns, after a last write of its object or none.  What is
\* left to show is that the object is in order if nothing brings the worker
\* back to it.
LEMMA EndStep ==
    ASSUME ControllerInv, pc \notin {"idle", "prune", "register"}, NEW err \in BOOLEAN, End(err),
           UNCHANGED <<ruleVars, watchVars, served, edits, queue, crashes>>,
           faults' \in 0..MaxFaults,
           \/ UNCHANGED <<ors, cached>>
           \/ \E o \in ORS \cup {None} : Write(req, o) /\ (o # None /\ o.deleting => o.fin),
           ~err /\ Seen(req) /\ ors'[req] = ors[req] =>
                /\ ors[req].fin
                /\ "Ready" \in ors[req].conds =>
                    /\ ors[req].gvr \in watches
                    /\ Entry(cache, ors[req].gvr, req, ors[req].body)
    PROVE  ControllerInv'
<1> USE DEF ControllerInv
<1>1. /\ pc' = "idle" /\ req' = None /\ loc' = NoCopy /\ requeue' = FALSE
      /\ delayed' \in {delayed, delayed \cup {req}}
      /\ err /\ RequeueInterval > 0 => delayed' = delayed \cup {req}
  BY DEF End, RequeueAfter
<1>2. req \in Name
  BY RuleAtHand
<1>3. cache' = cache /\ watches' = watches
  BY DEF ruleVars, watchVars
<1>4. /\ ors' \in [Name -> ORS \cup {None}] /\ cached' \in [Name -> Copy]
      /\ \A m \in Name : m # req => ors'[m] = ors[m]
      /\ \A m \in Name : cached'[m].cur =>
            cached[m].cur /\ cached'[m] = cached[m] /\ ors'[m] = ors[m]
      /\ ors'[req] # None /\ ors'[req].deleting => ors'[req].fin
  <2>1. CASE UNCHANGED <<ors, cached>>
    BY <1>2, <2>1 DEF TypeOK, DeletingIsFinalized
  <2>2. CASE \E o \in ORS \cup {None} : Write(req, o) /\ (o # None /\ o.deleting => o.fin)
    BY <1>2, <2>2, WriteEffect
  <2> QED
    BY <2>1, <2>2
<1>5. RulesInv'
  BY RulesUnchanged DEF RulesInv, TypeOK
<1>6. TypeOK'
  <2>1. pc' \in PC /\ loc' \in Copy
    BY <1>1 DEF PC, Copy, NoCopy
  <2>2. delayed' \subseteq Name
    BY <1>1, <1>2 DEF TypeOK
  <2> QED
    BY <1>1, <1>4, <1>5, <2>1, <2>2 DEF TypeOK, RulesInv, WatchesInv
<1>7. AtWork' /\ WatchesMatchRules' /\ BetweenCalls' /\ StagedIsTrue'
  BY <1>1, <1>3 DEF AtWork, WatchesMatchRules, BetweenCalls, StagedIsTrue
<1>8. DeletingIsFinalized'
  BY <1>4 DEF DeletingIsFinalized
<1>9. CopiesCurrent' /\ WorksOnStored'
  BY <1>1, <1>4, ControllerAssumption DEF CopiesCurrent, WorksOnStored, NoCopy
<1>10. \A m \in Name : Quiet(m)' /\ m # req => Quiet(m) /\ ors'[m] = ors[m]
  BY <1>1, <1>4 DEF Quiet
<1>11. RequeueInterval > 0 =>
       \A m \in Name : Quiet(m)' /\ m = req => ~err /\ Seen(req) /\ ors'[req] = ors[req]
  BY <1>1, <1>2, <1>4 DEF Quiet, Seen
<1>12. QuietIsFinalized'
  BY <1>10, <1>11 DEF QuietIsFinalized
<1>13. ReadyIsLoaded'
  <2> SUFFICES ASSUME RequeueInterval > 0 PROVE ReadyIsLoaded'
    BY DEF ReadyIsLoaded
  <2>1. ASSUME NEW m \in Name, Quiet(m)', ors'[m] # None, ~ors'[m].deleting,
               "Ready" \in ors'[m].conds
        PROVE  ors[m].gvr \in watches /\ Entry(cache, ors[m].gvr, m, ors[m].body)
    BY <1>10, <1>11, <2>1 DEF ReadyIsLoaded, Entry
  <2>2. \A m \in Name : Quiet(m)' => ors'[m] = ors[m]
    BY <1>10, <1>11
  <2> QED
    BY <1>3, <2>1, <2>2 DEF ReadyIsLoaded, Entry
<1> QED
  BY <1>5, <1>6, <1>7, <1>8, <1>9, <1>12, <1>13 DEF RulesInv

\* The finalizer is in place, or was removed, and Reconcile goes on.
LEMMA PatchStep ==
    ASSUME ControllerInv, NEW fin \in BOOLEAN, Patch(fin),
           pc = IF fin THEN "addfin" ELSE "removefin",
           UNCHANGED <<ruleVars, watchVars, served, edits, queue, crashes>>
    PROVE  ControllerInv'
<1> USE DEF ControllerInv
<1> DEFINE o == ors[req]
           new == [o EXCEPT !.fin = fin]
<1>1. req \in Name /\ loc \in Copy /\ loc.obj \in ORS /\ o \in ORS \cup {None}
  BY RuleAtHand DEF TypeOK
<1>2. NoFault \/ Fault => faults' \in 0..MaxFaults
  BY ControllerAssumption DEF TypeOK, Fault, NoFault
<1>3. ASSUME o # None
      PROVE  /\ new \in ORS /\ new.gvr = o.gvr /\ new.body = o.body
             /\ new.deleting = o.deleting /\ new.fin = fin
             /\ Settled(new) \in ORS \cup {None}
             /\ Settled(new) # None => Settled(new) = new /\ (new.deleting => new.fin)
             /\ new.deleting /\ ~new.fin => Settled(new) = None
  <2>1. o \in ORS
    BY <1>1, <1>3
  <2>2. /\ new \in ORS /\ new.gvr = o.gvr /\ new.body = o.body
        /\ new.deleting = o.deleting /\ new.fin = fin
    BY <2>1 DEF ORS
  <2> QED
    BY <2>2, ORSFields
<1> HIDE DEF o
<1>4. CASE /\ o # None /\ NoFault /\ Write(req, Settled(new))
           /\ loc' = [obj |-> [new EXCEPT !.deleting = @ \/ loc.obj.deleting],
                      cur |-> Settled(new) # None]
           /\ pc' = "validate"
           /\ UNCHANGED <<delayed, req, requeue>>
  <2> HIDE DEF new
  <2>1. new.deleting \in BOOLEAN /\ loc.obj.deleting \in BOOLEAN
    BY <1>1, <1>3, <1>4, ORSFields
  <2>2. loc' \in Copy /\ loc'.obj \in ORS /\ loc'.cur = (Settled(new) # None)
        /\ loc'.obj.gvr = new.gvr /\ loc'.obj.body = new.body
    <3> DEFINE u == [new EXCEPT !.deleting = new.deleting \/ loc.obj.deleting]
    <3>1. u \in ORS /\ u.gvr = new.gvr /\ u.body = new.body
      BY <1>3, <1>4, <2>1 DEF ORS
    <3>2. loc' = [obj |-> u, cur |-> Settled(new) # None]
      BY <1>4
    <3> HIDE DEF u
    <3> QED
      BY <3>1, <3>2 DEF Copy
  <2>3. /\ ors' \in [Name -> ORS \cup {None}] /\ cached' \in [Name -> Copy]
        /\ ors'[req] = Settled(new)
        /\ \A m \in Name : m # req => ors'[m] = ors[m]
        /\ \A m \in Name : cached'[m].cur =>
              cached[m].cur /\ cached'[m] = cached[m] /\ ors'[m] = ors[m]
    BY <1>1, <1>3, <1>4, WriteEffect
  <2>4. cache' = cache /\ watches' = watches /\ pc' = "validate" /\ req' = req
        /\ delayed' = delayed /\ queue' = queue
    BY <1>4 DEF ruleVars, watchVars
  <2>5. RulesInv'
    BY RulesUnchanged DEF RulesInv, TypeOK
  <2>6. TypeOK'
    <3>1. pc' \in PC
      BY <2>4 DEF PC
    <3> QED
      BY <1>1, <1>2, <1>4, <2>2, <2>3, <2>5, <3>1 DEF TypeOK, RulesInv, WatchesInv
  <2>7. AtWork'
    BY <1>1, <2>2, <2>4 DEF AtWork
  <2>8. DeletingIsFinalized'
    BY <1>3, <1>4, <2>3 DEF DeletingIsFinalized
  <2>9. WatchesMatchRules' /\ BetweenCalls' /\ StagedIsTrue'
    BY <2>4 DEF WatchesMatchRules, BetweenCalls, StagedIsTrue
  <2>10. CopiesCurrent'
    BY <1>3, <1>4, <2>2, <2>3, <2>4 DEF CopiesCurrent
  <2>11. WorksOnStored'
    <3> SUFFICES ASSUME Seen(req)' PROVE ors'[req] # None /\ ors'[req].fin
      BY <2>4 DEF WorksOnStored
    <3>1. Seen(req) /\ ors'[req] = o
      BY <1>1, <2>3, <2>4 DEF Seen, o
    <3>2. loc.obj = o /\ Settled(new) = o
      BY <1>1, <2>3, <3>1 DEF WorksOnStored, o
    <3>3. CASE fin
      BY <1>3, <1>4, <3>1, <3>2, <3>3
    <3>4. CASE ~fin
      <4>1. o.deleting
        BY <3>2, <3>4 DEF AtWork
      <4> QED
        BY <1>3, <1>4, <3>2, <3>4, <4>1
    <3> QED
      BY <3>3, <3>4
  <2>12. QuietIsFinalized' /\ ReadyIsLoaded'
    <3>1. \A m \in Name : Quiet(m)' => Quiet(m) /\ ors'[m] = ors[m]
      BY <2>3, <2>4 DEF Quiet
    <3> QED
      BY <2>4, <3>1 DEF QuietIsFinalized, ReadyIsLoaded
  <2> QED
    BY <2>5, <2>6, <2>7, <2>8, <2>9, <2>10, <2>11, <2>12 DEF RulesInv
<1>5. CASE o # None /\ Fault /\ Write(req, Settled(new)) /\ End(TRUE)
  <2> HIDE DEF new
  <2>1. Settled(new) \in ORS \cup {None} /\
        (Settled(new) # None /\ Settled(new).deleting => Settled(new).fin)
    BY <1>3, <1>5
  <2>2. pc \notin {"idle", "prune", "register"}
    OBVIOUS
  <2> QED
    BY <1>2, <1>5, <2>1, <2>2, EndStep
<1>6. CASE /\ IF o = None THEN NoFault ELSE Fault
           /\ UNCHANGED <<ors, cached>>
           /\ End(TRUE)
  <2>1. pc \notin {"idle", "prune", "register"}
    OBVIOUS
  <2> QED
    BY <1>2, <1>6, <2>1, EndStep
<1> QED
  BY <1>4, <1>5, <1>6 DEF Patch, o

LEMMA FinalizerStep ==
    ControllerInv /\ (RemoveFinalizer \/ AddFinalizer) => ControllerInv'
<1> SUFFICES ASSUME ControllerInv, RemoveFinalizer \/ AddFinalizer PROVE ControllerInv'
  OBVIOUS
<1> USE DEF ControllerInv
<1>1. UNCHANGED <<ruleVars, watchVars, served, edits, queue, crashes>>
  BY DEF RemoveFinalizer, AddFinalizer
<1>2. CASE RemoveFinalizer /\ loc.obj.fin
  BY <1>1, <1>2, PatchStep DEF RemoveFinalizer
<1>3. CASE AddFinalizer /\ ~loc.obj.fin
  BY <1>1, <1>3, PatchStep DEF AddFinalizer
<1>4. CASE (RemoveFinalizer /\ ~loc.obj.fin) \/ (AddFinalizer /\ loc.obj.fin)
  <2>1. /\ pc' = "validate"
        /\ UNCHANGED <<ors, cached, delayed, req, loc, requeue, faults>>
        /\ \/ pc = "removefin" /\ ~loc.obj.fin
           \/ pc = "addfin" /\ loc.obj.fin
    BY <1>4 DEF RemoveFinalizer, AddFinalizer
  <2>2. cache' = cache /\ watches' = watches
    BY <1>1 DEF ruleVars, watchVars
  <2>3. RulesInv'
    BY <1>1, RulesUnchanged DEF RulesInv, TypeOK
  <2>4. TypeOK'
    <3>1. pc' \in PC
      BY <2>1 DEF PC
    <3> QED
      BY <1>1, <2>1, <2>3, <3>1 DEF TypeOK, RulesInv, WatchesInv
  <2>5. AtWork' /\ DeletingIsFinalized' /\ CopiesCurrent'
    BY <2>1 DEF AtWork, DeletingIsFinalized, CopiesCurrent
  <2>6. WatchesMatchRules' /\ BetweenCalls' /\ StagedIsTrue'
    BY <2>1, <2>2 DEF WatchesMatchRules, BetweenCalls, StagedIsTrue
  <2>7. WorksOnStored'
    BY <1>1, <2>1 DEF WorksOnStored, Seen, AtWork, DeletingIsFinalized
  <2>8. QuietIsFinalized' /\ ReadyIsLoaded'
    <3>1. \A m \in Name : Quiet(m)' => Quiet(m)
      BY <1>1, <2>1 DEF Quiet
    <3> QED
      BY <2>1, <2>2, <3>1 DEF QuietIsFinalized, ReadyIsLoaded
  <2> QED
    BY <2>3, <2>4, <2>5, <2>6, <2>7, <2>8 DEF RulesInv
<1> QED
  BY <1>2, <1>3, <1>4

\* The status is written over the version it was computed from, or Reconcile
\* comes back.
LEMMA StatusStep == ControllerInv /\ StatusUpdate => ControllerInv'
<1> SUFFICES ASSUME ControllerInv, StatusUpdate PROVE ControllerInv'
  OBVIOUS
<1> USE DEF ControllerInv
<1> DEFINE o == ors[req]
           new == [o EXCEPT !.conds = loc.obj.conds, !.watchActive = loc.obj.watchActive]
           accepted == o # None /\ loc.cur
<1>1. /\ pc = "status" /\ pc \notin {"idle", "prune", "register"}
      /\ UNCHANGED <<ruleVars, watchVars, served, edits, queue, crashes>>
  BY DEF StatusUpdate
<1>2. req \in Name /\ loc.obj \in ORS /\ o \in ORS \cup {None}
  BY <1>1, RuleAtHand DEF TypeOK
<1>3. NoFault \/ Fault => faults' \in 0..MaxFaults
  BY ControllerAssumption DEF TypeOK, Fault, NoFault
<1>4. ASSUME accepted
      PROVE  /\ new \in ORS /\ new.conds = loc.obj.conds
             /\ new.deleting = o.deleting /\ new.fin = o.fin
             /\ new.deleting => new.fin
             /\ loc.obj.gvr = o.gvr /\ loc.obj.body = o.body
  <2>1. o \in ORS /\ loc.obj.conds \in SUBSET CondType /\ loc.obj.watchActive \in BOOLEAN
    BY <1>2, <1>4, ORSFields
  <2>2. /\ new \in ORS /\ new.conds = loc.obj.conds
        /\ new.deleting = o.deleting /\ new.fin = o.fin
    BY <2>1 DEF ORS
  <2>3. o.deleting => o.fin
    BY <1>2, <1>4 DEF DeletingIsFinalized
  <2>4. loc.obj.gvr = o.gvr /\ loc.obj.body = o.body
    BY <1>4 DEF CopiesCurrent
  <2> QED
    BY <2>2, <2>3, <2>4
<1>5. CASE accepted /\ NoFault /\ Write(req, new) /\ End(FALSE)
  <2>1. ors'[req] = new
    BY <1>2, <1>4, <1>5, WriteEffect
  <2>2. Seen(req) => o.fin
    BY <1>1, <1>2 DEF WorksOnStored
  <2>3. new = o /\ "Ready" \in o.conds =>
            o.gvr \in watches /\ Entry(cache, o.gvr, req, o.body)
    <3> SUFFICES ASSUME new = o, "Ready" \in o.conds
                 PROVE  o.gvr \in watches /\ Entry(cache, o.gvr, req, o.body)
      OBVIOUS
    <3>1. "Ready" \in loc.obj.conds
      BY <1>4, <1>5
    <3>2. loc.obj.gvr \in watches /\ Entry(cache, loc.obj.gvr, req, loc.obj.body)
      BY <1>1, <3>1 DEF StagedIsTrue
    <3> QED
      BY <1>4, <1>5, <3>2
  <2>4. new \in ORS \cup {None} /\ (new # None /\ new.deleting => new.fin)
    BY <1>4, <1>5
  <2> HIDE DEF new
  <2>5. Seen(req) /\ ors'[req] = ors[req] =>
            /\ ors[req].fin
            /\ "Ready" \in ors[req].conds =>
                /\ ors[req].gvr \in watches
                /\ Entry(cache, ors[req].gvr, req, ors[req].body)
    BY <2>1, <2>2, <2>3
  <2> QED
    BY <1>1, <1>3, <1>5, <2>4, <2>5, EndStep
<1>6. CASE accepted /\ Fault /\ Write(req, new) /\ End(TRUE)
  <2>1. new \in ORS \cup {None} /\ (new # None /\ new.deleting => new.fin)
    BY <1>4, <1>6
  <2> HIDE DEF new
  <2> QED
    BY <1>1, <1>3, <1>6, <2>1, EndStep
<1>7. CASE /\ IF accepted THEN Fault ELSE NoFault
           /\ UNCHANGED <<ors, cached>>
           /\ End(TRUE)
  BY <1>1, <1>3, <1>7, EndStep
<1> QED
  BY <1>5, <1>6, <1>7 DEF StatusUpdate

----------------------------------------------------------------------------
(* The goroutines of client-go, and the restart.                           *)

LEMMA InformerStepKeeps == ControllerInv /\ InformerStep => ControllerInv'
<1> SUFFICES ASSUME ControllerInv, InformerStep PROVE ControllerInv'
  OBVIOUS
<1> USE DEF ControllerInv
<1>1. /\ UNCHANGED <<ruleVars, apiVars, recVars, faults, crashes>>
      /\ watches' = watches
  BY DEF InformerStep, RunInformer, InformerStopped
<1>2. WatchesInv'
  BY ClientGoStep DEF InformerStep
<1>3. cache' = cache /\ RuleCacheTypeOK' /\ UniqueNames'
  BY <1>1 DEF TypeOK, RuleCacheTypeOK, UniqueNames, ruleVars
<1>4. TypeOK'
  BY <1>1, <1>2, <1>3 DEF TypeOK, WatchesInv, apiVars, recVars
<1>5. /\ AtWork' /\ DeletingIsFinalized' /\ WatchesMatchRules' /\ BetweenCalls'
      /\ StagedIsTrue' /\ CopiesCurrent' /\ WorksOnStored'
      /\ QuietIsFinalized' /\ ReadyIsLoaded'
  BY <1>1, <1>3 DEF AtWork, DeletingIsFinalized, WatchesMatchRules, BetweenCalls,
                    StagedIsTrue, CopiesCurrent, WorksOnStored, QuietIsFinalized,
                    ReadyIsLoaded, Quiet, Seen, Entry, apiVars, recVars
<1> QED
  BY <1>2, <1>3, <1>4, <1>5

\* Empty caches without rules, watches and goroutines.
LEMMA EmptyCaches ==
    ASSUME RuleCacheInit, WatchesInit
    PROVE  RulesInv /\ GVRs(cache) = {}
<1>1. RuleCacheTypeOK /\ UniqueNames /\ GVRs(cache) = {}
  BY DEF RuleCacheInit, RuleCacheTypeOK, UniqueNames, GVRs
<1>2. WatchesInv
  BY FS_EmptySet DEF WatchesInit, WatchesInv, WatchesTypeOK, WatchGaugeExact,
                     NoLeakedInformer, StartedHasHandler, WatchWillRun, InformerState
<1> QED
  BY <1>1, <1>2 DEF RulesInv

LEMMA RestartStep == ControllerInv /\ Restart => ControllerInv'
<1> SUFFICES ASSUME ControllerInv, Restart PROVE ControllerInv'
  OBVIOUS
<1> USE DEF ControllerInv
<1>1. RulesInv' /\ GVRs(cache)' = {} /\ watches' = {}
  <2>1. RuleCacheInit' /\ WatchesInit'
    BY DEF Restart, RuleCacheInit, WatchesInit
  <2>2. (RuleCacheInit /\ WatchesInit => RulesInv /\ GVRs(cache) = {})'
    BY EmptyCaches, PTL
  <2> QED
    BY <2>1, <2>2 DEF WatchesInit
<1>2. /\ ors' = ors /\ pc' = "idle" /\ req' = None /\ loc' = NoCopy /\ requeue' = FALSE
      /\ delayed' = {} /\ queue' = {n \in Name : ors[n] # None}
      /\ cached' = [n \in Name |-> [obj |-> ors[n], cur |-> TRUE]]
      /\ served' = served /\ edits' = edits /\ faults' = faults
  BY DEF Restart
<1>3. TypeOK'
  <2>1. crashes' \in 0..MaxCrashes
    BY ControllerAssumption DEF Restart, TypeOK
  <2>2. cached' \in [Name -> Copy]
    BY <1>2 DEF TypeOK, Copy
  <2>3. pc' \in PC /\ loc' \in Copy
    BY <1>2 DEF PC, Copy, NoCopy
  <2> QED
    BY <1>1, <1>2, <2>1, <2>2, <2>3 DEF TypeOK, RulesInv, WatchesInv
<1>4. /\ AtWork' /\ DeletingIsFinalized' /\ WatchesMatchRules' /\ BetweenCalls'
      /\ StagedIsTrue'
  BY <1>1, <1>2 DEF AtWork, DeletingIsFinalized, WatchesMatchRules, BetweenCalls, StagedIsTrue
<1>5. CopiesCurrent' /\ WorksOnStored'
  BY <1>2, ControllerAssumption DEF CopiesCurrent, WorksOnStored, NoCopy
<1>6. QuietIsFinalized' /\ ReadyIsLoaded'
  BY <1>2 DEF QuietIsFinalized, ReadyIsLoaded, Quiet
<1> QED
  BY <1>1, <1>3, <1>4, <1>5, <1>6 DEF RulesInv

----------------------------------------------------------------------------
LEMMA ControllerInit == Init => ControllerInv
<1> SUFFICES ASSUME Init PROVE ControllerInv
  OBVIOUS
<1>1. RulesInv /\ GVRs(cache) = {} /\ watches = {}
  BY EmptyCaches DEF Init, WatchesInit
<1>2. TypeOK
  <2>1. cached \in [Name -> Copy] /\ pc \in PC /\ loc \in Copy
    BY DEF Init, Copy, PC, NoCopy
  <2>2. ors \in [Name -> ORS \cup {None}] /\ served \subseteq GVR
    BY DEF Init
  <2>3. 0 \in 0..MaxEdits /\ 0 \in 0..MaxFaults /\ 0 \in 0..MaxCrashes
    BY ControllerAssumption
  <2> QED
    BY <1>1, <2>1, <2>2, <2>3 DEF Init, TypeOK, RulesInv, WatchesInv
<1>3. AtWork /\ DeletingIsFinalized /\ WatchesMatchRules /\ BetweenCalls /\ StagedIsTrue
  BY <1>1 DEF Init, AtWork, DeletingIsFinalized, WatchesMatchRules, BetweenCalls, StagedIsTrue
<1>4. CopiesCurrent /\ WorksOnStored /\ QuietIsFinalized /\ ReadyIsLoaded
  BY ControllerAssumption DEF Init, CopiesCurrent, WorksOnStored, QuietIsFinalized,
                              ReadyIsLoaded, NoCopy
<1> QED
  BY <1>1, <1>2, <1>3, <1>4 DEF ControllerInv, RulesInv

LEMMA ControllerNext == ControllerInv /\ [Next]_vars => ControllerInv'
<1> SUFFICES ASSUME ControllerInv, [Next]_vars PROVE ControllerInv'
  OBVIOUS
<1>1. CASE UserStep
  BY <1>1, UserStepKeeps
<1>2. CASE \E n \in Name : SyncCache(n) \/ Requeue(n)
  BY <1>2, DeliveryStep
<1>3. CASE \E n \in Name : Get(n)
  BY <1>3, GetStep
<1>4. CASE Reconcile
  BY <1>4, TeardownRuleStep, TeardownPruneStep, FinalizerStep, ValidateStep,
     SetupRuleStep, SetupWatchStep, StatusStep DEF Reconcile
<1>5. CASE InformerStep
  BY <1>5, InformerStepKeeps
<1>6. CASE Restart
  BY <1>6, RestartStep
<1>7. CASE UNCHANGED vars
  <2> USE DEF ControllerInv
  <2>1. UNCHANGED <<ruleVars, watchVars, apiVars, recVars, faults, crashes>>
    BY <1>7 DEF vars
  <2>2. RulesInv'
    BY <2>1, RulesUnchanged DEF RulesInv, TypeOK
  <2>3. TypeOK'
    BY <2>1, <2>2 DEF TypeOK, RulesInv, WatchesInv, apiVars, recVars
  <2>4. /\ AtWork' /\ DeletingIsFinalized' /\ WatchesMatchRules' /\ BetweenCalls'
        /\ StagedIsTrue' /\ CopiesCurrent' /\ WorksOnStored'
        /\ QuietIsFinalized' /\ ReadyIsLoaded'
    BY <2>1 DEF AtWork, DeletingIsFinalized, WatchesMatchRules, BetweenCalls, StagedIsTrue,
                CopiesCurrent, WorksOnStored, QuietIsFinalized, ReadyIsLoaded, Quiet, Seen,
                Entry, apiVars, recVars, ruleVars, watchVars
  <2> QED
    BY <2>2, <2>3, <2>4 DEF RulesInv
<1> QED
  BY <1>1, <1>2, <1>3, <1>4, <1>5, <1>6, <1>7 DEF Next

LEMMA ControllerInvHolds == Spec => []ControllerInv
  BY ControllerInit, ControllerNext, PTL DEF Spec

\* Every variable of the controller keeps its type.
THEOREM ControllerTypeOK == Spec => []TypeOK
  BY ControllerInvHolds, PTL DEF ControllerInv

\* Outside the windows between the two calls of Setup and of Teardown the
\* watched GVRs are those with a loaded rule, whatever failed on the way.
THEOREM WatchesFollowRules == Spec => []WatchesMatchRules
  BY ControllerInvHolds, PTL DEF ControllerInv

\* A ruleset reported Ready with nothing outstanding about it is loaded in
\* its stored version and watched, for every interval that is not zero.
THEOREM ReadyMeansLoaded == Spec => []ReadyIsLoaded
  BY ControllerInvHolds, PTL DEF ControllerInv

\* A loaded ruleset with nothing outstanding about it has the finalizer that
\* keeps it from vanishing before its teardown, for every interval that is
\* not zero.
THEOREM FinalizedWhenLoaded == Spec => []LoadedIsFinalized
<1>1. ControllerInv => LoadedIsFinalized
  BY DEF ControllerInv, QuietIsFinalized, LoadedIsFinalized
<1> QED
  BY <1>1, ControllerInvHolds, PTL

\* The controller's calls never load two versions of one ruleset, and the
\* informers, watches and gauges they drive stay consistent.
THEOREM ControllerKeepsCaches == Spec => [](UniqueNames /\ WatchesInv)
  BY ControllerInvHolds, PTL DEF ControllerInv

----------------------------------------------------------------------------
(* The verdict.                                                            *)

\* Conditions are written by StatusUpdate only.
LEMMA OnlyStatusWritesConditions ==
    ASSUME ControllerInv, [Next]_vars, ~StatusUpdate,
           NEW n \in Name, ors[n] # None, ors'[n] # None
    PROVE  ors'[n].conds = ors[n].conds
<1>1. ors \in [Name -> ORS \cup {None}] /\ \A m \in Name : ors[m] # None => ors[m] \in ORS
  BY DEF ControllerInv, TypeOK
<1>2. ASSUME NEW m \in Name, NEW o \in ORS, NEW d, ors[m] # None,
             o.conds = ors[m].conds, d \in {o, None}, ors' = [ors EXCEPT ![m] = d]
      PROVE  ors'[n].conds = ors[n].conds
  BY <1>1, <1>2
<1>3. CASE UserStep
  <2>1. ASSUME NEW m \in Name, NEW g \in GVR, NEW b \in Body, UserCreate(m, g, b)
        PROVE  ors'[n] = ors[n]
    BY <1>1, <2>1 DEF UserCreate, UserWrite, Write
  <2>2. ASSUME NEW m \in Name, NEW g \in GVR, NEW b \in Body, UserUpdate(m, g, b)
        PROVE  ors'[n].conds = ors[n].conds
    <3> DEFINE o == [ors[m] EXCEPT !.gvr = g, !.body = b]
    <3>1. ors[m] # None /\ ors' = [ors EXCEPT ![m] = o]
      BY <2>2 DEF UserUpdate, UserWrite, Write
    <3>2. ors[m] \in ORS
      BY <1>1, <3>1
    <3>3. o \in ORS /\ o.conds = ors[m].conds
      BY <3>2 DEF ORS
    <3> HIDE DEF o
    <3> QED
      BY <1>2, <3>1, <3>3
  <2>3. ASSUME NEW m \in Name, UserDelete(m)
        PROVE  ors'[n].conds = ors[n].conds
    <3> DEFINE o == [ors[m] EXCEPT !.deleting = TRUE]
    <3>1. ors[m] # None /\ ors' = [ors EXCEPT ![m] = Settled(o)]
      BY <2>3 DEF UserDelete, UserWrite, Write
    <3>2. ors[m] \in ORS
      BY <1>1, <3>1
    <3>3. o \in ORS /\ o.conds = ors[m].conds
      BY <3>2 DEF ORS
    <3> HIDE DEF o
    <3>4. Settled(o) \in {o, None}
      BY DEF Settled
    <3> QED
      BY <1>2, <3>1, <3>3, <3>4
  <2>4. ASSUME NEW g \in GVR, ToggleServed(g) PROVE ors' = ors
    BY <2>4 DEF ToggleServed
  <2> QED
    BY <1>3, <2>1, <2>2, <2>3, <2>4 DEF UserStep
<1>4. CASE RemoveFinalizer \/ AddFinalizer
  <2>1. CASE ors' = ors
    BY <2>1
  <2>2. CASE ors' # ors
    <3>1. PICK fin \in BOOLEAN :
             ors[req] # None /\ Write(req, Settled([ors[req] EXCEPT !.fin = fin]))
      BY <1>4, <2>2 DEF RemoveFinalizer, AddFinalizer, Patch
    <3> DEFINE o == [ors[req] EXCEPT !.fin = fin]
    <3>2. req \in Name
      BY <1>4, RuleAtHand DEF RemoveFinalizer, AddFinalizer
    <3>3. ors[req] \in ORS
      BY <1>1, <3>1, <3>2
    <3>4. o \in ORS /\ o.conds = ors[req].conds
      BY <3>3 DEF ORS
    <3>5. ors' = [ors EXCEPT ![req] = Settled(o)]
      BY <3>1 DEF Write
    <3> HIDE DEF o
    <3>6. Settled(o) \in {o, None}
      BY DEF Settled
    <3> QED
      BY <1>2, <3>1, <3>2, <3>4, <3>5, <3>6
  <2> QED
    BY <2>1, <2>2
<1>5. CASE \/ \E m \in Name : SyncCache(m) \/ Requeue(m) \/ Get(m)
           \/ TeardownRule \/ TeardownPrune \/ Validate \/ SetupRule \/ SetupWatch
           \/ InformerStep \/ Restart \/ UNCHANGED vars
  <2>1. ors' = ors
    BY <1>5 DEF SyncCache, Requeue, Get, TeardownRule, TeardownPrune, Validate, SetupRule,
                SetupWatch, InformerStep, Restart, vars, apiVars
  <2> QED
    BY <2>1
<1> QED
  BY <1>3, <1>4, <1>5 DEF Next, Reconcile

\* A verdict is written over the spec it was computed from, and Ready only
\* while the target is watched.
THEOREM VerdictsAreCurrent == Spec => VerdictIsCurrent
<1> DEFINE Judgement ==
        \A n \in Name :
            ors[n] # None /\ ors'[n] # None /\ ors'[n].conds # ors[n].conds
            => /\ ("InvalidRule" \in ors'[n].conds) = (ors[n].body \notin Compiles)
               /\ "Ready" \in ors'[n].conds => ors[n].gvr \in watches
<1>1. ControllerInv /\ [Next]_vars => [Judgement]_vars
  <2> SUFFICES ASSUME ControllerInv, [Next]_vars, NEW n \in Name,
                      ors[n] # None, ors'[n] # None, ors'[n].conds # ors[n].conds
               PROVE  /\ ("InvalidRule" \in ors'[n].conds) = (ors[n].body \notin Compiles)
                      /\ "Ready" \in ors'[n].conds => ors[n].gvr \in watches
    OBVIOUS
  <2>1. StatusUpdate
    BY OnlyStatusWritesConditions
  <2> DEFINE new == [ors[req] EXCEPT !.conds = loc.obj.conds,
                                     !.watchActive = loc.obj.watchActive]
  <2>2. pc = "status" /\ req \in Name /\ loc.obj \in ORS
    BY <2>1, RuleAtHand DEF StatusUpdate
  <2>3. ors' # ors
    OBVIOUS
  <2>4. ors[req] # None /\ loc.cur /\ ors' = [ors EXCEPT ![req] = new]
    BY <2>1, <2>3 DEF StatusUpdate, Write
  <2>5. ors \in [Name -> ORS \cup {None}]
    BY DEF ControllerInv, TypeOK
  <2>6. n = req
    BY <2>2, <2>4, <2>5
  <2>7. ors[req] \in ORS
    BY <2>2, <2>4, <2>5
  <2>8. new.conds = loc.obj.conds
    BY <2>7 DEF ORS
  <2> HIDE DEF new
  <2>9. ors'[n].conds = loc.obj.conds
    BY <2>2, <2>4, <2>5, <2>6, <2>8
  <2>10. loc.obj.gvr = ors[n].gvr /\ loc.obj.body = ors[n].body
    BY <2>4, <2>6 DEF ControllerInv, CopiesCurrent
  <2> QED
    BY <2>2, <2>9, <2>10 DEF ControllerInv, StagedIsTrue
<1> QED
  BY <1>1, ControllerInvHolds, PTL DEF Spec, VerdictIsCurrent
=============================================================================
