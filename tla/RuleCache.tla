----------------------------- MODULE RuleCache -----------------------------
(***************************************************************************)
(* The cache of OperationRuleSets indexed by the GroupVersionResource they *)
(* target (internal/watch/rule_cache.go).  The controller loads and        *)
(* unloads rulesets; every informer handler reads the list of its own GVR. *)
(* Each method holds the mutex from its first to its last access, so each  *)
(* is one atomic action.                                                   *)
(*                                                                         *)
(* A ruleset is reduced to what the cache and its readers tell apart: its  *)
(* name, the GVR of spec.target, and the rest of its spec (body).          *)
(***************************************************************************)
EXTENDS Integers, Sequences, FiniteSets

CONSTANTS
    Name,     \* metadata.name of an OperationRuleSet
    GVR,      \* the resource types a ruleset can target
    Body      \* the rest of the spec: rules, namespaces, labels

OperationRuleSet == [name : Name, gvr : GVR, body : Body]

VARIABLES
    cache,            \* GVR -> list of rulesets; <<>> is an absent map key
    activeRulesets    \* the gauge metrics.ActiveRulesets

ruleVars == <<cache, activeRulesets>>

----------------------------------------------------------------------------
(* Helpers, called with the lock held.                                     *)

Named(rulesets, n) == {i \in 1..Len(rulesets) : rulesets[i].name = n}

First(S) == CHOOSE i \in S : \A j \in S : i <= j

SwapDelete_NoSwap(rulesets, i) == SubSeq(rulesets, 1, Len(rulesets) - 1)

\* rulesets[i] = rulesets[len-1]; rulesets = rulesets[:len-1]
SwapDelete(rulesets, i) ==
    [j \in 1..(Len(rulesets) - 1) |->
        IF j = i THEN rulesets[Len(rulesets)] ELSE rulesets[j]]

Holds(c, or) == Named(c[or.gvr], or.name) # {}

\* Removes the first ruleset of that name, under the GVR that or targets NOW.
removeRule(c, or) ==
    IF Holds(c, or)
    THEN [c EXCEPT ![or.gvr] = SwapDelete(@, First(Named(@, or.name)))]
    ELSE c

addRule(c, or) == [c EXCEPT ![or.gvr] = Append(@, or)]

List(gvr) == cache[gvr]

\* The GVRs with at least one rule.
GVRs(c) == {g \in GVR : c[g] # <<>>}

----------------------------------------------------------------------------
RuleCacheInit ==
    /\ cache = [g \in GVR |-> <<>>]
    /\ activeRulesets = 0

AddOrUpdateRule_Appends(or) ==
    /\ cache' = addRule(cache, or)
    /\ activeRulesets' = activeRulesets + 1

AddOrUpdateRule(or) ==
    /\ cache' = addRule(removeRule(cache, or), or)
    /\ activeRulesets' = activeRulesets + 1 - (IF Holds(cache, or) THEN 1 ELSE 0)

\* Exported, but called by nothing in the program.
AddRule(or) ==
    /\ cache' = addRule(cache, or)
    /\ activeRulesets' = activeRulesets + 1

RemoveRule_DecAlways(or) ==
    /\ cache' = removeRule(cache, or)
    /\ activeRulesets' = activeRulesets - 1

RemoveRule(or) ==
    /\ cache' = removeRule(cache, or)
    /\ activeRulesets' = activeRulesets - (IF Holds(cache, or) THEN 1 ELSE 0)

RuleCacheNext ==
    \E or \in OperationRuleSet : AddOrUpdateRule(or) \/ RemoveRule(or)

\* The cache as the program uses it.
RuleCacheSpec == RuleCacheInit /\ [][RuleCacheNext]_ruleVars

\* The cache under every call of its exported interface.
RuleCacheAPINext == RuleCacheNext \/ \E or \in OperationRuleSet : AddRule(or)

RuleCacheAPISpec == RuleCacheInit /\ [][RuleCacheAPINext]_ruleVars

----------------------------------------------------------------------------
RuleCacheTypeOK ==
    /\ cache \in [GVR -> Seq(OperationRuleSet)]
    /\ activeRulesets \in Int

\* No GVR lists two rulesets of one name: AddOrUpdateRule replaces, so a
\* subject is never evaluated twice against (two versions of) one ruleset.
UniqueNames ==
    \A g \in GVR : \A i, j \in 1..Len(cache[g]) :
        cache[g][i].name = cache[g][j].name => i = j

\* The places of the entries: the GVR and the index in its list.
Places(c) == UNION {{<<g, i>> : i \in 1..Len(c[g])} : g \in GVR}

\* The exported gauge counts the entries, whatever sequence of calls led
\* here: removing an absent ruleset decrements nothing (rule_cache.go:82).
GaugeExact == activeRulesets = Cardinality(Places(cache))

\* The entries of g under any other name than n, with their multiplicity.
Others(c, g, n) ==
    LET rest == {i \in 1..Len(c[g]) : c[g][i].name # n}
    IN  [r \in {c[g][i] : i \in rest} |-> Cardinality({i \in rest : c[g][i] = r})]

\* Loading or unloading one ruleset (including the swap-with-last delete)
\* loses, duplicates or rewrites no entry of another name, in any GVR.
OthersKept ==
    [][\E n \in Name : \A g \in GVR : Others(cache', g, n) = Others(cache, g, n)]_ruleVars
=============================================================================
