----------------------------- MODULE MCWatches -----------------------------
(* The whole exported interface of the watcher, in every order: the rule   *)
(* cache, AddRule included, and the watches, on small sets of names and    *)
(* GVRs.                                                                   *)
EXTENDS Watches

CONSTANT MaxRules    \* bound on the entries AddRule fills a GVR up to

APINext ==
    \/ \E or \in OperationRuleSet :
        Len(cache[or.gvr]) < MaxRules /\ AddRule(or) /\ UNCHANGED watchVars
    \/ WatchesNext

APIInit == RuleCacheInit /\ WatchesInit

APISpec == APIInit /\ [][APINext]_wVars
=============================================================================
