--------------------------- MODULE MCProgramCache ---------------------------
(* A condition, a label and an expression that does not compile; two       *)
(* subjects, on which the first two evaluate differently; a ruleset whose  *)
(* second label fails and one whose second rule does.                      *)
EXTENDS ProgramCache, TLC

CONSTANTS ready, zone, broken, vm, pod

MCValue == (vm :> (ready :> "true" @@ zone :> "east" @@ broken :> "error"))
        @@ (pod :> (ready :> "false" @@ zone :> "error" @@ broken :> "error"))

Rule(op, e) == [operation |-> op, expression |-> e]
Zone(e) == [key |-> "zone", expression |-> e]

MCRuleSet ==
    {[rules |-> <<Rule("start", ready)>>, labels |-> <<Zone(zone), Zone(broken)>>],
     [rules |-> <<Rule("start", ready), Rule("stop", broken)>>, labels |-> <<>>]}
=============================================================================
