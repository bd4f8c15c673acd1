------------------------ MODULE MCRuleSetController ------------------------
(* The controller on small instances.                                      *)
EXTENDS RuleSetController, TLC

\* Names, and GVRs, are interchangeable: none of the safety properties or
\* actions names one.
Symmetry == Permutations(Name) \cup Permutations(GVR)
=============================================================================
