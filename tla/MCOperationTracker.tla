------------------------- MODULE MCOperationTracker -------------------------
(* Small clusters for the operation tracker.                                *)
EXTENDS OperationTracker, TLC

CONSTANTS
    on, moved, off,          \* contents: an operation, its label changed, none
    migrating, draining,     \* operations
    plain, other, turning,   \* ruleset bodies
    zoneA, zoneB,            \* values of a dynamic label
    r1, r2, v1, v2           \* ruleset names, versions of one resource type

\* plain finds a migration unless the subject is off; other has a rule that
\* matches everything and one that errors on a subject that is off; turning
\* finds a migration in one content and a drain in another.
MCMatches == [b \in Body |-> [c \in Content |->
    CASE b = plain -> IF c = off THEN <<>> ELSE <<migrating>>
      [] b = other -> <<draining>>
      [] b = turning -> IF c = on THEN <<migrating>> ELSE <<draining>>]]
MCEvalFails == [b \in Body |-> IF b = other THEN {off} \cap Content ELSE {}]
MCApplies == [b \in Body |-> Subject]

\* A label expression whose value follows the subject.
NoLabels == [b \in Body |-> [c \in Content |-> {}]]
ZoneLabels == [b \in Body |-> [c \in Content |-> IF c = moved THEN {zoneB} ELSE {zoneA}]]

MCServes == [g \in GVR |-> Subject]

OneRuleSet == {[name |-> r1, gvr |-> v1, body |-> plain]}
TwoRuleSets == {[name |-> r1, gvr |-> v1, body |-> plain],
                [name |-> r2, gvr |-> v1, body |-> other]}
TwoVersions == {[name |-> r1, gvr |-> v1, body |-> plain],
                [name |-> r2, gvr |-> v2, body |-> plain]}
\* Two versions whose rulesets agree on a subject that is on, and not on one
\* that moved.
DifferentVersions == {[name |-> r1, gvr |-> v1, body |-> plain],
                      [name |-> r2, gvr |-> v2, body |-> turning]}

\* The names of stored objects are interchangeable.
Symmetry == Permutations(Id)
=============================================================================
