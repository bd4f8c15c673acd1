---------------------------- MODULE MCConditions ----------------------------
(* A blocker, one that does not hold, and a durable condition.             *)
EXTENDS Conditions

MCInfo == {[status |-> "True", category |-> "Error", durable |-> FALSE],
           [status |-> "False", category |-> "Error", durable |-> FALSE],
           [status |-> "True", category |-> "Warn", durable |-> TRUE]}
=============================================================================
