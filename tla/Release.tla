------------------------------ MODULE Release ------------------------------
(***************************************************************************)
(* From the rules directory to the running operator: the release tools     *)
(* make the ClusterServiceVersion and the bundle of rulesets, OLM installs *)
(* the former, the latter is applied, and the deployment's processes run   *)
(* with the arguments and the permissions the CSV gives them.  The         *)
(* deployment asks for one replica and replaces its pod by starting the    *)
(* next one first, so two processes overlap.                               *)
(***************************************************************************)
EXTENDS ReleaseTools, Manager

VARIABLES
    installed,    \* the CSV that OLM installed, Empty before
    applied       \* the bundle that was applied, Empty before

vars == <<toolVars, managerVars, installed, applied>>

Init == ToolsInit /\ ManagerInit /\ installed = Empty /\ applied = Empty

----------------------------------------------------------------------------
\* The release is shipped; the checkout it was made in is done with.
Install ==
    /\ ~installed.written
    /\ making = "nothing"
    /\ csv.written /\ bundle.written
    /\ installed' = csv
    /\ applied' = bundle
    /\ rules' = Checkout
    /\ watchRole' = Empty
    /\ csv' = Empty
    /\ bundle' = Empty
    /\ edits' = 0
    /\ UNCHANGED <<making, managerVars>>

\* The lease can only be taken with the permissions of the leader election
\* role; a process without leader election needs none.
Permitted == LeaseGrant \in installed.permissions

Operate ==
    /\ installed.written
    /\ \/ Tick
       \/ \E p \in Process :
            \/ Boot(p, installed.args)
            \/ Permitted /\ Acquire(p)
            \/ Renew(p) \/ GiveUp(p) \/ Terminate(p) \/ Stopped(p) \/ Exit(p) \/ Crash(p)
    /\ UNCHANGED <<toolVars, installed, applied>>

Prepare ==
    /\ ~installed.written
    /\ ToolsNext
    /\ UNCHANGED <<managerVars, installed, applied>>

Next == Prepare \/ Install \/ Operate

Spec == Init /\ [][Next]_vars

\* Time passes, the kubelet starts the container again, a candidate keeps
\* trying for the lease, and a process that is about to end does.
Fairly(A) == installed.written /\ A /\ UNCHANGED <<toolVars, installed, applied>>
Fairness ==
    /\ WF_vars(Fairly(Tick))
    /\ \A p \in Process :
        /\ WF_vars(Fairly(Boot(p, installed.args)))
        /\ WF_vars(Fairly(Permitted /\ Acquire(p)))
        /\ WF_vars(Fairly(GiveUp(p) \/ Stopped(p) \/ Exit(p)))

FairSpec == Spec /\ Fairness

----------------------------------------------------------------------------
\* A CSV and a bundle made of the same rules fit each other: the installed
\* operator may list and watch what the applied rulesets name, provided no
\* file holds a second document, which only the bundler would read.
OperatorMayWatch ==
    /\ installed.written
    /\ installed.of = applied.of
    /\ \A f \in Yaml : Len(installed.of[f]) <= 1
    =>
    \A d \in applied.documents :
        d.resource # "" => <<d.group, d.resource>> \in Watchable(installed.clusterPermissions)

\* An installed operator whose environment parses comes to lead, whatever
\* crashed, was evicted or lost its lease on the way.
LeaderEventually ==
    installed.written /\ Loads(env) ~> \E p \in Process : state[p] = "leading"
=============================================================================
